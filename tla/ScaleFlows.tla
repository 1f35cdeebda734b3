------------------------------- MODULE ScaleFlows -------------------------------
(***************************************************************************)
(* The traffic of the full-scale gRIBI test: the flows of the five         *)
(* scenarios and what is expected of them (internal/cfgplugins/            *)
(* gribifullscale.go), against the VRF selection policy on the ingress     *)
(* port (ConfigureVRFSelectionPolicyOC of policyforwarding.go).            *)
(***************************************************************************)
EXTENDS Integers, Sequences, FiniteSetsExt, TLC

CONSTANTS MaxVRFs, None

VARIABLES
  vrfs, compact, testRepair, matchDefault,   \* parameters, flags and a deviation
  builder,       \* the next entry of the table of builders
  flows,         \* the flows of the configuration, in order
  expect         \* expectations, by flow name
params == <<vrfs, compact, testRepair, matchDefault>>
vars == <<params, builder, flows, expect>>

\* EncapVRFDSCP, getAllEncapDSCPVals
EncapVRFDSCP(v) == {10 + v * 2, 11 + v * 2}
AllDSCPs == UNION {EncapVRFDSCP(v) : v \in 0 .. vrfs - 1}

-----------------------------------------------------------------------------
\* The policy: a rule matches on the IP version, the protocol of the payload, the
\* source and the DSCP, None standing for any, and names network instances.
Rule(v, proto, src, dscps, act) == [v |-> v, proto |-> proto, src |-> src, dscps |-> dscps, act |-> act]
DecapTo(post, fallback) == [decap |-> TRUE, post |-> post, fallback |-> fallback]
Lookup(ni) == [decap |-> FALSE, ni |-> ni]
Default == <<"DEFAULT", 0>>
Encap(v) == <<"ENCAP_TE_VRF", v>>
Transit(src) == IF src = "222" THEN <<"TE_VRF_222", 0>> ELSE <<"TE_VRF_111", 0>>

Flatten(n, F(_)) == LET C[i \in 0 .. n] == IF i = 0 THEN <<>> ELSE C[i - 1] \o F(i - 1) IN C[n]
Sources == <<"222", "111">>
Protos == <<4, 41>>

\* Mutant: the rules without a DSCP come first.
Rules_GenericFirst ==
  Flatten(2, LAMBDA s : Flatten(2, LAMBDA q :
    << Rule(4, Protos[q + 1], Sources[s + 1], None, DecapTo(Default, Transit(Sources[s + 1]))) >>))
  \o Flatten(vrfs, LAMBDA v : << Rule(4, None, None, EncapVRFDSCP(v), Lookup(Encap(v))),
                                 Rule(6, None, None, EncapVRFDSCP(v), Lookup(Encap(v))) >>)

\* ConfigureVRFSelectionPolicyOC, in the order of the sequence numbers.
Rules ==
  Flatten(vrfs, LAMBDA v : Flatten(2, LAMBDA s : Flatten(2, LAMBDA q :
    << Rule(4, Protos[q + 1], Sources[s + 1], EncapVRFDSCP(v), DecapTo(Encap(v), Transit(Sources[s + 1]))) >>)))
  \o Flatten(2, LAMBDA s : Flatten(2, LAMBDA q :
    << Rule(4, Protos[q + 1], Sources[s + 1], None, DecapTo(Default, Transit(Sources[s + 1]))) >>))
  \o Flatten(vrfs, LAMBDA v : << Rule(4, None, None, EncapVRFDSCP(v), Lookup(Encap(v))),
                                 Rule(6, None, None, EncapVRFDSCP(v), Lookup(Encap(v))) >>)
  \o (IF matchDefault THEN << Rule(4, None, None, None, Lookup(Default)), Rule(6, None, None, None, Lookup(Default)) >>
      ELSE << Rule(None, None, None, None, Lookup(Default)) >>)

-----------------------------------------------------------------------------
\* A flow: its header fields; dst is the table its destinations are taken from,
\* inner the one of the inner header.  All packets of a flow differ in DSCP and
\* destination only.
Flow(name, v, proto, src, dscps, dst, inner) ==
  [name |-> name, v |-> v, proto |-> proto, src |-> src, dscps |-> dscps, dst |-> dst, inner |-> inner]
Prefixes(v) == <<"200", v>>      \* prefixes of an encap VRF, IPv4 or IPv6
DecapPrefix == <<"203", 0>>
TransitPrefix(src) == IF src = "222" THEN <<"101", 0>> ELSE <<"100", 0>>
Port2 == <<"port2", 0>>
Inner == <<"172", 0>>
Tunnel == <<"tunnel", 0>>
Hops == 63   \* the TTL of a forwarded packet

BuildEncapFlows ==
  Flatten(vrfs, LAMBDA v :
    << Flow(<<"encap4", v, None>>, 4, None, "ate", EncapVRFDSCP(v), Prefixes(v), None),
       Flow(<<"encap6", v, None>>, 6, None, "ate", EncapVRFDSCP(v), Prefixes(v), None) >>)

createIPv4InIPv4Flow(name, src, dscps, dst, inner) == Flow(name, 4, 4, src, dscps, dst, inner)

\* One flow per VRF, or one with the DSCP values of all.
PerVRF(kind, src, dst, inner) ==
  IF compact THEN << createIPv4InIPv4Flow(<<kind, None, src>>, src, AllDSCPs, dst, inner) >>
  ELSE Flatten(vrfs, LAMBDA v :
         << createIPv4InIPv4Flow(<<kind, v, src>>, src, EncapVRFDSCP(v), dst, inner) >>)

BuildDecapFlows == PerVRF("decap", "111", DecapPrefix, Port2)
BuildTransitFlows == PerVRF("transit", "111", TransitPrefix("111"), Inner)
BuildRepairedFlows == PerVRF("repaired", "222", TransitPrefix("222"), Inner)

\* BuildReencapFlows: outerSrcs in the order 111, 222, IPv4 before IPv6.
BuildReencapFlows ==
  Flatten(vrfs, LAMBDA v : Flatten(2, LAMBDA s : Flatten(2, LAMBDA q :
    << Flow(<<"reencap", v, <<Sources[2 - s], Protos[q + 1]>> >>, 4, Protos[q + 1], Sources[2 - s],
            EncapVRFDSCP(v), DecapPrefix, Prefixes(v)) >>)))

\* The table of builders: scenario, flows, expected outer source, flows per VRF.
Builders ==
  << [sc |-> "encap", flows |-> BuildEncapFlows, src |-> "111", per |-> 2],
     [sc |-> "decap", flows |-> BuildDecapFlows, src |-> None, per |-> 1],
     [sc |-> "reencap", flows |-> BuildReencapFlows, src |-> None, per |-> 4],
     [sc |-> "transit", flows |-> BuildTransitFlows, src |-> "111", per |-> 1],
     [sc |-> "repaired", flows |-> BuildRepairedFlows, src |-> "222", per |-> 1] >>

\* Mutant: compaction is forgotten for the decap flows.
CountBaseFlows_Decap ==
  LET one == IF compact THEN 1 ELSE vrfs IN
  IF testRepair THEN one ELSE vrfs * 2 + vrfs + vrfs * 4 + one + one

\* CountBaseFlows
CountBaseFlows ==
  LET one == IF compact THEN 1 ELSE vrfs IN
  IF testRepair THEN one ELSE vrfs * 2 + one + vrfs * 4 + one + one

Init ==
  /\ vrfs \in 1 .. MaxVRFs /\ compact \in BOOLEAN /\ testRepair \in BOOLEAN /\ matchDefault \in BOOLEAN
  /\ builder = 1 /\ flows = <<>> /\ expect = <<>>

\* addFlows: the VRF of a flow is taken from its position among those of its
\* scenario; the compacted scenarios expect the DSCP values of all VRFs.
Expectation(b, i) ==
  [sc |-> b.sc,
   src |-> IF testRepair /\ b.sc = "transit" THEN "222" ELSE b.src,
   dscps |-> IF compact /\ b.sc \in {"decap", "transit", "repaired"} THEN AllDSCPs
             ELSE EncapVRFDSCP((i - 1) \div b.per)]

\* One round of the loop over the builders.
Build ==
  /\ builder <= Len(Builders)
  /\ LET b == Builders[builder] IN
     IF testRepair /\ b.sc # "transit" THEN UNCHANGED <<flows, expect>>
     ELSE /\ flows' = flows \o b.flows
          /\ expect' = [n \in DOMAIN expect \cup {b.flows[i].name : i \in 1 .. Len(b.flows)} |->
               IF n \in DOMAIN expect THEN expect[n]
               ELSE Expectation(b, Max({i \in 1 .. Len(b.flows) : b.flows[i].name = n}))]
  /\ builder' = builder + 1
  /\ UNCHANGED params

-----------------------------------------------------------------------------
\* The device: the first rule that matches, then lookups in the instances it
\* names.  In the repair test the primary subinterfaces are down, and packets of
\* TE_VRF_111 leave by the repair path with source 222 (module ScaleTables).
Matches(r, f, d) ==
  /\ r.v \in {None, f.v} /\ r.proto \in {None, f.proto} /\ r.src \in {None, f.src}
  /\ (r.dscps # None => d \in r.dscps)
Egress(sc, src, dst, proto, d) == [sc |-> sc, src |-> src, dst |-> dst, proto |-> proto, dscp |-> d, ttl |-> Hops]
Lost(d) == Egress("lost", None, None, None, d)
\* The encap VRFs send to tunnels what is in their tables, the rest to DEFAULT.
Route(ni, dst, proto, d, sc) ==
  IF ni[1] = "ENCAP_TE_VRF" /\ dst = Prefixes(ni[2]) THEN Egress(sc, "111", Tunnel, proto, d)
  ELSE IF dst = Port2 THEN Egress("decap", "ate", Port2, None, d) ELSE Lost(d)
Forward(f, d) ==
  LET rs == Rules
      r == rs[Min({i \in 1 .. Len(rs) : Matches(rs[i], f, d)})]
  IN IF ~r.act.decap THEN Route(r.act.ni, f.dst, IF f.v = 4 THEN 4 ELSE 41, d, "encap")
     ELSE IF f.dst = DecapPrefix THEN Route(r.act.post, f.inner, f.proto, d, "reencap")
     ELSE IF r.act.fallback = Transit("111") /\ f.dst = TransitPrefix("111")
          THEN Egress("transit", IF testRepair THEN "222" ELSE "111", Tunnel, 4, d)
     ELSE IF r.act.fallback = Transit("222") /\ f.dst = TransitPrefix("222")
          THEN Egress("repaired", "222", Tunnel, 4, d)
     ELSE Lost(d)

Next == Build
Spec == Init /\ [][Next]_vars

-----------------------------------------------------------------------------
\* Every packet of every flow is forwarded as the scenario of the flow expects,
\* through the policy and the tables: with an expected DSCP, and the outer source
\* that is expected of it.
ScenarioReached ==
  \A i \in 1 .. Len(flows) : \A d \in flows[i].dscps :
    LET e == expect[flows[i].name]
        q == Forward(flows[i], d)
    IN q.sc = e.sc /\ d \in e.dscps /\ (e.src # None => q.src = e.src)

\* The rate is divided by the number of flows that are really built, and no two
\* flows share a name.
FlowsAreCounted ==
  builder > Len(Builders) =>
    Len(flows) = CountBaseFlows /\ Cardinality(DOMAIN expect) = Len(flows)
=============================================================================
