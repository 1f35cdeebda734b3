------------------------------ MODULE VRFSelection ------------------------------
(***************************************************************************)
(* internal/vrfpolicy and NewPolicyForwardingVRFSelection of               *)
(* internal/cfgplugins/policyforwarding.go: the VRF selection policies W   *)
(* and C, under the deviations that change the numbers of their rules.     *)
(***************************************************************************)
EXTENDS Integers, FiniteSetsExt, TLC

CONSTANTS
  None,
  DefaultNames,     \* values of the deviation default_network_instance
  Deviations        \* combinations of the two deviations about rules

VARIABLES
  dev,              \* deviations of the device
  nis,              \* network instances of the device
  policies,         \* its policies, each a function from sequence numbers to rules
  bound,            \* interface entry, by its identifier, to the policy applied
  wanted            \* the policy asked for last, None after its removal
vars == <<dev, nis, policies, bound, wanted>>

-----------------------------------------------------------------------------
niDefault == "DEFAULT"
DefaultNetworkInstance == dev.default
VRFs == {"DECAP_TE_VRF", "ENCAP_TE_VRF_A", "ENCAP_TE_VRF_B", "ENCAP_TE_VRF_C", "ENCAP_TE_VRF_D",
         "TE_VRF_111", "TE_VRF_222", "REPAIR_VRF"}
DscpA == {10, 18}
DscpB == {20, 28}

\* A rule: None in a field of the match is a field that is not set.
Match(v, proto, dscps, src) == [v |-> v, proto |-> proto, dscps |-> dscps, src |-> src]
Decap(post, src) == [decap |-> "DECAP_TE_VRF", ni |-> post, fallback |-> IF src = "222" THEN "TE_VRF_222" ELSE "TE_VRF_111"]
Instance(ni) == [decap |-> None, ni |-> ni, fallback |-> None]
Rule(m, a) == [match |-> m, act |-> a]

SrcOf(k) == IF k % 4 < 2 THEN "222" ELSE "111"      \* rules come in fours:
ProtoOf(k) == IF k % 2 = 0 THEN 4 ELSE 41           \* 222/4, 222/41, 111/4, 111/41
\* pfRule1 .. pfRule12 of both policies.
DecapRules ==
  [n \in 1 .. 12 |->
     LET k == n - 1
         dscps == CASE n <= 4 -> DscpA [] n \in 5 .. 8 -> DscpB [] OTHER -> None
         post == CASE n <= 4 -> "ENCAP_TE_VRF_A" [] n \in 5 .. 8 -> "ENCAP_TE_VRF_B" [] OTHER -> niDefault
     IN Rule(Match(4, ProtoOf(k), dscps, SrcOf(k)), Decap(post, SrcOf(k)))]
\* pfRule13 .. pfRule16 of policy C.
EncapRules ==
  13 :> Rule(Match(4, None, DscpA, None), Instance("ENCAP_TE_VRF_A"))
  @@ 14 :> Rule(Match(6, None, DscpA, None), Instance("ENCAP_TE_VRF_A"))
  @@ 15 :> Rule(Match(4, None, DscpB, None), Instance("ENCAP_TE_VRF_B"))
  @@ 16 :> Rule(Match(6, None, DscpB, None), Instance("ENCAP_TE_VRF_B"))

\* Mutant: the rules get too small an offset.
Renumber_Small(n) == IF dev.sequential /\ n >= 10 THEN 90 + n ELSE n

\* With PfRequireSequentialOrderPbrRules, rules from the tenth on get 900 more.
Renumber(n) == IF dev.sequential /\ n >= 10 THEN 900 + n ELSE n

\* The default rule, or the two that PfRequireMatchDefaultRule asks for.
DefaultRules(n) ==
  IF dev.matchDefault
  THEN (900 + n) :> Rule(Match(4, None, None, None), Instance(niDefault))
       @@ (901 + n) :> Rule(Match(6, None, None, None), Instance(niDefault))
  ELSE n :> Rule(Match(None, None, None, None), Instance(niDefault))

\* buildVRFSelectionPolicy
Numbered(rules) == LET D == DOMAIN rules IN
  [s \in {Renumber(n) : n \in D} |-> rules[CHOOSE n \in D : Renumber(n) = s]]
BuildVRFSelectionPolicyW == Numbered(DecapRules) @@ DefaultRules(13)
BuildVRFSelectionPolicyC == Numbered(DecapRules @@ EncapRules) @@ DefaultRules(17)
Build(p) == IF p = "w" THEN BuildVRFSelectionPolicyW ELSE BuildVRFSelectionPolicyC

\* getPbrRules and seqIDOffset
seqIDOffset(n) == IF dev.sequential THEN n + 10 ELSE n
getPbrRules ==
  IF dev.matchDefault
  THEN seqIDOffset(17) :> Rule(Match(4, None, None, None), Instance(DefaultNetworkInstance))
       @@ seqIDOffset(18) :> Rule(Match(6, None, None, None), Instance(DefaultNetworkInstance))
  ELSE seqIDOffset(17) :> Rule(Match(None, None, None, None), Instance(DefaultNetworkInstance))

InterfaceID == IF dev.refFormat \/ dev.idFormat THEN "port1.0" ELSE "port1"

-----------------------------------------------------------------------------
Init ==
  /\ dev \in {[default |-> d, sequential |-> r[1], matchDefault |-> r[2], refFormat |-> a, idFormat |-> b] :
                d \in DefaultNames, r \in Deviations, a \in BOOLEAN, b \in BOOLEAN}
  /\ nis = {DefaultNetworkInstance} /\ policies = <<>> /\ bound = <<>> /\ wanted = None

\* Mutant: the container is updated, and the policy applied stays.
ConfigureVRFSelectionPolicy_Update(p) ==
  /\ nis' = nis \cup VRFs
  /\ policies' = (p :> Build(p)) @@ policies
  /\ bound' = bound @@ (InterfaceID :> p)
  /\ wanted' = p /\ UNCHANGED dev

\* ConfigureVRFSelectionPolicy: the whole policy-forwarding container is replaced.
ConfigureVRFSelectionPolicy(p) ==
  /\ nis' = nis \cup VRFs
  /\ policies' = p :> Build(p)
  /\ bound' = InterfaceID :> p
  /\ wanted' = p /\ UNCHANGED dev

\* NewPolicyForwardingVRFSelection: the container is updated.
NewPolicyForwardingVRFSelection ==
  /\ policies' = ("n" :> getPbrRules) @@ policies
  /\ UNCHANGED <<dev, nis, bound, wanted>>

\* DeletePolicyForwarding: the interface entry is deleted, not the policy.
DeletePolicyForwarding ==
  /\ bound' = [i \in DOMAIN bound \ {InterfaceID} |-> bound[i]]
  /\ wanted' = None /\ UNCHANGED <<dev, nis, policies>>

Next ==
  \/ \E p \in {"w", "c"} : ConfigureVRFSelectionPolicy(p)
  \/ NewPolicyForwardingVRFSelection \/ DeletePolicyForwarding
Spec == Init /\ [][Next]_vars

-----------------------------------------------------------------------------
Packets == [v : {4, 6}, proto : {4, 41, 6}, dscp : {10, 20, 30}, src : {"111", "222", "ate"}]
Matches(m, q) ==
  /\ m.v \in {None, q.v} /\ m.proto \in {None, q.proto} /\ m.src \in {None, q.src}
  /\ (m.dscps # None => q.dscp \in m.dscps)
\* The device takes the matching rule with the lowest number.
Selects(p, q) ==
  LET S == {s \in DOMAIN policies[p] : Matches(policies[p][s].match, q)} IN
  IF S = {} THEN None ELSE policies[p][Min(S)].act

\* What the policies are to do: tunnelled packets are decapsulated into the VRF of
\* their DSCP, C sends others with such a DSCP to that VRF, the rest is default.
VRFOf(d) == CASE d \in DscpA -> "ENCAP_TE_VRF_A" [] d \in DscpB -> "ENCAP_TE_VRF_B" [] OTHER -> niDefault
Intended(p, q) ==
  IF q.v = 4 /\ q.proto \in {4, 41} /\ q.src \in {"111", "222"} THEN Decap(VRFOf(q.dscp), q.src)
  ELSE Instance(IF p = "c" THEN VRFOf(q.dscp) ELSE niDefault)

\* Whatever policies were configured and removed before, a packet that enters port1
\* meets the policy asked for last, and its rules, renumbered or not, give the
\* instances intended for it.
PacketsSelected ==
  /\ wanted = None => DOMAIN bound = {}
  /\ wanted # None =>
       /\ bound = (InterfaceID :> wanted)
       /\ wanted \in DOMAIN policies
       /\ \A q \in Packets : Selects(wanted, q) = Intended(wanted, q)

\* The decimal digits of a number, most significant first, on which keys are sorted.
Digits(n) == IF n < 10 THEN <<n, -1, -1>> ELSE IF n < 100 THEN <<n \div 10, n % 10, -1>>
             ELSE <<n \div 100, (n \div 10) % 10, n % 10>>
Before(m, n) == LET a == Digits(m) b == Digits(n) IN
  \E i \in 1 .. 3 : a[i] < b[i] /\ \A j \in 1 .. i - 1 : a[j] = b[j]

\* A device with PfRequireSequentialOrderPbrRules gets the rules of a policy in
\* the order of their numbers: in a request they are sorted by the text of their keys.
RequestInOrder ==
  dev.sequential => \A p \in DOMAIN policies : \A m, n \in DOMAIN policies[p] : m < n => Before(m, n)
=============================================================================
