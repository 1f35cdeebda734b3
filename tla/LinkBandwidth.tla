--------------------------- MODULE LinkBandwidth ---------------------------
(***************************************************************************)
(* The cumulative link bandwidth test                                      *)
(* (feature/bgp/linkbandwidth_community/.../linkbandwidth_aggregation.go)  *)
(* with the scaled eBGP builders of internal/cfgplugins/bgp.go it uses:    *)
(* 64 upstream peers on VLANs of port 1 advertise one prefix with link     *)
(* bandwidths, the device sums them towards the downstream peer on port 2, *)
(* and 32 peers are disabled and enabled again.                            *)
(* An address is its number; IPv4 and IPv6 addresses of a port are         *)
(* numbered alike.  Bandwidths are in Mbps.                                *)
(***************************************************************************)
EXTENDS Integers, Sequences, FiniteSets, TLC

CONSTANT Plans  \* [vendor, dev, masked, fault]

Families == {4, 6}
Port2Net == 65536
dutP1 == 257  ateP1 == 513
dutP2 == Port2Net + 257  ateP2 == Port2Net + 513  ateP2IPv4 == Port2Net + 514
NumPeers == 64
disablePeers == 32
BaseAS == [p \in {1, 2} |-> IF p = 1 THEN [f \in Families |-> IF f = 4 THEN 65003 ELSE 65103]
                                     ELSE [f \in Families |-> IF f = 4 THEN 65001 ELSE 65101]]
Cases == <<[apply |-> "none", want |-> 1600], [apply |-> "disable", want |-> 1280], [apply |-> "enable", want |-> 1600]>>

VARIABLES plan, pc, case, fam, dut, ate, sum, failed

vars == <<plan, pc, case, fam, dut, ate, sum, failed>>
D(deviation) == deviation \in plan.dev

\* The 64 devices come first in the tester's configuration; device k + 1 of Go's
\* list has index k.
incrementMAC(i) == i + 1
IncrementIP(ip, i) == ip + i

configureATE ==
  [k \in 1..(NumPeers + 1) |->
     IF k <= NumPeers THEN [port |-> 1, vlan |-> k, ip |-> IncrementIP(ateP1, k), gw |-> IncrementIP(dutP1, k), mac |-> incrementMAC(k)]
                      ELSE [port |-> 2, vlan |-> 0, ip |-> ateP2IPv4, gw |-> dutP2, mac |-> 0]]

SetupATE ==
  /\ pc = "ate" /\ pc' = "dut"
  /\ ate' = [ate EXCEPT !.devices = configureATE]
  /\ UNCHANGED <<plan, case, fam, dut, sum, failed>>

-----------------------------------------------------------------------------
\* configInterfaceDUT and configSubinterfaceDUT: subinterface k of port 1 has
\* VLAN k; port 2 has subinterface 0.
configInterfaceDUT ==
  [s \in {<<1, k>> : k \in 1..NumPeers} \union {<<2, 0>>} |-> IF s[1] = 1 THEN IncrementIP(dutP1, s[2]) ELSE dutP2]

assignSubifsToDefaultNetworkInstance(subs) == IF D("explicit_interface_in_default_vrf") THEN DOMAIN subs ELSE {}

ConfigureDUT ==
  /\ pc = "dut" /\ pc' = "policy"
  /\ dut' = [dut EXCEPT !.subs = configInterfaceDUT, !.ni = assignSubifsToDefaultNetworkInstance(configInterfaceDUT)]
  /\ UNCHANGED <<plan, case, fam, ate, sum, failed>>

\* Fatal outside of a subtest: the test is over.
FatalTest == failed' = TRUE /\ pc' = "end"

\* The bandwidth action goes by CLI before the policies are updated by OpenConfig.
configureRoutePolicy ==
  /\ pc = "policy" /\ UNCHANGED <<plan, case, fam, ate, sum>>
  /\ IF D("aggregate_bandwidth_policy_action_unsupported") /\ plan.vendor = "JUNIPER"
       THEN dut' = [dut EXCEPT !.export = {"aggregate-bandwidth"} \union {"accept"}, !.import = {"accept"}]
            /\ pc' = "bgp" /\ UNCHANGED failed
       ELSE FatalTest /\ UNCHANGED dut

-----------------------------------------------------------------------------
Scale(port, ip, num) == [port |-> port, ip |-> ip, num |-> num]

\* Mutant: the address is incremented from 0.
BuildIPv4v6NbrScale_Zero(c) ==
  {[key |-> <<f, IncrementIP(c.ip, i - 1)>>, as |-> BaseAS[c.port][f] + i - 1, pg |-> <<f, c.port>>] :
     f \in Families, i \in 1..c.num}

BuildIPv4v6NbrScale(c) ==
  {[key |-> <<f, IncrementIP(c.ip, i)>>, as |-> BaseAS[c.port][f] + i - 1, pg |-> <<f, c.port>>] :
     f \in Families, i \in 1..c.num}

Neighbors(nbrs, on) ==
  [k \in {n.key : n \in nbrs} |-> LET n == CHOOSE n \in nbrs : n.key = k IN [as |-> n.as, pg |-> n.pg, enabled |-> on]]

\* Peer i of port 1 is on device port1dst<i>.Dev, the peer of port 2 on port2.
configureBGPScaleOnATE(c) ==
  [k \in (IF c.port = 1 THEN 1..c.num ELSE {NumPeers + 1}) |->
     [f \in Families |-> BaseAS[c.port][f] + (IF c.port = 1 THEN k - 1 ELSE 0)]]

ScaleConfigs == <<Scale(1, ateP1, NumPeers), Scale(2, ateP2, 1)>>

ConfigureEBgpPeersScale ==
  /\ ate' = [ate EXCEPT !.peers = configureBGPScaleOnATE(ScaleConfigs[1]) @@ configureBGPScaleOnATE(ScaleConfigs[2])]
  /\ dut' = [dut EXCEPT !.nbrs = Neighbors(BuildIPv4v6NbrScale(ScaleConfigs[1]) \union BuildIPv4v6NbrScale(ScaleConfigs[2]), TRUE),
                        !.imports = {<<f, 1>> : f \in Families}, !.exports = {<<f, 2>> : f \in Families}, !.lb = {}]

\* The BGP configuration with the policies of configureBgpPolicy replaces what
\* was there; both branches of RoutePolicyUnderAFIUnsupported attach them to the
\* same groups.
configureBGP ==
  /\ pc = "bgp" /\ pc' = "routes"
  /\ ConfigureEBgpPeersScale
  /\ UNCHANGED <<plan, case, fam, sum, failed>>

\* Mutant: the second threshold is one too low.
Bandwidth_Threshold(idx) == IF idx <= 30 THEN 10 ELSE IF idx <= 47 THEN 20 ELSE IF idx <= 55 THEN 40 ELSE 80

Bandwidth(idx) == IF idx <= 31 THEN 10 ELSE IF idx <= 47 THEN 20 ELSE IF idx <= 55 THEN 40 ELSE 80

advertiseRoutesWithEBGPExtCommunitys ==
  /\ pc = "routes" /\ pc' = "linkbandwidth"
  /\ ate' = [ate EXCEPT !.routes = [k \in {j \in DOMAIN ate.devices : ate.devices[j].port = 1} |-> Bandwidth(k - 1)]]
  /\ UNCHANGED <<plan, case, fam, dut, sum, failed>>

\* Fatal ends the subtest: the tester is then not pushed, and the cases run.
configureLinkBandwidth ==
  /\ pc = "linkbandwidth" /\ pc' = "apply"
  /\ IF D("auto_link_bandwidth_unsupported") /\ plan.vendor = "JUNIPER"
       THEN /\ dut' = [dut EXCEPT !.lb = {<<f, 1>> : f \in Families}]
            /\ ate' = [ate EXCEPT !.started = TRUE] /\ UNCHANGED failed
       ELSE failed' = TRUE /\ UNCHANGED <<dut, ate>>
  /\ UNCHANGED <<plan, case, fam, sum>>

-----------------------------------------------------------------------------
disableEnableBgpWithNbr(enable) ==
  dut' = [dut EXCEPT !.nbrs = Neighbors(BuildIPv4v6NbrScale(Scale(1, ateP1, disablePeers)), enable) @@ @]

Apply ==
  /\ pc = "apply" /\ pc' = "sleep"
  /\ CASE Cases[case].apply = "none" -> UNCHANGED dut
       [] Cases[case].apply = "disable" -> disableEnableBgpWithNbr(FALSE)
       [] Cases[case].apply = "enable" -> disableEnableBgpWithNbr(TRUE)
  /\ UNCHANGED <<plan, case, fam, ate, sum, failed>>

\* A session is up when both ends have each other's address and AS on the same
\* port and VLAN.
Up(f, k) ==
  LET d == ate.devices[k]
  IN /\ ate.started /\ <<f, d.ip>> \in DOMAIN dut.nbrs
     /\ dut.nbrs[<<f, d.ip>>].enabled /\ dut.nbrs[<<f, d.ip>>].as = ate.peers[k][f]
     /\ <<d.port, d.vlan>> \in DOMAIN dut.subs /\ dut.subs[<<d.port, d.vlan>>] = d.gw

Sum(f) ==
  LET up == {k \in DOMAIN ate.routes : Up(f, k)}
      all(b) == b * Cardinality({k \in up : ate.routes[k] = b})
  IN all(10) + all(20) + all(40) + all(80)

\* What the device advertises to the downstream peer: 0 is no prefix at all.
Advertised(f) ==
  IF ~Up(f, NumPeers + 1) \/ "accept" \notin dut.export \/ <<f, 2>> \notin dut.exports \/ plan.fault = "silent" THEN 0
  ELSE IF <<f, 1>> \notin dut.lb \/ plan.fault = "best path" THEN 80
  ELSE Sum(f)

\* 30 seconds, in which the device converges.
Sleep ==
  /\ pc = "sleep" /\ pc' = "validate" /\ fam' = 4
  /\ sum' = [f \in Families |-> IF plan.fault = "stale" /\ case > 1 THEN sum[f] ELSE Advertised(f)]
  /\ UNCHANGED <<plan, case, dut, ate, failed>>

\* Mutant: the loop starts again after the last case.
NextCase_Repeat == pc' = "apply" /\ case' = (case % Len(Cases)) + 1

NextCase == IF case = Len(Cases) THEN pc' = "end" /\ UNCHANGED case ELSE pc' = "apply" /\ case' = case + 1
FatalCase == failed' = TRUE /\ NextCase /\ UNCHANGED fam

\* The test prefix has host bits, 200.1.0.1/16, which BGP does not carry; a
\* tester that reports what it learned (masked) reports 200.1.0.0.
Learned == IF plan.masked THEN "200.1.0.0" ELSE "200.1.0.1"
testPrefixV4Add == "200.1.0.1"

\* The CLI asks for the routes advertised to atePort2.IPv4.
Shown == IF <<fam, ateP2>> \in DOMAIN dut.nbrs THEN sum[fam] ELSE 0

\* Mutant: a tester that learns nothing is not an error.
Validate_Silent ==
  /\ pc = "validate"
  /\ IF sum[fam] # 0 /\ Learned = testPrefixV4Add /\ Shown # Cases[case].want THEN FatalCase
     ELSE IF fam = 4 THEN fam' = 6 /\ UNCHANGED <<pc, case, failed>>
     ELSE NextCase /\ UNCHANGED <<fam, failed>>
  /\ UNCHANGED <<plan, dut, ate, sum>>

validateCumulativeLBwCommunityAdvertisedByDUT ==
  /\ pc = "validate"
  /\ IF \/ sum[fam] = 0
        \/ /\ Learned = testPrefixV4Add
           /\ \/ ~D("advertised_cumulative_lbw_oc_unsupported") \/ plan.vendor # "JUNIPER"
              \/ Shown # Cases[case].want
       THEN FatalCase
     ELSE IF fam = 4 THEN fam' = 6 /\ UNCHANGED <<pc, case, failed>>
     ELSE NextCase /\ UNCHANGED <<fam, failed>>
  /\ UNCHANGED <<plan, dut, ate, sum>>

Init ==
  /\ plan \in Plans /\ pc = "ate" /\ case = 1 /\ fam = 4 /\ failed = FALSE
  /\ dut = [subs |-> <<>>, ni |-> {}, nbrs |-> <<>>, import |-> {}, export |-> {}, imports |-> {}, exports |-> {}, lb |-> {}]
  /\ ate = [devices |-> <<>>, peers |-> <<>>, routes |-> <<>>, started |-> FALSE]
  /\ sum = [f \in Families |-> 0]

Next ==
  \/ SetupATE \/ ConfigureDUT \/ configureRoutePolicy \/ configureBGP \/ advertiseRoutesWithEBGPExtCommunitys
  \/ configureLinkBandwidth \/ Apply \/ Sleep \/ validateCumulativeLBwCommunityAdvertisedByDUT

Spec == Init /\ [][Next]_vars
Fairness == WF_vars(Next)

-----------------------------------------------------------------------------
Configured == pc \in {"apply", "sleep", "validate", "end"} /\ ate.started

\* The two ends are built by different loops from different base addresses; each
\* neighbor of the device meets exactly one peer of the tester, with its AS, on
\* its VLAN, and is disabled only in the second case.
SessionsMeet ==
  (Configured /\ pc # "sleep") => \A key \in DOMAIN dut.nbrs :
    LET mine == {k \in DOMAIN ate.devices : ate.devices[k].ip = key[2]}
    IN Cardinality(mine) = 1 /\ (dut.nbrs[key].enabled => \A k \in mine : Up(key[1], k))

\* A device that sums what it receives advertises what each case expects: the
\* 32 peers that are disabled are the 32 that advertise 10 Mbps, and nothing else
\* of the configuration is lost on the way.
SumsAsExpected ==
  (pc = "validate" /\ ate.started /\ plan.fault = "none") => \A f \in Families : sum[f] = Cases[case].want

\* A test that passes has seen the device advertise something in every case.
AdvertisedStep ==
  pc = "validate" /\ (pc' # pc) /\ ~failed' => \A f \in Families : sum[f] # 0
=============================================================================
