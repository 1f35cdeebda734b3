----------------------------- MODULE MCRouting ------------------------------
(*****************************************************************************)
(* Routing: the BGP session fixture, the BGP builders, the cumulative link   *)
(* bandwidth test, the AFT prefix filter test and the IS-IS session fixture. *)
(* A behaviour is about one of them; the others stand still.                 *)
(*****************************************************************************)
EXTENDS Integers, Sequences, FiniteSets, TLC, TLAPS

CONSTANTS
  SessionPlans, BuilderPlans, BandwidthPlans, FilterPlans,  \* what tests ask for, and of which devices
  MaxDrops,                                  \* how often BGP sessions fall
  FilterRoutes, BulkCount, MaxChanges,       \* static routes, routes of a peer, later changes
  IsisDuts, IsisChanges, MaxCases, MaxFailures  \* devices and what the IS-IS cases change

\* A peer advertises a number of routes.
ASSUME BulkCountAssumption == BulkCount \in Nat

\* BgpSession: the cases of the multipath, policy, route reflector, GUE and
\* management tests, on devices with each deviation.
SessionCase(pc, ni, afis, ports, samePG, sameAS) ==
    [pc |-> pc, ni |-> ni, afis |-> afis, ports |-> ports, samePG |-> samePG,
     sameAS |-> sameAS, clear |-> FALSE, attr |-> {}, calls |-> 1]
EcmpSame == SessionCase(4, "nil", <<"v4">>, {3, 4}, TRUE, TRUE)
EcmpDifferent == SessionCase(4, "nil", <<"v4">>, {3, 4}, TRUE, FALSE)
Policy == SessionCase(2, "nil", <<"v4", "v6">>, {1}, TRUE, TRUE)
TwoGroups == SessionCase(2, "nil", <<"v6", "v4">>, {1, 2}, FALSE, FALSE)
Gue == [SessionCase(1, "nil", <<"v6">>, {1}, TRUE, TRUE) EXCEPT !.attr = {"v6"}]
Mgmt == SessionCase(4, "mgmt", <<"v6">>, {1, 2}, TRUE, TRUE)
Beyond == SessionCase(2, "nil", <<"v4">>, {2, 3}, FALSE, FALSE)
Cleared(c) == [c EXCEPT !.clear = TRUE]
Twice == [Policy EXCEPT !.calls = 2]
Labeled == [Policy EXCEPT !.afis = <<"v4", "labeled">>]
Nowhere == [i \in 1..4 |-> "none"]
InDefault == [i \in 1..4 |-> "DEFAULT"]
InMgmt == [i \in 1..4 |-> "mgmt"]
SessionPlan(cases, dev, bind) ==
    [cases |-> cases, dev |-> dev, bind |-> bind, nis |-> {"DEFAULT", "mgmt"},
     dead |-> {}, uncapable |-> {}]
Explicit == {"explicit_interface_in_default_vrf"}
PolicyOnGroup == {"route_policy_under_afi_unsupported"}
KeepsTables == {"network_instance_table_deletion_required"}
DefaultRuns == {<<EcmpSame, EcmpDifferent>>, <<Policy, TwoGroups>>, <<Gue, Cleared(Policy)>>,
                <<Beyond, Gue>>, <<TwoGroups, Cleared(EcmpSame)>>, <<Twice, Labeled>>}
MCSessionPlans ==
    {SessionPlan(cs, dev, InDefault) : cs \in DefaultRuns, dev \in {{}, PolicyOnGroup, KeepsTables}}
    \cup {SessionPlan(cs, Explicit, Nowhere) : cs \in DefaultRuns}
    \cup {SessionPlan(<<Mgmt>>, dev, InMgmt) : dev \in {{}, PolicyOnGroup, Explicit}}
    \cup {[SessionPlan(<<TwoGroups>>, {}, InDefault) EXCEPT !.dead = d, !.uncapable = u] :
            d \in {{<<1, "v4">>}, (1..4) \X {"v4", "v6"}}, u \in {{}, {<<2, "v6">>}}}
    \cup {[SessionPlan(<<Mgmt>>, {}, InMgmt) EXCEPT !.dead = (1..4) \X {"v4", "v6"}]}

\* BgpBuilders: the calls of the AFT, VRF, GUE decapsulation, BMP, uRPF and scale
\* tests, on the vendors and deviations of their metadata, and some no test declares.
Vendor(v, d) == [vendor |-> v, dev |-> d]
Create(g4, g6, nbrs) ==
    [op |-> "create", routerID |-> "port1", g4 |-> g4, g6 |-> g6, nbrs |-> nbrs]
Pair(i4, i6, as) ==
    {[ip |-> i4, isV4 |-> TRUE, local |-> 65501, peer |-> as],
     [ip |-> i6, isV4 |-> FALSE, local |-> 65501, peer |-> as]}
Mixed == Pair("a4", "a6", 65511) \cup Pair("b4", "b6", 65512)
CreateCalls ==
    {<<Create("G1v4", "G1v6", Pair("a4", "a6", 65511))>>,
     <<Create("G1v4", "G1v6", Pair("a4", "a6", 65511)), Create("G2v4", "G2v6", Pair("b4", "b6", 65512))>>,
     <<Create("G1v4", "G1v6", Mixed)>>,
     <<Create("G1v4", "G1v6", Pair("a4", "a6", 65511)), Create("G2v4", "G2v6", {})>>}
UnderAfi == "enable_multipath_under_afi_safi"
NotAfi == "multipath_unsupported_neighbor_or_afisafi"
NoLimitPath == "bgp_missing_oc_max_prefixes_configuration"
SkipAllow == "skip_setting_allow_multiple_as"
CreateDevices ==
    {Vendor(v, d) : v \in {"ARISTA", "CISCO", "JUNIPER", "NOKIA"},
                    d \in SUBSET {UnderAfi, NotAfi, NoLimitPath}}
Dut(ecmp, max) ==
    [op |-> "dut", as |-> 65501, routerID |-> "port1", ecmp |-> ecmp, maxRoutes |-> max,
     groups |-> {<<"", f>> : f \in {"v4", "v6"}}]
Nb(port, as, i4, i6, mp, lag, policy) ==
    [op |-> "append", port |-> port, as |-> as, ip |-> [v4 |-> i4, v6 |-> i6],
     multipath |-> mp, isLag |-> lag, policy |-> policy]
AppendCalls ==
    {<<Dut(0, TRUE), Nb("", 65511, "a4", "a6", FALSE, FALSE, "PERMIT")>>,
     <<Dut(2, FALSE), Nb("", 65511, "a4", "a6", FALSE, FALSE, "nil"),
       Nb("", 65512, "b4", "b6", FALSE, TRUE, "nil")>>,
     <<Dut(2, FALSE), Nb("p1", 65511, "a4", "a6", TRUE, FALSE, "nil"),
       Nb("p2", 65512, "b4", "b6", TRUE, TRUE, "PERMIT")>>}
AppendDevices ==
    {Vendor(v, d) : v \in {"ARISTA", "JUNIPER"}, d \in SUBSET {NotAfi, SkipAllow}}
Neighbor(ip, fam, as) ==
    [op |-> "neighbor", routerAS |-> 65501, routerID |-> "port2", ip |-> ip, fam |-> fam,
     as |-> as, addPaths |-> TRUE]
NeighborCalls == {<<Neighbor("a4", "v4", 65511), Neighbor("a6", "v6", 65511), Neighbor("b4", "v4", 65501)>>}
Global(ecmp) ==
    [op |-> "global", as |-> 65501, routerID |-> "lo0", gr |-> TRUE, distance |-> 9, ecmp |-> ecmp]
Grp(name, fam, mp, transport, imp) ==
    [op |-> "group", name |-> name, fam |-> fam, as |-> 65511, gr |-> TRUE, multipath |-> mp,
     transport |-> transport, imp |-> imp, exp |-> "OUT", linkBW |-> imp = "IN",
     hold |-> IF mp THEN 30 ELSE 0]
Peer(ip, fam, group, imp, exp, lbw) ==
    [op |-> "peer", ip |-> ip, fam |-> fam, group |-> group, as |-> 65511, imp |-> imp,
     exp |-> exp, linkBW |-> lbw]
ScaleCalls(ecmp) ==
    {<<Global(ecmp), Grp("V4-1", "v4", TRUE, "", "IN"), Grp("V6-1", "v6", FALSE, "lo6", ""),
       Peer("a4", "v4", "V4-1", "MINE", "OUT", FALSE), Peer("a6", "v6", "V6-1", imp, "MYOUT", TRUE)>> :
       imp \in {"", "MINE"}}
ScaleDev == {{}, {"route_policy_under_afi_unsupported"}, {UnderAfi, "bgp_gr_helper_disable_unsupported",
             "bgp_graceful_restart_under_afi_safi_unsupported", "skip_bgp_send_community_type"},
             {"bgp_distance_oc_path_unsupported", "skip_afi_safi_path_for_bgp_multiple_as"}}
ScaleDevices == {Vendor(v, d) : v \in {"ARISTA", "JUNIPER", "NOKIA"}, d \in ScaleDev}
With(devs, callss) == {[vendor |-> d.vendor, dev |-> d.dev, calls |-> cs] : d \in devs, cs \in callss}
MCBuilderPlans ==
    With(CreateDevices, CreateCalls) \cup With(AppendDevices, AppendCalls)
    \cup With(AppendDevices, NeighborCalls) \cup With(ScaleDevices, ScaleCalls(64))
    \cup With(ScaleDevices, ScaleCalls(0))

\* LinkBandwidth: devices with and without the deviations the test needs, healthy
\* and with three faults.
Unsupported == {"aggregate_bandwidth_policy_action_unsupported", "auto_link_bandwidth_unsupported",
                "advertised_cumulative_lbw_oc_unsupported"}
Faults == {"none", "best path", "stale", "silent"}
BandwidthPlan(v, d, m, f) == [vendor |-> v, dev |-> d, masked |-> m, fault |-> f]
MCBandwidthPlans ==
    {BandwidthPlan(v, d, FALSE, "none") : v \in {"JUNIPER", "ARISTA"}, d \in SUBSET Unsupported}
    \cup {BandwidthPlan("JUNIPER", Unsupported \union e, m, f) :
            e \in {{}, {"explicit_interface_in_default_vrf"}}, m \in BOOLEAN, f \in Faults}

\* AftFilter: four nested prefixes of one family and one of the other; policies
\* that share sets, deny, and match nothing.
PfxA == <<"v4", <<0>>>>
PfxB == <<"v4", <<0, 1>>>>
PfxC == <<"v4", <<0, 1, 1>>>>
PfxD == <<"v4", <<1>>>>
PfxE == <<"v6", <<0>>>>
MCFilterRoutes == {PfxA, PfxB, PfxC, PfxD, PfxE}
Cfg(policy, stmts, sets, list, mode, match, tag, deny) ==
    [policy |-> policy, stmts |-> stmts, sets |-> sets, list |-> list, mode |-> mode,
     match |-> match, tag |-> tag, deny |-> deny]
AllCfg == Cfg("all", <<"10">>, <<>>, {}, {}, FALSE, FALSE, FALSE)
SetACfg == Cfg("A", <<"10">>, <<"setA">>, {PfxA, PfxD}, {}, TRUE, FALSE, FALSE)
SetA2Cfg == Cfg("A2", <<"10">>, <<"setA">>, {PfxE}, {}, TRUE, FALSE, FALSE)
SubCfg == Cfg("sub", <<"10">>, <<"subnet">>, {PfxA}, 2..3, TRUE, FALSE, FALSE)
MultiCfg == Cfg("multi", <<"10", "20">>, <<"setA", "subnet">>, {}, {}, TRUE, FALSE, FALSE)
DenyCfg == Cfg("deny", <<"10", "20">>, <<"setA", "">>, {}, {}, TRUE, FALSE, TRUE)
TagCfg == Cfg("tag", <<"10">>, <<>>, {}, {}, TRUE, TRUE, FALSE)
FilterPlan(arista, limited, explicit, vrf, policies) ==
    [arista |-> arista, limited |-> limited, explicit |-> explicit, vrf |-> vrf,
     policies |-> policies]
MCFilterPlans ==
    { FilterPlan(TRUE, TRUE, FALSE, FALSE, <<AllCfg, SetACfg, SubCfg, MultiCfg, DenyCfg, TagCfg>>),
      FilterPlan(FALSE, FALSE, TRUE, FALSE, <<AllCfg, SetACfg, SetA2Cfg, MultiCfg, SubCfg>>),
      FilterPlan(FALSE, FALSE, FALSE, TRUE, <<AllCfg>>),
      FilterPlan(FALSE, FALSE, TRUE, FALSE, <<AllCfg, SetACfg, SetACfg>>) }

\* IsisSession: devices with up to two of the deviations it reads, or all of them,
\* and a binding without a traffic generator.
IsisDeviations == {"explicitVRF", "idFormat", "instanceRequired", "levelEnabled", "level1Disable",
                   "afUnsupported", "portSpeed"}
IsisDut(devs, hasAte) ==
  [f \in IsisDeviations \cup {"hasAte"} |-> IF f = "hasAte" THEN hasAte ELSE f \in devs]
MCIsisDuts ==
  {IsisDut(devs, TRUE) : devs \in {s \in SUBSET IsisDeviations : Cardinality(s) \in {0, 1, 2, 7}}}
  \cup {IsisDut({}, FALSE)}
MCIsisChanges == {"mismatch", "timers"}

VARIABLES
  part,  \* the part that this behaviour is about
  plan, attr, case, at, conf, calls, device, ate, up, everUp, drops, todo, verdict,
  buildersPlan, next, bgp, batch, buildersDevice, cli, result,
  bandwidthPlan, pc, bandwidthCase, fam, dut, bandwidthAte, sum, failed,
  filterPlan, filterPc, filterNext, rp, filterBatch, filterDevice, filterAte, rib,
  errors, seen, wanted, changes,
  isisDut, isisConf, isisAte, isisDevice, peer, adj, isisTodo, isisPc, cases,
  failures

-----------------------------------------------------------------------------
Session == INSTANCE BgpSession WITH
  Plans <- SessionPlans
Builders == INSTANCE BgpBuilders WITH
  Plans <- BuilderPlans, plan <- buildersPlan, device <- buildersDevice
Bandwidth == INSTANCE LinkBandwidth WITH
  Plans <- BandwidthPlans, plan <- bandwidthPlan, case <- bandwidthCase,
  ate <- bandwidthAte
Filter == INSTANCE AftFilter WITH
  Plans <- FilterPlans, Routes <- FilterRoutes,
  plan <- filterPlan, pc <- filterPc, next <- filterNext, batch <- filterBatch,
  device <- filterDevice, ate <- filterAte
Isis == INSTANCE IsisSession WITH
  Duts <- IsisDuts, Changes <- IsisChanges,
  dut <- isisDut, conf <- isisConf, ate <- isisAte, device <- isisDevice,
  todo <- isisTodo, pc <- isisPc

sessionVars == <<plan, attr, case, at, conf, calls, device, ate, up, everUp, drops,
                 todo, verdict>>
buildersVars == <<buildersPlan, next, bgp, batch, buildersDevice, cli, result>>
bandwidthVars == <<bandwidthPlan, pc, bandwidthCase, fam, dut, bandwidthAte, sum,
                   failed>>
filterVars == <<filterPlan, filterPc, filterNext, rp, filterBatch, filterDevice,
                filterAte, rib, errors, seen, wanted, changes>>
isisVars == <<isisDut, isisConf, isisAte, isisDevice, peer, adj, isisTodo, isisPc,
              cases, failures>>

\* A part that a behaviour is not about stands still.
Idle == "idle"
SessionIdle == plan = Idle /\ attr = Idle /\ case = Idle /\ at = Idle /\
               conf = Idle /\ calls = Idle /\ device = Idle /\ ate = Idle /\
               up = Idle /\ everUp = Idle /\ drops = Idle /\ todo = Idle /\
               verdict = Idle
BuildersIdle == buildersPlan = Idle /\ next = Idle /\ bgp = Idle /\ batch = Idle /\
                buildersDevice = Idle /\ cli = Idle /\ result = Idle
BandwidthIdle == bandwidthPlan = Idle /\ pc = Idle /\ bandwidthCase = Idle /\
                 fam = Idle /\ dut = Idle /\ bandwidthAte = Idle /\ sum = Idle /\
                 failed = Idle
FilterIdle == filterPlan = Idle /\ filterPc = Idle /\ filterNext = Idle /\
              rp = Idle /\ filterBatch = Idle /\ filterDevice = Idle /\
              filterAte = Idle /\ rib = Idle /\ errors = Idle /\ seen = Idle /\
              wanted = Idle /\ changes = Idle
IsisIdle == isisDut = Idle /\ isisConf = Idle /\ isisAte = Idle /\
            isisDevice = Isis!Empty /\ peer = Isis!NoPeer /\ adj = {} /\ isisTodo = Idle /\
            isisPc = "off" /\ cases = Idle /\ failures = Idle

Init ==
  /\ part \in {"session", "builders", "bandwidth", "filter", "isis"}
  /\ IF part = "session" THEN Session!Init ELSE SessionIdle
  /\ IF part = "builders" THEN Builders!Init ELSE BuildersIdle
  /\ IF part = "bandwidth" THEN Bandwidth!Init ELSE BandwidthIdle
  /\ IF part = "filter" THEN Filter!Init ELSE FilterIdle
  /\ IF part = "isis" THEN Isis!Init ELSE IsisIdle

Next ==
  \/ /\ part = "session" /\ Session!Next
     /\ UNCHANGED <<part, buildersVars, bandwidthVars, filterVars, isisVars>>
  \/ /\ part = "builders" /\ Builders!Next
     /\ UNCHANGED <<part, sessionVars, bandwidthVars, filterVars, isisVars>>
  \/ /\ part = "bandwidth" /\ Bandwidth!Next
     /\ UNCHANGED <<part, sessionVars, buildersVars, filterVars, isisVars>>
  \/ /\ part = "filter" /\ Filter!Next
     /\ UNCHANGED <<part, sessionVars, buildersVars, bandwidthVars, isisVars>>
  \/ /\ part = "isis" /\ Isis!Next
     /\ UNCHANGED <<part, sessionVars, buildersVars, bandwidthVars, filterVars>>

vars == <<part, sessionVars, buildersVars, bandwidthVars, filterVars, isisVars>>
Spec == Init /\ [][Next]_vars
\* The test's goroutine goes on, and sessions whose ends fit come up.
FairSpec == Spec /\ Session!Fairness /\ Bandwidth!Fairness /\ Isis!Fairness

-----------------------------------------------------------------------------
\* The two ends of a session, which different code builds, fit: addresses, AS
\* numbers, families, VLANs, instances and levels, whatever an earlier case left;
\* every neighbor is in a group the device has, with its own family, and under a
\* policy that exists; an adjacency is awaited where it was configured.
EndsAgree ==
  CASE part = "session" -> Session!EndsAgree /\ Session!RoutesPermitted
    [] part = "builders" -> Builders!NeighborsInGroups
    [] part = "bandwidth" -> Bandwidth!SessionsMeet
    [] part = "filter" -> Filter!SessionsMatch
    [] part = "isis" -> Isis!EndsAgree /\ Isis!WatchesConfigured

\* What the calls asked for is what the device does, whichever request, deviation
\* or earlier case carried it: policies select and filter the routes they were
\* given, limits are lifted, several paths are taken, clearing removes BGP from
\* the default instance and nothing else, and nothing of an earlier IS-IS case is left.
AsAsked ==
  CASE part = "session" -> Session!ClearedExactly
    [] part = "builders" -> /\ Builders!PeersPolicied /\ Builders!LimitsLifted
                            /\ Builders!MaxRoutesNamed /\ Builders!MultipathEffective
    [] part = "bandwidth" -> Bandwidth!SumsAsExpected
    [] part = "filter" -> Filter!PoliciesFilter /\ Filter!LimitsLifted
    [] part = "isis" -> Isis!NothingLeft

\* A test that passes saw it: every session asked for was established with its
\* capabilities, and all routes of every peer were installed.
PassMeansSeen ==
  CASE part = "session" -> Session!PassMeansEstablished
    [] part = "filter" -> Filter!ConvergenceIsReal
    [] OTHER -> TRUE

\* A case of the bandwidth test passes only over an advertised community, and a
\* CreateBGPNeighbors that returns an error leaves the batch and the device alone.
StepsAreSound ==
  [][/\ part = "bandwidth" => Bandwidth!AdvertisedStep
     /\ part = "builders" => Builders!ErrorStep]_vars

\* A case with supported families passes on a device where every session can come
\* up, although sessions drop while they are watched; the bandwidth test gets to
\* its end whatever fails; an IS-IS case whose ends agree gets its adjacency.
HealthyPasses ==
  /\ (part = "session" /\ Session!Healthy) ~> (part = "session" /\ verdict = "passed")
  /\ (part = "bandwidth") ~> (pc = "end")
  /\ (part = "isis" /\ isisPc = "await" /\ Isis!Agreeing) ~> (part = "isis" /\ isisPc = "idle")

-----------------------------------------------------------------------------
(* The inductive invariant behind PassMeansSeen and StepsAreSound, and the    *)
(* proofs.                                                                   *)

\* Of the neighbors VerifyDUTVrfBGPState has been at, each was established with
\* its capabilities unless the case has failed.
SessionInv ==
  /\ up \subseteq everUp
  /\ verdict = "passed" => at = "done" /\ Session!PassMeansEstablished
  /\ (at = "verifyVrf" /\ verdict = "none") =>
       \A k \in Session!Asked : k \in todo \/ (k \in everUp /\ k \notin plan.uncapable)

\* Wait j of AwaitScaleBGPConvergence has its error, or all the routes it is for
\* have been installed at some time.
WaitSettled(j) ==
  \/ Filter!Waits[j] \in errors
  \/ Filter!Waits[j][2] = "routes" =>
       \A p \in Filter!PeersOf(Filter!Waits[j][1], Filter!Waits[j][3]) : seen[p] >= BulkCount

\* The waits that are over are settled; peers are in instances that are waited for.
FilterInv ==
  /\ DOMAIN filterDevice = {"ports", "rp", "routes", "nbrs", "limits", "bindings"}
  /\ \A port : <<port, Filter!Vrf>> \in filterDevice.bindings => filterPlan.vrf
  /\ filterPc \in {"await", "use"} =>
       /\ \A p \in filterAte : p.fam \in Filter!Families
       /\ rib \in [filterAte -> Nat] /\ seen \in [filterAte -> Nat]
       /\ \A p \in filterAte : rib[p] <= seen[p]
  /\ filterPc = "await" =>
       /\ filterNext \in Nat /\ filterNext >= 1 /\ filterNext <= Len(Filter!Waits)
       /\ \A j \in Nat : 1 <= j /\ j < filterNext => WaitSettled(j)
  /\ Filter!ConvergenceIsReal

\* The second family is looked at only when the first had something advertised.
BandwidthInv ==
  pc = "validate" => fam \in {4, 6} /\ (fam = 6 => sum[4] # 0)

IInv ==
  /\ part = "session" => SessionInv
  /\ part = "filter" => FilterInv
  /\ part = "bandwidth" => BandwidthInv

LEMMA InitInv == Init => IInv
<1> SUFFICES ASSUME Init PROVE IInv
  OBVIOUS
<1>1. part = "session" => SessionInv
  BY DEF Init, Session!Init, SessionInv
<1>2. part = "filter" => FilterInv
  BY DEF Init, Filter!Init, FilterInv, Filter!ConvergenceIsReal
<1>3. part = "bandwidth" => BandwidthInv
  BY DEF Init, Bandwidth!Init, BandwidthInv
<1> QED
  BY <1>1, <1>2, <1>3 DEF IInv

LEMMA SessionStep ==
  ASSUME SessionInv, Session!Next
  PROVE  SessionInv'
<1> USE DEF SessionInv, Session!PassMeansEstablished
<1>1. CASE Session!BGPClearConfig
  BY <1>1 DEF Session!BGPClearConfig, Session!Asked, Session!BgpPorts, Session!C, Session!Afis
<1>2. CASE Session!SetPortAttr
  BY <1>2 DEF Session!SetPortAttr
<1>3. CASE Session!NewBGPSession
  BY <1>3 DEF Session!NewBGPSession
<1>4. CASE Session!WithEBGP
  BY <1>4 DEF Session!WithEBGP, Session!Fatal
<1>5. CASE Session!PushDUT
  BY <1>5 DEF Session!PushDUT
<1>6. CASE Session!PushAndStartATE
  BY <1>6 DEF Session!PushAndStartATE, Session!Default
<1>7. ASSUME NEW k \in Session!Asked, Session!SessionUp(k) PROVE SessionInv'
  BY <1>7 DEF Session!SessionUp, Session!Running, Session!Asked, Session!BgpPorts, Session!C, Session!Afis
<1>8. ASSUME NEW k \in Session!Asked, Session!SessionDown(k) PROVE SessionInv'
  BY <1>8 DEF Session!SessionDown, Session!Running, Session!Asked, Session!BgpPorts, Session!C, Session!Afis
<1>9. CASE Session!VerifyDUTBGPEstablished
  BY <1>9 DEF Session!VerifyDUTBGPEstablished, Session!Fatal
<1>10. CASE Session!VerifyOTGBGPEstablished
  BY <1>10 DEF Session!VerifyOTGBGPEstablished, Session!Fatal, Session!Asked, Session!BgpPorts, Session!C, Session!Afis
<1>11. CASE Session!VerifyDUTVrfBGPState
  BY <1>11 DEF Session!VerifyDUTVrfBGPState, Session!Asked, Session!BgpPorts, Session!C, Session!Afis
<1>12. CASE Session!CaseEnds
  BY <1>12 DEF Session!CaseEnds, Session!Asked, Session!BgpPorts, Session!C, Session!Afis
<1>13. CASE Session!NextCase
  BY <1>13 DEF Session!NextCase
<1> QED
  BY <1>1, <1>2, <1>3, <1>4, <1>5, <1>6, <1>7, <1>8, <1>9, <1>10, <1>11, <1>12, <1>13
  DEF Session!Next

\* The waits: for each instance a session and the routes of each family.
LEMMA WaitsCovered ==
  ASSUME NEW ni \in {Filter!Default, Filter!Vrf}, ni = Filter!Vrf => filterPlan.vrf,
         NEW f \in Filter!Families
  PROVE  \E j \in Nat : 1 <= j /\ j <= Len(Filter!Waits) /\ Filter!Waits[j] = <<ni, "routes", f>>
<1> DEFINE Of(n) == <<<<n, "session", "v4">>, <<n, "session", "v6">>,
                      <<n, "routes", "v4">>, <<n, "routes", "v6">>>>
<1>1. Filter!Waits = IF filterPlan.vrf THEN Of(Filter!Default) \o Of(Filter!Vrf) ELSE Of(Filter!Default)
  BY DEF Filter!Waits
<1>2. CASE ~filterPlan.vrf
  <2>1. ni = Filter!Default /\ Filter!Waits = Of(Filter!Default) /\ Len(Of(Filter!Default)) = 4
    BY <1>1, <1>2
  <2>2. CASE f = "v4"
    BY <2>1, <2>2
  <2>3. CASE f = "v6"
    BY <2>1, <2>3
  <2> QED
    BY <2>2, <2>3 DEF Filter!Families
<1>3. CASE filterPlan.vrf
  <2> DEFINE D == Of(Filter!Default)
             V == Of(Filter!Vrf)
  <2>1. Filter!Waits = D \o V
    BY <1>1, <1>3
  <2>2. /\ Len(D \o V) = 8
        /\ (D \o V)[3] = D[3] /\ (D \o V)[4] = D[4]
        /\ (D \o V)[7] = V[3] /\ (D \o V)[8] = V[4]
    OBVIOUS
  <2>3. D[3] = <<Filter!Default, "routes", "v4">> /\ D[4] = <<Filter!Default, "routes", "v6">>
        /\ V[3] = <<Filter!Vrf, "routes", "v4">> /\ V[4] = <<Filter!Vrf, "routes", "v6">>
    OBVIOUS
  <2> HIDE DEF D, V
  <2>4. CASE ni = Filter!Default /\ f = "v4"
    <3>1. Filter!Waits[3] = <<ni, "routes", f>> /\ 3 <= Len(Filter!Waits)
      BY <2>1, <2>2, <2>3, <2>4
    <3> QED
      BY <3>1
  <2>5. CASE ni = Filter!Default /\ f = "v6"
    <3>1. Filter!Waits[4] = <<ni, "routes", f>> /\ 4 <= Len(Filter!Waits)
      BY <2>1, <2>2, <2>3, <2>5
    <3> QED
      BY <3>1
  <2>6. CASE ni = Filter!Vrf /\ f = "v4"
    <3>1. Filter!Waits[7] = <<ni, "routes", f>> /\ 7 <= Len(Filter!Waits)
      BY <2>1, <2>2, <2>3, <2>6
    <3> QED
      BY <3>1
  <2>7. CASE ni = Filter!Vrf /\ f = "v6"
    <3>1. Filter!Waits[8] = <<ni, "routes", f>> /\ 8 <= Len(Filter!Waits)
      BY <2>1, <2>2, <2>3, <2>7
    <3> QED
      BY <3>1
  <2> QED
    BY <2>4, <2>5, <2>6, <2>7 DEF Filter!Families
<1> QED
  BY <1>2, <1>3

LEMMA WaitsLength == Len(Filter!Waits) \in Nat /\ Len(Filter!Waits) >= 1
<1> DEFINE Of(n) == <<<<n, "session", "v4">>, <<n, "session", "v6">>,
                      <<n, "routes", "v4">>, <<n, "routes", "v6">>>>
<1>1. Filter!Waits = IF filterPlan.vrf THEN Of(Filter!Default) \o Of(Filter!Vrf) ELSE Of(Filter!Default)
  BY DEF Filter!Waits
<1>2. Len(Of(Filter!Default)) = 4 /\ Len(Of(Filter!Default) \o Of(Filter!Vrf)) = 8
  OBVIOUS
<1> QED
  BY <1>1, <1>2

\* What a wait that ends says of the routes.
LEMMA AwaitedSettles ==
  ASSUME FilterInv, Filter!AwaitScaleBGPConvergence
  PROVE  \A j \in Nat : 1 <= j /\ j < filterNext' => WaitSettled(j)'
<1>0. PICK n : n = filterNext
  OBVIOUS
<1>1. filterPc = "await" /\ filterNext' = n + 1 /\ n \in Nat
      /\ UNCHANGED <<filterPlan, filterDevice, filterAte, rib, seen>>
      /\ errors' = IF Filter!Awaited(Filter!Waits[n]) THEN errors ELSE errors \cup {Filter!Waits[n]}
  BY <1>0 DEF Filter!AwaitScaleBGPConvergence, FilterInv
<1>2. Filter!Waits' = Filter!Waits /\ \A ni, f : Filter!PeersOf(ni, f)' = Filter!PeersOf(ni, f)
  BY <1>1 DEF Filter!Waits, Filter!PeersOf, Filter!NIOf
<1>3. ASSUME NEW j \in Nat, 1 <= j, j < n PROVE WaitSettled(j)'
  BY <1>0, <1>1, <1>2, <1>3 DEF FilterInv, WaitSettled
<1>4. WaitSettled(n)'
  <2> DEFINE w == Filter!Waits[n]
  <2>1. CASE ~Filter!Awaited(w)
    BY <1>1, <1>2, <2>1 DEF WaitSettled
  <2>2. CASE Filter!Awaited(w)
    <3> SUFFICES ASSUME w[2] = "routes", NEW p \in Filter!PeersOf(w[1], w[3])
                 PROVE  seen[p] >= BulkCount
      BY <1>1, <1>2 DEF WaitSettled
    <3>1. rib[p] >= BulkCount
      BY <2>2 DEF Filter!Awaited
    <3>2. p \in filterAte
      BY DEF Filter!PeersOf
    <3> QED
      BY <1>1, <3>1, <3>2, BulkCountAssumption DEF FilterInv
  <2> QED
    BY <2>1, <2>2
<1> QED
  BY <1>1, <1>3, <1>4 DEF FilterInv

\* When the last wait is over, every peer was in one of them.
LEMMA ConvergedAtTheEnd ==
  ASSUME FilterInv, Filter!AwaitScaleBGPConvergence
  PROVE  Filter!ConvergenceIsReal'
<1> SUFFICES ASSUME filterPc' = "use", errors' = {}, NEW p \in filterAte'
             PROVE  seen'[p] >= BulkCount
  BY DEF Filter!ConvergenceIsReal
<1>1. filterPc = "await" /\ filterNext' = filterNext + 1 /\ filterNext = Len(Filter!Waits)
      /\ UNCHANGED <<filterPlan, filterDevice, filterAte, rib, seen>>
  BY DEF Filter!AwaitScaleBGPConvergence, Filter!Goto
<1>2. Filter!Waits' = Filter!Waits /\ \A ni, f : Filter!PeersOf(ni, f)' = Filter!PeersOf(ni, f)
  BY <1>1 DEF Filter!Waits, Filter!PeersOf, Filter!NIOf
<1> DEFINE ni == Filter!NIOf(p.port)
<1>3. ni \in {Filter!Default, Filter!Vrf} /\ (ni = Filter!Vrf => filterPlan.vrf)
  BY DEF FilterInv, Filter!NIOf, Filter!Default, Filter!Vrf
<1>4. p.fam \in Filter!Families /\ p \in Filter!PeersOf(ni, p.fam)
  BY <1>1 DEF FilterInv, Filter!PeersOf
<1> HIDE DEF ni
<1>5. PICK j \in Nat : 1 <= j /\ j <= Len(Filter!Waits) /\ Filter!Waits[j] = <<ni, "routes", p.fam>>
  BY <1>3, <1>4, WaitsCovered
<1>6. WaitSettled(j)'
  BY <1>1, <1>5, AwaitedSettles, WaitsLength
<1> QED
  BY <1>1, <1>2, <1>4, <1>5, <1>6 DEF WaitSettled

\* Before the waits: no bindings of an instance the test does not have.
LEMMA FilterSetsUp ==
  ASSUME FilterInv,
         \/ Filter!DialGNMI \/ Filter!ConfigureDUT \/ Filter!AddPrefixSetPolicy
         \/ Filter!PushPolicies \/ Filter!ConfigureBaseRoutes \/ Filter!ConfigureBGP
  PROVE  FilterInv'
<1>1. filterPc \notin {"await", "use"} /\ filterPc' \notin {"await", "use"} /\ UNCHANGED filterPlan
  BY DEF Filter!DialGNMI, Filter!ConfigureDUT, Filter!AddPrefixSetPolicy, Filter!PushPolicies,
         Filter!ConfigureBaseRoutes, Filter!ConfigureBGP, Filter!Goto, Filter!Fatal
<1>2. DOMAIN filterDevice' = DOMAIN filterDevice
  BY DEF Filter!DialGNMI, Filter!ConfigureDUT, Filter!AddPrefixSetPolicy, Filter!PushPolicies,
         Filter!ConfigureBaseRoutes, Filter!ConfigureBGP, Filter!Sent
<1>3. ASSUME NEW port, <<port, Filter!Vrf>> \in filterDevice'.bindings PROVE filterPlan.vrf
  <2>1. CASE Filter!ConfigureDUT
    <3>1. "bindings" \in DOMAIN Filter!Sent(filterBatch', filterDevice)
      BY DEF Filter!Sent, FilterInv
    <3> QED
      BY <2>1, <3>1, <1>3 DEF Filter!ConfigureDUT, Filter!Vrf, Filter!Default
  <2>2. CASE ~Filter!ConfigureDUT
    <3>1. filterDevice'.bindings = filterDevice.bindings
      BY <2>2 DEF Filter!DialGNMI, Filter!AddPrefixSetPolicy, Filter!PushPolicies,
                  Filter!ConfigureBaseRoutes, Filter!ConfigureBGP, Filter!Sent, FilterInv
    <3> QED
      BY <3>1, <1>3 DEF FilterInv
  <2> QED
    BY <2>1, <2>2
<1> QED
  BY <1>1, <1>2, <1>3 DEF FilterInv, Filter!ConvergenceIsReal

LEMMA FilterStep ==
  ASSUME FilterInv, Filter!Next
  PROVE  FilterInv'
<1>1. CASE Filter!ConfigureATE
  <2>1. filterPc' = "await" /\ filterNext' = 1 /\ UNCHANGED <<filterPlan, filterDevice>>
        /\ filterAte' = Filter!Peers /\ rib' = [p \in filterAte' |-> 0] /\ seen' = rib'
    BY <1>1 DEF Filter!ConfigureATE, Filter!Goto
  <2>2. \A p \in Filter!Peers : p.fam \in Filter!Families
    BY DEF Filter!Peers, Filter!Families
  <2>3. Filter!Waits' = Filter!Waits
    BY <2>1 DEF Filter!Waits
  <2> QED
    BY <2>1, <2>2, <2>3, WaitsLength DEF FilterInv, Filter!ConvergenceIsReal
<1>2. ASSUME NEW p \in filterAte, Filter!Installs(p) \/ Filter!Flaps(p) PROVE FilterInv'
  <2>1. /\ filterPc = "await"
        /\ UNCHANGED <<filterPlan, filterPc, filterNext, filterDevice, filterAte, errors>>
    BY <1>2 DEF Filter!Installs, Filter!Flaps
  <2>2. Filter!Waits' = Filter!Waits /\ \A ni, f : Filter!PeersOf(ni, f)' = Filter!PeersOf(ni, f)
    BY <2>1 DEF Filter!Waits, Filter!PeersOf, Filter!NIOf
  <2>3. /\ rib' \in [filterAte -> Nat] /\ seen' \in [filterAte -> Nat]
        /\ \A q \in filterAte : rib'[q] <= seen'[q] /\ seen[q] <= seen'[q]
    <3>1. CASE Filter!Installs(p)
      BY <2>1, <3>1 DEF FilterInv, Filter!Installs
    <3>2. CASE Filter!Flaps(p)
      BY <2>1, <3>2 DEF FilterInv, Filter!Flaps
    <3> QED
      BY <1>2, <3>1, <3>2
  <2>4. ASSUME NEW j \in Nat, WaitSettled(j) PROVE WaitSettled(j)'
    <3> SUFFICES ASSUME Filter!Waits[j] \notin errors, Filter!Waits[j][2] = "routes",
                        NEW q \in Filter!PeersOf(Filter!Waits[j][1], Filter!Waits[j][3])
                 PROVE  seen'[q] >= BulkCount
      BY <2>1, <2>2 DEF WaitSettled
    <3>1. q \in filterAte /\ seen[q] >= BulkCount
      BY <2>4 DEF WaitSettled, Filter!PeersOf
    <3> QED
      BY <2>1, <2>3, <3>1, BulkCountAssumption DEF FilterInv
  <2> QED
    BY <2>1, <2>2, <2>3, <2>4 DEF FilterInv, Filter!ConvergenceIsReal
<1>3. CASE Filter!AwaitScaleBGPConvergence
  <2>1. /\ filterPc = "await" /\ filterPc' \in {"await", "use"}
        /\ filterPc' = "await" => filterNext # Len(Filter!Waits)
        /\ filterNext' = filterNext + 1
        /\ UNCHANGED <<filterPlan, filterDevice, filterAte, rib, seen>>
    BY <1>3 DEF Filter!AwaitScaleBGPConvergence, Filter!Goto
  <2>2. Filter!Waits' = Filter!Waits
    BY <2>1 DEF Filter!Waits
  <2>3. filterPc' = "await" => filterNext' \in Nat /\ filterNext' >= 1 /\ filterNext' <= Len(Filter!Waits)'
    BY <2>1, <2>2, WaitsLength DEF FilterInv
  <2> QED
    BY <1>3, <2>1, <2>3, AwaitedSettles, ConvergedAtTheEnd DEF FilterInv
<1>4. ASSUME filterPc = "use", filterPc' # "await", UNCHANGED <<filterPlan, filterAte, rib, seen, errors>>,
             DOMAIN filterDevice' = DOMAIN filterDevice,
             filterDevice'.bindings = filterDevice.bindings
      PROVE  FilterInv'
  BY <1>4 DEF FilterInv, Filter!ConvergenceIsReal
<1>5. CASE Filter!ConfigureGlobalFilterPolicies
  BY <1>4, <1>5 DEF Filter!ConfigureGlobalFilterPolicies, Filter!Fatal, Filter!Goto
<1>6. ASSUME NEW s, NEW p, NEW mode,
             Filter!AddPrefixToPrefixSet(s, p, mode) \/ Filter!RemovePrefixFromPrefixSet(s, p, mode)
      PROVE  FilterInv'
  BY <1>4, <1>6 DEF Filter!AddPrefixToPrefixSet, Filter!RemovePrefixFromPrefixSet, Filter!Change, FilterInv
<1>7. ASSUME NEW p, Filter!AddSingleStaticRoute(p) PROVE FilterInv'
  BY <1>4, <1>7 DEF Filter!AddSingleStaticRoute, Filter!Change, FilterInv
<1> QED
  BY <1>1, <1>2, <1>3, <1>5, <1>6, <1>7, FilterSetsUp DEF Filter!Next

LEMMA BandwidthStep ==
  ASSUME BandwidthInv, Bandwidth!Next
  PROVE  BandwidthInv' /\ Bandwidth!AdvertisedStep
<1> USE DEF BandwidthInv, Bandwidth!AdvertisedStep
<1>1. CASE Bandwidth!validateCumulativeLBwCommunityAdvertisedByDUT
  <2>1. pc = "validate" /\ UNCHANGED sum
    BY <1>1 DEF Bandwidth!validateCumulativeLBwCommunityAdvertisedByDUT
  <2>2. CASE sum[fam] = 0 \/ failed'
    <3>1. failed' \/ sum[fam] = 0
      BY <2>2
    <3>2. Bandwidth!FatalCase \/ failed'
      BY <1>1, <2>2 DEF Bandwidth!validateCumulativeLBwCommunityAdvertisedByDUT
    <3>3. pc' = "validate" => UNCHANGED fam \/ (fam = 4 /\ fam' = 6 /\ sum[4] # 0)
      BY <1>1 DEF Bandwidth!validateCumulativeLBwCommunityAdvertisedByDUT, Bandwidth!FatalCase,
                  Bandwidth!NextCase
    <3> QED
      BY <2>1, <3>2, <3>3 DEF Bandwidth!FatalCase
  <2>3. CASE sum[fam] # 0 /\ ~failed'
    <3>1. \/ fam = 4 /\ fam' = 6 /\ UNCHANGED pc
          \/ fam # 4 /\ Bandwidth!NextCase
      BY <1>1, <2>3 DEF Bandwidth!validateCumulativeLBwCommunityAdvertisedByDUT, Bandwidth!FatalCase
    <3> QED
      BY <2>1, <2>3, <3>1 DEF Bandwidth!NextCase, Bandwidth!Families
  <2> QED
    BY <2>2, <2>3
<1>2. CASE Bandwidth!Sleep
  BY <1>2 DEF Bandwidth!Sleep
<1>3. ASSUME ~Bandwidth!validateCumulativeLBwCommunityAdvertisedByDUT, ~Bandwidth!Sleep
      PROVE  pc # "validate" /\ pc' # "validate"
  BY <1>3 DEF Bandwidth!Next, Bandwidth!SetupATE, Bandwidth!ConfigureDUT, Bandwidth!configureRoutePolicy,
     Bandwidth!FatalTest, Bandwidth!configureBGP, Bandwidth!advertiseRoutesWithEBGPExtCommunitys,
     Bandwidth!configureLinkBandwidth, Bandwidth!Apply
<1> QED
  BY <1>1, <1>2, <1>3

\* Of the builders only CreateBGPNeighbors is at a "create" call, and what it does
\* before it returns an error is neither in the batch nor on the device.
LEMMA BuildersStep ==
  ASSUME Builders!Next
  PROVE  Builders!ErrorStep
<1> SUFFICES ASSUME Builders!Calling("create"), result' = "stopped"
             PROVE  UNCHANGED <<batch, buildersDevice>>
  BY DEF Builders!ErrorStep
<1>1. result = "running" /\ Builders!Call.op = "create"
  BY DEF Builders!Calling
<1>2. Builders!CreateBGPNeighbors
  BY <1>1 DEF Builders!Next, Builders!Calling, Builders!ConfigureDUTBGP, Builders!AppendBGPNeighbor,
     Builders!ConfigureBGPNeighbor, Builders!ConfigureGlobal, Builders!ConfigurePeerGroup,
     Builders!ConfigurePeer, Builders!Set
<1> QED
  BY <1>1, <1>2 DEF Builders!CreateBGPNeighbors, Builders!Returned

LEMMA StepInv ==
  ASSUME IInv, [Next]_vars
  PROVE  IInv'
<1> USE DEF vars, sessionVars, buildersVars, bandwidthVars, filterVars, isisVars
<1>1. UNCHANGED part
  BY DEF Next
<1>2. CASE part = "session"
  <2>1. Session!Next \/ UNCHANGED sessionVars
    BY <1>2 DEF Next
  <2>2. CASE Session!Next
    BY <1>1, <1>2, <2>2, SessionStep DEF IInv
  <2>3. CASE UNCHANGED sessionVars
    <3>1. Session!Asked' = Session!Asked
      BY <2>3 DEF Session!Asked, Session!BgpPorts, Session!C, Session!Afis
    <3>2. SessionInv'
      BY <1>2, <2>3, <3>1 DEF IInv, SessionInv, Session!PassMeansEstablished
    <3> QED
      BY <1>1, <1>2, <3>2 DEF IInv
  <2> QED
    BY <2>1, <2>2, <2>3
<1>3. CASE part = "filter"
  <2>1. Filter!Next \/ UNCHANGED filterVars
    BY <1>3 DEF Next
  <2>2. CASE Filter!Next
    BY <1>1, <1>3, <2>2, FilterStep DEF IInv
  <2>3. CASE UNCHANGED filterVars
    <3>1. Filter!Waits' = Filter!Waits /\ \A ni, f : Filter!PeersOf(ni, f)' = Filter!PeersOf(ni, f)
      BY <2>3 DEF Filter!Waits, Filter!PeersOf, Filter!NIOf
    <3>2. \A j \in Nat : WaitSettled(j)' <=> WaitSettled(j)
      BY <2>3, <3>1 DEF WaitSettled
    <3>3. FilterInv'
      BY <1>3, <2>3, <3>1, <3>2 DEF IInv, FilterInv, Filter!ConvergenceIsReal
    <3> QED
      BY <1>1, <1>3, <3>3 DEF IInv
  <2> QED
    BY <2>1, <2>2, <2>3
<1>4. CASE part = "bandwidth"
  <2>1. Bandwidth!Next \/ UNCHANGED bandwidthVars
    BY <1>4 DEF Next
  <2>2. CASE Bandwidth!Next
    BY <1>1, <1>4, <2>2, BandwidthStep DEF IInv
  <2>3. CASE UNCHANGED bandwidthVars
    BY <1>1, <1>4, <2>3 DEF IInv, BandwidthInv
  <2> QED
    BY <2>1, <2>2, <2>3
<1>5. CASE part \notin {"session", "filter", "bandwidth"}
  BY <1>1, <1>5 DEF IInv
<1> QED
  BY <1>2, <1>3, <1>4, <1>5

LEMMA RoutingHolds == Spec => []IInv
<1>1. Init => IInv
  BY InitInv
<1>2. IInv /\ [Next]_vars => IInv'
  BY StepInv
<1> QED
  BY <1>1, <1>2, PTL DEF Spec

\* For every test, device and bound: a case of the BGP session fixture that passes
\* saw every session it asked for established with its capabilities, although
\* sessions come and go between the watches of PushAndStart, and a convergence of
\* the AFT filter test without an error saw every peer's routes installed.
THEOREM PassesAreEarned == Spec => []PassMeansSeen
<1>1. IInv => PassMeansSeen
  BY DEF IInv, PassMeansSeen, SessionInv, FilterInv, Session!PassMeansEstablished
<1> QED
  BY <1>1, RoutingHolds, PTL

\* For every test and device: no case of the bandwidth test goes by without an
\* advertisement of both families unless it failed, and CreateBGPNeighbors returns an
\* error only before it has sent or batched anything.
THEOREM StepsHold == Spec => StepsAreSound
<1> DEFINE Sound == /\ part = "bandwidth" => Bandwidth!AdvertisedStep
                    /\ part = "builders" => Builders!ErrorStep
<1>1. IInv /\ [Next]_vars => [Sound]_vars
  <2> SUFFICES ASSUME IInv, Next PROVE Sound
    OBVIOUS
  <2>1. part = "bandwidth" => Bandwidth!AdvertisedStep
    BY BandwidthStep DEF Next, IInv
  <2>2. part = "builders" => Builders!ErrorStep
    BY BuildersStep DEF Next
  <2> QED
    BY <2>1, <2>2
<1> QED
  BY <1>1, RoutingHolds, PTL DEF Spec, StepsAreSound
=============================================================================
