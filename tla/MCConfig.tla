------------------------------ MODULE MCConfig ------------------------------
(*****************************************************************************)
(* Forwarding and device configuration: VRF selection, static MPLS, cloud and *)
(* GUE policies, the full scale gRIBI tables, groups and flows, hardware     *)
(* profiles, aggregates, VLANs and ARP.  A behaviour is about one of them;   *)
(* the others stand still.                                                   *)
(*****************************************************************************)
EXTENDS Integers, Sequences, FiniteSets, TLC

CONSTANT NoValue

\* VRFSelection: devices by (sequential, default instance to be matched).
\* Combinations under which the catch-all rule has the highest number.
PolicyDevices == {<<FALSE, FALSE>>, <<FALSE, TRUE>>, <<TRUE, TRUE>>}

\* StaticLsp.
Lsp(name, kind) == [name |-> <<name, 0>>, kind |-> kind]
pop1 == Lsp("pop1", "pop")
pop2 == Lsp("pop2", "pop")
swap == Lsp("swap", "swap")
push == Lsp("push", "push")
LspPlan(oc, vendor, calls, lsps) == [oc |-> oc, vendor |-> vendor, calls |-> calls, lsps |-> lsps]
\* The uses that work: commands, LSPs merged one by one, a single LSP or label
\* block put by a batch, and objects pushed as a whole.
LspPlans ==
    { LspPlan(FALSE, "ARISTA", {"new", "remove", "lsp", "bypass", "sr", "cross", "vlan"},
           {pop1, swap, push}),
      LspPlan(FALSE, "ARISTA", {"new", "remove", "scale"}, {pop1, pop2}),
      LspPlan(FALSE, "CISCO", {"new", "remove"}, {swap, push}),
      LspPlan(FALSE, "JUNIPER", {"lsp", "sr", "cross"}, {pop1}),
      LspPlan(TRUE, "NOKIA", {"new", "ranges", "cross"}, {pop1, pop2, swap, push}),
      LspPlan(TRUE, "NOKIA", {"lsp"}, {pop1}), LspPlan(TRUE, "NOKIA", {"bypass"}, {pop2}),
      LspPlan(TRUE, "NOKIA", {"sr"}, {}), LspPlan(TRUE, "NOKIA", {"scale"}, {}) }

\* CloudPolicies.
Fixed(oc, types) == [scale |-> FALSE, oc |-> oc, vendor |-> "ARISTA", types |-> types,
                     count |-> 0, nhgs |-> 0]
Scale(oc, n, groupCount) == [scale |-> TRUE, oc |-> oc, vendor |-> "ARISTA", types |-> {},
                             count |-> n, nhgs |-> groupCount]
Types == {"v4", "v6", "dualstack", "multicloudv4"}
\* The tests' scale is two subinterfaces for each group.
CloudPlans ==
    {Fixed(FALSE, types) : types \in SUBSET Types \ {{}}} \cup {Fixed(TRUE, {"v4"})}
    \cup {Scale(FALSE, 2 * k, k) : k \in 1..5}

\* GuePolicies.
GuePlan(oc, dynamic, obj, calls) == [oc |-> oc, dynamic |-> dynamic, object |-> obj, calls |-> calls]
\* Commands, and the uses of OpenConfig in which every change is pushed.
GuePlans ==
    { GuePlan(FALSE, TRUE, FALSE, {"nhg", "rmnhg", "delttl"}),
      GuePlan(FALSE, TRUE, FALSE, {"decap", "rmdecap"}),
      GuePlan(FALSE, TRUE, FALSE, {"nhg", "decap", "update", "replace", "gue"}),
      GuePlan(FALSE, TRUE, FALSE, {"ttl"}),
      GuePlan(FALSE, TRUE, FALSE, {"encap", "apply"}),
      GuePlan(FALSE, TRUE, FALSE, {"pairs"}),
      GuePlan(TRUE, FALSE, TRUE, {"nhg", "rmnhg", "push"}) }

\* HardwareInit: any three features and helpers on one vendor, any two on others.
Features ==
  {"MplsTracking", "VrfSelectionExtended", "PolicyForwarding", "EnableAFTSummaries", "NGPR",
   "TTLPolicyForwarding", "QOSIn", "ACLCounters", "AnPF", "IngressARP", "OptimizeFIBAndCounters",
   "Anpf", "HierarchicalFIB", "SecondaryDefaultLookup"}
Dev(vendor, ceos, oc) == [vendor |-> vendor, ceos |-> ceos, loadBalanceOCUnsupported |-> oc]
Step(op, arg) == [op |-> op, arg |-> arg]
Inits == {Step("hardwareInit", f) : f \in Features}
Helpers == {Step("anpfTcam", ""), Step("counters", "nexthop"), Step("loadbalance", "")}
InitPlans ==
  [device : {Dev("ARISTA", FALSE, TRUE)}, steps : [1..3 -> Inits \cup Helpers]]
  \cup [device : {Dev("ARISTA", TRUE, FALSE), Dev("NOKIA", FALSE, FALSE), Dev("CISCO", FALSE, FALSE)},
        steps : [1..2 -> Inits \cup Helpers]]
  \cup [device : {Dev("CISCO", FALSE, FALSE)},
        steps : {<<Step("createVRFs", n), Step("set", "")>> : n \in 0..3}]

\* AggregateConfig.
LagPorts == {"p1", "p2", "p3"}
MCLags == {"lag1", "lag2"}
LagDevices == {{"interface_enabled"}, {"ipv4_missing_enabled"},
              {"explicit_interface_in_default_vrf", "interface_enabled"},
              {"explicit_interface_in_default_vrf", "ipv4_missing_enabled", "require_routed_subinterface_0"},
              {"deprecated_vlan_id"}}
Lag(n, addr, subs, ps, lacp) ==
  [name |-> n, addr |-> addr, subs |-> subs, ports |-> ps, type |-> "LACP", lacp |-> lacp]
Vlan(v, tagged, ips) == [vlan |-> v, tagged |-> tagged, ips |-> ips]
Plain == Lag("lag1", TRUE, <<>>, <<"p1", "p2">>, "ACTIVE")
Tagged == Lag("lag2", FALSE, <<Vlan(10, TRUE, {"v4"}), Vlan(20, FALSE, {"v4", "v6"})>>, <<"p2", "p3">>, "none")
Bare == Lag("lag1", FALSE, <<>>, <<"p3">>, "ACTIVE")
MCAsks == {Plain, Tagged, Bare, [Plain EXCEPT !.lacp = "partial"],
           Lag("lag2", FALSE, <<Vlan(0, TRUE, {"v4"})>>, <<"p2">>, "none"),
           Lag("lag2", FALSE, <<Vlan(10, TRUE, {})>>, <<"p2">>, "none")}
MCPortLists == {<<"p1", "p2">>, <<"p2", "p3">>}
MCSubPorts == {[name |-> "p1", num |-> 1, index |-> 1], [name |-> "p3", num |-> 2, index |-> 26]}

\* VlanAndArp.
VlanPorts == <<"p1", "p2", "p3">>
MCAddressed == {"p2", "p3"}
MCMagicIPs == <<"m1", "m2", "m1">>
Arista == {[vendor |-> "ARISTA", dev |-> d] :
             d \in {{}, {"deprecated_vlan_id", "omit_l2_mtu"}, {"vlan_subinterface_oc_unsupported", "interface_policy_forwarding_unsupported"}}}
Others == {[vendor |-> "CISCO", dev |-> d] :
             d \in {{"deprecated_vlan_id"}, {"deprecated_vlan_id", "omit_l2_mtu"},
                    {"deprecated_vlan_id", "vlan_subinterface_oc_unsupported", "interface_policy_forwarding_unsupported"}}}
VlanDevices == Arista \union Others
Access(ps) == {<<"access", p>> : p \in ps}
SviTest == {<<"vlan", 10>>, <<"svi", 10>>, <<"secondary", "p3">>} \union Access({"p1", "p2"})
FallbackTest == {<<"vlanOC", 10>>, <<"vlanIntf", 10>>, <<"fallback", 0>>} \union Access({"p1", "p2"})
ArpTest == {<<"magic", 0>>} \union {<<"secondary", p>> : p \in {"p1", "p2", "p3"}}
MssTest == {<<c, p>> : c \in {"mss", "nomss"}, p \in {"p1", "p2"}} \union {<<"urpf", "p1">>}
MCTests == {SviTest, FallbackTest, ArpTest, MssTest}

VARIABLES
  part,  \* the part that this behaviour is about
  dev, nis, policies, bound, wanted,
  plan, device, ni, batch, lspWanted, failed,
  cloudPlan, todo, groups, cloudPolicies, binds, arp, qos, globals, crashed,
  guePlan, gueDevice, object, gueWanted, srcs, dsts, entries,
  p, stage, tablesTodo, tablesFailed, nh, nhg, route, down,
  vrfs, compact, testRepair, matchDefault, builder, flows, expect,
  numNHG, lb, weight, maxNHs, lbIdx, lbCreated, weightIdx, weightCreated,
  bucketsGroups,
  hardwarePlan, next, hardwareDevice, last, hardwareVrfs, hardwareBatch, status,
  aggregateDev, aggregateDevice, aggregateBatch, members, calls, aggregateWanted,
  built, aggregateFailed,
  kind, test, vlanDevice, done, vlanFailed

-----------------------------------------------------------------------------
Policy == INSTANCE VRFSelection WITH
  None <- NoValue, DefaultNames <- {"DEFAULT"}, Deviations <- PolicyDevices
Lsps == INSTANCE StaticLsp WITH
  Plans <- LspPlans, NextHops <- 2, MaxBatch <- 1, wanted <- lspWanted
Cloud == INSTANCE CloudPolicies WITH
  Plans <- CloudPlans, Sources <- 3, OctetMax <- 2, plan <- cloudPlan,
  policies <- cloudPolicies
Gue == INSTANCE GuePolicies WITH
  Plans <- GuePlans, Groups <- {"g1", "g2"}, Decaps <- {"d1", "d2"}, MaxLen <- 5,
  plan <- guePlan, device <- gueDevice, wanted <- gueWanted
Tables == INSTANCE ScaleTables WITH
  VLANs <- {1, 3, 4}, DefaultNHs <- {1, 4}, DefaultNHGs <- {4},
  DefaultIPs <- {1, 3}, TransitNHs <- {2, 5}, TransitNHGs <- {1, 4},
  TransitIPs <- {3, 5}, RepairIPs <- {3, 5}, RepairNHGs <- {2, 3},
  EncapVRFs <- {2}, EncapNHs <- {0, 4}, EncapNHGs <- {5}, Widths <- {2},
  Multi <- TRUE, BatchSize <- 8, todo <- tablesTodo, failed <- tablesFailed,
  MaxNHG <- 5, Pcts <- {25, 50, 100}, NextHops <- {2, 4},
  Granularities <- {0, 7, 8}, MaxNHs <- {3}, groups <- bucketsGroups
Flows == INSTANCE ScaleFlows WITH
  MaxVRFs <- 3, None <- NoValue
Hardware == INSTANCE HardwareInit WITH
  Plans <- InitPlans, plan <- hardwarePlan, device <- hardwareDevice,
  vrfs <- hardwareVrfs, batch <- hardwareBatch
Aggregate == INSTANCE AggregateConfig WITH
  Ports <- LagPorts, Lags <- MCLags, Devices <- LagDevices, Asks <- MCAsks,
  PortLists <- MCPortLists, SubPorts <- MCSubPorts, MaxCalls <- 3,
  dev <- aggregateDev, device <- aggregateDevice, batch <- aggregateBatch,
  wanted <- aggregateWanted, failed <- aggregateFailed
Vlans == INSTANCE VlanAndArp WITH
  Ports <- VlanPorts, Devices <- VlanDevices, Addressed <- MCAddressed,
  MagicIPs <- MCMagicIPs, Tests <- MCTests, device <- vlanDevice,
  failed <- vlanFailed

policyVars == <<dev, nis, policies, bound, wanted>>
lspVars == <<plan, device, ni, batch, lspWanted, failed>>
cloudVars == <<cloudPlan, todo, groups, cloudPolicies, binds, arp, qos, globals,
               crashed>>
gueVars == <<guePlan, gueDevice, object, gueWanted, srcs, dsts, entries>>
tablesVars == <<p, stage, tablesTodo, tablesFailed, nh, nhg, route, down>>
flowsVars == <<vrfs, compact, testRepair, matchDefault, builder, flows, expect>>
bucketsVars == <<numNHG, lb, weight, maxNHs, lbIdx, lbCreated, weightIdx,
                 weightCreated, bucketsGroups>>
hardwareVars == <<hardwarePlan, next, hardwareDevice, last, hardwareVrfs,
                  hardwareBatch, status>>
aggregateVars == <<aggregateDev, aggregateDevice, aggregateBatch, members, calls,
                   aggregateWanted, built, aggregateFailed>>
vlanVars == <<kind, test, vlanDevice, done, vlanFailed>>

\* A part that a behaviour is not about stands still.
Idle == "idle"
PolicyIdle == dev = Idle /\ nis = Idle /\ policies = Idle /\ bound = Idle /\
              wanted = Idle
LspsIdle == plan = Idle /\ device = Idle /\ ni = Idle /\ batch = Idle /\
            lspWanted = Idle /\ failed = Idle
CloudIdle == cloudPlan = Idle /\ todo = Idle /\ groups = Idle /\
             cloudPolicies = Idle /\ binds = Idle /\ arp = Idle /\ qos = Idle /\
             globals = Idle /\ crashed = Idle
GueIdle == guePlan = Idle /\ gueDevice = Idle /\ object = Idle /\
           gueWanted = Idle /\ srcs = Idle /\ dsts = Idle /\ entries = Idle
TablesIdle == p = Idle /\ stage = Idle /\ tablesTodo = Idle /\
              tablesFailed = Idle /\ nh = Idle /\ nhg = Idle /\ route = Idle /\
              down = Idle
FlowsIdle == vrfs = Idle /\ compact = Idle /\ testRepair = Idle /\
             matchDefault = Idle /\ builder = Idle /\ flows = Idle /\ expect = Idle
BucketsIdle == numNHG = Idle /\ lb = Idle /\ weight = Idle /\ maxNHs = Idle /\
               lbIdx = Idle /\ lbCreated = Idle /\ weightIdx = Idle /\
               weightCreated = Idle /\ bucketsGroups = Idle
HardwareIdle == hardwarePlan = Idle /\ next = Idle /\ hardwareDevice = Idle /\
                last = Idle /\ hardwareVrfs = Idle /\ hardwareBatch = Idle /\
                status = Idle
AggregateIdle == aggregateDev = Idle /\ aggregateDevice = Idle /\
                 aggregateBatch = Idle /\ members = Idle /\ calls = Idle /\
                 aggregateWanted = Idle /\ built = Idle /\ aggregateFailed = Idle
VlansIdle == kind = Idle /\ test = Idle /\ vlanDevice = Idle /\ done = Idle /\
             vlanFailed = Idle

Init ==
  /\ part \in {"policy", "lsp", "cloud", "gue", "tables", "flows", "buckets",
               "hardware", "aggregate", "vlan"}
  /\ IF part = "policy" THEN Policy!Init ELSE PolicyIdle
  /\ IF part = "lsp" THEN Lsps!Init ELSE LspsIdle
  /\ IF part = "cloud" THEN Cloud!Init ELSE CloudIdle
  /\ IF part = "gue" THEN Gue!Init ELSE GueIdle
  /\ IF part = "tables" THEN Tables!Init ELSE TablesIdle
  /\ IF part = "flows" THEN Flows!Init ELSE FlowsIdle
  /\ IF part = "buckets" THEN Tables!NewNHGBucketIterator ELSE BucketsIdle
  /\ IF part = "hardware" THEN Hardware!Init ELSE HardwareIdle
  /\ IF part = "aggregate" THEN Aggregate!Init ELSE AggregateIdle
  /\ IF part = "vlan" THEN Vlans!Init ELSE VlansIdle

Next ==
  \/ /\ part = "policy" /\ Policy!Next
     /\ UNCHANGED <<part, lspVars, cloudVars, gueVars, tablesVars, flowsVars,
                    bucketsVars, hardwareVars, aggregateVars, vlanVars>>
  \/ /\ part = "lsp" /\ Lsps!Next
     /\ UNCHANGED <<part, policyVars, cloudVars, gueVars, tablesVars, flowsVars,
                    bucketsVars, hardwareVars, aggregateVars, vlanVars>>
  \/ /\ part = "cloud" /\ Cloud!Next
     /\ UNCHANGED <<part, policyVars, lspVars, gueVars, tablesVars, flowsVars,
                    bucketsVars, hardwareVars, aggregateVars, vlanVars>>
  \/ /\ part = "gue" /\ Gue!Next
     /\ UNCHANGED <<part, policyVars, lspVars, cloudVars, tablesVars, flowsVars,
                    bucketsVars, hardwareVars, aggregateVars, vlanVars>>
  \/ /\ part = "tables" /\ Tables!Next
     /\ UNCHANGED <<part, policyVars, lspVars, cloudVars, gueVars, flowsVars,
                    bucketsVars, hardwareVars, aggregateVars, vlanVars>>
  \/ /\ part = "flows" /\ Flows!Next
     /\ UNCHANGED <<part, policyVars, lspVars, cloudVars, gueVars, tablesVars,
                    bucketsVars, hardwareVars, aggregateVars, vlanVars>>
  \/ /\ part = "buckets" /\ Tables!NextGroup
     /\ UNCHANGED <<part, policyVars, lspVars, cloudVars, gueVars, tablesVars,
                    flowsVars, hardwareVars, aggregateVars, vlanVars>>
  \/ /\ part = "hardware" /\ Hardware!Next
     /\ UNCHANGED <<part, policyVars, lspVars, cloudVars, gueVars, tablesVars,
                    flowsVars, bucketsVars, aggregateVars, vlanVars>>
  \/ /\ part = "aggregate" /\ Aggregate!Next
     /\ UNCHANGED <<part, policyVars, lspVars, cloudVars, gueVars, tablesVars,
                    flowsVars, bucketsVars, hardwareVars, vlanVars>>
  \/ /\ part = "vlan" /\ Vlans!Next
     /\ UNCHANGED <<part, policyVars, lspVars, cloudVars, gueVars, tablesVars,
                    flowsVars, bucketsVars, hardwareVars, aggregateVars>>

vars == <<part, policyVars, lspVars, cloudVars, gueVars, tablesVars, flowsVars,
          bucketsVars, hardwareVars, aggregateVars, vlanVars>>
Spec == Init /\ [][Next]_vars

-----------------------------------------------------------------------------
\* What the calls asked for is what the device does once everything is sent:
\* packets meet the policy asked for last, whose rules select the intended
\* instances; LSPs, cross connects, next hop groups, decapsulations and bindings
\* are there, none is lost to a later call and none outlives its removal; names
\* resolve and groups are told apart.
ForwardingAsAsked ==
  CASE part = "policy" -> Policy!PacketsSelected /\ Policy!RequestInOrder
    [] part = "lsp" -> Lsps!LspsAsAsked /\ Lsps!CrossConnectAsAsked
    [] part = "cloud" -> Cloud!NamesResolve /\ Cloud!GroupsToldApart /\ Cloud!ServicesComplete
    [] part = "gue" -> /\ Gue!GroupsAsAsked /\ Gue!DecapsAsAsked
                       /\ Gue!PoliciesAsAsked /\ Gue!AddressesBalanced
    [] OTHER -> TRUE

\* The full scale test: no gRIBI entry refers to one that is not there, wherever
\* the programming stopped; packets of every flow leave as its scenario expects,
\* before and after the primary subinterfaces go down; the device is left as found;
\* groups have the widths and weights that the percentages ask for, and weights
\* that could be equal are not.
ScaleForwards ==
  CASE part = "tables" -> Tables!ReferencesExist /\ Tables!ForwardedAsExpected /\ Tables!LeftAsFound
    [] part = "flows" -> Flows!ScenarioReached /\ Flows!FlowsAreCounted
    [] part = "buckets" -> Tables!FollowsBuckets /\ Tables!WeightsAddUp /\ Tables!WcmpIsUneven
    [] OTHER -> TRUE

\* Once everything is sent the device is as the calls asked, in whatever order
\* they came: it runs the profile that was selected last with that text's own
\* contents, has the instances whose names were returned, has every port in the
\* aggregate it was last given to, which exists, with the subinterfaces asked
\* for; access ports are in a routed VLAN, magic next hops resolve, and the
\* segment size is undone.
DeviceAsAsked ==
  CASE part = "hardware" -> Hardware!SystemProfileIsItsOwn /\ Hardware!ReturnedVRFsExist
    [] part = "aggregate" -> /\ Aggregate!MembersAsAsked /\ Aggregate!MembersHaveTheirLag
                             /\ Aggregate!SubinterfacesAsAsked
    [] part = "vlan" -> /\ Vlans!AccessPortsConnected /\ Vlans!MagicHopsResolve
                        /\ Vlans!MaxSegmentSizeUndone
    [] OTHER -> TRUE

\* No step leaves a minimum of links behind, attaches a subinterface that is not
\* there or leaves one out, or takes an address from a port.
StepsKeepTheRest ==
  [][/\ part = "aggregate" => Aggregate!MinLinksStep /\ Aggregate!AttachStep
     /\ part = "vlan" => Vlans!AddressStep]_vars
=============================================================================
