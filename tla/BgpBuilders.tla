---------------------------- MODULE BgpBuilders ----------------------------
(***************************************************************************)
(* The functions of internal/cfgplugins/bgp.go that build a BGP            *)
(* configuration call by call: CreateBGPNeighbors, ConfigureDUTBGP with    *)
(* AppendBGPNeighbor, ConfigureBGPNeighbor, and the options of             *)
(* ConfigureGlobal, ConfigurePeerGroup and ConfigurePeer.                  *)
(*                                                                         *)
(* A configuration is a function from paths to values, the later of two    *)
(* merged ones first.  ConfigureDUTBGP and AppendBGPNeighbor put the same  *)
(* object into the batch again and again: the batch holds a reference to   *)
(* it, and the object is read when the batch is set.  Command lines and    *)
(* the neighbor limits go to the device at once.                           *)
(***************************************************************************)
EXTENDS Naturals, Sequences, FiniteSets, TLC

CONSTANTS Plans   \* the vendor, its deviations and the calls of a test

VARIABLES plan, next, bgp, batch, device, cli, result

vars == <<plan, next, bgp, batch, device, cli, result>>

Fams == {"v4", "v6"}
Has(d) == d \in plan.dev
Call == plan.calls[next]

\* A configuration from pairs of a path and a value.
Leaves(S) == [p \in {x[1] : x \in S} |-> (CHOOSE x \in S : x[1] = p)[2]]

Glob(leaf) == <<"global", leaf>>
GlobAfi(f, leaf) == <<"global", "afi", f, leaf>>
Group(g, leaf) == <<"pg", g, leaf>>
GroupAfi(g, f, leaf) == <<"pg", g, "afi", f, leaf>>
Nbr(a, leaf) == <<"nbr", a, leaf>>
NbrAfi(a, f, leaf) == <<"nbr", a, "afi", f, leaf>>

Init ==
    /\ plan \in Plans
    /\ next = 1
    /\ bgp = << >>
    /\ batch = << >>
    /\ device = << >>
    /\ cli = {}
    /\ result = "running"

Calling(op) == result = "running" /\ next <= Len(plan.calls) /\ Call.op = op

\* The call returned: the test goes on.
Returned == next' = next + 1 /\ UNCHANGED result
\* An error, or t.Fatalf: the test stops.
Stopped == result' = "stopped" /\ UNCHANGED next

----------------------------------------------------------------------------
(* CreateBGPNeighbors.                                                     *)

sameAS(nbrs) == \A n, o \in nbrs : n.local = o.local /\ n.peer = o.peer

\* The group a neighbor of a family goes to.
GroupOf(c, f) == IF f = "v4" THEN c.g4 ELSE c.g6

\* Mutant: both families of a Juniper's neighbors use the IPv4 group.
handleMultipathDeviation_V4Twice(c) ==
    IF Has("enable_multipath_under_afi_safi")
    THEN [err |-> plan.vendor # "CISCO",
          cfg |-> Leaves({<<GlobAfi(f, "ebgpMaxPaths"), 2>> : f \in Fams})]
    ELSE IF Has("multipath_unsupported_neighbor_or_afisafi")
    THEN [err |-> plan.vendor # "JUNIPER",
          cfg |-> Leaves({<<Group(c.g4, "multipath"), TRUE>>})]
    ELSE [err |-> FALSE,
          cfg |-> Leaves({<<GlobAfi(f, "ebgpMaxPaths"), 2>> : f \in Fams}
                         \cup {<<GroupAfi(GroupOf(c, f), f, "multipath"), TRUE>> : f \in Fams})]

handleMultipathDeviation(c) ==
    IF Has("enable_multipath_under_afi_safi")
    THEN [err |-> plan.vendor # "CISCO",
          cfg |-> Leaves({<<GlobAfi(f, "ebgpMaxPaths"), 2>> : f \in Fams})]
    ELSE IF Has("multipath_unsupported_neighbor_or_afisafi")
    THEN [err |-> plan.vendor # "JUNIPER",
          cfg |-> Leaves({<<Group(GroupOf(c, f), "multipath"), TRUE>> : f \in Fams})]
    ELSE [err |-> FALSE,
          cfg |-> Leaves({<<GlobAfi(f, "ebgpMaxPaths"), 2>> : f \in Fams}
                         \cup {<<GroupAfi(GroupOf(c, f), f, "multipath"), TRUE>> : f \in Fams})]

\* The object CreateBGPNeighbors fills for the neighbors of one call.
NeighborsRoot(c) ==
    LET first == CHOOSE n \in c.nbrs : TRUE
        fam(n) == IF n.isV4 THEN "v4" ELSE "v6"
    IN Leaves({<<Glob("as"), first.local>>, <<Glob("routerId"), c.routerID>>}
              \cup {<<GlobAfi(f, "enabled"), TRUE>> : f \in Fams}
              \cup {<<Group(GroupOf(c, f), "peerAs"), first.peer>> : f \in Fams}
              \cup {<<GroupAfi(GroupOf(c, f), f, "enabled"), TRUE>> : f \in Fams}
              \cup {<<GroupAfi(GroupOf(c, f), f, dir), <<"ALLOW">> >> :
                      f \in Fams, dir \in {"import", "export"}}
              \cup {<<Nbr(n.ip, "peerAs"), first.peer>> : n \in c.nbrs}
              \cup {<<Nbr(n.ip, "enabled"), TRUE>> : n \in c.nbrs}
              \cup {<<Nbr(n.ip, "group"), GroupOf(c, fam(n))>> : n \in c.nbrs}
              \cup {<<NbrAfi(n.ip, fam(n), "enabled"), TRUE>> : n \in c.nbrs})

\* handleMaxPrefixesDeviation: no limit, by a Set of its own for each neighbor.
handleMaxPrefixesDeviation(c) ==
    IF Has("bgp_missing_oc_max_prefixes_configuration")
    THEN [err |-> plan.vendor # "ARISTA",
          cfg |-> Leaves({<<Nbr(n.ip, "maxPrefixes"), 0>> : n \in c.nbrs})]
    ELSE [err |-> FALSE, cfg |-> << >>]

\* Mutant: the limits are sent before the multipath deviation is looked at.
CreateBGPNeighbors_LimitsFirst ==
    /\ Calling("create")
    /\ LET c == Call
           mp == handleMultipathDeviation(c)
           limit == handleMaxPrefixesDeviation(c)
       IN \/ c.nbrs = {} /\ Returned /\ UNCHANGED <<batch, device>>
          \/ /\ c.nbrs # {} /\ (~sameAS(c.nbrs) \/ mp.err \/ limit.err)
             /\ Stopped
             /\ device' = IF sameAS(c.nbrs) /\ ~limit.err THEN limit.cfg @@ device ELSE device
             /\ UNCHANGED batch
          \/ /\ c.nbrs # {} /\ sameAS(c.nbrs) /\ ~mp.err /\ ~limit.err
             /\ device' = limit.cfg @@ device
             /\ batch' = Append(batch, [mode |-> "update", cfg |-> mp.cfg @@ NeighborsRoot(c)])
             /\ Returned
    /\ UNCHANGED <<plan, bgp, cli>>

\* Mutant: the protocol is replaced.
CreateBGPNeighbors_Replace ==
    /\ Calling("create")
    /\ LET c == Call
           mp == handleMultipathDeviation(c)
           limit == handleMaxPrefixesDeviation(c)
       IN \/ c.nbrs = {} /\ Returned /\ UNCHANGED <<batch, device>>
          \/ /\ c.nbrs # {} /\ (~sameAS(c.nbrs) \/ mp.err \/ limit.err)
             /\ Stopped
             /\ UNCHANGED <<batch, device>>
          \/ /\ c.nbrs # {} /\ sameAS(c.nbrs) /\ ~mp.err /\ ~limit.err
             /\ device' = limit.cfg @@ device
             /\ batch' = Append(batch, [mode |-> "replace", cfg |-> mp.cfg @@ NeighborsRoot(c)])
             /\ Returned
    /\ UNCHANGED <<plan, bgp, cli>>

CreateBGPNeighbors ==
    /\ Calling("create")
    /\ LET c == Call
           mp == handleMultipathDeviation(c)
           limit == handleMaxPrefixesDeviation(c)
       IN \/ c.nbrs = {} /\ Returned /\ UNCHANGED <<batch, device>>
          \/ /\ c.nbrs # {} /\ (~sameAS(c.nbrs) \/ mp.err \/ limit.err)
             /\ Stopped
             /\ UNCHANGED <<batch, device>>
          \/ /\ c.nbrs # {} /\ sameAS(c.nbrs) /\ ~mp.err /\ ~limit.err
             /\ device' = limit.cfg @@ device
             /\ batch' = Append(batch, [mode |-> "update", cfg |-> mp.cfg @@ NeighborsRoot(c)])
             /\ Returned
    /\ UNCHANGED <<plan, bgp, cli>>

----------------------------------------------------------------------------
(* ConfigureDUTBGP, AppendBGPNeighbor and ConfigureBGPNeighbor.            *)

Reference == [mode |-> "reference", cfg |-> << >>]

\* The maximum-paths leaves, where the model has them.
EcmpLeaves(c) ==
    IF c.ecmp = 0 \/ Has("multipath_unsupported_neighbor_or_afisafi") THEN {}
    ELSE {<<GlobAfi(f, leaf), c.ecmp>> : f \in Fams, leaf \in {"ebgpMaxPaths", "ibgpMaxPaths"}}
         \cup {<<GlobAfi(f, "multipath"), TRUE>> : f \in Fams}
         \cup (IF Has("skip_setting_allow_multiple_as") THEN {}
               ELSE {<<GlobAfi(f, "allowMultipleAs"), TRUE>> : f \in Fams})

\* The command lines that go to the device at once.
BgpCommands(c) ==
    (IF c.maxRoutes THEN {<<"maximum-routes", g>> : g \in c.groups} ELSE {})
    \cup (IF c.ecmp > 0 /\ Has("multipath_unsupported_neighbor_or_afisafi")
          THEN {<<"maximum-paths", f, c.ecmp>> : f \in Fams} ELSE {})

\* The lines are those of EOS: another vendor refuses them.
ConfigureDUTBGP ==
    /\ Calling("dut")
    /\ \/ /\ BgpCommands(Call) # {} /\ plan.vendor # "ARISTA"
          /\ Stopped
          /\ UNCHANGED <<bgp, batch, cli>>
       \/ /\ BgpCommands(Call) = {} \/ plan.vendor = "ARISTA"
          /\ cli' = cli \cup BgpCommands(Call)
          /\ bgp' = Leaves({<<Glob("as"), Call.as>>, <<Glob("routerId"), Call.routerID>>}
                           \cup {<<GlobAfi(f, "enabled"), TRUE>> : f \in Fams}
                           \cup EcmpLeaves(Call))
          /\ batch' = Append(batch, Reference)
          /\ Returned
    /\ UNCHANGED <<plan, device>>

\* Mutant: the group's name gets a separator.
GroupName_Separated(port, f) == <<port, "-", f>>

\* The port's name and BGP-PEER-GROUP-V4 or -V6.
GroupName(port, f) == <<port, f>>

\* Mutant: the other family stays as the group has it.
OwnFamilyOnly_Unset(a, f) == {<<NbrAfi(a, f, "enabled"), TRUE>>}

\* A neighbor has its own family and not the other.
OwnFamilyOnly(a, f) ==
    {<<NbrAfi(a, h, "enabled"), h = f>> : h \in Fams}

NeighborLeaves(c, f) ==
    LET g == GroupName(c.port, f)
        policy == IF c.policy = "nil" THEN "ALLOW" ELSE c.policy
        a == c.ip[f]
    IN {<<Group(g, "peerAs"), c.as>>, <<GroupAfi(g, f, "enabled"), TRUE>>}
       \cup {<<GroupAfi(g, f, dir), <<policy>> >> : dir \in {"import", "export"}}
       \cup (IF ~c.multipath THEN {}
             ELSE IF Has("multipath_unsupported_neighbor_or_afisafi")
             THEN {<<Group(g, "multipath"), TRUE>>}
             ELSE {<<GroupAfi(g, f, "multipath"), TRUE>>})
       \cup {<<Nbr(a, "peerAs"), c.as>>, <<Nbr(a, "enabled"), TRUE>>, <<Nbr(a, "group"), g>>}
       \cup OwnFamilyOnly(a, f)
       \cup (IF c.isLag THEN {<<Nbr(a, "multihopTtl"), 5>>} ELSE {})

AppendBGPNeighbor ==
    /\ Calling("append")
    /\ bgp' = Leaves(UNION {NeighborLeaves(Call, f) : f \in Fams}) @@ bgp
    /\ batch' = Append(batch, Reference)
    /\ Returned
    /\ UNCHANGED <<plan, device, cli>>

\* The caller's network instance gets one neighbor; the caller sends it.
ConfigureBGPNeighbor ==
    /\ Calling("neighbor")
    /\ LET c == Call
       IN bgp' = Leaves({<<Glob("as"), c.routerAS>>, <<Glob("routerId"), c.routerID>>,
                         <<Nbr(c.ip, "peerAs"), c.as>>, <<Nbr(c.ip, "enabled"), TRUE>>,
                         <<Nbr(c.ip, "sendCommunity"), {"NONE"}>>,
                         <<NbrAfi(c.ip, c.fam, "enabled"), TRUE>>,
                         <<NbrAfi(c.ip, c.fam, "sendDefault"), TRUE>>}
                        \cup {<<Nbr(c.ip, dir), <<"ACCEPT_ROUTE">> >> : dir \in {"import", "export"}}
                        \cup {<<NbrAfi(c.ip, c.fam, leaf), c.addPaths>> :
                                leaf \in {"addPathsReceive", "addPathsSend"}})
                 @@ bgp
    /\ batch' = Append(batch, Reference)
    /\ Returned
    /\ UNCHANGED <<plan, device, cli>>

----------------------------------------------------------------------------
(* The options.                                                            *)

WithGlobalEBGPMultipath(n) ==
    (IF Has("skip_setting_allow_multiple_as") THEN {<<Glob("allowMultipleAs"), TRUE>>} ELSE {})
    \cup (IF Has("enable_multipath_under_afi_safi")
          THEN {<<GlobAfi(f, "ebgpMaxPaths"), n>> : f \in Fams}
          ELSE {<<Glob("ebgpMaxPaths"), n>>})
    \cup (IF Has("skip_afi_safi_path_for_bgp_multiple_as") THEN {}
          ELSE {<<GlobAfi(f, "ebgpMaxPaths"), n>> : f \in Fams}
               \cup (IF Has("skip_setting_allow_multiple_as")
                     THEN {<<GlobAfi(f, "allowMultipleAs"), TRUE>> : f \in Fams} ELSE {}))

\* WithAS, WithRouterID, WithGlobalGracefulRestart, WithGlobalAfiSafiEnabled and
\* WithExternalRouteDistance, then the multipath option if the caller gives it.
ConfigureGlobal ==
    /\ Calling("global")
    /\ LET c == Call
       IN bgp' = Leaves({<<Glob("as"), c.as>>}
                        \cup (IF c.routerID = "" THEN {} ELSE {<<Glob("routerId"), c.routerID>>})
                        \cup {<<Glob("gracefulRestart"), c.gr>>}
                        \cup {<<GlobAfi(f, "enabled"), TRUE>> : f \in Fams}
                        \cup (IF Has("bgp_distance_oc_path_unsupported") THEN {}
                              ELSE {<<Glob("externalDistance"), c.distance>>})
                        \cup (IF c.ecmp = 0 THEN {} ELSE WithGlobalEBGPMultipath(c.ecmp)))
                 @@ bgp
    /\ Returned
    /\ UNCHANGED <<plan, batch, device, cli>>

Directions == {"import", "export"}

\* The import and export policies at a place; delete_linkbw comes first.
Policies(place, imp, exp, linkBW) ==
    (IF imp = "" THEN {} ELSE {<<place["import"], <<imp>> >>})
    \cup (IF exp = "" THEN {}
          ELSE {<<place["export"], IF linkBW THEN <<"delete_linkbw", exp>> ELSE <<exp>> >>})

\* WithPGMultipath: where the group's multipath is enabled, by vendor.
WithPGMultipath(g, f) ==
    (IF Has("skip_bgp_send_community_type") THEN {}
     ELSE {<<Group(g, "sendCommunity"), {"STANDARD", "EXTENDED"}>>})
    \cup (CASE plan.vendor = "NOKIA" -> {}
            [] plan.vendor = "JUNIPER" ->
                 {<<Group(g, "multipath"), TRUE>>, <<Group(g, "allowMultipleAs"), TRUE>>}
            [] OTHER -> {<<GroupAfi(g, f, "multipath"), TRUE>>})

WithPGGracefulRestart(g, f, gr) ==
    {<<Group(g, "gracefulRestart"), gr>>}
    \cup (IF gr /\ ~Has("bgp_gr_helper_disable_unsupported")
          THEN {<<Group(g, "helperOnly"), FALSE>>} ELSE {})
    \cup (IF Has("bgp_graceful_restart_under_afi_safi_unsupported") THEN {}
          ELSE {<<GroupAfi(g, f, "gracefulRestart"), TRUE>>})

\* The options in the order the scale test gives them.
ConfigurePeerGroup ==
    /\ Calling("group")
    /\ LET c == Call
           atGroup == [dir \in Directions |-> Group(c.name, dir)]
       IN bgp' = Leaves({<<Group(c.name, "peerAs"), c.as>>,
                         <<Group(c.name, "description"), c.name>>,
                         <<GroupAfi(c.name, c.fam, "enabled"), TRUE>>}
                        \cup (IF c.hold = 0 THEN {} ELSE {<<Group(c.name, "holdTime"), c.hold>>})
                        \cup WithPGGracefulRestart(c.name, c.fam, c.gr)
                        \cup (IF c.transport = "" THEN {}
                              ELSE {<<Group(c.name, "localAddress"), c.transport>>})
                        \cup (IF c.multipath THEN WithPGMultipath(c.name, c.fam) ELSE {})
                        \cup (IF Has("skip_bgp_send_community_type") THEN {}
                              ELSE {<<Group(c.name, "sendCommunity"), {"STANDARD", "EXTENDED"}>>})
                        \cup (IF Has("route_policy_under_afi_unsupported")
                              THEN Policies(atGroup, c.imp, c.exp, c.linkBW) ELSE {}))
                 @@ bgp
    /\ Returned
    /\ UNCHANGED <<plan, batch, device, cli>>

\* Mutant: a device without policies under a family gets none.
PeerPolicies_AfiOnly(c) ==
    LET atAfi == [dir \in Directions |-> NbrAfi(c.ip, c.fam, dir)]
    IN IF Has("route_policy_under_afi_unsupported") THEN {}
       ELSE Policies(atAfi, c.imp, c.exp, c.linkBW)

\* WithPeerAfiSafiEnabled and ApplyPeerPerAfiSafiRoutingPolicy: under the family,
\* or on the neighbor where the device has no policy under a family.
PeerPolicies(c) ==
    LET atAfi == [dir \in Directions |-> NbrAfi(c.ip, c.fam, dir)]
        atNbr == [dir \in Directions |-> Nbr(c.ip, dir)]
    IN IF Has("route_policy_under_afi_unsupported")
       THEN Policies(atNbr, c.imp, c.exp, c.linkBW)
       ELSE Policies(atAfi, c.imp, c.exp, c.linkBW)

\* WithPeerGroup, then the two above; the caller sends the object afterwards.
ConfigurePeer ==
    /\ Calling("peer")
    /\ LET c == Call
       IN bgp' = Leaves({<<Nbr(c.ip, "group"), c.group>>, <<Nbr(c.ip, "peerAs"), c.as>>,
                         <<Nbr(c.ip, "enabled"), TRUE>>}
                        \cup OwnFamilyOnly(c.ip, c.fam)
                        \cup PeerPolicies(c))
                 @@ bgp
    /\ batch' = IF \E i \in DOMAIN batch : batch[i] = Reference THEN batch ELSE Append(batch, Reference)
    /\ Returned
    /\ UNCHANGED <<plan, device, cli>>

----------------------------------------------------------------------------
(* The batch.                                                              *)

\* What the device has after one entry of the batch.
Applied(entry, cfg) ==
    CASE entry.mode = "reference" -> bgp @@ cfg
      [] entry.mode = "replace" -> entry.cfg
      [] OTHER -> entry.cfg @@ cfg

\* ... and after all of them, in their order.
AfterEntries ==
    LET after[n \in 0..Len(batch)] == IF n = 0 THEN device ELSE Applied(batch[n], after[n - 1])
    IN after[Len(batch)]

Set ==
    /\ result = "running" /\ next = Len(plan.calls) + 1
    /\ device' = AfterEntries
    /\ result' = "set"
    /\ UNCHANGED <<plan, next, bgp, batch, cli>>

Next ==
    \/ CreateBGPNeighbors \/ ConfigureDUTBGP \/ AppendBGPNeighbor \/ ConfigureBGPNeighbor
    \/ ConfigureGlobal \/ ConfigurePeerGroup \/ ConfigurePeer \/ Set

Spec == Init /\ [][Next]_vars

----------------------------------------------------------------------------
(* Properties.                                                             *)

On(p) == p \in DOMAIN device
Neighbors == {p[2] : p \in {q \in DOMAIN device : q[1] = "nbr"}}
Groups == {p[2] : p \in {q \in DOMAIN device : q[1] = "pg"}}
Calls(op) == {plan.calls[i] : i \in {j \in DOMAIN plan.calls : plan.calls[j].op = op}}

\* The policy a neighbor's family gets: its own before its group's, the family's
\* before the whole.
Effective(a, f, dir) ==
    LET g == device[Nbr(a, "group")]
        places == <<NbrAfi(a, f, dir), Nbr(a, dir), GroupAfi(g, f, dir), Group(g, dir)>>
        there == SelectSeq(places, On)
    IN IF there = << >> THEN << >> ELSE device[there[1]]

\* A neighbor CreateBGPNeighbors made has no prefix limit where the device's
\* limit has to be lifted, although the limit is lifted by a request of its own
\* before the neighbor is sent.
LimitsLifted ==
    (result = "set" /\ Has("bgp_missing_oc_max_prefixes_configuration")) =>
      \A c \in Calls("create") : \A n \in c.nbrs :
        On(Nbr(n.ip, "maxPrefixes")) /\ device[Nbr(n.ip, "maxPrefixes")] = 0

\* Every neighbor is in a group the device has, with its own family and no other
\* enabled on it, and that family enabled in the group.
NeighborsInGroups ==
    result = "set" =>
      \A a \in Neighbors :
        On(Nbr(a, "group")) =>
          \A f \in Fams :
            LET enabled == On(NbrAfi(a, f, "enabled")) /\ device[NbrAfi(a, f, "enabled")]
            IN /\ enabled => On(GroupAfi(device[Nbr(a, "group")], f, "enabled"))
               /\ (\E c \in Calls("append") : c.ip[f] = a) => enabled
               /\ (\E c \in Calls("append") : a \in {c.ip[h] : h \in Fams \ {f}}) =>
                    On(NbrAfi(a, f, "enabled")) /\ ~device[NbrAfi(a, f, "enabled")]

\* A neighbor ConfigurePeer made imports and exports by the policies it was given
\* and not by its group's, wherever the device keeps policies.
PeersPolicied ==
    result = "set" =>
      \A c \in Calls("peer") :
        /\ c.imp # "" => Effective(c.ip, c.fam, "import") = <<c.imp>>
        /\ c.exp # "" => Effective(c.ip, c.fam, "export")
                           = IF c.linkBW THEN <<"delete_linkbw", c.exp>> ELSE <<c.exp>>

\* The groups whose limit ConfigureDUTBGP lifts by name are the ones AppendBGPNeighbor
\* makes.
MaxRoutesNamed ==
    (result = "set" /\ \E c \in Calls("dut") : c.maxRoutes) =>
      {x[2] : x \in {y \in cli : y[1] = "maximum-routes"}} = Groups

\* With several paths asked for, each group CreateBGPNeighbors or AppendBGPNeighbor makes for them, or
\* the address family of a device that has it only there, takes several.
MultipathEffective ==
    result = "set" =>
      /\ \A c \in Calls("create") : \A f \in Fams :
           c.nbrs # {} =>
             \/ On(Group(GroupOf(c, f), "multipath"))
             \/ On(GlobAfi(f, "ebgpMaxPaths")) /\ device[GlobAfi(f, "ebgpMaxPaths")] = 2
      /\ \A c \in Calls("dut") : c.ecmp > 0 =>
           \A f \in Fams : \/ On(GlobAfi(f, "ebgpMaxPaths"))
                           \/ <<"maximum-paths", f, c.ecmp>> \in cli

\* A CreateBGPNeighbors that returns an error has changed neither the batch nor
\* the device.
ErrorStep ==
    Calling("create") /\ result' = "stopped" => UNCHANGED <<batch, device>>
=============================================================================
