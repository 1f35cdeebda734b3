---------------------------- MODULE CloudPolicies ----------------------------
(***************************************************************************)
(* The configuration that encapsulates customer traffic in MPLS over GRE   *)
(* (internal/cfgplugins/policyforwarding.go and staticnexthop.go):         *)
(* next hop groups, the traffic policies that redirect to them, and the    *)
(* binding of the policies to subinterfaces.  Nothing ties the three       *)
(* together but the names each helper makes up for itself.                 *)
(*                                                                         *)
(* A plan is one test's use: fixed texts for the traffic types it names,   *)
(* or Count subinterfaces over NextHopGroupCount groups; by vendor         *)
(* commands or by OpenConfig.                                              *)
(***************************************************************************)
EXTENDS Integers, FiniteSets, TLC

CONSTANTS
    Plans,      \* [scale, oc, vendor, types, count, nhgs]
    Sources,    \* the number of tunnel sources
    OctetMax    \* the last value of an octet that is used (254 in the code)

VARIABLES
    plan, todo,
    groups,     \* next hop group -> its entries
    policies,   \* policy -> the group it redirects each family to, or none
    binds,      \* subinterface -> policy
    arp, qos,   \* subinterfaces with local proxy ARP, with a QoS class
    globals,    \* what is set for the whole device
    crashed     \* the test stopped at an index out of range

vars == <<plan, todo, groups, policies, binds, arp, qos, globals, crashed>>

Families == {"v4", "v6"}
none == <<"none", 0>>
Entry(label, dst, src) == [label |-> label, dst |-> dst, src |-> src]

\* The traffic types of the fixed texts and the subinterface each is for.
Vlan(type) == CASE type = "v4" -> 20 [] type = "v6" -> 21
                [] type = "dualstack" -> 22 [] type = "multicloudv4" -> 23
FamiliesOf(type) == CASE type = "v6" -> {"v6"} [] type = "dualstack" -> Families
                      [] OTHER -> {"v4"}

Interfaces == IF plan.scale THEN 1..plan.count ELSE {Vlan(type) : type \in plan.types}
Steps == {"proxy", "qosif", "apply", "mpls", "qos", "labels", "groups", "policies"}

Init ==
    /\ plan \in Plans
    /\ todo = Steps
    /\ groups = <<>> /\ policies = <<>> /\ binds = <<>>
    /\ arp = {} /\ qos = {} /\ globals = {}
    /\ crashed = FALSE

Do(step) == step \in todo /\ ~crashed /\ todo' = todo \ {step}
Typed == ~plan.oc /\ plan.vendor = "ARISTA"

------------------------------------------------------------------------------
\* The policy a fixed text defines: it redirects the families of its type.
PolicyText(type) ==
    [f \in Families |-> IF f \in FamiliesOf(type) THEN <<f, Vlan(type)>> ELSE none]

\* The group of a fixed text: sixteen entries with the label and the tunnel
\* destination of the group.
GroupText(type, f) ==
    LET n == (Vlan(type) - 19) + (IF f = "v6" /\ type = "dualstack" THEN 10 ELSE 0) IN
    {Entry(n, <<1, n>>, s) : s \in 1..Sources}

NextHopGroupConfig ==
    /\ Do("groups") /\ ~plan.scale
    /\ groups' = IF Typed
                 THEN [g \in UNION {{<<f, Vlan(type)>> : f \in FamiliesOf(type)} : type \in plan.types} |->
                        LET type == CHOOSE ty \in plan.types : Vlan(ty) = g[2]
                        IN GroupText(type, g[1])]
                 ELSE IF plan.oc
                 THEN <<"MPLS_in_GRE_Encap", 0>> :> {Entry(0, <<1, 1>>, s) : s \in 1..2}
                 ELSE groups
    /\ UNCHANGED <<plan, policies, binds, arp, qos, globals, crashed>>

\* With OpenConfig, one policy whose rules have no action yet.
RulesAndActions == <<"customer1", 0>> :> [f \in Families |-> none]

PolicyForwardingConfig ==
    /\ Do("policies") /\ ~plan.scale
    /\ policies' = IF Typed
                   THEN [p \in {<<"tp_cloud_id_3", Vlan(type)>> : type \in plan.types} |->
                          PolicyText(CHOOSE ty \in plan.types : Vlan(ty) = p[2])]
                   ELSE IF plan.oc THEN RulesAndActions ELSE policies
    /\ UNCHANGED <<plan, groups, binds, arp, qos, globals, crashed>>

InterfacePolicyForwardingConfig ==
    /\ Do("apply") /\ ~plan.scale
    /\ binds' = IF Typed THEN [i \in Interfaces |-> <<"tp_cloud_id_3", i>>]
                ELSE IF plan.oc THEN [i \in Interfaces |-> <<"customer1", 0>>] ELSE binds
    /\ UNCHANGED <<plan, groups, policies, arp, qos, globals, crashed>>

------------------------------------------------------------------------------
\* A plausible slip: the octet restarts without a carry.
TunnelDest_NoCarry(i) == <<1, 1 + ((i - 1) % OctetMax)>>

\* The i-th tunnel destination: the last octet runs from 1 to OctetMax and then
\* carries into the third.
TunnelDest(i) == <<1 + (i - 1) \div OctetMax, 1 + ((i - 1) % OctetMax)>>

\* With OpenConfig every iteration writes the same next hop, and takes the
\* source one position too far.
NextHopGroupConfigScale ==
    /\ Do("groups") /\ plan.scale
    /\ IF plan.oc
       THEN /\ groups' = IF plan.count >= Sources THEN groups
                         ELSE <<"MPLS_in_GRE_Encap", 0>> :>
                                {Entry(0, TunnelDest(plan.count), plan.count + 1)}
            /\ crashed' = (plan.count >= Sources)
       ELSE /\ groups' = IF Typed
                         THEN [g \in {<<"nh_vlan", i>> : i \in 1..plan.nhgs} |->
                                {Entry(g[2], TunnelDest(g[2]), s) : s \in 1..Sources}]
                         ELSE groups
            /\ UNCHANGED crashed
    /\ UNCHANGED <<plan, policies, binds, arp, qos, globals>>

Redirect(g) == [f \in Families |-> <<"nh_vlan", g>>]

\* A plausible slip: the second loop starts one too early.
PolicyLoops_Early ==
    [p \in {<<"tp_cloud_id", i>> : i \in plan.count - plan.nhgs .. plan.count} |->
        Redirect(p[2] - plan.nhgs)]
    @@ [p \in {<<"tp_cloud_id", i>> : i \in 1..plan.nhgs} |-> Redirect(p[2])]

\* Two loops: the first policies use the group of their number, the last ones
\* the group of their number less the number of groups.
PolicyLoops ==
    [p \in {<<"tp_cloud_id", i>> : i \in plan.count - plan.nhgs + 1 .. plan.count} |->
        Redirect(p[2] - plan.nhgs)]
    @@ [p \in {<<"tp_cloud_id", i>> : i \in 1..plan.nhgs} |-> Redirect(p[2])]

\* With OpenConfig the loop has no body; the subtree is replaced by the
\* caller's, which is empty, and any binding goes with it.
PolicyForwardingConfigScale ==
    /\ Do("policies") /\ plan.scale
    /\ policies' = IF Typed THEN PolicyLoops ELSE policies
    /\ binds' = IF plan.oc THEN <<>> ELSE binds
    /\ UNCHANGED <<plan, groups, arp, qos, globals, crashed>>

InterfacePolicyForwardingConfigScale ==
    /\ Do("apply") /\ plan.scale
    /\ binds' = IF Typed THEN [i \in Interfaces |-> <<"tp_cloud_id", i>>]
                ELSE IF plan.oc THEN 10 :> <<"customer1", 0>> ELSE binds
    /\ UNCHANGED <<plan, groups, policies, arp, qos, globals, crashed>>

------------------------------------------------------------------------------
\* InterfacelocalProxyConfig does nothing with OpenConfig.
InterfacelocalProxyConfig ==
    /\ Do("proxy") /\ ~plan.scale
    /\ arp' = IF Typed THEN Interfaces ELSE arp
    /\ UNCHANGED <<plan, groups, policies, binds, qos, globals, crashed>>

\* A plausible slip: the position is used in the commands, too.
InterfaceLocalProxyConfigScale_Position ==
    /\ Do("proxy") /\ plan.scale
    /\ arp' = IF Typed \/ plan.oc THEN {i - 1 : i \in Interfaces} ELSE arp
    /\ UNCHANGED <<plan, groups, policies, binds, qos, globals, crashed>>

\* With OpenConfig the path has the position of the interface in the list, the
\* value its number.
InterfaceLocalProxyConfigScale ==
    /\ Do("proxy") /\ plan.scale
    /\ arp' = IF Typed THEN Interfaces
              ELSE IF plan.oc THEN {i - 1 : i \in Interfaces} ELSE arp
    /\ UNCHANGED <<plan, groups, policies, binds, qos, globals, crashed>>

\* InterfaceQosClassificationConfig and ...Scale: commands only.
InterfaceQosClassificationConfig ==
    /\ Do("qosif")
    /\ qos' = IF Typed THEN Interfaces ELSE qos
    /\ UNCHANGED <<plan, groups, policies, binds, arp, globals, crashed>>

\* MplsConfig, QosClassificationConfig and LabelRangeConfig.
MplsConfig ==
    /\ Do("mpls")
    /\ globals' = IF Typed THEN globals \cup {"mpls ip"} ELSE globals
    /\ UNCHANGED <<plan, groups, policies, binds, arp, qos, crashed>>

QosClassificationConfig ==
    /\ Do("qos")
    /\ globals' = IF Typed \/ plan.oc THEN globals \cup {"af3"} ELSE globals
    /\ UNCHANGED <<plan, groups, policies, binds, arp, qos, crashed>>

LabelRangeConfig ==
    /\ Do("labels")
    /\ globals' = IF Typed \/ plan.oc THEN globals \cup {"label range"} ELSE globals
    /\ UNCHANGED <<plan, groups, policies, binds, arp, qos, crashed>>

Next ==
    \/ NextHopGroupConfig \/ PolicyForwardingConfig \/ InterfacePolicyForwardingConfig
    \/ NextHopGroupConfigScale \/ PolicyForwardingConfigScale
    \/ InterfacePolicyForwardingConfigScale
    \/ InterfacelocalProxyConfig \/ InterfaceLocalProxyConfigScale
    \/ InterfaceQosClassificationConfig
    \/ MplsConfig \/ QosClassificationConfig \/ LabelRangeConfig

Spec == Init /\ [][Next]_vars

------------------------------------------------------------------------------
Configured == todo = {} \/ crashed

\* Once everything is configured, in whatever order, every subinterface of the
\* test has a policy that exists, and every group a policy redirects to exists
\* and has an entry for each tunnel source.
NamesResolve ==
    Configured =>
        /\ DOMAIN binds = Interfaces
        /\ \A i \in DOMAIN binds : binds[i] \in DOMAIN policies
        /\ \A p \in DOMAIN policies : \A f \in Families :
              policies[p][f] # none =>
                 /\ policies[p][f] \in DOMAIN groups
                 /\ Cardinality(groups[policies[p][f]]) = Sources

\* No two groups share a tunnel destination or a label, so what arrives from a
\* tunnel tells the groups apart.
GroupsToldApart ==
    \A g, h \in DOMAIN groups : g # h =>
        \A e \in groups[g], d \in groups[h] : e.dst # d.dst /\ e.label # d.label

\* The class the subinterfaces use is defined whenever everything is
\* configured, and a subinterface that redirects answers ARP for its hosts.
ServicesComplete ==
    Configured /\ Typed =>
        /\ DOMAIN binds \subseteq arp \cap qos
        /\ qos # {} => "af3" \in globals
        /\ {"mpls ip", "label range"} \subseteq globals
==============================================================================
