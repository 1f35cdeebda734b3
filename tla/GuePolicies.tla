----------------------------- MODULE GuePolicies -----------------------------
(***************************************************************************)
(* Tunnels in UDP and GRE: the next hop groups that encapsulate, the       *)
(* groups that decapsulate, the policies that redirect to them, and the    *)
(* helpers that take them back (internal/cfgplugins/policyforwarding.go    *)
(* and staticnexthop.go).                                                  *)
(*                                                                         *)
(* Vendor commands change the device at once.  With OpenConfig some        *)
(* helpers change an object of the caller, which the caller pushes as a    *)
(* whole, and others change the device.  The ghost variable wanted holds   *)
(* what the calls asked for.                                               *)
(***************************************************************************)
EXTENDS Naturals, FiniteSets, Sequences, TLC

CONSTANTS
    Plans,      \* [oc, dynamic, object, calls]: how one test uses the helpers
    Groups,     \* names of next hop groups
    Decaps,     \* names of decapsulation groups; each has its own address
    MaxLen      \* bound on the addresses given for one group

VARIABLES
    plan,
    device,     \* [nhgs, decaps, rules, binds]
    object,     \* the same, in the caller's network instance object
    wanted,     \* ghost
    srcs, dsts, entries  \* addresses of one GRE group and the entries made of them

vars == <<plan, device, object, wanted, srcs, dsts, entries>>

Ports == {"port1", "port2"}
TTLs == {0, 64}
Policy == "tp"
Families == {"V4Udp", "V6Udp"}

Nothing == [nhgs |-> <<>>, decaps |-> <<>>, rules |-> {}, binds |-> {}]
Without(f, name) == [n \in DOMAIN f \ {name} |-> f[n]]

Init ==
    /\ plan \in Plans
    /\ device = Nothing /\ object = Nothing /\ wanted = Nothing
    /\ srcs \in 0..MaxLen /\ dsts \in 0..MaxLen
    /\ entries = <<>>

Calls(name) == name \in plan.calls
Idle == UNCHANGED <<plan, srcs, dsts, entries>>

\* A command changes the device; with OpenConfig the same goes to the object.
Put(field, value) ==
    IF plan.oc THEN object' = [object EXCEPT ![field] = value] /\ UNCHANGED device
               ELSE device' = [device EXCEPT ![field] = value] /\ UNCHANGED object
Old(field) == IF plan.oc THEN object[field] ELSE device[field]
Ask(field, value) == wanted' = [wanted EXCEPT ![field] = value]

------------------------------------------------------------------------------
\* A plausible slip: the TTL is taken back before it is set.
TtlAfter_Order(old, ttl, deleteTtl) == IF ttl # 0 THEN ttl ELSE IF deleteTtl THEN 0 ELSE old

\* Creates the group, or changes it: a TTL of zero leaves the group's TTL
\* alone, and deleteTtl takes it back even when the call also set it; with
\* OpenConfig nothing takes it back.
TtlAfter(old, ttl, deleteTtl) ==
    IF deleteTtl /\ ~plan.oc THEN 0 ELSE IF ttl # 0 THEN ttl ELSE old

NextHopGroupConfigForIpOverUdp(g, family, ttl, deleteTtl) ==
    /\ Calls("nhg")
    /\ g \in DOMAIN wanted.nhgs => wanted.nhgs[g].type = family
    /\ deleteTtl => Calls("delttl") /\ g \in DOMAIN wanted.nhgs
    /\ LET now == Old("nhgs")
           old == IF g \in DOMAIN now THEN now[g].ttl ELSE 0
           ask == IF g \in DOMAIN wanted.nhgs THEN wanted.nhgs[g].ttl ELSE 0
           new(t) == g :> [type |-> family, ttl |-> t]
       IN /\ Put("nhgs", new(TtlAfter(old, ttl, deleteTtl)) @@ now)
          /\ Ask("nhgs", new(IF deleteTtl THEN 0 ELSE IF ttl = 0 THEN ask ELSE ttl) @@ wanted.nhgs)
    /\ Idle

\* With OpenConfig the group is deleted from the object, if one is given.
RemoveNextHopGroupConfigForIpOverUdp(g) ==
    /\ Calls("rmnhg") /\ g \in DOMAIN wanted.nhgs
    /\ IF plan.oc /\ ~plan.object THEN UNCHANGED <<device, object>>
                                  ELSE Put("nhgs", Without(Old("nhgs"), g))
    /\ Ask("nhgs", Without(wanted.nhgs, g))
    /\ Idle

\* A plausible slip: the commands always use the name of the fixed text.
DecapName_Fixed(d) == IF plan.oc THEN "customer10" ELSE "gre-decap"

\* The names under which an address is decapsulated: the caller's only for
\* commands built from the caller's values.
DecapName(d) == IF plan.oc THEN "customer10" ELSE IF plan.dynamic THEN d ELSE "gre-decap"

\* DecapGroupConfigGue and DecapGroupConfigGre.
DecapGroupConfig(d) ==
    /\ Calls("decap") /\ d \notin DOMAIN wanted.decaps
    /\ Put("decaps", DecapName(d) :> d @@ Old("decaps"))
    /\ Ask("decaps", d :> d @@ wanted.decaps)
    /\ Idle

RemoveDecapGroupGue(d) ==
    /\ Calls("rmdecap") /\ d \in DOMAIN wanted.decaps
    /\ device' = [device EXCEPT !.decaps = Without(@, d)]
    /\ Ask("decaps", Without(wanted.decaps, d))
    /\ UNCHANGED object /\ Idle

\* PolicyForwardingGreDecapsulation, NewConfigureGRETunnel and
\* ConfigureDutWithGueDecap: with OpenConfig the first replaces the network
\* instance, the second merges into it, and the third changes nothing.
GreDecapsulation(d, how) ==
    /\ Calls(how) /\ d \notin DOMAIN wanted.decaps
    /\ device' = IF ~plan.oc THEN [device EXCEPT !.decaps = d :> d @@ @]
                 ELSE IF how = "replace" THEN [Nothing EXCEPT !.decaps = d :> d]
                 ELSE IF how = "update" THEN [device EXCEPT !.decaps = "PBR-MAP" :> d @@ @]
                 ELSE device
    /\ Ask("decaps", d :> d @@ wanted.decaps)
    /\ UNCHANGED object /\ Idle

------------------------------------------------------------------------------
Rule(family, ttl) == [policy |-> Policy, family |-> family, ttl |-> ttl]
OfPolicy(rules) == {r \in rules : r.policy = Policy}

\* The commands for the second family start from an empty policy.
NewPolicyForwardingMatchAndSetTTL(family) ==
    /\ Calls("ttl") /\ OfPolicy(wanted.rules) = {}
    /\ device' = [device EXCEPT
          !.rules = (IF family = "V6Udp" THEN @ \ OfPolicy(@) ELSE @) \cup {Rule(family, 1)},
          !.binds = (@ \ {b \in @ : b[1] = "port1"}) \cup {<<"port1", Policy>>}]
    /\ wanted' = [wanted EXCEPT !.rules = @ \cup {Rule(family, 1)}, !.binds = {<<"port1", Policy>>}]
    /\ UNCHANGED object /\ Idle

\* The policy goes; the interface keeps naming it.
RemovePolicy ==
    /\ Calls("ttl")
    /\ device' = [device EXCEPT !.rules = @ \ OfPolicy(@)]
    /\ Ask("rules", wanted.rules \ OfPolicy(wanted.rules))
    /\ UNCHANGED object /\ Idle

\* NewPolicyForwardingGueEncap: one rule per family, added to the policy.  With
\* OpenConfig the rule is put into an object nobody pushes.
NewPolicyForwardingGueEncap(family) ==
    /\ Calls("encap")
    /\ device' = IF plan.oc THEN device ELSE [device EXCEPT !.rules = @ \cup {Rule(family, 0)}]
    /\ Ask("rules", wanted.rules \cup {Rule(family, 0)})
    /\ UNCHANGED object /\ Idle

\* A plausible slip: the commands do not look at it either.
InterfacePolicyForwardingApply_Keep(port, remove) ==
    /\ Calls("apply")
    /\ LET others(bs) == {b \in bs : b[1] # port} IN
         /\ Put("binds", others(Old("binds")) \cup {<<port, Policy>>})
         /\ Ask("binds", others(wanted.binds) \cup (IF remove THEN {} ELSE {<<port, Policy>>}))
    /\ Idle

\* With OpenConfig a removal is not looked at: the policy is applied.
InterfacePolicyForwardingApply(port, remove) ==
    /\ Calls("apply")
    /\ LET others(bs) == {b \in bs : b[1] # port} IN
         /\ Put("binds", others(Old("binds")) \cup
                    (IF remove /\ ~plan.oc THEN {} ELSE {<<port, Policy>>}))
         /\ Ask("binds", others(wanted.binds) \cup (IF remove THEN {} ELSE {<<port, Policy>>}))
    /\ Idle

\* PushPolicyForwardingConfig.
Push ==
    /\ plan.oc /\ device # object
    /\ Calls("push")
    /\ device' = object
    /\ UNCHANGED <<object, wanted>> /\ Idle

------------------------------------------------------------------------------
\* A plausible slip: only as many entries as there are sources.
PairUp_Sources ==
    IF srcs = 0 \/ dsts = 0 THEN <<>>
    ELSE [e \in 1..srcs |-> <<e, 1 + ((e - 1) % dsts)>>]

\* NextHopGroupConfigForMultipleIP: as many entries as the longer list has
\* addresses, the shorter one used over and over.
PairUp ==
    IF srcs = 0 \/ dsts = 0 THEN <<>>
    ELSE [e \in 1..(IF srcs > dsts THEN srcs ELSE dsts) |->
            <<1 + ((e - 1) % srcs), 1 + ((e - 1) % dsts)>>]

NextHopGroupConfigForMultipleIP ==
    /\ Calls("pairs") /\ entries = <<>>
    /\ entries' = IF plan.oc THEN IF srcs = 0 \/ dsts = 0 THEN <<>> ELSE <<<<srcs, dsts>>>>
                  ELSE PairUp
    /\ UNCHANGED <<plan, device, object, wanted, srcs, dsts>>

Next ==
    \/ \E g \in Groups, f \in Families, ttl \in TTLs, del \in BOOLEAN :
          NextHopGroupConfigForIpOverUdp(g, f, ttl, del)
    \/ \E g \in Groups : RemoveNextHopGroupConfigForIpOverUdp(g)
    \/ \E d \in Decaps : \/ DecapGroupConfig(d) \/ RemoveDecapGroupGue(d)
                         \/ \E how \in {"replace", "update", "gue"} : GreDecapsulation(d, how)
    \/ \E f \in Families : \/ NewPolicyForwardingMatchAndSetTTL(f)
                           \/ NewPolicyForwardingGueEncap(f)
    \/ RemovePolicy
    \/ \E p \in Ports, remove \in BOOLEAN : InterfacePolicyForwardingApply(p, remove)
    \/ Push
    \/ NextHopGroupConfigForMultipleIP

Spec == Init /\ [][Next]_vars

------------------------------------------------------------------------------
\* Whatever the caller has to push is pushed.
Pushed == plan.oc => device = object

\* The device has the next hop groups the calls asked for, with the TTL asked
\* for last; a group that was removed is gone, which returns the device to
\* what it was.
GroupsAsAsked == Pushed => device.nhgs = wanted.nhgs

\* The device decapsulates exactly the addresses the calls asked for, whatever
\* the names, and none after its removal.
DecapsAsAsked ==
    Pushed => {device.decaps[n] : n \in DOMAIN device.decaps} = DOMAIN wanted.decaps

\* The policies redirect what the calls asked for, on the ports they were
\* applied to last.
PoliciesAsAsked == Pushed => device.rules = wanted.rules /\ device.binds = wanted.binds

\* Every address of both lists carries traffic, and no address has two entries
\* more than another of its list.
AddressesBalanced ==
    entries # <<>> =>
        LET uses(k, a) == Cardinality({e \in DOMAIN entries : entries[e][k] = a})
            sizes == <<srcs, dsts>>
        IN \A k \in 1..2 : \A a, b \in 1..sizes[k] :
              uses(k, a) > 0 /\ uses(k, a) <= uses(k, b) + 1
==============================================================================
