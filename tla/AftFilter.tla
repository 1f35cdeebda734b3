------------------------------ MODULE AftFilter ------------------------------
(***************************************************************************)
(* The set-up of the tests of filtered AFT streaming                       *)
(* (internal/aft_prefix_filtering): interfaces, routing policies with      *)
(* prefix sets, static routes, BGP on the device and on the traffic        *)
(* generator, the wait for convergence, and the changes the tests make to  *)
(* prefix sets and routes while a collector listens.                       *)
(*                                                                         *)
(* One batch is filled and sent several times on the way; every Set sends  *)
(* all that the batch holds.  A prefix is a family and a sequence of bits, *)
(* an address a side, a port and a family.                                 *)
(***************************************************************************)
EXTENDS Naturals, Sequences, FiniteSets, TLC

CONSTANTS
    Plans,      \* [arista, limited, explicit, vrf, policies]: a device and a test
    Routes,     \* prefixes of static routes
    BulkCount,  \* routes a peer advertises
    MaxChanges  \* bound on the changes after the set-up

VARIABLES
    plan, pc,
    next,       \* the policy to add next
    rp,         \* the caller's routing policy object
    batch,      \* what has been put into the batch
    device,     \* [ports, rp, routes, nbrs, limits, bindings]
    ate,        \* the peers of the traffic generator
    rib,        \* per peer the number of routes the device has installed
    errors,     \* calls of t.Errorf
    seen,       \* ghost: the largest rib per peer
    wanted,     \* ghost: the entries the calls asked for, per prefix set
    changes

vars == <<plan, pc, next, rp, batch, device, ate, rib, errors, seen, wanted, changes>>

Families == {"v4", "v6"}
Addr(side, port, fam) == [side |-> side, port |-> port, fam |-> fam]
Default == "DEFAULT"
Vrf == "VRF-A"
Exact == {}       \* the mask range "exact"; other ranges are sets of lengths
Empty == [sets |-> <<>>, pols |-> <<>>]
Nothing == [ports |-> {}, rp |-> <<>>, routes |-> <<>>, nbrs |-> <<>>]

Init ==
    /\ plan \in Plans
    /\ pc = "dial" /\ next = 1 /\ rp = Empty /\ batch = Nothing
    /\ device = [ports |-> {}, rp |-> Empty, routes |-> <<>>, nbrs |-> <<>>,
                 limits |-> {}, bindings |-> {}]
    /\ ate = {} /\ rib = <<>> /\ seen = <<>> /\ errors = {}
    /\ wanted = <<>> /\ changes = 0

\* SetBatch.Set: replaces what is listed as replaced, merges the rest.
Sent(b, d) ==
    [d EXCEPT !.ports = @ \cup b.ports,
              !.rp = IF b.rp = <<>> THEN @ ELSE b.rp,
              !.routes = b.routes @@ @,
              !.nbrs = b.nbrs @@ @]

Goto(label) == pc' = label
Fatal == Goto("fatal")
Quiet == UNCHANGED <<ate, rib, seen, errors, changes>>

------------------------------------------------------------------------------
\* The client is dialled once and kept, and so is the error.
DialGNMI ==
    /\ pc = "dial"
    /\ Goto("dut") \/ Fatal
    /\ UNCHANGED <<plan, next, rp, batch, device, wanted>> /\ Quiet

\* Interfaces are batched and sent; where the device wants it, they are also
\* bound to the default instance.  A test with a VRF binds its second port.
ConfigureDUT ==
    /\ pc = "dut" /\ Goto("policies")
    /\ batch' = [batch EXCEPT !.ports = {1, 2}]
    /\ device' = [Sent(batch', device) EXCEPT
          !.bindings = (IF plan.explicit THEN {<<1, Default>>} ELSE {})
                       \cup (IF plan.vrf THEN {<<2, Vrf>>}
                             ELSE IF plan.explicit THEN {<<2, Default>>} ELSE {})]
    /\ UNCHANGED <<plan, next, rp, wanted>> /\ Quiet

NIOf(port) == IF <<port, Vrf>> \in device.bindings THEN Vrf ELSE Default

SetIn(f, s) == IF s \in DOMAIN f THEN f[s] ELSE {}
Entries(cfg) == {<<p, cfg.mode>> : p \in cfg.list}

\* A plausible slip: a set that exists is replaced.
WithSet_Fresh(f, cfg) ==
    IF cfg.sets = <<>> \/ cfg.list = {} THEN f ELSE (cfg.sets[1] :> Entries(cfg)) @@ f

\* The prefixes of a call go to its first set, with those already there.
WithSet(f, cfg) ==
    IF cfg.sets = <<>> \/ cfg.list = {} THEN f
    ELSE (cfg.sets[1] :> SetIn(f, cfg.sets[1]) \cup Entries(cfg)) @@ f

\* Statement i of a call: what it matches and what it decides.
Statement(cfg, i) ==
    [name |-> cfg.stmts[i],
     match |-> CASE ~cfg.match -> "any"
                 [] cfg.match /\ cfg.tag -> "tag"
                 [] cfg.match /\ ~cfg.tag /\ i <= Len(cfg.sets) /\ cfg.sets[i] # "" -> cfg.sets[i]
                 [] OTHER -> "any",
     accept |-> ~(cfg.deny /\ i = 1)]

StatementsOf(cfg) == [i \in DOMAIN cfg.stmts |-> Statement(cfg, i)]
Existing(r, name) == IF name \in DOMAIN r.pols THEN r.pols[name] ELSE <<>>

\* Appending a statement under a name the policy has is fatal.
AddPrefixSetPolicy ==
    /\ pc = "policies" /\ next <= Len(plan.policies)
    /\ LET cfg == plan.policies[next]
           old == Existing(rp, cfg.policy)
       IN IF \E i \in DOMAIN old : \E j \in DOMAIN cfg.stmts : old[i].name = cfg.stmts[j]
          THEN Fatal /\ UNCHANGED <<next, rp, wanted>>
          ELSE /\ rp' = [sets |-> WithSet(rp.sets, cfg),
                         pols |-> (cfg.policy :> old \o StatementsOf(cfg)) @@ rp.pols]
               /\ wanted' = IF cfg.sets = <<>> \/ cfg.list = {} THEN wanted
                            ELSE (cfg.sets[1] :> SetIn(wanted, cfg.sets[1]) \cup Entries(cfg)) @@ wanted
               /\ next' = next + 1 /\ UNCHANGED pc
    /\ UNCHANGED <<plan, batch, device>> /\ Quiet

\* The tests replace the whole routing policy with the object.
PushPolicies ==
    /\ pc = "policies" /\ next > Len(plan.policies) /\ Goto("routes")
    /\ batch' = [batch EXCEPT !.rp = rp]
    /\ device' = Sent(batch', device)
    /\ UNCHANGED <<plan, next, rp, wanted>> /\ Quiet

\* ConfigureBaseRoutes and ConfigureNetworkInstanceStaticRoute: a route is a
\* key of its instance and prefix, and replaced as a whole.
StaticRoutes(ni, port) ==
    [k \in {<<ni, p>> : p \in Routes} |-> Addr("ate", port, k[2][1])]

ConfigureBaseRoutes ==
    /\ pc = "routes" /\ Goto("bgp")
    /\ batch' = [batch EXCEPT !.routes =
          StaticRoutes(Default, 1) @@ (IF plan.vrf THEN StaticRoutes(Vrf, 2) ELSE <<>>)]
    /\ device' = Sent(batch', device)
    /\ UNCHANGED <<plan, next, rp, wanted>> /\ Quiet

\* Per neighbour one family: [ni, addr, fam].
Neighbors ==
    IF plan.vrf
    THEN {[ni |-> ni, addr |-> Addr("ate", IF ni = Vrf THEN 2 ELSE 1, f), fam |-> f] :
             ni \in {Default, Vrf}, f \in Families}
    ELSE {[ni |-> Default, addr |-> Addr("ate", 1, "v4"), fam |-> "v4"],
          [ni |-> Default, addr |-> Addr("ate", 2, "v6"), fam |-> "v6"]}

configureBGPInstance(ns) ==
    [k \in {<<n.ni, n.addr>> : n \in ns} |->
        [fams |-> {n.fam : n \in {m \in ns : <<m.ni, m.addr>> = k}}, policy |-> "all"]]

\* A plausible slip: only the first address is passed on.
NeighborMaxPrefixes_First(ns) == {<<Default, n.addr>> : n \in {m \in ns : m.fam = "v4"}}

\* DeviationAristaBGPNeighborMaxPrefixes: always in the default instance.
NeighborMaxPrefixes(ns) == {<<Default, n.addr>> : n \in ns}

\* ConfigureBGP, or ConfigureScaleBGP for two instances, and the limits
\* lifted before or after the neighbours are sent.
ConfigureBGP ==
    /\ pc = "bgp" /\ Goto("ate")
    /\ batch' = [batch EXCEPT !.nbrs = configureBGPInstance(Neighbors)]
    /\ device' = [Sent(batch', device) EXCEPT
                     !.limits = IF plan.limited THEN NeighborMaxPrefixes(Neighbors) ELSE {}]
    /\ UNCHANGED <<plan, next, rp, wanted>> /\ Quiet

\* A plausible slip: both peers are put on the first device.
Peers_OnePort ==
    IF plan.vrf THEN {[port |-> p, fam |-> f] : p \in {1, 2}, f \in Families}
    ELSE {[port |-> 1, fam |-> "v4"], [port |-> 1, fam |-> "v6"]}

\* ConfigureATEBGP: IPv4 from the first port and IPv6 from the second, or
\* ConfigureATEScaleBGP: both from each.
Peers ==
    IF plan.vrf THEN {[port |-> p, fam |-> f] : p \in {1, 2}, f \in Families}
    ELSE {[port |-> 1, fam |-> "v4"], [port |-> 2, fam |-> "v6"]}

ConfigureATE ==
    /\ pc = "ate" /\ Goto("await") /\ next' = 1
    /\ ate' = Peers
    /\ rib' = [p \in ate' |-> 0] /\ seen' = rib'
    /\ UNCHANGED <<plan, rp, batch, device, wanted, errors, changes>>

------------------------------------------------------------------------------
\* The routes of a policy: the first statement that matches decides.
InRange(p, entry) ==
    /\ p[1] = entry[1][1]
    /\ Len(entry[1][2]) <= Len(p[2])
    /\ SubSeq(p[2], 1, Len(entry[1][2])) = entry[1][2]
    /\ Len(p[2]) \in (IF entry[2] = Exact THEN {Len(entry[1][2])} ELSE entry[2])

Matches(r, stmt, p) ==
    stmt.match = "any" \/ \E e \in SetIn(r.sets, stmt.match) : InRange(p, e)

Accepts(r, policy, p) ==
    LET stmts == Existing(r, policy)
        hits == {i \in DOMAIN stmts : Matches(r, stmts[i], p)}
    IN hits # {} /\ stmts[CHOOSE i \in hits : \A j \in hits : i <= j].accept

\* The peer's session with the device can come up and carry its family; the
\* device installs routes and loses them again while the test waits.
NeighborOf(p) == <<NIOf(p.port), Addr("ate", p.port, p.fam)>>
Configured(p) ==
    /\ p.port \in device.ports
    /\ NeighborOf(p) \in DOMAIN device.nbrs
    /\ p.fam \in device.nbrs[NeighborOf(p)].fams
    /\ Existing(device.rp, device.nbrs[NeighborOf(p)].policy) # <<>>

Installs(p) ==
    /\ pc = "await" /\ Configured(p) /\ rib[p] < BulkCount
    /\ rib' = [rib EXCEPT ![p] = @ + 1]
    /\ seen' = [seen EXCEPT ![p] = IF @ < rib'[p] THEN rib'[p] ELSE @]
    /\ UNCHANGED <<plan, pc, next, rp, batch, device, ate, errors, wanted, changes>>

Flaps(p) ==
    /\ pc = "await" /\ rib[p] > 0
    /\ rib' = [rib EXCEPT ![p] = 0]
    /\ UNCHANGED <<plan, pc, next, rp, batch, device, ate, seen, errors, wanted, changes>>

PeersOf(ni, f) == {p \in ate : p.fam = f /\ NIOf(p.port) = ni}

\* Per instance: the session of each family, then the routes of each.
Waits ==
    LET Of(ni) == <<<<ni, "session", "v4">>, <<ni, "session", "v6">>,
                    <<ni, "routes", "v4">>, <<ni, "routes", "v6">>>>
    IN IF plan.vrf THEN Of(Default) \o Of(Vrf) ELSE Of(Default)

\* A plausible slip: both counts are those of the first family.
Awaited_V4Twice(w) ==
    \A p \in PeersOf(w[1], "v4") : IF w[2] = "session" THEN Configured(p) ELSE rib[p] >= BulkCount

\* What awaitBGPEstablished and awaitBGPPrefixCount wait for.
Awaited(w) ==
    \A p \in PeersOf(w[1], w[3]) : IF w[2] = "session" THEN Configured(p) ELSE rib[p] >= BulkCount

\* Each wait ends with what it waits for or with an error, and the next begins.
AwaitScaleBGPConvergence ==
    /\ pc = "await"
    /\ errors' = IF Awaited(Waits[next]) THEN errors ELSE errors \cup {Waits[next]}
    /\ next' = next + 1
    /\ IF next = Len(Waits) THEN Goto("use") ELSE UNCHANGED pc
    /\ UNCHANGED <<plan, rp, batch, device, ate, rib, seen, wanted, changes>>

------------------------------------------------------------------------------
\* Attaching a filter is skipped or fatal: no device has it yet.
ConfigureGlobalFilterPolicies ==
    /\ pc = "use" /\ changes < MaxChanges
    /\ IF plan.arista THEN UNCHANGED pc ELSE Fatal
    /\ changes' = changes + 1
    /\ UNCHANGED <<plan, next, rp, batch, device, ate, rib, seen, errors, wanted>>

\* A change has a batch of its own.
Change(d) ==
    /\ pc = "use" /\ changes < MaxChanges
    /\ device' = d
    /\ changes' = changes + 1
    /\ UNCHANGED <<plan, pc, next, rp, batch, ate, rib, seen, errors>>

AddPrefixToPrefixSet(s, p, mode) ==
    /\ Change([device EXCEPT !.rp.sets[s] = @ \cup {<<p, mode>>}])
    /\ wanted' = [wanted EXCEPT ![s] = @ \cup {<<p, mode>>}]

RemovePrefixFromPrefixSet(s, p, mode) ==
    /\ Change([device EXCEPT !.rp.sets[s] = @ \ {<<p, mode>>}])
    /\ wanted' = [wanted EXCEPT ![s] = @ \ {<<p, mode>>}]

AddSingleStaticRoute(p) ==
    /\ Change([device EXCEPT !.routes = (<<Default, p>> :> Addr("ate", 1, p[1])) @@ @])
    /\ UNCHANGED wanted

Next ==
    \/ DialGNMI \/ ConfigureDUT \/ AddPrefixSetPolicy \/ PushPolicies
    \/ ConfigureBaseRoutes \/ ConfigureBGP \/ ConfigureATE
    \/ \E p \in ate : Installs(p) \/ Flaps(p)
    \/ AwaitScaleBGPConvergence \/ ConfigureGlobalFilterPolicies
    \/ \E s \in DOMAIN device.rp.sets, p \in Routes : \E mode \in {e[2] : e \in wanted[s]} :
          AddPrefixToPrefixSet(s, p, mode) \/ RemovePrefixFromPrefixSet(s, p, mode)
    \/ \E p \in Routes : AddSingleStaticRoute(p)

Spec == Init /\ [][Next]_vars

------------------------------------------------------------------------------
SetUp == pc \in {"ate", "await", "use"}

\* A route passes a policy of AddPrefixSetPolicy exactly when the prefixes that
\* were asked for say so: in one of the named sets, not in the first set of a
\* policy that denies it, anywhere when no set is named.  Calls share sets, and
\* prefixes come and go after the batch was sent.
AskedToPass(cfg, p) ==
    LET in(s) == \E e \in SetIn(wanted, s) : InRange(p, e)
        open == cfg.sets = <<>> \/ \E i \in DOMAIN cfg.sets : cfg.sets[i] = ""
    IN /\ ~cfg.tag
       /\ cfg.deny => ~in(cfg.sets[1])
       /\ open \/ \E i \in DOMAIN cfg.sets : in(cfg.sets[i])

PoliciesFilter ==
    SetUp => \A i \in DOMAIN plan.policies : \A p \in Routes :
                Accepts(device.rp, plan.policies[i].policy, p) = AskedToPass(plan.policies[i], p)

\* Once both sides are configured every peer of the traffic generator has its
\* neighbour on the device: the instance of its port, its address, its family,
\* and a policy that exists.
SessionsMatch == pc \in {"await", "use"} => \A p \in ate : Configured(p)

\* AwaitScaleBGPConvergence without an error means that every peer had all
\* its routes installed.
ConvergenceIsReal == pc = "use" /\ errors = {} => \A p \in ate : seen[p] >= BulkCount

\* Where neighbours have a limit of their own, the limit of every neighbour
\* that advertises bulk routes is lifted.
LimitsLifted == SetUp => \A k \in DOMAIN device.nbrs : plan.limited => k \in device.limits
==============================================================================
