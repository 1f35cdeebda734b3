-------------------------- MODULE AggregateConfig --------------------------
(***************************************************************************)
(* The LAG and subinterface builders of internal/cfgplugins/interface.go   *)
(* on the interface object of internal/attrs: SetupAggregateAtomically,    *)
(* DeleteAggregate, SetupStaticAggregateAtomically, NewAggregateInterface  *)
(* with its members and subinterfaces, NewSubInterfaces, and the           *)
(* attachment to the default network instance that isisscale's             *)
(* configureDUT adds.  A test makes the calls in any order; builders that  *)
(* take a gnmi.SetBatch change the device only when the batch is set.      *)
(***************************************************************************)
EXTENDS Integers, Sequences, FiniteSets, TLC, SequencesExt

CONSTANTS
  Ports, Lags,  \* names of physical and of aggregate interfaces
  Devices,      \* sets of deviations a device under test may have
  Asks,         \* DUTAggData: [name, addr, subs, ports, type, lacp]
  PortLists,    \* the members of an atomic update or a static aggregate
  SubPorts,     \* cfgplugins.Attributes: [name, num, index]
  MaxCalls      \* calls one test makes

VARIABLES dev, device, batch, members, calls, wanted, built, failed

vars == <<dev, device, batch, members, calls, wanted, built, failed>>
D(deviation) == deviation \in dev

Blank == [kind |-> "", lag |-> "", type |-> "", min |-> 0, subs |-> <<>>]
NewSub == [vlan |-> 0, ips |-> {}, enabled |-> FALSE]

-----------------------------------------------------------------------------
(* gNMI: a SetRequest applies its deletes, then its replaces, then its     *)
(* updates.  The values in a batch are pointers that are marshalled when   *)
(* it is set, so both replaces of one LAG object carry its last state.     *)

Merge(old, new) ==
  [kind |-> IF new.kind # "" THEN new.kind ELSE old.kind,
   lag  |-> IF new.lag # "" THEN new.lag ELSE old.lag,
   type |-> IF new.type # "" THEN new.type ELSE old.type,
   min  |-> IF new.min # 0 THEN new.min ELSE old.min,
   subs |-> new.subs @@ old.subs]

Apply(d, o) ==
  CASE o.op = "delete" /\ o.leaf = "min" -> [d EXCEPT !.intf[o.name].min = 0]
    [] o.op = "delete" /\ o.leaf = "lag" -> [d EXCEPT !.intf[o.name].lag = ""]
    [] o.op = "replace" /\ o.leaf = "lacp" -> [d EXCEPT !.lacp[o.name] = o.value]
    [] o.op = "replace" /\ o.leaf = "sub" -> [d EXCEPT !.intf[o.name].subs = (o.index :> o.value) @@ @]
    [] o.op = "replace" /\ o.leaf = "intf" -> [d EXCEPT !.intf[o.name] = o.value]
    [] o.op = "update" -> [d EXCEPT !.intf[o.name] = Merge(@, o.value)]

SetRequest(d, ops) ==
  LET of(kind) == SelectSeq(ops, LAMBDA o : o.op = kind)
  IN FoldLeft(Apply, d, of("delete") \o of("replace") \o of("update"))

Op(op, leaf, name, value) == [op |-> op, leaf |-> leaf, name |-> name, value |-> value]

-----------------------------------------------------------------------------
\* attrs.Attributes: subinterface 0 always, its ipv4/enabled leaf only on
\* devices that need and know it.
ConfigOCInterface(addr) ==
  [Blank EXCEPT !.kind = "eth",
     !.subs = 0 :> [NewSub EXCEPT !.ips = IF addr THEN {"v4", "v6"} ELSE {},
                                  !.enabled = addr /\ D("interface_enabled") /\ ~D("ipv4_missing_enabled")]]

Member(a) == [Blank EXCEPT !.kind = "eth", !.lag = a]

\* Mutant: the members keep the aggregate of an earlier test.
AddPortToAggregate_Keep(a, p) == <<Op("update", "intf", p, [Member(a) EXCEPT !.lag = ""])>>

AddPortToAggregate(a, p) == <<Op("delete", "lag", p, 0), Op("replace", "intf", p, Member(a))>>

\* The subinterface has the number of its VLAN, tagged unless VlanEnable says
\* no; ipv4/enabled is set on the devices with ipv4_missing_enabled.
AddSubInterface(s) ==
  [vlan |-> IF s.vlan # 0 /\ s.tagged THEN s.vlan ELSE 0, ips |-> s.ips, enabled |-> D("ipv4_missing_enabled")]

Fatal(l) ==
  \/ l.lacp = "partial"
  \/ ~l.addr /\ \E s \in Range(l.subs) : s.vlan = 0 \/ s.ips = {}

\* Mutant: subinterface 0 stays where the deviation asks for it.
AggregateObject_Keep0(l) ==
  LET agg == [ConfigOCInterface(l.addr) EXCEPT !.kind = "lag", !.type = l.type]
  IN [agg EXCEPT !.subs = IF l.addr THEN @ ELSE [v \in {s.vlan : s \in Range(l.subs)} |->
                                    AddSubInterface(CHOOSE s \in Range(l.subs) : s.vlan = v)] @@ @]

\* The LAG object when the batch is set.  Its subinterfaces are configured only
\* when the LAG has no address of its own; then subinterface 0 goes, unless the
\* device has interface_enabled.
AggregateObject(l) ==
  LET agg == [ConfigOCInterface(l.addr) EXCEPT !.kind = "lag", !.type = l.type]
      on  == IF D("ipv4_missing_enabled") \/ D("require_routed_subinterface_0")
               THEN [agg EXCEPT !.subs[0].enabled = TRUE] ELSE agg
      old == IF D("interface_enabled") THEN on ELSE [on EXCEPT !.subs = <<>>]
      new == [v \in {s.vlan : s \in Range(l.subs)} |->
                AddSubInterface(CHOOSE s \in Range(l.subs) : s.vlan = v)]
  IN IF l.addr THEN on ELSE [old EXCEPT !.subs = new @@ @]

AggregateOps(l) ==
  LET agg == AggregateObject(l)
  IN (IF l.lacp = "none" THEN <<>> ELSE <<Op("replace", "lacp", l.name, l.lacp)>>)
     \o <<Op("replace", "intf", l.name, agg), Op("delete", "min", l.name, 0)>>
     \o FlattenSeq([k \in DOMAIN l.ports |-> AddPortToAggregate(l.name, l.ports[k])])
     \o (IF l.addr THEN <<>>
         ELSE [k \in DOMAIN l.subs |-> Op("replace", "sub", l.name, agg.subs[l.subs[k].vlan])
                                         @@ [index |-> l.subs[k].vlan]])

Calling == ~failed /\ calls < MaxCalls /\ calls' = calls + 1

NewAggregateInterface(l) ==
  /\ Calling /\ UNCHANGED <<dev, device, wanted>>
  /\ IF Fatal(l) THEN failed' = TRUE /\ UNCHANGED <<batch, members, built>>
     ELSE /\ batch' = batch \o AggregateOps(l)
          /\ members' = [p \in Range(l.ports) |-> l.name] @@ members
          /\ built' = (l.name :> [ask |-> l, object |-> AggregateObject(l)]) @@ built
          /\ UNCHANGED failed

SetupStaticAggregateAtomically(a, ps) ==
  /\ Calling
  /\ batch' = batch \o <<Op("replace", "intf", a, [ConfigOCInterface(TRUE) EXCEPT !.kind = "lag", !.type = "STATIC"])>>
                    \o [k \in DOMAIN ps |-> Op("replace", "intf", ps[k], Member(a))]
  /\ members' = [p \in Range(ps) |-> a] @@ members
  /\ built' = [b \in DOMAIN built \ {a} |-> built[b]]
  /\ UNCHANGED <<dev, device, wanted, failed>>

\* The test sets the batch; on a device that needs it, it then attaches every
\* subinterface of the LAG objects it was given to the default instance.
Set ==
  /\ ~failed /\ batch # <<>>
  /\ LET d == SetRequest(device, batch)
         attached == UNION {{<<a, k>> : k \in DOMAIN built[a].object.subs} : a \in DOMAIN built}
     IN device' = IF D("explicit_interface_in_default_vrf") THEN [d EXCEPT !.ni = @ \union attached] ELSE d
  /\ batch' = <<>> /\ members' = <<>> /\ wanted' = members @@ wanted
  /\ UNCHANGED <<dev, calls, built, failed>>

-----------------------------------------------------------------------------
\* Mutant: only the members are updated.
SetupAggregateAtomically_Members(a, ps) ==
  /\ Calling
  /\ device' = SetRequest(device, [k \in DOMAIN ps |-> Op("update", "intf", ps[k], Member(a))])
  /\ wanted' = [p \in Range(ps) |-> a] @@ wanted
  /\ built' = [b \in DOMAIN built \ {a} |-> built[b]]
  /\ UNCHANGED <<dev, batch, members, failed>>

SetupAggregateAtomically(a, ps) ==
  /\ Calling
  /\ device' = [SetRequest(device, <<Op("update", "intf", a, [Blank EXCEPT !.kind = "lag", !.type = "LACP"])>>
                                     \o [k \in DOMAIN ps |-> Op("update", "intf", ps[k], Member(a))])
                  EXCEPT !.lacp[a] = IF @ = "" THEN "empty" ELSE @]
  /\ wanted' = [p \in Range(ps) |-> a] @@ wanted
  /\ built' = [b \in DOMAIN built \ {a} |-> built[b]]
  /\ UNCHANGED <<dev, batch, members, failed>>

\* Mutant: the minimum of active links stays.
DeleteAggregate_MinLinks(a, ps) ==
  /\ Calling
  /\ device' = SetRequest(device, [k \in DOMAIN ps |-> Op("delete", "lag", ps[k], 0)])
  /\ wanted' = [p \in Range(ps) |-> ""] @@ wanted
  /\ UNCHANGED <<dev, batch, members, built, failed>>

\* One gnmi.Delete per leaf; nothing else of the aggregate is deleted.
DeleteAggregate(a, ps) ==
  /\ Calling
  /\ device' = SetRequest(device, <<Op("delete", "min", a, 0)>> \o [k \in DOMAIN ps |-> Op("delete", "lag", ps[k], 0)])
  /\ wanted' = [p \in Range(ps) |-> ""] @@ wanted
  /\ UNCHANGED <<dev, batch, members, built, failed>>

-----------------------------------------------------------------------------
\* a.Index is a uint8, and so is the product.
SubIntfIndex(a, k) == ((a.index * 10) % 256) + k

ConfigureVLAN(id) == IF D("deprecated_vlan_id") /\ id > 256 THEN id + 1 ELSE id

ConfigureSubinterfaceIPs(s) == [s EXCEPT !.ips = {"v4", "v6"}, !.enabled = D("ipv4_missing_enabled")]

configureSubinterface(a, k) ==
  ConfigureSubinterfaceIPs([NewSub EXCEPT !.vlan = ConfigureVLAN(SubIntfIndex(a, k))])

EnsureRoutedSubinterface0(i) ==
  IF D("require_routed_subinterface_0") THEN [i EXCEPT !.subs[0].enabled = TRUE] ELSE i

configInterfaceDUT(a) ==
  IF a.num > 1
    THEN [Blank EXCEPT !.kind = "eth",
            !.subs = [i \in {SubIntfIndex(a, k) : k \in 1..a.num} |->
                        configureSubinterface(a, CHOOSE k \in 1..a.num : SubIntfIndex(a, k) = i)]]
    ELSE EnsureRoutedSubinterface0(ConfigOCInterface(TRUE))

\* Mutant: the product is taken in 32 bits here.
assignSubifs_Wide(a) ==
  IF ~D("explicit_interface_in_default_vrf") THEN {}
  ELSE IF a.num = 1 THEN {<<a.name, 0>>} ELSE {<<a.name, a.index * 10 + k>> : k \in 1..a.num}

assignSubifsToDefaultNetworkInstance(a) ==
  IF ~D("explicit_interface_in_default_vrf") THEN {}
  ELSE IF a.num = 1 THEN {<<a.name, 0>>} ELSE {<<a.name, SubIntfIndex(a, k)>> : k \in 1..a.num}

NewSubInterfaces(a) ==
  /\ Calling
  /\ device' = [device EXCEPT !.intf[a.name] = configInterfaceDUT(a),
                              !.ni = @ \union assignSubifsToDefaultNetworkInstance(a)]
  /\ wanted' = (a.name :> "") @@ wanted
  /\ UNCHANGED <<dev, batch, members, built, failed>>

-----------------------------------------------------------------------------
\* An earlier test has left a LAG with a minimum of two links and a member.
Init ==
  /\ dev \in Devices
  /\ \E a \in Lags, p \in Ports :
       /\ device = [intf |-> [n \in Ports \union Lags |->
                      CASE n = a -> [Blank EXCEPT !.kind = "lag", !.type = "LACP", !.min = 2]
                        [] n = p -> Member(a)
                        [] OTHER -> Blank],
                    lacp |-> [n \in Lags |-> IF n = a THEN "ACTIVE" ELSE ""], ni |-> {}]
       /\ wanted = [n \in Ports |-> IF n = p THEN a ELSE ""]
  /\ batch = <<>> /\ members = <<>> /\ calls = 0 /\ built = <<>> /\ failed = FALSE

Next ==
  \/ \E l \in Asks : NewAggregateInterface(l)
  \/ \E a \in Lags, ps \in PortLists : \/ SetupStaticAggregateAtomically(a, ps)
                                    \/ SetupAggregateAtomically(a, ps)
                                    \/ DeleteAggregate(a, ps)
  \/ Set
  \/ \E a \in SubPorts : NewSubInterfaces(a)

Spec == Init /\ [][Next]_vars

-----------------------------------------------------------------------------
\* Once everything that was asked for is set, each port is in the aggregate it
\* was last given to and in no other, whatever atomic updates, deletes and
\* batches, sent in whatever order, it went through.
MembersAsAsked ==
  (batch = <<>> /\ ~failed) => \A p \in Ports : device.intf[p].lag = wanted[p]

\* A port never belongs to an aggregate that does not exist as a LAG of a type:
\* SetupAggregateAtomically writes both in one update, the batches in one request.
MembersHaveTheirLag ==
  \A p \in Ports : LET a == device.intf[p].lag IN
    a # "" => device.intf[a].kind = "lag" /\ device.intf[a].type # ""

\* The links of an aggregate come up with any number of members: a minimum an
\* earlier test left is cleared by DeleteAggregate and by NewAggregateInterface.
MinLinksStep ==
  \A a \in Lags, ps \in PortLists :
    DeleteAggregate(a, ps) \/ (batch # <<>> /\ batch' = <<>> /\ a \in DOMAIN built) => device'.intf[a].min = 0

\* An aggregate that is given no address has exactly the subinterfaces asked for,
\* with their VLANs and addresses, and subinterface 0 only on devices whose
\* interfaces must be enabled.
SubinterfacesAsAsked ==
  (batch = <<>> /\ ~failed) => \A a \in DOMAIN built :
    LET l == built[a].ask  subs == device.intf[a].subs
    IN ~l.addr => /\ DOMAIN subs \ {0} = {s.vlan : s \in Range(l.subs)}
                  /\ 0 \in DOMAIN subs <=> D("interface_enabled")
                  /\ \A s \in Range(l.subs) : subs[s.vlan].ips = s.ips /\ (s.tagged <=> subs[s.vlan].vlan = s.vlan)

\* What is attached to the default network instance exists at that moment, and
\* on a device that needs it nothing of the configured ports is left out: the
\* three computations of the subinterface number agree, also when it wraps.
AttachStep ==
  /\ \A r \in device'.ni \ device.ni : r[2] \in DOMAIN device'.intf[r[1]].subs
  /\ \A a \in SubPorts : (NewSubInterfaces(a) /\ D("explicit_interface_in_default_vrf")) =>
       \A k \in DOMAIN device'.intf[a.name].subs : <<a.name, k>> \in device'.ni
=============================================================================
