------------------------------ MODULE StaticLsp ------------------------------
(***************************************************************************)
(* Static MPLS configuration as the tests apply it                         *)
(* (internal/cfgplugins/mpls.go).  Every helper either types vendor        *)
(* commands, which take effect at once, or uses OpenConfig: some helpers   *)
(* update the device at once and others add a replace or a delete of a     *)
(* whole subtree to a batch the test sends later.  A plan names the device *)
(* and the calls one test makes, in any order; the ghost variable wanted   *)
(* holds what those calls asked for.                                       *)
(***************************************************************************)
EXTENDS Naturals, FiniteSets, SequencesExt

CONSTANTS
    Plans,      \* [oc, vendor, calls, lsps]: a device and the calls of a test
    NextHops,   \* of MPLSStaticLSPConfig, scaled: one LSP per next hop
    MaxBatch    \* bound on the operations of one batch

VARIABLES
    plan,       \* the device under test and the calls its test makes
    device,     \* [lsps, blocks, cross, vlan]: what the device has
    ni,         \* the LSPs in the caller's network instance object
    batch,      \* the operations of the SetBatch, in order
    wanted,     \* ghost: what the calls asked for
    failed      \* the test has reported an error

vars == <<plan, device, ni, batch, wanted, failed>>

Nothing == [lsps |-> {}, blocks |-> {}, cross |-> {}, vlan |-> {}]

Init ==
    /\ plan \in Plans
    /\ device = Nothing
    /\ ni = {}
    /\ batch = <<>>
    /\ wanted = Nothing
    /\ failed = FALSE

Calls(name) == name \in plan.calls
Asked(field, value) == wanted' = [wanted EXCEPT ![field] = value]
Typed(field, value) == device' = [device EXCEPT ![field] = value]

\* The vendors a helper has commands for; for the others it reports an error
\* and configures nothing.
Handled(kind) == plan.vendor = "ARISTA" \/ (kind = "swap" /\ plan.vendor = "CISCO")

\* The commands for an LSP that pushes use one next hop group and one traffic
\* policy, of fixed names; LSPs that pop and swap are lines of their own.
Line(lsps, l) ==
    (IF l.kind = "push" THEN {k \in lsps : k.kind # "push"} ELSE lsps) \cup {l}
NoLine(lsps, l) ==
    IF l.kind = "push" THEN {k \in lsps : k.kind # "push"} ELSE lsps \ {l}

\* An update of the subtree merges into the list of LSPs, whose key is the name.
Merge(lsps, new) == {k \in lsps : \A l \in new : l.name # k.name} \cup new

Operation(op, path, value) == [op |-> op, path |-> path, value |-> value]

------------------------------------------------------------------------------
\* NewStaticMplsLspPopLabel, NewStaticMplsLspSwapLabel and
\* NewStaticMplsLspPushLabel.
NewStaticMplsLsp(l) ==
    /\ Calls("new") /\ l \in plan.lsps \ wanted.lsps
    /\ IF plan.oc
       THEN Typed("lsps", Merge(device.lsps, {l})) /\ UNCHANGED failed
       ELSE IF Handled(l.kind)
            THEN Typed("lsps", Line(device.lsps, l)) /\ UNCHANGED failed
            ELSE failed' = TRUE /\ UNCHANGED device
    /\ Asked("lsps", wanted.lsps \cup {l})
    /\ UNCHANGED <<plan, ni, batch>>

\* A plausible slip: the commands that push are taken back for every LSP.
RemoveStaticMplsLsp_AllPushes(l) ==
    /\ Calls("remove") /\ l \in wanted.lsps
    /\ Typed("lsps", {k \in NoLine(device.lsps, l) : k.kind # "push"})
    /\ Asked("lsps", wanted.lsps \ {l})
    /\ UNCHANGED <<plan, ni, batch, failed>>

\* The three functions that remove them.  With OpenConfig the LSP is deleted
\* from an object that never had it, and what is left, nothing, is merged into
\* the device.
RemoveStaticMplsLsp(l) ==
    /\ Calls("remove") /\ l \in wanted.lsps
    /\ IF plan.oc
       THEN Typed("lsps", Merge(device.lsps, {})) /\ UNCHANGED failed
       ELSE IF Handled(l.kind)
            THEN Typed("lsps", NoLine(device.lsps, l)) /\ UNCHANGED failed
            ELSE failed' = TRUE /\ UNCHANGED device
    /\ Asked("lsps", wanted.lsps \ {l})
    /\ UNCHANGED <<plan, ni, batch>>

\* With OpenConfig, a replace of the whole MPLS subtree by one that has this
\* LSP only.
PutLsp(l) ==
    IF plan.oc
    THEN /\ Len(batch) < MaxBatch
         /\ batch' = Append(batch, Operation("replace", "mpls", [lsps |-> {l}, blocks |-> {}]))
         /\ UNCHANGED <<device, failed>>
    ELSE /\ IF Handled("pop")
            THEN Typed("lsps", Line(device.lsps, l)) /\ UNCHANGED failed
            ELSE failed' = TRUE /\ UNCHANGED device
         /\ UNCHANGED batch

MPLSStaticLSP(l) ==
    /\ Calls("lsp") /\ l \in plan.lsps \ wanted.lsps /\ l.kind = "pop"
    /\ PutLsp(l)
    /\ Asked("lsps", wanted.lsps \cup {l})
    /\ UNCHANGED <<plan, ni>>

\* The same, with commands that also bypass access lists.
MPLSStaticLSPByPass(l) ==
    /\ Calls("bypass") /\ l \in plan.lsps \ wanted.lsps /\ l.kind = "pop"
    /\ PutLsp(l)
    /\ Asked("lsps", wanted.lsps \cup {l})
    /\ UNCHANGED <<plan, ni>>

\* One LSP per next hop of each family, its label the one of the same index.
mplsGlobalStaticLspAttributes ==
    {[name |-> <<f, i>>, kind |-> "pop"] : f \in {"v4", "v6"}, i \in 1..NextHops}

\* With OpenConfig the LSPs go into the caller's object; a vendor without
\* commands is only logged.
MPLSStaticLSPConfig ==
    LET new == mplsGlobalStaticLspAttributes IN
    /\ Calls("scale") /\ ~(new \subseteq wanted.lsps)
    /\ IF plan.oc
       THEN ni' = Merge(ni, new) /\ UNCHANGED device
       ELSE /\ device' = IF plan.vendor = "ARISTA"
                         THEN [device EXCEPT !.lsps = @ \cup new] ELSE device
            /\ UNCHANGED ni
    /\ Asked("lsps", wanted.lsps \cup new)
    /\ UNCHANGED <<plan, batch, failed>>

\* PushPolicyForwardingConfig replaces the network instance by the object.
PushPolicyForwardingConfig ==
    /\ ni # {}
    /\ device' = [Nothing EXCEPT !.lsps = ni, !.vlan = device.vlan]
    /\ ni' = {}
    /\ UNCHANGED <<plan, batch, wanted, failed>>

\* The label block of segment routing.  A vendor without commands is reported,
\* and an empty command text is sent all the same.
NewMPLSSRBasic(b) ==
    /\ Calls("sr") /\ b \notin wanted.blocks
    /\ IF plan.oc
       THEN /\ Len(batch) < MaxBatch
            /\ batch' = Append(batch, Operation("replace", "mpls", [lsps |-> {}, blocks |-> {b}]))
            /\ UNCHANGED <<device, failed>>
       ELSE /\ IF plan.vendor = "ARISTA"
               THEN Typed("blocks", {b}) /\ UNCHANGED failed
               ELSE failed' = TRUE /\ UNCHANGED device
            /\ UNCHANGED batch
    /\ Asked("blocks", {b})
    /\ UNCHANGED <<plan, ni>>

\* The ranges of eight label owners, merged into the device.
LabelRangeOCConfig ==
    LET owners == {"bgp-sr", "dynamic", "isis-sr", "l2evpn", "l2evpn ethernet-segment",
                   "ospf-sr", "srlb", "static"} IN
    /\ Calls("ranges") /\ ~(owners \subseteq wanted.blocks)
    /\ Typed("blocks", device.blocks \cup owners)
    /\ Asked("blocks", wanted.blocks \cup owners)
    /\ UNCHANGED <<plan, ni, batch, failed>>

------------------------------------------------------------------------------
\* The cross connect of a pseudowire to a port (0) or a subinterface of it: one
\* patch, or one connection point, of a fixed name.  The tests take an earlier
\* one back first.
PutCross(sub) ==
    IF plan.oc
    THEN /\ Len(batch) < MaxBatch
         /\ batch' = Append(batch, Operation("replace", "cross", {sub}))
         /\ UNCHANGED <<device, failed>>
    ELSE /\ IF plan.vendor = "ARISTA"
            THEN Typed("cross", device.cross \cup {sub}) /\ UNCHANGED failed
            ELSE failed' = TRUE /\ UNCHANGED device
         /\ UNCHANGED batch

\* A plausible slip: the subinterface is not appended to the port's name.
ConfigureMplsStaticPseudowire_Port(sub) ==
    /\ Calls("cross") /\ wanted.cross = {}
    /\ PutCross(0)
    /\ Asked("cross", {sub})
    /\ UNCHANGED <<plan, ni>>

ConfigureMplsStaticPseudowire(sub) ==
    /\ Calls("cross") /\ wanted.cross = {}
    /\ PutCross(sub)
    /\ Asked("cross", {sub})
    /\ UNCHANGED <<plan, ni>>

RemoveMplsStaticPseudowire ==
    /\ Calls("cross") /\ wanted.cross # {}
    /\ IF plan.oc
       THEN /\ Len(batch) < MaxBatch
            /\ batch' = Append(batch, Operation("delete", "cross", {}))
            /\ UNCHANGED <<device, failed>>
       ELSE /\ IF plan.vendor = "ARISTA"
               THEN Typed("cross", {}) /\ UNCHANGED failed
               ELSE failed' = TRUE /\ UNCHANGED device
            /\ UNCHANGED batch
    /\ Asked("cross", {})
    /\ UNCHANGED <<plan, ni>>

\* The client VLAN of a subinterface; nothing is done with OpenConfig.
VlanClientEncapsulation(sub, remove) ==
    /\ Calls("vlan") /\ ~plan.oc
    /\ LET vlans == IF remove THEN device.vlan \ {sub} ELSE device.vlan \cup {sub} IN
         Typed("vlan", vlans) /\ Asked("vlan", vlans)
    /\ UNCHANGED <<plan, ni, batch, failed>>

\* One request: its deletes come first, then its replaces, in order.
Apply(dev, o) ==
    IF o.path = "mpls" THEN [dev EXCEPT !.lsps = o.value.lsps, !.blocks = o.value.blocks]
                       ELSE [dev EXCEPT !.cross = o.value]

BatchSet ==
    /\ batch # <<>>
    /\ LET Is(op)  == SelectSeq(batch, LAMBDA o : o.op = op)
       IN device' = FoldLeft(Apply, device, Is("delete") \o Is("replace"))
    /\ batch' = <<>>
    /\ UNCHANGED <<plan, ni, wanted, failed>>

Subinterfaces == {0, 20}

Next ==
    \/ \E l \in plan.lsps : \/ NewStaticMplsLsp(l) \/ RemoveStaticMplsLsp(l)
                            \/ MPLSStaticLSP(l) \/ MPLSStaticLSPByPass(l)
    \/ MPLSStaticLSPConfig \/ PushPolicyForwardingConfig
    \/ NewMPLSSRBasic("isis-sr") \/ LabelRangeOCConfig
    \/ \E sub \in Subinterfaces : ConfigureMplsStaticPseudowire(sub)
    \/ RemoveMplsStaticPseudowire
    \/ \E sub \in Subinterfaces \ {0}, remove \in BOOLEAN : VlanClientEncapsulation(sub, remove)
    \/ BatchSet

Spec == Init /\ [][Next]_vars

------------------------------------------------------------------------------
Sent == batch = <<>> /\ ni = {} /\ ~failed

\* Once everything is sent and no error was reported, the device has exactly
\* the LSPs and label blocks the calls asked for: none is lost to a later call
\* and none outlives its removal.
LspsAsAsked == Sent => device.lsps = wanted.lsps /\ device.blocks = wanted.blocks

\* Likewise the port or subinterface the pseudowire is connected to, in
\* particular after it moved from a port to one of its subinterfaces, and the
\* client VLANs.
CrossConnectAsAsked == Sent => device.cross = wanted.cross /\ device.vlan = wanted.vlan
==============================================================================
