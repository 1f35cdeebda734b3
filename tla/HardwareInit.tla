---------------------------- MODULE HardwareInit ----------------------------
(***************************************************************************)
(* internal/cfgplugins/dut_initialize.go: the command line texts that      *)
(* prepare a device's hardware for a feature, and the helpers that push    *)
(* them.  A text may define TCAM profiles, select one as the system        *)
(* profile, switch hardware counters on and off, and hold other lines.     *)
(* A profile is the set of feature families it programs, those of all its  *)
(* address families and directions taken together.                         *)
(***************************************************************************)
EXTENDS Naturals, Sequences, FiniteSets, TLC

CONSTANTS Plans     \* [device, steps]: a device and the calls of one test

VARIABLES plan      \* the device the test got and the calls it makes
        , next      \* index of the next call
        , device    \* its configuration
        , last      \* the last text with a system profile that was pushed
        , vrfs      \* the names CreateVRFs returned, 0 for the default instance
        , batch     \* the caller's SetBatch: the instances in it
        , status    \* "running", "failed" (t.Fatal)

vars == <<plan, next, device, last, vrfs, batch, status>>

\* Profiles of a text, the one it selects, its counters on and off, the rest.
Text(profiles, system, on, off, other) ==
  [profiles |-> profiles, system |-> system, on |-> on, off |-> off, other |-> other]

Nothing == Text(<< >>, "", {}, {}, {})

mirrorMpls == {"mirror", "mpls", "mpls pop"}
tunnelCounters == {"gre tunnel interface", "traffic-policy in", "traffic-policy out", "route", "nexthop"}

aristaTcamProfileMplsTracking ==
  Text("ancx" :> mirrorMpls \cup {"acl port", "acl vlan", "counter lfib", "pbr mpls", "qos", "traffic-policy port", "vxlan"},
       "ancx", {"traffic-policy in"}, {}, {})

aristaTcamProfileVrfSelectionExtended ==
  Text("vrf-selection-with-ip6-sip" :>
         mirrorMpls \cup {"acl port", "acl subintf", "acl vlan", "counter lfib", "pbr", "pbr mpls", "qos", "vrf selection", "vxlan"},
       "vrf-selection-with-ip6-sip", {}, {}, {})

nokiaSecondaryDefaultLookup == Text(<< >>, "", {}, {}, {"secondary-default-lookup"})

aristaOptimizeFIBAndCounters ==
  Text(<< >>, "", {"ip-in-ip", "ip layer3", "route"}, {"acl in", "acl out ipv4"}, {"fib", "fec"})

aristaTcamProfilePolicyForwarding ==
  Text("tcam-policy-forwarding" :> {"traffic-policy port"}, "tcam-policy-forwarding", tunnelCounters, {}, {})

aristaEnableAFTSummaries == Text(<< >>, "", {}, {}, {"provider aft"})

aristaNGPRTcamProfile ==
  Text("ngpr" :> mirrorMpls \cup {"acl port", "pbr mpls", "qos", "traffic-policy cpu", "traffic-policy port", "vxlan"},
       "ngpr", tunnelCounters, {}, {})

sampled == mirrorMpls \cup {"cfm", "flow tracking", "l2-protocol", "qos", "traffic-policy port"}

aristaTcamProfilePreserveTTL ==
  Text("customProfile" :> sampled \cup {"pbr", "pbr mpls", "vxlan"}, "customProfile", {}, {}, {})
aristaQOSTcamIn == Text(<< >>, "", {"qos in"}, {}, {})

aristaTCAMACLCounters ==
  Text("aclCounters" :> mirrorMpls \cup {"acl port", "acl subintf", "acl vlan", "counter lfib", "pbr", "pbr mpls", "qos", "vxlan"},
       "aclCounters", {"acl in", "acl out ipv4", "acl out ipv6"}, {}, {})

aristaIngressARP ==
  Text("ingress-arp" :> mirrorMpls \cup {"acl port", "pbr mpls", "qos", "traffic-policy cpu", "traffic-policy port", "vxlan"},
       "ingress-arp", {}, {}, {})

aristaAnPF_Final ==
  Text("anPF-Customer-tcam" :> sampled \cup {"acl vlan", "interface-policing"}, "anPF-Final", {}, {}, {"provider smash"})
aristaAnPF ==
  Text("anPF-Customer-tcam" :> sampled \cup {"acl vlan", "interface-policing"}
       @@ "anPF-Final" :> sampled \cup {"acl vlan", "interface-policing"} @@ "anPF-final" :> {},
       "anPF-Customer-tcam", {}, {}, {"provider smash"})

aristaAnpfTcamProfile ==
  Text("anPF" :> sampled \cup {"pbr", "pbr mpls", "vxlan"}, "anPF", {}, {}, {})

aristaHierarchicalFIB == Text(<< >>, "", {}, {}, {"hierarchical resolution"})

aristaTcamProfileMap ==
  "MplsTracking" :> aristaTcamProfileMplsTracking @@ "VrfSelectionExtended" :> aristaTcamProfileVrfSelectionExtended
  @@ "PolicyForwarding" :> aristaTcamProfilePolicyForwarding @@ "EnableAFTSummaries" :> aristaEnableAFTSummaries
  @@ "NGPR" :> aristaNGPRTcamProfile @@ "TTLPolicyForwarding" :> aristaTcamProfilePreserveTTL
  @@ "QOSIn" :> aristaQOSTcamIn @@ "ACLCounters" :> aristaTCAMACLCounters @@ "AnPF" :> aristaAnPF
  @@ "IngressARP" :> aristaIngressARP @@ "OptimizeFIBAndCounters" :> aristaOptimizeFIBAndCounters
  @@ "Anpf" :> aristaAnpfTcamProfile @@ "HierarchicalFIB" :> aristaHierarchicalFIB

nokiaHardwareInitMap == "SecondaryDefaultLookup" :> nokiaSecondaryDefaultLookup

\* Indexing a Go map with a key it does not hold gives "".
Lookup(texts, feature) == IF feature \in DOMAIN texts THEN texts[feature] ELSE Nothing

NewDUTHardwareInit(feature) ==
  CASE plan.device.vendor = "ARISTA" /\ plan.device.ceos -> Nothing
    [] plan.device.vendor = "ARISTA" /\ ~plan.device.ceos -> Lookup(aristaTcamProfileMap, feature)
    [] plan.device.vendor = "NOKIA" -> Lookup(nokiaHardwareInitMap, feature)
    [] OTHER -> Nothing
-----------------------------------------------------------------------------
\* A command line update adds to the configuration: a profile that exists is
\* entered and extended, the system profile is the one named last.
Applied(text) ==
  [profiles |-> [p \in DOMAIN device.profiles \cup DOMAIN text.profiles |->
                  (IF p \in DOMAIN device.profiles THEN device.profiles[p] ELSE {})
                  \cup (IF p \in DOMAIN text.profiles THEN text.profiles[p] ELSE {})],
   system |-> IF text.system = "" THEN device.system ELSE text.system,
   counters |-> (device.counters \cup text.on) \ text.off,
   other |-> device.other \cup text.other,
   vrfs |-> device.vrfs]

Init == /\ plan \in Plans
        /\ next = 1
        /\ device = [profiles |-> << >>, system |-> "", counters |-> {}, other |-> {}, vrfs |-> {}]
        /\ last = Nothing
        /\ vrfs = {}
        /\ batch = {}
        /\ status = "running"

Step(op) == /\ status = "running" /\ next <= Len(plan.steps)
            /\ plan.steps[next].op = op
            /\ next' = next + 1
            /\ UNCHANGED plan

Arg == plan.steps[next].arg

\* The device takes the text or refuses it, which ends the test.
Push(text) ==
  \/ /\ device' = Applied(text)
     /\ last' = IF text.system = "" THEN last ELSE text
     /\ UNCHANGED <<vrfs, batch, status>>
  \/ status' = "failed" /\ UNCHANGED <<device, last, vrfs, batch>>

Unsupported == status' = "failed" /\ UNCHANGED <<device, last, vrfs, batch>>

\* NewDUTHardwareInit, and PushDUTHardwareInitConfig of what it returned.
PushDUTHardwareInitConfig ==
  /\ Step("hardwareInit")
  /\ LET text == NewDUTHardwareInit(Arg)
     IN IF text = Nothing THEN UNCHANGED <<device, last, vrfs, batch, status>> ELSE Push(text)

ConfigureAnpfHardwareTcam ==
  /\ Step("anpfTcam")
  /\ IF plan.device.vendor = "ARISTA" THEN Push(aristaAnpfTcamProfile) ELSE Unsupported

EnableHardwareCounters ==
  /\ Step("counters")
  /\ IF plan.device.vendor = "ARISTA" THEN Push(Text(<< >>, "", {Arg}, {}, {})) ELSE Unsupported

\* Without the deviation an Arista device gets a line in the test's log.
ConfigureLoadbalance ==
  /\ Step("loadbalance")
  /\ IF plan.device.vendor # "ARISTA" THEN Unsupported
     ELSE IF plan.device.loadBalanceOCUnsupported THEN Push(Text(<< >>, "", {}, {}, {"load-balance"}))
     ELSE UNCHANGED <<device, last, vrfs, batch, status>>

CreateVRFs_Named ==
  /\ Step("createVRFs")
  /\ vrfs' = 0..Arg
  /\ batch' = batch \cup 1..(Arg - 1) \cup {0}
  /\ UNCHANGED <<device, last, status>>

CreateVRFs ==
  /\ Step("createVRFs")
  /\ vrfs' = 0..Arg
  /\ batch' = batch \cup 0..Arg
  /\ UNCHANGED <<device, last, status>>

\* The test sends the batch.
SetBatch ==
  /\ Step("set")
  /\ device' = [device EXCEPT !.vrfs = @ \cup batch]
  /\ UNCHANGED <<last, vrfs, batch, status>>

Next == \/ PushDUTHardwareInitConfig \/ ConfigureAnpfHardwareTcam \/ EnableHardwareCounters
        \/ ConfigureLoadbalance \/ CreateVRFs \/ SetBatch

Spec == Init /\ [][Next]_vars
-----------------------------------------------------------------------------
Done == status = "running" /\ next > Len(plan.steps)

\* The system profile a device runs is defined on it and programs exactly what
\* the text that selected it lists, whatever other features' texts the test
\* pushed before: no two texts share a profile name with different contents,
\* and none selects a profile it only names.
SystemProfileIsItsOwn ==
  device.system # "" =>
    /\ device.system \in DOMAIN last.profiles
    /\ device.profiles[device.system] = last.profiles[device.system]

\* Every instance whose name CreateVRFs returned is on the device once the
\* test has sent its batch, the default instance included.
ReturnedVRFsExist ==
  Done /\ plan.steps # << >> /\ plan.steps[Len(plan.steps)].op = "set" => vrfs \subseteq device.vrfs
=============================================================================
