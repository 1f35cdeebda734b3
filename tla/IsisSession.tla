---------------------------- MODULE IsisSession ----------------------------
(***************************************************************************)
(* internal/isissession: test cases that share one device.  Each case      *)
(* builds a configuration (New, WithISIS, ConfigISIS), pushes it request   *)
(* by request, starts the ATE and waits for the adjacency.  A request may  *)
(* fail and leave the device half configured for the cases that follow.    *)
(***************************************************************************)
EXTENDS FiniteSets, Naturals, TLC

CONSTANTS
  Duts,         \* the devices considered: records of deviations, and hasAte
  Changes,      \* what the tests' ConfigISIS functions add to the IS-IS block
  MaxCases, MaxFailures

VARIABLES
  dut,
  conf,         \* s.DUTConf
  ate,          \* s.ATETop
  device,       \* what the device has
  peer,         \* what the ATE runs
  adj,          \* the interfaces with an adjacency that is up
  todo,         \* interfaces that PushDUT has not written
  pc, cases, failures

vars == <<dut, conf, ate, device, peer, adj, todo, pc, cases, failures>>

Port1 == "port1"
Port2 == "port2"
NoIsis == [net |-> "", instance |-> FALSE, level |-> FALSE, capability |-> "none",
           intfs |-> <<>>, extra |-> {}]

Empty == [intfs |-> {}, assigned |-> {}, speed |-> {}, instance |-> FALSE, isis |-> NoIsis]
NoTopo == [system |-> "", network |-> "", level |-> ""]
NoPeer == [isis |-> NoTopo, ports |-> {}]

Init ==
  /\ dut \in Duts
  /\ conf = Empty /\ ate = NoPeer
  /\ device = Empty /\ peer = NoPeer /\ adj = {}
  /\ todo = {} /\ pc = "idle" /\ cases = 0 /\ failures = 0

-----------------------------------------------------------------------------
(* Building a case.                                                        *)

(* New: both ports on either end, with no ATE only on the device.          *)
New ==
  /\ pc \in {"idle", "fatal"} /\ cases < MaxCases /\ cases' = cases + 1
  /\ conf' = [Empty EXCEPT !.intfs = {Port1, Port2}]
  /\ ate' = IF dut.hasAte THEN [NoPeer EXCEPT !.ports = {Port1, Port2}] ELSE NoPeer
  /\ pc' = "new"
  /\ UNCHANGED <<dut, device, peer, adj, todo, failures>>

(* The gNMI client cannot be made: MustNew ends the case, and nothing was  *)
(* sent.                                                                   *)
MustNewFails ==
  /\ pc \in {"idle", "fatal"} /\ cases < MaxCases /\ cases' = cases + 1
  /\ failures < MaxFailures /\ failures' = failures + 1
  /\ pc' = "fatal"
  /\ UNCHANGED <<dut, conf, ate, device, peer, adj, todo>>

(* The interface as IS-IS knows it. *)
IsisIntf == IF dut.explicitVRF \/ dut.idFormat THEN "port1.0" ELSE "port1"

(* Mutant: the deviation for level 1 is not heeded. *)
IntfLevels_Two == 2 :> TRUE

(* The levels that are set on the interface, enabled or disabled. *)
IntfLevels == IF dut.level1Disable THEN 1 :> FALSE ELSE 2 :> TRUE

addISISOC ==
  [net |-> "49.0001",
   instance |-> dut.instanceRequired,
   level |-> dut.levelEnabled,
   capability |-> "LEVEL_2",
   intfs |-> [n \in {IsisIntf} |->
                [network |-> "POINT_TO_POINT", levels |-> IntfLevels, afs |-> IF dut.afUnsupported THEN {} ELSE {"V4", "V6"}]],
   extra |-> {}]

addISISTopo == [system |-> "640000000001", network |-> "POINT_TO_POINT", level |-> "LEVEL_2"]

(* WithISIS: addISISOC on the device's side, addISISTopo on the ATE's. *)
WithISIS ==
  /\ pc = "new" /\ pc' = "isis"
  /\ conf' = [conf EXCEPT !.isis = addISISOC]
  /\ ate' = [ate EXCEPT !.isis = IF dut.hasAte THEN addISISTopo ELSE @]
  /\ UNCHANGED <<dut, device, peer, adj, todo, cases, failures>>

ConfigISIS(x) ==
  /\ pc = "isis"
  /\ conf' = [conf EXCEPT !.isis.extra = @ \cup {x}]
  /\ UNCHANGED <<dut, ate, device, peer, adj, todo, pc, cases, failures>>

-----------------------------------------------------------------------------
(* PushAndStart.                                                           *)

PushAndStart ==
  /\ pc = "isis" /\ pc' = "intfs" /\ todo' = conf.intfs
  /\ UNCHANGED <<dut, conf, ate, device, peer, adj, cases, failures>>

(* PushDUT replaces one interface after the other, in the order of a map; *)
(* what was set on it before, its speed included, is gone.                *)
PushInterface(p) ==
  /\ pc = "intfs" /\ p \in todo
  /\ device' = [device EXCEPT !.intfs = @ \cup {p}, !.speed = @ \ {p}]
  /\ todo' = todo \ {p}
  /\ pc' = IF todo' = {} THEN "assign" ELSE pc
  /\ UNCHANGED <<dut, conf, ate, peer, adj, cases, failures>>

(* Where the deviations ask for it the ports join the default instance and *)
(* get an explicit speed.                                                  *)
AssignToNetworkInstance ==
  /\ pc = "assign" /\ pc' = "speed"
  /\ device' = [device EXCEPT !.assigned = IF dut.explicitVRF THEN @ \cup {Port1, Port2} ELSE @]
  /\ UNCHANGED <<dut, conf, ate, peer, adj, todo, cases, failures>>

SetPortSpeed ==
  /\ pc = "speed" /\ pc' = "instance"
  /\ device' = [device EXCEPT !.speed = IF dut.portSpeed THEN {Port1, Port2} ELSE @]
  /\ UNCHANGED <<dut, conf, ate, peer, adj, todo, cases, failures>>

PushInstance ==
  /\ pc = "instance" /\ pc' = "protocol"
  /\ device' = [device EXCEPT !.instance = TRUE]
  /\ UNCHANGED <<dut, conf, ate, peer, adj, todo, cases, failures>>

(* Mutant: the protocol is updated, not replaced. *)
PushIsis_Update ==
  /\ pc = "protocol" /\ pc' = "pushed"
  /\ device' = [device EXCEPT !.isis = [conf.isis EXCEPT !.extra = @ \cup device.isis.extra]]
  /\ UNCHANGED <<dut, conf, ate, peer, adj, todo, cases, failures>>

PushIsis ==
  /\ pc = "protocol" /\ pc' = "pushed"
  /\ device' = [device EXCEPT !.isis = conf.isis]
  /\ UNCHANGED <<dut, conf, ate, peer, adj, todo, cases, failures>>

(* A request fails and the case ends: PushDUT returns its error or, in the *)
(* two helpers, the test is stopped, with the first port done or not.      *)
PushFails ==
  /\ pc \in {"intfs", "assign", "speed", "instance", "protocol"} /\ failures < MaxFailures
  /\ pc = "assign" => dut.explicitVRF
  /\ pc = "speed" => dut.portSpeed
  /\ failures' = failures + 1 /\ pc' = "fatal" /\ todo' = {}
  /\ \E done \in {{}, {Port1}} :
       device' = [device EXCEPT !.assigned = IF pc = "assign" THEN @ \cup done ELSE @,
                                !.speed = IF pc = "speed" THEN @ \cup done ELSE @]
  /\ UNCHANGED <<dut, conf, ate, peer, adj, cases>>

PushAndStartATE ==
  /\ pc = "pushed" /\ dut.hasAte /\ pc' = "await"
  /\ peer' = ate
  /\ UNCHANGED <<dut, conf, ate, device, adj, todo, cases, failures>>

(* Without an ATE the session cannot start one. *)
NoATE ==
  /\ pc = "pushed" /\ ~dut.hasAte /\ pc' = "fatal"
  /\ UNCHANGED <<dut, conf, ate, device, peer, adj, todo, cases, failures>>

-----------------------------------------------------------------------------
(* AwaitAdjacency.                                                         *)

(* Mutant: one of the two deviations is not heeded. *)
WatchedIntf_Vrf == IF dut.explicitVRF THEN "port1.0" ELSE "port1"

WatchedIntf == IF dut.explicitVRF \/ dut.idFormat THEN "port1.0" ELSE "port1"

(* What the device needs to bring up level 2 on an interface (external).   *)
(* "mismatch" is an addition with which the two ends do not agree.         *)
RunsLevel2(d, n) ==
  LET s == d.isis
      bound == IF dut.explicitVRF \/ dut.idFormat THEN "port1.0" ELSE "port1"
  IN /\ n \in DOMAIN s.intfs /\ n = bound /\ Port1 \in d.intfs /\ d.instance
     /\ dut.explicitVRF => Port1 \in d.assigned
     /\ dut.portSpeed => Port1 \in d.speed
     /\ s.net # "" /\ s.capability = "LEVEL_2"
     /\ dut.instanceRequired => s.instance
     /\ dut.levelEnabled => s.level
     /\ s.intfs[n].levels = IF dut.level1Disable THEN 1 :> FALSE ELSE 2 :> TRUE
     /\ IF dut.afUnsupported THEN s.intfs[n].afs = {} ELSE s.intfs[n].afs # {}
     /\ "mismatch" \notin s.extra

Compatible(n) ==
  /\ RunsLevel2(device, n) /\ Port1 \in peer.ports
  /\ peer.isis.system # "" /\ peer.isis.level = device.isis.capability
  /\ peer.isis.network = device.isis.intfs[n].network

Form(n) ==
  /\ n \notin adj /\ Compatible(n)
  /\ adj' = adj \cup {n}
  /\ UNCHANGED <<dut, conf, ate, device, peer, todo, pc, cases, failures>>

Expire(n) ==
  /\ n \in adj /\ ~Compatible(n)
  /\ adj' = adj \ {n}
  /\ UNCHANGED <<dut, conf, ate, device, peer, todo, pc, cases, failures>>

Adjacent ==
  /\ pc = "await" /\ WatchedIntf \in adj /\ pc' = "idle"
  /\ UNCHANGED <<dut, conf, ate, device, peer, adj, todo, cases, failures>>

(* Mutant: the adjacency is read once. *)
NoAdjacency_AtOnce ==
  /\ pc = "await" /\ WatchedIntf \notin adj /\ pc' = "fatal"
  /\ UNCHANGED <<dut, conf, ate, device, peer, adj, todo, cases, failures>>

(* The minute passes; a device whose ends agree is faster. *)
NoAdjacency ==
  /\ pc = "await" /\ WatchedIntf \notin adj /\ ~Compatible(WatchedIntf) /\ pc' = "fatal"
  /\ UNCHANGED <<dut, conf, ate, device, peer, adj, todo, cases, failures>>

Test ==
  \/ New \/ WithISIS \/ PushAndStart
  \/ \E p \in {Port1, Port2} : PushInterface(p)
  \/ AssignToNetworkInstance \/ SetPortSpeed \/ PushInstance
  \/ PushIsis \/ PushAndStartATE \/ NoATE \/ Adjacent \/ NoAdjacency

Device == \E n \in {"port1", "port1.0"} : Form(n) \/ Expire(n)

Next == Test \/ MustNewFails \/ PushFails \/ Device \/ \E x \in Changes : ConfigISIS(x)

(* The test runs to its end, and the device's protocol makes progress. *)
Fairness == WF_vars(Test) /\ WF_vars(Device)
Spec == Init /\ [][Next]_vars /\ Fairness

-----------------------------------------------------------------------------
(* Properties.                                                             *)

Agreeing == "mismatch" \notin conf.isis.extra

(* After PushAndStart the two ends agree on an adjacency on every device,  *)
(* whatever its deviations and whatever an earlier case or a failed push   *)
(* has left, unless the test has configured a mismatch.                    *)
EndsAgree == (pc = "await" /\ Agreeing) => \E n \in {"port1", "port1.0"} : Compatible(n)

(* After PushDUT the device's IS-IS is exactly this case's: nothing of an  *)
(* earlier case is left ("PushDUT replaces DUT config").                   *)
NothingLeft == pc \in {"pushed", "await"} => device.isis = conf.isis

(* AwaitAdjacency watches the interface that WithISIS configured.          *)
WatchesConfigured == pc = "await" => WatchedIntf \in DOMAIN device.isis.intfs

(* A case whose ends agree gets its adjacency: once PushAndStart is done,  *)
(* AwaitAdjacency returns the adjacency and does not time out.             *)
AdjacencyAwaited == (pc = "await" /\ Agreeing) ~> pc = "idle"
=============================================================================
