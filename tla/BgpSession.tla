---------------------------- MODULE BgpSession ----------------------------
(***************************************************************************)
(* The BGP session helper of internal/cfgplugins/bgp.go: SetPortAttr       *)
(* changes the package's port attributes, NewBGPSession and WithEBGP build *)
(* the two ends of every session, PushAndStart sends them to the DUT and   *)
(* to the traffic generator (ATE), and the Verify functions watch the      *)
(* sessions come up.  A test runs several cases, a session each, on the    *)
(* same device; BGPClearConfig may run before a case.                      *)
(*                                                                         *)
(* An address is <<side, port, family, generation>>: SetPortAttr moves a   *)
(* port to a new generation.  No caller renames a port, so a port is its   *)
(* number.  The leaves a test itself adds between WithEBGP and             *)
(* PushAndStart are not part of the helper.                                *)
(***************************************************************************)
EXTENDS Naturals, Sequences, FiniteSets, TLC

CONSTANTS Plans,     \* what the test asks for, and on which device
          MaxDrops   \* how often a session may fall

VARIABLES plan, attr, case, at, conf, calls, device, ate, up, everUp, drops,
          todo, verdict

vars == <<plan, attr, case, at, conf, calls, device, ate, up, everUp, drops,
          todo, verdict>>

Ports == 1..4
Fams == {"v4", "v6"}
Default == "DEFAULT"
C == plan.cases[case]

\* An empty BGP container: address families enabled, neighbors, peer groups.
NoBgp == [afis |-> {}, nbr |-> << >>, pg |-> << >>]

\* The families a case asks for.
Afis == {C.afis[j] : j \in 1..Len(C.afis)}

NoConf == [n |-> 0, ni |-> Default, dutIP |-> << >>, ateIP |-> << >>,
           peers |-> {}, bgp |-> NoBgp, stmts |-> {}]

Addr(side, i, f) == <<side, i, f, attr[side][i][f]>>

Init ==
    /\ plan \in Plans
    /\ attr = [side \in {"dut", "ate"} |-> [i \in Ports |-> [f \in Fams |-> 0]]]
    /\ case = 1
    /\ at = "start"
    /\ conf = NoConf
    /\ calls = 0
    /\ device = [bgp |-> [ni \in plan.nis |-> NoBgp],
                 policies |-> {},
                 intf |-> [i \in Ports |-> {}],
                 bind |-> plan.bind,
                 tables |-> {<<Default, "ISIS", "v4">>}]
    /\ ate = [peers |-> {}, ip |-> << >>]
    /\ up = {}
    /\ everUp = {}
    /\ drops = 0
    /\ todo = {}
    /\ verdict = "none"

----------------------------------------------------------------------------
(* Preparing a case.                                                       *)

\* The tables a device keeps beside the protocols of an instance: on a device
\* that wants them deleted they outlive the protocol.
TablesAfterDelete(ni) ==
    IF "network_instance_table_deletion_required" \in plan.dev
    THEN device.tables
    ELSE {t \in device.tables : ~(t[1] = ni /\ t[2] = "BGP")}

\* Mutant: the tables are not looked up.
BGPClearConfig_NoTables ==
    /\ at = "start" /\ C.clear
    /\ device' = [device EXCEPT !.bgp[Default] = NoBgp,
                                !.tables = TablesAfterDelete(Default)]
    /\ at' = "cleared"
    /\ up' = {k \in up : conf.ni # Default}
    /\ UNCHANGED <<plan, attr, case, conf, calls, ate, everUp, drops, todo, verdict>>

BGPClearConfig ==
    /\ at = "start" /\ C.clear
    /\ LET deletedTables ==
               IF "network_instance_table_deletion_required" \in plan.dev
               THEN {t \in device.tables : t[1] = Default /\ t[2] = "BGP"}
               ELSE {}
       IN device' = [device EXCEPT !.bgp[Default] = NoBgp,
                                   !.tables = TablesAfterDelete(Default) \ deletedTables]
    /\ at' = "cleared"
    /\ up' = {k \in up : conf.ni # Default}
    /\ UNCHANGED <<plan, attr, case, conf, calls, ate, everUp, drops, todo, verdict>>

\* updateAttributes: a field that is not set keeps the old value.
updateAttributes(old, new) == [f \in Fams |-> IF f \in new THEN old[f] + 1 ELSE old[f]]

SetPortAttr ==
    /\ at \in {"start", "cleared"}
    /\ at = "start" => ~C.clear
    /\ attr' = [side \in {"dut", "ate"} |->
                  [i \in Ports |-> IF i \in C.ports
                                   THEN updateAttributes(attr[side][i], C.attr)
                                   ELSE attr[side][i]]]
    /\ at' = "new"
    /\ UNCHANGED <<plan, case, conf, calls, device, ate, up, everUp, drops, todo, verdict>>

\* The addresses are copied into the configurations here.
NewBGPSession ==
    /\ at = "new"
    /\ conf' = [NoConf EXCEPT
                  !.n = C.pc,
                  !.ni = IF C.ni = "nil" THEN Default ELSE C.ni,
                  !.dutIP = [i \in 1..C.pc |-> [f \in Fams |-> Addr("dut", i, f)]],
                  !.ateIP = [i \in 1..C.pc |-> [f \in Fams |-> Addr("ate", i, f)]]]
    /\ calls' = C.calls
    /\ at' = "made"
    /\ UNCHANGED <<plan, attr, case, device, ate, up, everUp, drops, todo, verdict>>

----------------------------------------------------------------------------
(* WithEBGP.                                                               *)

BgpPorts == C.ports \cap 1..conf.n
AteAS(i) == 65510 + i

\* Mutant: the generator's AS numbers are counted over the BGP ports only.
AtePeers_Compact(afis) ==
    {[dev |-> i, fam |-> f, to |-> conf.dutIP[i][f],
      as |-> IF C.sameAS THEN AteAS(1)
             ELSE AteAS(Cardinality({j \in BgpPorts : j <= i}))] :
       i \in BgpPorts, f \in afis}

\* The peers added to the emulated devices, which are sorted by name.
AtePeers(afis) ==
    {[dev |-> i, fam |-> f, to |-> conf.dutIP[i][f],
      as |-> IF C.sameAS THEN AteAS(1) ELSE AteAS(i)] :
       i \in BgpPorts, f \in afis}

\* The neighbors the DUT gets, one record for each BGP port.
buildNeigborConfig ==
    {[ip |-> [f \in Fams |-> Addr("ate", i, f)],
      pg |-> IF C.samePG THEN 1 ELSE i,
      as |-> IF C.sameAS THEN AteAS(1) ELSE AteAS(i)] : i \in BgpPorts}

\* Mutant: with the policy on the group, a family's policy is set as well only
\* where the deviation is absent, and the group's own is forgotten.
getPeerGroup_NoGroupPolicy(afis) ==
    [top |-> FALSE,
     afis |-> IF "route_policy_under_afi_unsupported" \in plan.dev THEN {} ELSE afis]

\* Where the PERMIT-ALL policies of a peer group hang.
getPeerGroup(afis) ==
    [top |-> "route_policy_under_afi_unsupported" \in plan.dev,
     afis |-> IF "route_policy_under_afi_unsupported" \in plan.dev THEN {} ELSE afis]

BuildBGPOCConfig(afis, ncs) ==
    LET owner(a) == CHOOSE nc \in ncs : \E f \in afis : nc.ip[f] = a
    IN [afis |-> afis,
        nbr |-> [a \in {nc.ip[f] : nc \in ncs, f \in afis} |->
                   [as |-> owner(a).as, pg |-> owner(a).pg, afis |-> {a[3]}]],
        pg |-> [g \in {nc.pg : nc \in ncs} |-> getPeerGroup(afis)]]

\* t.Fatalf ends the case.
Fatal ==
    /\ verdict' = "failed"
    /\ at' = "done"

WithEBGP ==
    /\ at \in {"made", "built"} /\ calls > 0
    /\ calls' = calls - 1
    /\ LET afis == Afis
       IN \/ /\ ~(afis \subseteq Fams)
             /\ Fatal
             /\ UNCHANGED conf
          \/ /\ afis \subseteq Fams
             /\ "20" \in conf.stmts   \* configureRoutingPolicy: the statement exists
             /\ Fatal
             /\ UNCHANGED conf
          \/ /\ afis \subseteq Fams
             /\ "20" \notin conf.stmts
             /\ conf' = [conf EXCEPT !.peers = AtePeers(afis),
                                     !.bgp = BuildBGPOCConfig(afis, buildNeigborConfig),
                                     !.stmts = {"20"}]
             /\ at' = "built"
             /\ UNCHANGED verdict
    /\ UNCHANGED <<plan, attr, case, device, ate, up, everUp, drops, todo>>

----------------------------------------------------------------------------
(* PushAndStart.                                                           *)

\* What gnmi.Update leaves of two BGP containers: keyed entries are merged,
\* leaves of the new one win.
Merge(old, new) ==
    [afis |-> old.afis \cup new.afis,
     nbr |-> [a \in DOMAIN old.nbr \cup DOMAIN new.nbr |->
                IF a \notin DOMAIN new.nbr THEN old.nbr[a]
                ELSE IF a \notin DOMAIN old.nbr THEN new.nbr[a]
                ELSE [new.nbr[a] EXCEPT !.afis = @ \cup old.nbr[a].afis]],
     pg |-> [g \in DOMAIN old.pg \cup DOMAIN new.pg |->
                IF g \notin DOMAIN new.pg THEN old.pg[g]
                ELSE IF g \notin DOMAIN old.pg THEN new.pg[g]
                ELSE [top |-> new.pg[g].top \/ old.pg[g].top,
                      afis |-> new.pg[g].afis \cup old.pg[g].afis]]]

\* AssignToNetworkInstance for every port, after the update.
Bound(ni) ==
    [i \in Ports |-> IF "explicit_interface_in_default_vrf" \in plan.dev /\ i <= conf.n
                     THEN ni ELSE device.bind[i]]

PushDUT ==
    /\ at = "built" /\ calls = 0
    /\ device' =
         [device EXCEPT
            !.bgp[conf.ni] = Merge(@, conf.bgp),
            !.policies = @ \cup (IF conf.stmts = {} THEN {} ELSE {"PERMIT-ALL"}),
            !.intf = [i \in Ports |-> @[i] \cup
                        (IF i <= conf.n THEN {conf.dutIP[i][f] : f \in Fams} ELSE {})],
            !.bind = Bound(conf.ni),
            !.tables = @ \cup {<<conf.ni, "BGP", f>> : f \in conf.bgp.afis}]
    /\ at' = "dutPushed"
    /\ UNCHANGED <<plan, attr, case, conf, calls, ate, up, everUp, drops, todo, verdict>>

\* PushConfig replaces the generator's configuration; its sessions start anew.
PushAndStartATE ==
    /\ at = "dutPushed"
    /\ ate' = [peers |-> conf.peers, ip |-> conf.ateIP]
    /\ up' = {}
    /\ everUp' = {}
    /\ at' = IF conf.ni = Default THEN "verifyDUT" ELSE "verifyOTG"
    /\ UNCHANGED <<plan, attr, case, conf, calls, device, drops, todo, verdict>>

----------------------------------------------------------------------------
(* The sessions, and the functions that watch them.                        *)

Running == at \in {"verifyDUT", "verifyOTG", "verifyVrf"}

\* The sessions the test asked for: <<port, family>>.
Asked == BgpPorts \X (Afis \cap Fams)

\* The two ends of a session fit each other.
Matches(k) ==
    LET i == k[1]
        f == k[2]
        bgp == device.bgp[conf.ni]
    IN \E p \in ate.peers :
         /\ p.dev = i /\ p.fam = f
         /\ ate.ip[i][f] \in DOMAIN bgp.nbr
         /\ bgp.nbr[ate.ip[i][f]].as = p.as
         /\ f \in bgp.nbr[ate.ip[i][f]].afis
         /\ f \in bgp.afis
         /\ p.to \in device.intf[i]
         /\ device.bind[i] = conf.ni

CanEstablish(k) == Matches(k) /\ k \notin plan.dead

SessionUp(k) ==
    /\ Running /\ k \in Asked \ up /\ CanEstablish(k)
    /\ up' = up \cup {k}
    /\ everUp' = everUp \cup {k}
    /\ UNCHANGED <<plan, attr, case, at, conf, calls, device, ate, drops, todo, verdict>>

SessionDown(k) ==
    /\ Running /\ k \in up /\ drops < MaxDrops
    /\ up' = up \ {k}
    /\ drops' = drops + 1
    /\ UNCHANGED <<plan, attr, case, at, conf, calls, device, ate, everUp, todo, verdict>>

\* The timeouts are taken to be longer than a session that can come up needs.
WatchExpired(ks) == \A k \in ks : ~CanEstablish(k) /\ k \notin up

\* WatchAll ends with the first neighbor of the default instance that is
\* established.
VerifyDUTBGPEstablished ==
    /\ at = "verifyDUT" /\ conf.ni = Default
    /\ \/ /\ Asked \cap up # {}
          /\ at' = "verifyOTG"
          /\ UNCHANGED verdict
       \/ /\ WatchExpired(Asked)
          /\ Fatal
    /\ UNCHANGED <<plan, attr, case, conf, calls, device, ate, up, everUp, drops, todo>>

\* Mutant: the result of the watch is read the wrong way round.
VerifyOTGBGPEstablished_Inverted ==
    /\ at = "verifyOTG"
    /\ \/ Asked \cap up # {} /\ Fatal /\ UNCHANGED todo
       \/ WatchExpired(Asked) /\ at' = "verifyVrf" /\ todo' = Asked
          /\ UNCHANGED verdict
    /\ UNCHANGED <<plan, attr, case, conf, calls, device, ate, up, everUp, drops>>

\* The same on the generator: any of its peers.
VerifyOTGBGPEstablished ==
    /\ at = "verifyOTG"
    /\ \/ /\ Asked \cap up # {}
          /\ at' = "verifyVrf"
          /\ todo' = Asked
          /\ UNCHANGED verdict
       \/ /\ WatchExpired(Asked)
          /\ Fatal
          /\ UNCHANGED todo
    /\ UNCHANGED <<plan, attr, case, conf, calls, device, ate, up, everUp, drops>>

\* Mutant: a neighbor that is not established ends the loop without an error.
VerifyDUTVrfBGPState_Break ==
    /\ at = "verifyVrf"
    /\ \E k \in todo :
          \/ k \in up /\ todo' = todo \ {k}
             /\ verdict' = IF k \in plan.uncapable THEN "failed" ELSE verdict
          \/ WatchExpired({k}) /\ todo' = {} /\ UNCHANGED verdict
    /\ UNCHANGED <<plan, attr, case, at, conf, calls, device, ate, up, everUp, drops>>

\* One neighbor after the other, in the session's instance and in whatever order
\* the caller lists them: a minute for each, then its capabilities; an error does
\* not end the loop.
VerifyDUTVrfBGPState ==
    /\ at = "verifyVrf"
    /\ \E k \in todo :
          /\ \/ /\ k \in up
                /\ verdict' = IF k \in plan.uncapable THEN "failed" ELSE verdict
             \/ /\ WatchExpired({k})
                /\ verdict' = "failed"
          /\ todo' = todo \ {k}
    /\ UNCHANGED <<plan, attr, case, at, conf, calls, device, ate, up, everUp, drops>>

CaseEnds ==
    /\ at = "verifyVrf" /\ todo = {}
    /\ verdict' = IF verdict = "none" THEN "passed" ELSE verdict
    /\ at' = "done"
    /\ UNCHANGED <<plan, attr, case, conf, calls, device, ate, up, everUp, drops, todo>>

NextCase ==
    /\ at = "done" /\ case < Len(plan.cases)
    /\ case' = case + 1
    /\ at' = "start"
    /\ verdict' = "none"
    /\ UNCHANGED <<plan, attr, conf, calls, device, ate, up, everUp, drops, todo>>

Next ==
    \/ BGPClearConfig \/ SetPortAttr \/ NewBGPSession \/ WithEBGP
    \/ PushDUT \/ PushAndStartATE
    \/ \E k \in Asked : SessionUp(k) \/ SessionDown(k)
    \/ VerifyDUTBGPEstablished \/ VerifyOTGBGPEstablished
    \/ VerifyDUTVrfBGPState \/ CaseEnds \/ NextCase

Spec == Init /\ [][Next]_vars

\* The test's goroutine keeps running, and a session whose ends fit comes up.
\* A watch that can end does end even when the session it saw drops again:
\* drops are bounded by MaxDrops.
Fairness ==
    /\ WF_vars(BGPClearConfig \/ SetPortAttr \/ NewBGPSession \/ WithEBGP
               \/ PushDUT \/ PushAndStartATE)
    /\ WF_vars(VerifyDUTBGPEstablished)
    /\ WF_vars(VerifyOTGBGPEstablished)
    /\ WF_vars(VerifyDUTVrfBGPState)
    /\ WF_vars(CaseEnds)
    /\ WF_vars(NextCase)
    /\ \A k \in Ports \X Fams : WF_vars(SessionUp(k))

----------------------------------------------------------------------------
(* Properties.                                                             *)

\* Once both configurations are pushed, every session the test asked for has
\* two ends that fit: addresses, AS numbers, families and the instance of the
\* interface, although the DUT's end is built from the package's attributes
\* and the generator's from the copies NewBGPSession made, and although the
\* device still holds the earlier cases' configuration.
EndsAgree == Running => \A k \in Asked : Matches(k)

\* Every neighbor on the device sits in a peer group the device has, whose
\* policy, on the group or on the neighbor's family, is a policy the device has.
RoutesPermitted ==
    Running =>
      LET bgp == device.bgp[conf.ni]
      IN \A a \in DOMAIN bgp.nbr :
           /\ bgp.nbr[a].pg \in DOMAIN bgp.pg
           /\ \A f \in bgp.nbr[a].afis :
                bgp.pg[bgp.nbr[a].pg].top \/ f \in bgp.pg[bgp.nbr[a].pg].afis
           /\ "PERMIT-ALL" \in device.policies

\* A case that passes VerifyDUTVrfBGPState has seen every session it asked for
\* established, each with its capabilities.
PassMeansEstablished ==
    verdict = "passed" => Asked \subseteq everUp /\ Asked \cap plan.uncapable = {}

\* BGPClearConfig leaves no neighbor, group or BGP table in the default
\* instance, on the devices that want tables deleted one by one as on the
\* others, and touches no other protocol's table.
ClearedExactly ==
    at = "cleared" =>
      /\ device.bgp[Default] = NoBgp
      /\ ~ \E t \in device.tables : t[1] = Default /\ t[2] = "BGP"
      /\ <<Default, "ISIS", "v4">> \in device.tables

\* On a device where every session can come up and reports its capabilities, a
\* case with supported families and one WithEBGP is one that should pass.
Healthy ==
    /\ at = "new" /\ plan.dead = {} /\ plan.uncapable = {}
    /\ Afis \subseteq Fams /\ C.calls = 1
=============================================================================
