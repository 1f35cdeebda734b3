----------------------------- MODULE StaticBinding -----------------------------
(***************************************************************************)
(* topologies/binding: the static binding matches a testbed with the       *)
(* binding file, resets the devices, opens IxNetwork sessions, and closes  *)
(* them on Release.  Every call to a device or to the IxNetwork server may *)
(* fail.  The reservation is recorded before the reset and the sessions,   *)
(* so that a Reserve that fails half-way can still be released.            *)
(***************************************************************************)
EXTENDS FiniteSets

CONSTANTS
  DUTs, ATEs,   \* devices of the testbed, by id
  Ixnet,        \* ATEs with an ixnetwork entry
  Fixed,        \* of those, the ones with a session_id in the binding file
  Testbeds, Bindings,   \* testbeds and binding files of the instance
  PushConfig,   \* the -push_config flag
  Unspecified, None,
  SessionIds    \* the ids the IxNetwork server gives to new sessions

Devices == DUTs \cup ATEs
ASSUME BindingAssumption ==
  /\ Fixed \subseteq Ixnet /\ Ixnet \subseteq ATEs
  /\ None \notin SessionIds \cup ATEs /\ SessionIds \cap ATEs = {}

VARIABLES
  wanted,    \* the testbed: per device the attributes and ports it asks for
  bound,     \* the binding file: per device its attributes and ports, or None
  resv,      \* b.resv is set
  pc,        \* "idle", "reset", "sessions", "release"
  todo,      \* devices the loop has yet to visit
  clean,     \* devices whose configuration was reset for this reservation
  ixsess,    \* per ATE its session, or None
  sessions,  \* sessions open on the server
  opened,    \* sessions this binding has created
  ready      \* Reserve has returned a reservation

vars == <<wanted, bound, resv, pc, todo, clean, ixsess, sessions, opened, ready>>
config == <<wanted, bound>>

\* The session_id of an ATE stands for itself; these sessions exist before the
\* binding does.
Shared == Fixed

Init ==
  /\ wanted \in Testbeds /\ bound \in Bindings
  /\ resv = FALSE /\ pc = "idle" /\ todo = {} /\ clean = {}
  /\ ixsess = [a \in ATEs |-> None] /\ sessions = Shared /\ opened = {} /\ ready = FALSE

-----------------------------------------------------------------------------
Attributes == {"vendor", "hardwareModel", "softwareVersion"}
Agrees(want, have) == want \in {Unspecified, have}

\* Mutant: a port without an entry in the binding file is passed over.
staticPorts_Missing(tports, bports) ==
  \A p \in DOMAIN tports \cap DOMAIN bports :
    Agrees(tports[p].speed, bports[p].speed) /\ Agrees(tports[p].pmd, bports[p].pmd)

staticPorts(tports, bports) ==
  \A p \in DOMAIN tports :
    /\ p \in DOMAIN bports
    /\ Agrees(tports[p].speed, bports[p].speed) /\ Agrees(tports[p].pmd, bports[p].pmd)

staticDims(td, bd) ==
  (\A k \in Attributes : Agrees(td[k], bd[k])) /\ staticPorts(td.ports, bd.ports)

\* No error is collected over the devices of the testbed.
staticReservation == \A d \in Devices : bound[d] # None /\ staticDims(wanted[d], bound[d])

\* Reserve, up to the point where the reservation is recorded.
Reserve ==
  /\ pc = "idle" /\ ~resv /\ staticReservation
  /\ resv' = TRUE /\ clean' = {}
  /\ IF PushConfig THEN pc' = "reset" /\ todo' = DUTs
                   ELSE pc' = "sessions" /\ todo' = ATEs
  /\ ixsess' = [a \in ATEs |-> None]
  /\ UNCHANGED <<config, sessions, opened, ready>>

ReserveRefused ==
  /\ pc = "idle" /\ (resv \/ ~staticReservation)
  /\ UNCHANGED vars

\* reset: the CLI configuration, the gNMI sets and the gRIBI flush of one DUT.
ResetDUT(d) ==
  /\ pc = "reset" /\ d \in todo
  /\ todo' = todo \ {d} /\ clean' = clean \cup {d}
  /\ UNCHANGED <<config, resv, pc, ixsess, sessions, opened, ready>>

ResetDone ==
  /\ pc = "reset" /\ todo = {} /\ pc' = "sessions" /\ todo' = ATEs
  /\ UNCHANGED <<config, resv, clean, ixsess, sessions, opened, ready>>

\* Any step of Reserve fails: the reservation stays recorded.
ReserveFails ==
  /\ pc \in {"reset", "sessions"} /\ pc' = "idle" /\ todo' = {}
  /\ UNCHANGED <<config, resv, clean, ixsess, sessions, opened, ready>>

\* reserveIxSessions: fetch the session of the binding file, or create one.
DialIxNetwork(a) ==
  /\ pc = "sessions" /\ a \in todo /\ todo' = todo \ {a}
  /\ IF a \notin Ixnet THEN UNCHANGED <<ixsess, sessions, opened>>
     ELSE IF a \in Fixed
       THEN /\ a \in sessions
            /\ ixsess' = [ixsess EXCEPT ![a] = a] /\ UNCHANGED <<sessions, opened>>
       ELSE \E s \in SessionIds \ opened :
            /\ ixsess' = [ixsess EXCEPT ![a] = s]
            /\ sessions' = sessions \cup {s} /\ opened' = opened \cup {s}
  /\ UNCHANGED <<config, resv, pc, clean, ready>>

ReserveReturns ==
  /\ pc = "sessions" /\ todo = {} /\ pc' = "idle" /\ ready' = TRUE
  /\ UNCHANGED <<config, resv, todo, clean, ixsess, sessions, opened>>

\* Mutant: Release gives up only a reservation that was completed.
Release_IfReady ==
  /\ pc = "idle" /\ resv
  /\ IF ready THEN pc' = "release" /\ todo' = ATEs /\ UNCHANGED resv
              ELSE resv' = FALSE /\ UNCHANGED <<pc, todo>>
  /\ ready' = FALSE
  /\ UNCHANGED <<config, clean, ixsess, sessions, opened>>

Release ==
  /\ pc = "idle" /\ resv
  /\ pc' = "release" /\ todo' = ATEs /\ ready' = FALSE
  /\ UNCHANGED <<config, resv, clean, ixsess, sessions, opened>>

\* Mutant: a session of the binding file is deleted like the others.
DeleteSession_All(a) ==
  /\ pc = "release" /\ a \in todo /\ todo' = todo \ {a}
  /\ ixsess[a] # None => ixsess[a] \in sessions
  /\ sessions' = sessions \ {ixsess[a]}
  /\ UNCHANGED <<config, resv, pc, clean, ixsess, opened, ready>>

\* releaseIxSessions; deleting a session that is gone fails.
DeleteSession(a) ==
  /\ pc = "release" /\ a \in todo /\ todo' = todo \ {a}
  /\ IF ixsess[a] = None \/ a \in Fixed THEN UNCHANGED sessions
     ELSE ixsess[a] \in sessions /\ sessions' = sessions \ {ixsess[a]}
  /\ UNCHANGED <<config, resv, pc, clean, ixsess, opened, ready>>

ReleaseFails ==
  /\ pc = "release" /\ pc' = "idle" /\ todo' = {}
  /\ UNCHANGED <<config, resv, clean, ixsess, sessions, opened, ready>>

ReleaseReturns ==
  /\ pc = "release" /\ todo = {} /\ pc' = "idle" /\ resv' = FALSE
  /\ UNCHANGED <<config, todo, clean, ixsess, sessions, opened, ready>>

\* The IxNetwork server may lose sessions; the operator owns the fixed ones.
ServerDrops(s) ==
  /\ s \in sessions \ Shared /\ sessions' = sessions \ {s}
  /\ UNCHANGED <<config, resv, pc, todo, clean, ixsess, opened, ready>>

Next ==
  \/ Reserve \/ ReserveRefused \/ ResetDone \/ ReserveFails \/ ReserveReturns
  \/ \E d \in DUTs : ResetDUT(d)
  \/ \E a \in ATEs : DialIxNetwork(a) \/ DeleteSession(a)
  \/ Release \/ ReleaseFails \/ ReleaseReturns
  \/ \E s \in sessions : ServerDrops(s)

Spec == Init /\ [][Next]_vars

-----------------------------------------------------------------------------
\* What an Ondatra user sees: a lease that is free, pending or granted, and the
\* sessions held on the server for it.
lease == IF ~resv THEN "free" ELSE IF ready THEN "granted" ELSE "pending"
L == INSTANCE Lease WITH held <- sessions \ Shared, state <- lease

\* Reserve and Release, with a failure after any call and with retries, implement
\* a lease: Reserve never grants what is taken, and the lease becomes free only
\* when none of the sessions opened for it is left on the server.
ImplementsLease == L!Spec

\* A session named in the binding file belongs to the operator: it is used, never
\* deleted.
SharedSessionsKept == Shared \subseteq sessions

\* A reservation that a test gets is complete: every port the testbed asks for is
\* there with the speed asked for, the DUTs were reset if the flag asks for it, and
\* every IxNetwork ATE has a session of its own.
ReadyIsComplete ==
  ready => /\ resv
           /\ \A d \in Devices : \A p \in DOMAIN wanted[d].ports :
                /\ p \in DOMAIN bound[d].ports
                /\ wanted[d].ports[p].speed \in {Unspecified, bound[d].ports[p].speed}
           /\ PushConfig => clean = DUTs
           /\ \A a, b \in Ixnet : ixsess[a] # None /\ (a # b => ixsess[a] # ixsess[b])

-----------------------------------------------------------------------------
\* Testbeds and bindings of small instances: each attribute in turn unspecified,
\* as bound, and different; one port missing, slower, or of another PMD; besides
\* the DUTs the entry of one generator varies.
Device(v, m, s, ports) == [vendor |-> v, hardwareModel |-> m, softwareVersion |-> s, ports |-> ports]
Port(speed, pmd) == [speed |-> speed, pmd |-> pmd]
Ports1(p) == [n \in {"port1"} |-> p]
Ports2(p, q) == [n \in {"port1", "port2"} |-> IF n = "port1" THEN p ELSE q]
LR4 == Port("100G", "LR4")
Usual == Device("v", "m", "1.0", Ports2(LR4, LR4))

Wants ==
  {Device(Unspecified, Unspecified, Unspecified, Ports1(Port(Unspecified, Unspecified))),
   Device("v", Unspecified, "1.0", Ports1(Port("100G", Unspecified))),
   Device("v", "m", Unspecified, Ports2(Port("100G", Unspecified), Port(Unspecified, "LR4")))}

Haves ==
  {Usual, Device("w", "m", "1.0", Ports2(LR4, LR4)), Device("v", "n", "1.0", Ports2(LR4, LR4)),
   Device("v", "m", "2.0", Ports2(LR4, LR4)), Device("v", "m", "1.0", Ports1(LR4)),
   Device("v", "m", "1.0", Ports2(Port("10G", "LR4"), Port("100G", "SR4")))}

Odd == CHOOSE a \in ATEs \ Fixed : TRUE
SmallTestbeds == {[d \in Devices |-> IF d \in DUTs THEN w ELSE Usual] : w \in Wants}
SmallBindings ==
  {[d \in Devices |-> IF d \in DUTs THEN h ELSE IF d = Odd THEN o ELSE Usual] :
     h \in Haves \cup {None}, o \in {Usual, Device("v", "m", "1.0", Ports1(LR4)), None}}
=============================================================================
