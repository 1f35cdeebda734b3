---------------------------- MODULE LibraryProofs ----------------------------
(***************************************************************************)
(* What is proved, for every value of the constants, of the static binding *)
(* and of the calls of the accounting tests.                               *)
(***************************************************************************)
EXTENDS StaticBinding, Acctz, SequenceTheorems, WellFoundedInduction, TLAPS

-----------------------------------------------------------------------------
(***************************************************************************)
(* The static binding implements a lease, for every testbed, every binding *)
(* file and every number of devices and sessions.                          *)
(***************************************************************************)

Dynamic == Ixnet \ Fixed    \* ATEs whose session the binding creates

\* Every session on the server that is not an operator's belongs to an ATE of A.
OwnedBy(A) == \A s \in sessions \ Shared : \E a \in A : ixsess[a] = s

\* Two ATEs have the same session only when neither has one.
Separate == \A a, b \in ATEs : a # b /\ ixsess[a] # None => ixsess[a] # ixsess[b]

TypeOK ==
  /\ sessions \subseteq SessionIds \cup Shared /\ opened \subseteq SessionIds
  /\ ixsess \in [ATEs -> SessionIds \cup ATEs \cup {None}]
  /\ \A a \in ATEs : ixsess[a] \in {None} \cup IF a \in Fixed THEN {a} ELSE opened
  /\ pc \in {"idle", "reset", "sessions", "release"}
  /\ resv \in BOOLEAN /\ ready \in BOOLEAN
  /\ todo \subseteq Devices /\ clean \subseteq DUTs

\* The sessions left on the server are those of ATEs the loop of
\* releaseIxSessions has yet to visit.
SessionsInv ==
  /\ Shared \subseteq sessions /\ sessions \ Shared \subseteq opened
  /\ OwnedBy(Dynamic)
  /\ pc = "release" => OwnedBy(todo)
  /\ Separate
  /\ ~resv => sessions \subseteq Shared

\* What the loops of Reserve have done so far.
ProgressInv ==
  /\ pc # "idle" => resv /\ ~ready
  /\ ready => resv
  /\ resv => staticReservation
  /\ pc = "reset" => /\ PushConfig /\ todo \subseteq DUTs /\ clean = DUTs \ todo
                     /\ \A a \in ATEs : ixsess[a] = None
  /\ pc = "sessions" => /\ PushConfig => clean = DUTs
                        /\ todo \subseteq ATEs
                        /\ \A a \in todo : ixsess[a] = None
                        /\ \A a \in Ixnet \ todo : ixsess[a] # None
  /\ ready => (PushConfig => clean = DUTs) /\ \A a \in Ixnet : ixsess[a] # None

IInv == TypeOK /\ SessionsInv /\ ProgressInv

-----------------------------------------------------------------------------

\* The invariant holds before the first reservation.
LEMMA InitInv == Init => IInv
BY BindingAssumption DEF Init, IInv, TypeOK, SessionsInv, ProgressInv, OwnedBy, Separate, Shared, Devices

\* Each step keeps the types: a session of an ATE is its own or one that was created.
LEMMA TypeStep == IInv /\ [Next]_vars => TypeOK'
<1> SUFFICES ASSUME IInv, [Next]_vars PROVE TypeOK'
  OBVIOUS
<1> USE BindingAssumption DEF IInv, TypeOK, Shared, Devices
<1>1. CASE Reserve BY <1>1 DEF Reserve, config
<1>2. CASE ReserveRefused BY <1>2 DEF ReserveRefused, vars, config
<1>3. CASE ResetDone BY <1>3 DEF ResetDone, config
<1>4. CASE ReserveFails BY <1>4 DEF ReserveFails, config
<1>5. CASE ReserveReturns BY <1>5 DEF ReserveReturns, config
<1>6. ASSUME NEW d \in DUTs, ResetDUT(d) PROVE TypeOK'
  BY <1>6 DEF ResetDUT, config
<1>7. ASSUME NEW a \in ATEs, DialIxNetwork(a) PROVE TypeOK'
  BY <1>7 DEF DialIxNetwork, config
<1>8. ASSUME NEW a \in ATEs, DeleteSession(a) PROVE TypeOK'
  BY <1>8 DEF DeleteSession, config
<1>9. CASE Release BY <1>9 DEF Release, config
<1>10. CASE ReleaseFails BY <1>10 DEF ReleaseFails, config
<1>11. CASE ReleaseReturns BY <1>11 DEF ReleaseReturns, config
<1>12. ASSUME NEW s \in sessions, ServerDrops(s) PROVE TypeOK'
  BY <1>12 DEF ServerDrops, config
<1>13. CASE UNCHANGED vars BY <1>13 DEF vars, config
<1> QED
  BY <1>1, <1>2, <1>3, <1>4, <1>5, <1>6, <1>7, <1>8, <1>9, <1>10, <1>11, <1>12, <1>13 DEF Next

\* Each step keeps the sessions owned: a session is created for one ATE, and the
\* release loop passes an ATE by only after its session is gone.
LEMMA SessionsStep == IInv /\ [Next]_vars => SessionsInv'
<1> SUFFICES ASSUME IInv, [Next]_vars PROVE SessionsInv'
  OBVIOUS
<1> USE BindingAssumption DEF IInv, TypeOK, SessionsInv, ProgressInv, Shared, Devices, config, OwnedBy, Separate, Dynamic
<1>1. CASE Reserve BY <1>1 DEF Reserve
<1>2. CASE ReserveRefused BY <1>2 DEF ReserveRefused, vars
<1>3. CASE ResetDone BY <1>3 DEF ResetDone
<1>4. CASE ReserveFails BY <1>4 DEF ReserveFails
<1>5. CASE ReserveReturns BY <1>5 DEF ReserveReturns
<1>6. ASSUME NEW d \in DUTs, ResetDUT(d) PROVE SessionsInv'
  BY <1>6 DEF ResetDUT
<1>7. ASSUME NEW a \in ATEs, DialIxNetwork(a) PROVE SessionsInv'
  BY <1>7 DEF DialIxNetwork
<1>8. ASSUME NEW a \in ATEs, DeleteSession(a) PROVE SessionsInv'
  BY <1>8 DEF DeleteSession
<1>9. CASE Release BY <1>9 DEF Release
<1>10. CASE ReleaseFails BY <1>10 DEF ReleaseFails
<1>11. CASE ReleaseReturns BY <1>11 DEF ReleaseReturns
<1>12. ASSUME NEW s \in sessions, ServerDrops(s) PROVE SessionsInv'
  BY <1>12 DEF ServerDrops
<1>13. CASE UNCHANGED vars BY <1>13 DEF vars
<1> QED
  BY <1>1, <1>2, <1>3, <1>4, <1>5, <1>6, <1>7, <1>8, <1>9, <1>10, <1>11, <1>12, <1>13 DEF Next

\* Each step keeps the progress of Reserve.
LEMMA ProgressStep == IInv /\ [Next]_vars => ProgressInv'
<1> SUFFICES ASSUME IInv, [Next]_vars PROVE ProgressInv'
  OBVIOUS
<1> USE BindingAssumption DEF IInv, TypeOK, SessionsInv, ProgressInv, Shared, Devices, config, staticReservation
<1>1. CASE Reserve BY <1>1 DEF Reserve
<1>2. CASE ReserveRefused BY <1>2 DEF ReserveRefused, vars
<1>3. CASE ResetDone BY <1>3 DEF ResetDone
<1>4. CASE ReserveFails BY <1>4 DEF ReserveFails
<1>5. CASE ReserveReturns BY <1>5 DEF ReserveReturns
<1>6. ASSUME NEW d \in DUTs, ResetDUT(d) PROVE ProgressInv'
  BY <1>6 DEF ResetDUT
<1>7. ASSUME NEW a \in ATEs, DialIxNetwork(a) PROVE ProgressInv'
  BY <1>7 DEF DialIxNetwork
<1>8. ASSUME NEW a \in ATEs, DeleteSession(a) PROVE ProgressInv'
  BY <1>8 DEF DeleteSession
<1>9. CASE Release BY <1>9 DEF Release
<1>10. CASE ReleaseFails BY <1>10 DEF ReleaseFails
<1>11. CASE ReleaseReturns BY <1>11 DEF ReleaseReturns
<1>12. ASSUME NEW s \in sessions, ServerDrops(s) PROVE ProgressInv'
  BY <1>12 DEF ServerDrops
<1>13. CASE UNCHANGED vars BY <1>13 DEF vars
<1> QED
  BY <1>1, <1>2, <1>3, <1>4, <1>5, <1>6, <1>7, <1>8, <1>9, <1>10, <1>11, <1>12, <1>13 DEF Next

-----------------------------------------------------------------------------
\* IInv is an invariant of Reserve and Release with a failure after any call.
THEOREM Invariance == Spec => []IInv
<1>1. IInv /\ [Next]_vars => IInv'
  BY TypeStep, SessionsStep, ProgressStep DEF IInv
<1> QED
  BY InitInv, <1>1, PTL DEF Spec

\* releaseIxSessions never deletes a session named in the binding file.
THEOREM SharedKept == Spec => []SharedSessionsKept
<1>1. IInv => SharedSessionsKept
  BY DEF IInv, SessionsInv, SharedSessionsKept
<1> QED
  BY Invariance, <1>1, PTL

\* A reservation that Reserve returns is complete, whatever failed in earlier attempts.
THEOREM Complete == Spec => []ReadyIsComplete
<1>1. ASSUME IInv PROVE ReadyIsComplete
  <2> SUFFICES ASSUME ready PROVE ReadyIsComplete
    BY DEF ReadyIsComplete
  <2>1. resv /\ (PushConfig => clean = DUTs)
    BY <1>1 DEF IInv, ProgressInv
  <2>2. \A a, b \in Ixnet : ixsess[a] # None /\ (a # b => ixsess[a] # ixsess[b])
    BY <1>1, BindingAssumption DEF IInv, ProgressInv, SessionsInv, Separate
  <2>3. \A d \in Devices : staticPorts(wanted[d].ports, bound[d].ports)
    BY <1>1 DEF IInv, ProgressInv, staticReservation, staticDims
  <2> QED
    BY <2>1, <2>2, <2>3 DEF ReadyIsComplete, staticPorts, Agrees
<1> QED
  BY Invariance, <1>1, PTL

\* Every step of the binding is a step of the lease or leaves the lease alone; the
\* lease becomes free only when none of the sessions opened for it is left.
THEOREM Refinement == Spec => ImplementsLease
<1> DEFINE Abstract == [L!Next]_<<lease, sessions \ Shared>>
<1>1. Init => L!Init
  BY DEF Init, L!Init, lease, Shared
<1>2. ASSUME IInv, [Next]_vars PROVE Abstract
  <2> USE <1>2, BindingAssumption
      DEF IInv, TypeOK, SessionsInv, ProgressInv, Shared, OwnedBy, vars, config, lease, L!Next
  <2>1. CASE Reserve
    BY <2>1 DEF Reserve, L!Take
  <2>2. CASE ReserveRefused
    BY <2>2 DEF ReserveRefused
  <2>3. CASE ResetDone
    BY <2>3 DEF ResetDone
  <2>4. CASE ReserveFails
    BY <2>4 DEF ReserveFails
  <2>5. CASE ReserveReturns
    BY <2>5 DEF ReserveReturns, L!Grant
  <2>6. ASSUME NEW d \in DUTs, ResetDUT(d) PROVE Abstract
    BY <2>6 DEF ResetDUT
  <2>7. ASSUME NEW a \in ATEs, DialIxNetwork(a) PROVE Abstract
    BY <2>7 DEF DialIxNetwork, L!Open
  <2>8. ASSUME NEW a \in ATEs, DeleteSession(a) PROVE Abstract
    BY <2>8 DEF DeleteSession, L!Drop
  <2>9. CASE Release
    BY <2>9 DEF Release, L!GiveBack
  <2>10. CASE ReleaseFails
    BY <2>10 DEF ReleaseFails
  <2>11. CASE ReleaseReturns
    BY <2>11 DEF ReleaseReturns, L!Free
  <2>12. ASSUME NEW s \in sessions, ServerDrops(s) PROVE Abstract
    BY <2>12 DEF ServerDrops, L!Drop
  <2>13. CASE UNCHANGED vars
    BY <2>13
  <2> QED
    BY <2>1, <2>2, <2>3, <2>4, <2>5, <2>6, <2>7, <2>8, <2>9, <2>10, <2>11, <2>12, <2>13 DEF Next
<1> QED
  BY Invariance, <1>1, <1>2, PTL DEF Spec, ImplementsLease, L!Spec
-----------------------------------------------------------------------------
(* Accounting.                                                                *)

\* The users as the calls find them: each can authenticate with the password that
\* its call has, and only the permitted ones have the administrator's role.
UsersReady ==
    /\ Success \in DOMAIN users /\ users[Success] = User("verysecure", "admin")
    /\ FailUser.user \in DOMAIN users
    /\ users[FailUser.user].password = FailUser.password /\ users[FailUser.user].role # "admin"
    /\ (plan.role /\ plan.vendor \in {"arista", "nokia", "cisco"}) =>
         /\ FailAuthorize \in DOMAIN users
         /\ users[FailAuthorize].password = "failauth" /\ users[FailAuthorize].role # "admin"
    /\ (PrivEsc \in DOMAIN users /\ plan.vendor = "arista") => users[PrivEsc].password = "acctzPass123"
    /\ "linuxadmin" \in DOMAIN users => users["linuxadmin"] = User("NokiaSrl1!", "admin")

\* Call i is over.
Made(i) == i \in DOMAIN plan.calls /\ i < next

\* Until a call fails the two sequences agree, and every call made has reached the
\* device but for the one whose failure is not noticed.
AcctzInv ==
    /\ plan \in AcctzPlans /\ next \in Nat
    /\ (next \in DOMAIN plan.calls /\ ~fatal) => UsersReady
    /\ \A s \in reached : \E i : Made(i) /\ plan.calls[i] = s
    /\ RefusedForItsRole
    /\ (~fatal /\ errors = {}) =>
         /\ \A i : Made(i) /\ plan.calls[i] \in Services \ {"gnsi"} => plan.calls[i] \in reached
         /\ (\A i : Made(i) /\ plan.calls[i] \in Services => plan.calls[i] \in reached) => records = log
    /\ SessionsGetIn

LEMMA AcctzStart == AcctzInit => AcctzInv
<1> SUFFICES ASSUME AcctzInit PROVE AcctzInv
  OBVIOUS
<1>1. plan.calls \in Seq(Services \cup Commands)
  BY AcctzAssumption DEF AcctzInit
<1>2. \A i \in DOMAIN plan.calls : i \in Nat /\ i >= 1
  BY <1>1
<1> QED
  BY <1>2 DEF AcctzInit, AcctzInv, Made, RefusedForItsRole, SessionsGetIn

LEMMA SetupMakesReady ==
  ASSUME SetupUsers, plan \in AcctzPlans, next' = 1
  PROVE  UsersReady'
<1> USE DEF Success, Bilbo, FailAuthorize, PrivEsc, User, Unset
<1>0. UNCHANGED plan /\ next = 0
  BY DEF SetupUsers
<1>1. CASE plan.vendor = "juniper"
  <2>1. users' = setupUserPassword(juniperSetup, Success, "verysecure")
    BY <1>1, <1>0 DEF SetupUsers
  <2>2. /\ DOMAIN users' = {Success, Bilbo}
        /\ users'[Success] = User("verysecure", "admin")
        /\ users'[Bilbo].password = "baggins" /\ users'[Bilbo].role # "admin"
    BY <2>1 DEF setupUserPassword, juniperSetup
  <2> QED
    BY <1>0, <1>1, <2>2 DEF UsersReady, FailUser
<1>2. CASE plan.vendor # "juniper"
  <2> DEFINE created == [u \in DOMAIN Roles |-> User(Unset, Roles[u])]
  <2>1. users' = Passwords(created)
    BY <1>2, <1>0 DEF SetupUsers
  <2>2. /\ DOMAIN users' = {Success, Bilbo, FailAuthorize}
        /\ users'[Success] = User("verysecure", "admin")
        /\ users'[Bilbo].password = "baggins" /\ users'[Bilbo].role # "admin"
        /\ plan.role => users'[FailAuthorize].password = "failauth"
        /\ users'[FailAuthorize].role # "admin"
    BY <2>1 DEF Passwords, setupUserPassword, Roles
  <2>3. plan.vendor = "arista" => plan.role
    BY AcctzAssumption
  <2> QED
    BY <1>0, <1>2, <2>2, <2>3 DEF UsersReady, FailUser
<1> QED
  BY <1>1, <1>2

LEMMA RefusedAsExpected ==
  ASSUME UsersReady, NEW service
  PROVE  Answer(service, FailUser.user, FailUser.password) = IF OpenTo(service) THEN "permit" ELSE "deny"
BY DEF UsersReady, Answer, Authentic, FailUser, OpenTo, Unset

LEMMA PermittedAsExpected ==
  ASSUME UsersReady, NEW service
  PROVE  Answer(service, Success, "verysecure") = "permit"
BY DEF UsersReady, Answer, Authentic, User, Unset

\* The record of the refused call is the one the device logs.
LEMMA RefusedIsLogged ==
  ASSUME plan \in AcctzPlans, UsersReady, NEW service \in Services, Current = service
  PROVE  Logged(service, FailUser.user, Answer(service, FailUser.user, FailUser.password))
           = ExpectRefused(service)
<1>1. next \in DOMAIN plan.calls /\ plan.calls[next] = service
  BY DEF Current, Services
<1>2. /\ service = "gribi" => /\ ~Deviates("no_fail_grpc")
                              /\ plan.vendor = "arista" => Deviates("gribi_open")
      /\ service = "p4rt" => ~(Deviates("no_fail_grpc") /\ Deviates("p4rt_open"))
  BY <1>1, AcctzAssumption DEF Deviates
<1>3. Answer(service, FailUser.user, FailUser.password) = IF OpenTo(service) THEN "permit" ELSE "deny"
  BY RefusedAsExpected
<1> QED
  BY <1>2, <1>3 DEF Logged, ExpectRefused, OpenTo, expectedAuthzStatus, Services, Record

\* The calls made after one more.
LEMMA OneMore ==
  ASSUME plan \in AcctzPlans, next \in Nat, next \in DOMAIN plan.calls,
         UNCHANGED plan, next' = next + 1
  PROVE  /\ \A i : Made(i)' <=> Made(i) \/ i = next
         /\ \A i : Made(i) => plan.calls[i] # plan.calls[next]
         /\ \A i \in DOMAIN plan.calls : i \in Nat
<1>1. plan.calls \in Seq(Services \cup Commands)
  BY AcctzAssumption
<1>2. \A i \in DOMAIN plan.calls : i \in Nat
  BY <1>1
<1>3. \A i, j \in DOMAIN plan.calls : plan.calls[i] = plan.calls[j] => i = j
  BY AcctzAssumption
<1> QED
  BY <1>2, <1>3 DEF Made

LEMMA SendRPCsStep ==
  ASSUME AcctzInv, NEW service \in Services, SendRPCs(service)
  PROVE  AcctzInv'
<1>1. /\ ~fatal /\ next \in Nat /\ next > 0 /\ next \in DOMAIN plan.calls
      /\ plan.calls[next] = service /\ Current = service
      /\ UNCHANGED <<plan, users>> /\ next' = next + 1 /\ plan \in AcctzPlans /\ UsersReady
  BY DEF SendRPCs, AcctzInv, Current, Services
<1> DEFINE refused == Answer(service, FailUser.user, FailUser.password)
<1>2. PICK arrives \in BOOLEAN :
        LET failure == IF arrives THEN "none" ELSE OnFailure(service)
        IN /\ log' = log \o ExpectRefused(service)
                         \o (IF arrives THEN Logged(service, Success, "permit") ELSE <<>>)
           /\ records' = records \o ExpectRefused(service)
                           \o (IF failure = "fatal" THEN <<>> ELSE <<Record(service, Success, "permit")>>)
           /\ errors' = errors \cup (IF failure = "error" THEN {<<service, "permitted">>} ELSE {})
           /\ fatal' = (failure = "fatal")
           /\ reached' = reached \cup (IF arrives THEN {service} ELSE {})
  <2>1. refused = (IF OpenTo(service) THEN "permit" ELSE "deny") /\ Answer(service, Success, "verysecure") = "permit"
    BY <1>1, RefusedAsExpected, PermittedAsExpected
  <2>2. Logged(service, FailUser.user, refused) = ExpectRefused(service)
    BY <1>1, RefusedIsLogged
  <2> HIDE DEF refused
  <2> QED
    BY <2>1, <2>2 DEF SendRPCs, refused
<1>3. /\ \A i : Made(i)' <=> Made(i) \/ i = next
      /\ \A i : Made(i) => plan.calls[i] # service
      /\ \A i \in DOMAIN plan.calls : i \in Nat
  BY <1>1, OneMore
<1>4. Logged(service, Success, "permit") = <<Record(service, Success, "permit")>>
  BY DEF Logged
<1>5. service \notin reached
  BY <1>3 DEF AcctzInv
<1>6. (next \in DOMAIN plan.calls /\ ~fatal)' => UsersReady'
  BY <1>1 DEF UsersReady, FailUser
<1>7. \A s \in reached' : \E i : Made(i)' /\ plan'.calls[i] = s
  BY <1>1, <1>2, <1>3 DEF AcctzInv
<1>8. RefusedForItsRole'
  BY <1>2 DEF AcctzInv, RefusedForItsRole
<1>9. SessionsGetIn'
  BY <1>1, <1>2, <1>5 DEF SessionsGetIn
<1>10. ASSUME ~fatal', errors' = {}
       PROVE  /\ \A i : Made(i)' /\ plan'.calls[i] \in Services \ {"gnsi"} => plan'.calls[i] \in reached'
              /\ (\A i : Made(i)' /\ plan'.calls[i] \in Services => plan'.calls[i] \in reached') => records' = log'
  <2>1. errors = {}
    BY <1>2, <1>10
  <2>2. CASE arrives
    <3>1. reached' = reached \cup {service}
      BY <1>2, <2>2
    <3>2. \A i : Made(i) => (plan.calls[i] \in reached' <=> plan.calls[i] \in reached)
      BY <1>3, <3>1
    <3>3. records = log => records' = log'
      BY <1>2, <1>4, <2>2
    <3> QED
      BY <1>1, <1>3, <2>1, <3>1, <3>2, <3>3 DEF AcctzInv
  <2>3. CASE ~arrives
    <3>1. reached' = reached /\ service = "gnsi"
      BY <1>2, <1>10, <2>3 DEF OnFailure, Services
    <3> QED
      BY <1>1, <1>3, <1>5, <2>1, <3>1 DEF AcctzInv
  <2> QED
    BY <2>2, <2>3
<1> QED
  BY <1>1, <1>6, <1>7, <1>8, <1>9, <1>10 DEF AcctzInv

\* A session's user is there with its password, and what is logged is expected.
LEMMA LoginWorks ==
  ASSUME plan \in AcctzPlans, UsersReady, NEW call \in Commands, Current = call
  PROVE  LET who == Login(call).role
             known == KnownTo(call)
         IN /\ who \in DOMAIN known /\ known[who].password = Login(call).password
            /\ Commanded(call, known[who].role) = ExpectCommand(call)
<1>1. next \in DOMAIN plan.calls /\ plan.calls[next] = call
  BY DEF Current, Commands
<1>2. /\ call = "failcli" => plan.role /\ plan.vendor \in {"arista", "nokia", "cisco"}
      /\ call = "escalate" => plan.vendor = "arista"
  BY <1>1, AcctzAssumption
<1> QED
  BY <1>2 DEF UsersReady, Login, KnownTo, Commanded, ExpectCommand, Commands, User, Success,
              FailAuthorize, PrivEsc, Bilbo, Deviates

LEMMA SendCommandStep ==
  ASSUME AcctzInv, NEW call \in Commands, SendCommand(call)
  PROVE  AcctzInv'
<1>1. /\ ~fatal /\ next \in Nat /\ next > 0 /\ next \in DOMAIN plan.calls
      /\ plan.calls[next] = call /\ Current = call
      /\ UNCHANGED <<plan, errors, reached>> /\ next' = next + 1 /\ plan \in AcctzPlans /\ UsersReady
  BY DEF SendCommand, AcctzInv, Current, Commands
<1> DEFINE who == Login(call).role
           known == KnownTo(call)
<1>2. /\ users' = known /\ ~fatal'
      /\ log' = Append(log, Record(call, who, ExpectCommand(call)))
      /\ records' = Append(records, Record(call, who, ExpectCommand(call)))
  BY <1>1, LoginWorks DEF SendCommand
<1>3. /\ \A i : Made(i)' <=> Made(i) \/ i = next
      /\ \A i \in DOMAIN plan.calls : i \in Nat
  BY <1>1, OneMore
<1>4. UsersReady'
  BY <1>1, <1>2 DEF UsersReady, KnownTo, FailUser, User, PrivEsc
<1>5. call \notin Services
  BY DEF Services, Commands
<1>6. \A s \in reached' : \E i : Made(i)' /\ plan'.calls[i] = s
  BY <1>1, <1>3 DEF AcctzInv
<1> QED
  BY <1>1, <1>2, <1>3, <1>4, <1>5, <1>6 DEF AcctzInv, RefusedForItsRole, SessionsGetIn

LEMMA AcctzStep ==
  ASSUME AcctzInv, [AcctzNext]_acctzVars
  PROVE  AcctzInv'
<1>1. CASE SetupUsers
  <2>1. /\ next = 0 /\ UNCHANGED <<plan, log, records, errors, reached>>
        /\ (next' = 1 /\ fatal' = fatal) \/ (fatal' = TRUE /\ next' = next)
    BY <1>1, Zenon DEF SetupUsers
  <2>2. \A i \in DOMAIN plan.calls : i \in Nat /\ i >= 1
    <3>1. plan.calls \in Seq(Services \cup Commands)
      BY AcctzAssumption DEF AcctzInv
    <3> QED
      BY <3>1
  <2>3. \A i : ~Made(i) /\ ~Made(i)'
    BY <2>1, <2>2 DEF Made
  <2>4. next' = 1 => UsersReady'
    BY <1>1, SetupMakesReady DEF AcctzInv
  <2>5. fatal' => next' = 0 \/ fatal
    BY <2>1
  <2>6. ~fatal
    BY <1>1 DEF SetupUsers
  <2> QED
    BY <2>1, <2>3, <2>4, <2>5, <2>6 DEF AcctzInv, RefusedForItsRole, SessionsGetIn
<1>2. CASE SendGnmiRPCs \/ SendGnoiRPCs \/ SendGnsiRPCs \/ SendGribiRPCs \/ SendP4rtRPCs
  BY <1>2, SendRPCsStep DEF SendGnmiRPCs, SendGnoiRPCs, SendGnsiRPCs, SendGribiRPCs, SendP4rtRPCs, Services
<1>3. CASE SendSuccessCliCommand \/ SendFailCliCommand \/ SendShellCommand \/ SendPrivEscalation
  BY <1>3, SendCommandStep
  DEF SendSuccessCliCommand, SendFailCliCommand, SendShellCommand, SendPrivEscalation, Commands
<1>4. CASE Cleanup
  <2>1. UNCHANGED <<plan, log, records, next, errors, fatal, reached>>
    BY <1>4 DEF Cleanup
  <2>2. ~fatal => next \notin DOMAIN plan.calls
    <3>1. plan.calls \in Seq(Services \cup Commands)
      BY AcctzAssumption DEF AcctzInv
    <3>2. \A i \in DOMAIN plan.calls : plan.calls[i] \in Services \cup Commands
      BY <3>1
    <3> QED
      BY <1>4, <3>2 DEF Cleanup, Current, Services, Commands
  <2>3. \A i : Made(i)' <=> Made(i)
    BY <2>1 DEF Made
  <2> QED
    BY <2>1, <2>2, <2>3 DEF AcctzInv, RefusedForItsRole, SessionsGetIn
<1>5. CASE UNCHANGED acctzVars
  <2>1. \A i : Made(i)' <=> Made(i)
    BY <1>5 DEF Made, acctzVars
  <2> QED
    BY <1>5, <2>1 DEF AcctzInv, UsersReady, FailUser, RefusedForItsRole, SessionsGetIn, acctzVars
<1> QED
  BY <1>1, <1>2, <1>3, <1>4, <1>5 DEF AcctzNext

\* For every vendor, set of deviations and order of calls that the tests' metadata
\* allow: the records the Send functions return are those the device logs unless a
\* call failed, the refused user is refused for its role, no session is refused, and
\* only SendGnsiRPCs can miss that its permitted call failed.
THEOREM RecordsAreAsExpected == AcctzSpec => []RecordsAsExpected
<1>1. AcctzInv => RecordsAsExpected
  <2> SUFFICES ASSUME AcctzInv PROVE RecordsAsExpected
    OBVIOUS
  <2>1. Done => \A i \in DOMAIN plan.calls : Made(i)
    <3>1. plan.calls \in Seq(Services \cup Commands)
      BY AcctzAssumption DEF AcctzInv
    <3> QED
      BY <3>1 DEF AcctzInv, Done, Made
  <2>2. RecordsAreLogged /\ SilentMeansSent
    BY <2>1 DEF AcctzInv, RecordsAreLogged, SilentMeansSent, Done, Made
  <2> QED
    BY <2>2 DEF AcctzInv, RecordsAsExpected
<1>2. AcctzInit => AcctzInv
  BY AcctzStart
<1>3. AcctzInv /\ [AcctzNext]_acctzVars => AcctzInv'
  BY AcctzStep
<1> QED
  BY <1>1, <1>2, <1>3, PTL DEF AcctzSpec
=============================================================================
