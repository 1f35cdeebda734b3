---------------------------- MODULE CertzRotation ----------------------------
(***************************************************************************)
(* Rotating certificates and trust bundles over gNSI                       *)
(* (feature/gnsi/certz/tests/internal/setup_service): a test rotates, case *)
(* by case, what the servers of the device present and trust.  CertzRotate *)
(* sends the upload, lets one goroutine wait for the response and others   *)
(* poll a channel that it closes, tries the new credentials, and           *)
(* finalizes.  The device (external) uses an uploaded profile at once for  *)
(* new connections, or fails to, and goes back to the last finalized one   *)
(* when the stream ends early.                                             *)
(***************************************************************************)
EXTENDS Naturals, Sequences, FiniteSets

CONSTANTS
    Plans,          \* the cases of one test, each [ca, bundle, both, newTLS, mismatch]
    Waiters,        \* the polling goroutines (retries)
    CanRefuse,      \* the device may answer the upload with an error
    CanIgnore       \* the device may accept the upload and not use it

ASSUME WaitersAssumption == IsFiniteSet(Waiters)

VARIABLES
    cases, k,       \* the test and its current case
    pc,
    wg,             \* the WaitGroup, a variable of the package
    spawned,        \* goroutines started so far
    gos,            \* state of each goroutine
    answered,       \* the channel is closed
    device,         \* [cert, bundle, profile, stream, ignores]: what new connections meet
    kept,           \* what the device goes back to
    client,         \* the CA of the credentials the test dials with
    checked,        \* the services still to verify
    reports         \* t.Errorf calls of this case

vars == <<cases, k, pc, wg, spawned, gos, answered, device, kept, client, checked, reports>>

Recv == "recv"
Goroutines == Waiters \cup {Recv}
Services == <<"gnoi", "gribi", "p4rt", "gnmi", "gnsi">>
Case == cases[k]
goVars == <<wg, spawned, gos, answered>>

\* TLS needs the client to trust the server and the server to trust the client.
Works(d, ca) == d.cert = ca /\ d.bundle = ca

Init ==
    /\ cases \in Plans /\ k = 1 /\ pc = "preinit"
    /\ wg = 0 /\ spawned = {} /\ gos = [g \in Goroutines |-> "none"] /\ answered = FALSE
    /\ device = [cert |-> 0, bundle |-> 0, profile |-> "system", stream |-> FALSE, ignores |-> FALSE]
    /\ kept = [cert |-> 0, bundle |-> 0]
    /\ client = 0 /\ checked = <<>> /\ reports = {}

\* A plausible slip: the stream is not closed when the function ends.
Back_NoCloseSend(d) == d

\* A failed test ends its streams; the device then drops what is not finalized.
Back(d) == [d EXCEPT !.cert = kept.cert, !.bundle = kept.bundle, !.stream = FALSE]
Fatal == pc' = "fatal" /\ device' = Back(device)

\* PreInitCheck dials every service with the credentials the device came with.
PreInitCheck ==
    /\ pc = "preinit"
    /\ IF Works(device, client) THEN pc' = "prepare" /\ UNCHANGED device ELSE Fatal
    /\ UNCHANGED <<cases, k, goVars, kept, client, checked, reports>>

\* ReadDecodeServerCertificate, CreateCertzChain: a file is missing, unreadable
\* or of another server, or all of them are as they should be.
Prepare ==
    /\ pc = "prepare"
    /\ \/ pc' = "send" /\ UNCHANGED device
       \/ Fatal
    /\ reports' = {}
    /\ UNCHANGED <<cases, k, goVars, kept, client, checked>>

CreateCertzEntity(kind) == [kind |-> kind, ca |-> IF kind = "chain" THEN Case.ca ELSE Case.bundle]
Entities == {CreateCertzEntity(kind) : kind \in IF Case.both THEN {"chain", "bundle"} ELSE {"chain"}}

\* The upload is sent on a stream dialled with the credentials of the case before.
SendRotate ==
    /\ pc = "send"
    /\ IF ~Works(device, client) THEN Fatal /\ UNCHANGED <<wg, spawned, gos, answered>>
       ELSE /\ pc' = "spawn"
            /\ device' = [device EXCEPT !.stream = TRUE]
            /\ wg' = wg + 1 /\ spawned' = {Recv} /\ answered' = FALSE
            /\ gos' = [g \in Goroutines |-> IF g = Recv THEN "run" ELSE "none"]
    /\ UNCHANGED <<cases, k, kept, client, checked, reports>>

Used(d) ==
    LET after(kind, old) == IF \E e \in Entities : e.kind = kind
                            THEN (CHOOSE e \in Entities : e.kind = kind).ca ELSE old
    IN [d EXCEPT !.cert = after("chain", d.cert), !.bundle = after("bundle", d.bundle)]

\* A plausible slip: nobody closes the channel.
Receive_NoClose ==
    /\ gos[Recv] = "run"
    /\ gos' = [gos EXCEPT ![Recv] = "done"]
    /\ wg' = wg - 1
    /\ device' = Used(device)
    /\ UNCHANGED <<cases, k, pc, spawned, answered, kept, client, checked, reports>>

\* The receiving goroutine: an answer closes the channel, an error does not.
Receive ==
    /\ gos[Recv] = "run"
    /\ gos' = [gos EXCEPT ![Recv] = "done"]
    /\ wg' = wg - 1
    /\ \/ /\ answered' = TRUE
          /\ \/ device' = Used(device)
             \/ CanIgnore /\ device' = [device EXCEPT !.ignores = TRUE]
          /\ UNCHANGED reports
       \/ /\ CanRefuse
          /\ reports' = reports \cup {"recv"}
          /\ UNCHANGED <<answered, device>>
    /\ UNCHANGED <<cases, k, pc, spawned, kept, client, checked>>

\* A plausible slip: each goroutine adds itself to the group once it runs.
SpawnWaiter_AddsLater(w) ==
    /\ pc = "spawn" /\ w \notin spawned
    /\ spawned' = spawned \cup {w}
    /\ gos' = [gos EXCEPT ![w] = "run"]
    /\ pc' = IF spawned' = Goroutines THEN "wait" ELSE pc
    /\ UNCHANGED <<cases, k, wg, answered, device, kept, client, checked, reports>>

SpawnWaiter(w) ==
    /\ pc = "spawn" /\ w \notin spawned
    /\ wg' = wg + 1
    /\ spawned' = spawned \cup {w}
    /\ gos' = [gos EXCEPT ![w] = "run"]
    /\ pc' = IF spawned' = Goroutines THEN "wait" ELSE pc
    /\ UNCHANGED <<cases, k, answered, device, kept, client, checked, reports>>

\* Each polls the channel, sleeping in between; only its closing ends it.
Poll(w) ==
    /\ gos[w] = "run" /\ answered
    /\ gos' = [gos EXCEPT ![w] = "done"]
    /\ wg' = wg - 1
    /\ UNCHANGED <<cases, k, pc, spawned, answered, device, kept, client, checked, reports>>

\* wg.Wait; the first rotation also points every server at the new profile.
Wait ==
    /\ pc = "wait" /\ wg = 0
    /\ pc' = "verify"
    /\ device' = IF Case.newTLS THEN device ELSE [device EXCEPT !.profile = "test"]
    /\ UNCHANGED <<cases, k, goVars, kept, client, checked, reports>>

NewCA == Case.ca

\* A plausible slip: an unexpected error is only logged.
ValidateGnsiAuthzGetRequest_Silent == reports

\* Any error but FAILED_PRECONDITION is reported, and the answer is true.
ValidateGnsiAuthzGetRequest ==
    IF Works(device, NewCA) THEN reports ELSE reports \cup {"gnsi"}

VerifyGnsi ==
    /\ pc = "verify"
    /\ reports' = ValidateGnsiAuthzGetRequest
    /\ pc' = "finalize"
    /\ UNCHANGED <<cases, k, goVars, device, kept, client, checked>>

\* The stream may be gone when the finalization is sent.
Finalize ==
    /\ pc = "finalize"
    /\ \/ /\ pc' = "services"
          /\ kept' = [cert |-> device.cert, bundle |-> device.bundle]
          /\ device' = [device EXCEPT !.stream = FALSE]
          /\ checked' = IF Case.mismatch THEN <<>> ELSE Services
       \/ Fatal /\ UNCHANGED <<kept, checked>>
    /\ UNCHANGED <<cases, k, goVars, client, reports>>

\* VerifyGnoi, VerifyGnmi, VerifyGribi, VerifyP4rt: a connection of their own with
\* the new credentials and one request, whose failure is fatal; the flag that
\* a mismatch is expected is not looked at.
VerifyFails(service) == service # "gnsi" /\ ~Works(device, NewCA)

\* ServicesValidationCheck: one service after the other, the last as above.
\* A test that expects a mismatch has nothing left to verify.
ServicesValidationCheck ==
    /\ pc = "services" /\ checked # <<>>
    /\ checked' = Tail(checked)
    /\ IF Head(checked) = "gnsi"
       THEN reports' = ValidateGnsiAuthzGetRequest /\ UNCHANGED <<pc, device>>
       ELSE /\ IF VerifyFails(Head(checked)) THEN Fatal ELSE UNCHANGED <<pc, device>>
            /\ UNCHANGED reports
    /\ UNCHANGED <<cases, k, goVars, kept, client>>

\* The next case dials with the credentials this one has installed.
NextCase ==
    /\ pc = "services" /\ checked = <<>>
    /\ IF k < Len(cases) THEN k' = k + 1 /\ pc' = "prepare" ELSE pc' = "done" /\ UNCHANGED k
    /\ client' = NewCA
    /\ device' = [device EXCEPT !.ignores = FALSE]
    /\ UNCHANGED <<cases, goVars, kept, checked, reports>>

Stopped == pc \in {"fatal", "done"} /\ UNCHANGED vars

Run ==
    PreInitCheck \/ Prepare \/ SendRotate \/ Wait \/ VerifyGnsi \/ Finalize
    \/ ServicesValidationCheck \/ NextCase
Next == Run \/ Receive \/ (\E w \in Waiters : SpawnWaiter(w) \/ Poll(w)) \/ Stopped

Fairness ==
    /\ WF_vars(Run) /\ WF_vars(Receive)
    /\ \A w \in Waiters : WF_vars(SpawnWaiter(w)) /\ WF_vars(Poll(w))
Spec == Init /\ [][Next]_vars

------------------------------------------------------------------------------
AfterWait == pc \in {"verify", "finalize", "services", "done"}

\* wg.Wait returns only when the receiver and every poller of this rotation
\* have ended, so nobody writes the response or the error any more; the count,
\* which lives longer than a rotation, is never negative.
NobodyLeftBehind == wg >= 0 /\ (AfterWait => \A g \in Goroutines : gos[g] = "done")

\* A rotation that is finalized while nothing was reported has credentials that
\* work, before the services are verified and after.
SilentMeansReachable ==
    pc = "services" /\ reports = {} => Works(device, NewCA) \/ Case.mismatch

\* A test that stopped before it finalized leaves the certificates of the last
\* finalized rotation.
RollsBack == pc = "fatal" => [cert |-> device.cert, bundle |-> device.bundle] = kept /\ ~device.stream

\* What a rotation promises: it goes on only when its goroutines have ended, its
\* silence means credentials that work, and a failure is rolled back.
RotationEndsWell == NobodyLeftBehind /\ SilentMeansReachable /\ RollsBack
==============================================================================
