-------------------------------- MODULE Waits --------------------------------
(***************************************************************************)
(* The code that waits for a device, and what is proved about it for every *)
(* value of the constants.  A behaviour is about one part: the validators  *)
(* of internal/check, a sample stream, the container set-up, the three     *)
(* waits for a reboot, a sample RPC, or the telemetry of a pluggable that  *)
(* ramps.  The other parts stand still, so one specification asks of every *)
(* wait whether its success was earned.                                    *)
(*                                                                         *)
(* Each part has an inductive invariant of its own; a step is one of the   *)
(* part that the behaviour is about (OnePart), so the parts are proved one *)
(* after the other.                                                        *)
(***************************************************************************)
EXTENDS CertzRotation, Integers, Sequences, FiniteSetTheorems, TLAPS

CONSTANTS  \* the parameters of the parts, described where they are declared
  Kinds, MaxChanges,
  MaxSamples, MaxCalls,
  GivenNames, PollTimeout,
  RebootWaiters, Components, MaxPolls, DelayPolls,
  Rpcs, MaxMessages,
  Window, Pluggables

\* A caller of Setup names the instance itself: the clean-up does not apply the
\* default.  Statistics cover at least one reading, of a component that one of the
\* three validators is for.
ASSUME KindsAssumption == Kinds \in Seq(STRING)
ASSUME NamesAssumption == "" \notin GivenNames
ASSUME ComponentsAssumption == Components \in Nat
ASSUME WindowAssumption == Window \in Nat \ {0}
ASSUME PluggablesAssumption == \A p \in Pluggables : p.stream \in {"otn", "och", "transceiver"}

VARIABLES
  part,  \* the part that this behaviour is about
  value, changes, expired, call, i, awaitPc, checkOnly, lastInvalid, seen, pending,
  results,
  data, stored, closed, caller, began, local, loop, ch, ret, calls,
  given, removeImage, poll, containerzPc, inst, ours, image, time, failed,
  waiter, alreadyDown, phase, comps, rebootPc, wentDown, rebootTime, errors,
  rpc, permitted, hostname, execPc, messages, answer, result,
  plan, opticalPhase, own, peer, out, in, qual, opticalErrors, status

-----------------------------------------------------------------------------
Await == INSTANCE CheckAwait WITH pc <- awaitPc
Stream == INSTANCE SampleStream
Containers == INSTANCE Containerz WITH pc <- containerzPc
Reboot == INSTANCE RebootWait WITH
  Waiters <- RebootWaiters, Glitches <- FALSE, pc <- rebootPc, time <- rebootTime
Exec == INSTANCE RpcExec WITH HostnameSet <- {TRUE}, pc <- execPc
Optical == INSTANCE OpticalTelemetry WITH
  Plans <- Pluggables, phase <- opticalPhase, errors <- opticalErrors

awaitVars == <<value, changes, expired, call, i, awaitPc, checkOnly, lastInvalid,
               seen, pending, results>>
streamVars == <<data, stored, closed, caller, began, local, loop, ch, ret, calls>>
containerzVars == <<given, removeImage, poll, containerzPc, inst, ours, image,
                    time, failed>>
rebootVars == <<waiter, alreadyDown, phase, comps, rebootPc, wentDown, rebootTime,
                errors>>
execVars == <<rpc, permitted, hostname, execPc, messages, answer, result>>
opticalVars == <<plan, opticalPhase, own, peer, out, in, qual, opticalErrors,
                 status>>
waitsVars == <<part, awaitVars, streamVars, containerzVars, rebootVars, execVars, opticalVars>>

\* A part that a behaviour is not about stands still.
Idle == "idle"
AwaitIdle == value = Idle /\ changes = Idle /\ expired = Idle /\ call = Idle /\
             i = Idle /\ awaitPc = Idle /\ checkOnly = Idle /\
             lastInvalid = Idle /\ seen = Idle /\ pending = Idle /\ results = Idle
StreamIdle == data = Idle /\ stored = Idle /\ closed = Idle /\ caller = Idle /\
              began = Idle /\ local = Idle /\ loop = Idle /\ ch = Idle /\
              ret = Idle /\ calls = Idle
ContainersIdle == given = Idle /\ removeImage = Idle /\ poll = Idle /\
                  containerzPc = Idle /\ inst = Idle /\ ours = Idle /\
                  image = Idle /\ time = Idle /\ failed = Idle
RebootIdle == waiter = Idle /\ alreadyDown = Idle /\ phase = Idle /\
              comps = Idle /\ rebootPc = Idle /\ wentDown = Idle /\
              rebootTime = Idle /\ errors = Idle
ExecIdle == rpc = Idle /\ permitted = Idle /\ hostname = Idle /\ execPc = Idle /\
            messages = Idle /\ answer = Idle /\ result = Idle
OpticalIdle == plan = Idle /\ opticalPhase = Idle /\ own = Idle /\ peer = Idle /\
               out = Idle /\ in = Idle /\ qual = Idle /\ opticalErrors = Idle /\
               status = Idle

WaitsInit ==
  /\ IF part = "await" THEN Await!Init ELSE AwaitIdle
  /\ IF part = "stream" THEN Stream!Init ELSE StreamIdle
  /\ IF part = "containerz" THEN Containers!Init ELSE ContainersIdle
  /\ IF part = "reboot" THEN Reboot!Init ELSE RebootIdle
  /\ IF part = "exec" THEN Exec!Init ELSE ExecIdle
  /\ IF part = "optical" THEN Optical!Init ELSE OpticalIdle

WaitsNext ==
  \/ /\ part = "await" /\ Await!Next
     /\ UNCHANGED <<part, streamVars, containerzVars, rebootVars, execVars, opticalVars>>
  \/ /\ part = "stream" /\ Stream!Next
     /\ UNCHANGED <<part, awaitVars, containerzVars, rebootVars, execVars, opticalVars>>
  \/ /\ part = "containerz" /\ Containers!Next
     /\ UNCHANGED <<part, awaitVars, streamVars, rebootVars, execVars, opticalVars>>
  \/ /\ part = "reboot" /\ Reboot!Next
     /\ UNCHANGED <<part, awaitVars, streamVars, containerzVars, execVars, opticalVars>>
  \/ /\ part = "exec" /\ Exec!Next
     /\ UNCHANGED <<part, awaitVars, streamVars, containerzVars, rebootVars, opticalVars>>
  \/ /\ part = "optical" /\ Optical!Next
     /\ UNCHANGED <<part, awaitVars, streamVars, containerzVars, rebootVars, execVars>>

WaitsSpec == WaitsInit /\ [][WaitsNext]_waitsVars

-----------------------------------------------------------------------------
\* What a wait reports was there to be seen: a validator was shown a value it
\* accepts, and otherwise names the one it rejected last; AwaitNext returns a
\* sample that satisfies its predicate; WaitForReboot, where no dial fails on a
\* device that is up, and RebootChassis saw the device after the reboot, never
\* the one that has yet to go down (RebootDUT does not compare boot times and is
\* left out), and RebootChassis hands on all of its components; a sample RPC on
\* a device with a host name succeeds exactly for users who may make it, however
\* long its stream; the light of an optical channel that passes is on at both
\* ends, and no sample is reported that its readiness predicate had accepted (of
\* a transceiver or optical channel for its input power: the output power is
\* judged without being awaited).
VerdictsEarned ==
  CASE part = "await" -> Await!VerdictsExplained
    [] part = "stream" -> Stream!AwaitTruthful
    [] part = "reboot" -> Reboot!RebootHappened /\ Reboot!ComponentsAreBack
    [] part = "exec" -> Exec!ExecTells
    [] part = "optical" -> /\ Optical!PassMeansLight /\ Optical!OTNReadyPasses
                           /\ Optical!InputPowerReadyPasses
    [] OTHER -> TRUE

\* A test never runs against what another test or call left behind, and leaves
\* nothing itself: the container is the one this Setup started and the clean-up
\* removes it.
NothingLeft ==
  part = "containerz" => Containers!CleanupRemoves /\ Containers!TestUsesOwnContainer

-----------------------------------------------------------------------------
\* internal/check.  What a validator has returned is explained by what it saw,
\* and while it watches, lastErr stands for a value that it did see.
AwaitResults ==
  [kind : STRING, cause : {"nil", "deadline", "network"},
   invalid : Await!Values \cup {"nil"}, seen : SUBSET Await!Values]
AwaitInv ==
  /\ value \in Await!Values /\ seen \in SUBSET Await!Values /\ pending \in Seq(Await!Values)
  /\ lastInvalid \in Await!Values \cup {"nil"} /\ results \in Seq(AwaitResults)
  /\ i \in Nat \ {0} /\ (awaitPc # "call" => i <= Len(Kinds))
  /\ awaitPc = "watch" => lastInvalid \in seen /\ ~Await!Valid(Kinds[i], lastInvalid)
  /\ Await!VerdictsExplained

\* internal/samplestream.  The channel holds a value only after the goroutine
\* has found a good sample and before anything else is written to lastVal.
StreamInv ==
  /\ ch \in BOOLEAN
  /\ ch => loop = "sent"
  /\ loop = "sent" => local # Stream!Nil /\ local.good
  /\ Stream!AwaitTruthful

\* internal/containerztest.  From the start on the image is there, and from the
\* wait for the container on it is the one this call started.
ContainerzInv ==
  /\ given \in GivenNames /\ inst \in [Containers!Names -> {"absent", "starting", "running", "stopped"}]
  /\ containerzPc \in {"start", "poll", "test"} => image
  /\ containerzPc \in {"poll", "test"} => ours
  /\ Containers!CleanupRemoves

\* The waits for a reboot.  A poll that failed, or a boot time that advanced,
\* tells that the device has left the state before the reboot for good.
RebootInv ==
  /\ errors \in BOOLEAN /\ wentDown \in BOOLEAN /\ phase \in {"serving", "down", "up"}
  /\ waiter = "containerz" /\ wentDown => phase # "serving"
  /\ rebootPc = "components" /\ ~errors => phase # "serving"
  /\ Reboot!RebootHappened /\ Reboot!ComponentsAreBack

\* internal/security/gnxi.  The answer that waits to be read tells who asks.
ExecInv ==
  /\ permitted \in BOOLEAN /\ hostname = TRUE
  /\ execPc = "wait" => rpc \in Exec!Implemented
  /\ answer # "none" =>
       \/ ~permitted /\ answer = "denied"
       \/ permitted /\ rpc \in Exec!Unary /\ answer = "ok"
       \/ permitted /\ rpc \in Exec!ToTheEnd /\ answer \in {"message", "eof"}
       \/ permitted /\ rpc = "GribiModify" /\ answer \in {"message", "params"}
       \/ permitted /\ rpc = "GnsiAuthzRotate" /\ answer = "invalid_policy"
  /\ Exec!ExecTells

\* internal/telemetry.  The readings are levels of the two lasers.
Levels == {-400, -150, -120, -100}
SeenLevels == {-400, -155, -125, -105}
OpticalInv ==
  /\ plan \in Pluggables /\ opticalPhase \in 1 .. 4 /\ own \in 1 .. 4 /\ peer \in 1 .. 4
  /\ out \in Seq(Levels) /\ Len(out) = Window /\ in \in Seq(SeenLevels) /\ Len(in) = Window
  /\ "input-power" \notin opticalErrors
  /\ Optical!OTNReadyPasses /\ Optical!PassMeansLight

WaitsInv ==
  /\ part = "await" => AwaitInv
  /\ part = "stream" => StreamInv
  /\ part = "containerz" => ContainerzInv
  /\ part = "reboot" => RebootInv
  /\ part = "exec" => ExecInv
  /\ part = "optical" => OpticalInv
\* A step is one of the part that the behaviour is about.
LEMMA OnePart ==
  ASSUME [WaitsNext]_waitsVars
  PROVE  /\ part' = part
         /\ part = "await" => [Await!Next]_awaitVars
         /\ part = "stream" => [Stream!Next]_streamVars
         /\ part = "containerz" => [Containers!Next]_containerzVars
         /\ part = "reboot" => [Reboot!Next]_rebootVars
         /\ part = "exec" => [Exec!Next]_execVars
         /\ part = "optical" => [Optical!Next]_opticalVars
BY DEF WaitsNext, waitsVars

-----------------------------------------------------------------------------

\* The callback, AwaitNext and its goroutine keep StreamInv.
LEMMA StreamStep == StreamInv /\ [Stream!Next]_streamVars => StreamInv'
<1> SUFFICES ASSUME StreamInv, [Stream!Next]_streamVars PROVE StreamInv'
  OBVIOUS
<1> USE DEF StreamInv, Stream!AwaitTruthful
<1>1. ASSUME NEW good \in BOOLEAN, Stream!Receive(good) PROVE StreamInv'
  BY <1>1 DEF Stream!Receive
<1>2. CASE Stream!Close
  BY <1>2 DEF Stream!Close
<1>3. ASSUME NEW f \in {"next", "await"}, Stream!Call(f) PROVE StreamInv'
  BY <1>3 DEF Stream!Call
<1>4. CASE Stream!NextReturns
  BY <1>4 DEF Stream!NextReturns
<1>5. CASE Stream!AwaitSpawns
  BY <1>5 DEF Stream!AwaitSpawns
<1>6. CASE Stream!LoopTests
  BY <1>6 DEF Stream!LoopTests
<1>7. CASE Stream!LoopWakes
  BY <1>7 DEF Stream!LoopWakes
<1>8. CASE Stream!AwaitReturns
  BY <1>8 DEF Stream!AwaitReturns
<1>9. CASE Stream!AwaitTimesOut
  BY <1>9 DEF Stream!AwaitTimesOut
<1>10. CASE UNCHANGED streamVars
  BY <1>10 DEF streamVars
<1> QED
  BY <1>1, <1>2, <1>3, <1>4, <1>5, <1>6, <1>7, <1>8, <1>9, <1>10 DEF Stream!Next

-----------------------------------------------------------------------------

\* Setup, the wait for running and the clean-up keep ContainerzInv.
LEMMA ContainerzStep == ContainerzInv /\ [Containers!Next]_containerzVars => ContainerzInv'
<1> SUFFICES ASSUME ContainerzInv, [Containers!Next]_containerzVars PROVE ContainerzInv'
  OBVIOUS
<1>0. Containers!InstanceName = given /\ (UNCHANGED given => Containers!InstanceName' = given)
  BY NamesAssumption, Zenon DEF ContainerzInv, Containers!InstanceName
<1> USE <1>0 DEF ContainerzInv, Containers!CleanupRemoves, Containers!Names, Containers!opts
<1>1. CASE Containers!RemoveExisting
  BY <1>1 DEF Containers!RemoveExisting
<1>2. CASE Containers!PushImage
  BY <1>2 DEF Containers!PushImage
<1>3. CASE Containers!StartContainer
  BY <1>3 DEF Containers!StartContainer
<1>4. CASE Containers!WaitForRunning
  BY <1>4 DEF Containers!WaitForRunning
<1>5. CASE Containers!Stop
  BY <1>5 DEF Containers!Stop
<1>6. CASE Containers!RemoveContainer
  BY <1>6 DEF Containers!RemoveContainer
<1>7. CASE Containers!Device
  <2>1. PICK n \in Containers!Names :
          /\ inst[n] # "absent" /\ \E x \in {"running", "stopped"} : inst' = [inst EXCEPT ![n] = x]
          /\ UNCHANGED <<given, removeImage, poll, containerzPc, ours, image, time, failed>>
    BY <1>7 DEF Containers!Device
  <2> QED
    BY <2>1
<1>8. CASE UNCHANGED containerzVars
  BY <1>8 DEF containerzVars
<1> QED
  BY <1>1, <1>2, <1>3, <1>4, <1>5, <1>6, <1>7, <1>8 DEF Containers!Next, Containers!Program

-----------------------------------------------------------------------------

\* The device and the polls keep RebootInv.
LEMMA RebootStep == RebootInv /\ [Reboot!Next]_rebootVars => RebootInv'
<1> SUFFICES ASSUME RebootInv, [Reboot!Next]_rebootVars PROVE RebootInv'
  OBVIOUS
<1> USE ComponentsAssumption DEF RebootInv, Reboot!RebootHappened, Reboot!ComponentsAreBack,
                            Reboot!device, Reboot!Answers, Reboot!MayFail
<1>1. CASE Reboot!Device
  BY <1>1 DEF Reboot!Device, Reboot!GoDown, Reboot!ComeUp, Reboot!CompUp
<1>2. CASE Reboot!WaitForReboot
  <2>1. /\ waiter = "containerz" /\ rebootPc = "poll" /\ UNCHANGED <<waiter, phase, comps, errors>>
        /\ \/ rebootPc' = "failed" /\ wentDown' = wentDown
           \/ phase = "down" /\ wentDown' = TRUE /\ rebootPc' = rebootPc
           \/ phase # "down" /\ wentDown /\ rebootPc' = "passed" /\ wentDown' = wentDown
           \/ rebootPc' = rebootPc /\ wentDown' = wentDown
    BY <1>2, Zenon DEF Reboot!WaitForReboot
  <2>2. wentDown' \in BOOLEAN /\ (wentDown' => phase # "serving")
    <3>1. CASE wentDown' = wentDown
      BY <2>1, <3>1, Zenon
    <3>2. CASE phase = "down" /\ wentDown' = TRUE
      BY <3>2, Zenon
    <3> QED
      BY <2>1, <3>1, <3>2, Zenon
  <2>3. rebootPc' = "passed" => phase' = "up"
    BY <2>1, <2>2
  <2> QED
    BY <2>1, <2>2, <2>3, Zenon
<1>3. CASE Reboot!RebootDUT
  BY <1>3 DEF Reboot!RebootDUT
<1>4. CASE Reboot!ChassisDelay
  BY <1>4 DEF Reboot!ChassisDelay
<1>5. CASE Reboot!ChassisPoll
  BY <1>5 DEF Reboot!ChassisPoll
<1>6. CASE Reboot!ChassisBootTime
  BY <1>6 DEF Reboot!ChassisBootTime
<1>7. CASE Reboot!ChassisComponents
  BY <1>7 DEF Reboot!ChassisComponents
<1>8. CASE UNCHANGED rebootVars
  BY <1>8 DEF rebootVars
<1> QED
  BY <1>1, <1>2, <1>3, <1>4, <1>5, <1>6, <1>7, <1>8 DEF Reboot!Next, Reboot!Wait

-----------------------------------------------------------------------------

\* Requests and their answers keep ExecInv.
LEMMA ExecStep == ExecInv /\ [Exec!Next]_execVars => ExecInv'
<1> SUFFICES ASSUME ExecInv, [Exec!Next]_execVars PROVE ExecInv'
  OBVIOUS
<1> USE DEF ExecInv, Exec!ExecTells, Exec!None, Exec!Implemented, Exec!Unary, Exec!ToTheEnd
<1>1. CASE Exec!Dial
  BY <1>1 DEF Exec!Dial
<1>2. CASE Exec!Unimplemented
  BY <1>2 DEF Exec!Unimplemented
<1>3. CASE Exec!Device
  <2>1. /\ answer' \in Exec!Answers /\ execPc = "wait"
        /\ UNCHANGED <<rpc, permitted, hostname, execPc, result>>
    BY <1>3 DEF Exec!Device
  <2>2. CASE ~permitted
    <3>1. Exec!Answers = {"denied"}
      BY <2>2 DEF Exec!Answers
    <3> QED
      BY <2>1, <2>2, <3>1
  <2>3. CASE permitted /\ rpc \in Exec!Unary
    <3>1. Exec!Answers = {"ok"}
      BY <2>3 DEF Exec!Answers
    <3> QED
      BY <2>1, <2>3, <3>1
  <2>4. CASE permitted /\ rpc \in Exec!ToTheEnd
    <3>1. Exec!Answers \subseteq {"message", "eof"}
      BY <2>4 DEF Exec!Answers
    <3> QED
      BY <2>1, <2>4, <3>1
  <2>5. CASE permitted /\ rpc = "GribiModify"
    <3>1. Exec!Answers \subseteq {"message", "params"}
      BY <2>5 DEF Exec!Answers
    <3> QED
      BY <2>1, <2>5, <3>1
  <2>6. CASE permitted /\ rpc = "GnsiAuthzRotate"
    <3>1. Exec!Answers = {"invalid_policy"}
      BY <2>6 DEF Exec!Answers
    <3> QED
      BY <2>1, <2>6, <3>1
  <2> QED
    BY <2>1, <2>2, <2>3, <2>4, <2>5, <2>6
<1>4. CASE Exec!Receive
  BY <1>4 DEF Exec!Receive, Exec!Exec, Exec!Again, Exec!OneAnswer, Exec!GnmiGet, Exec!GribiGet,
              Exec!GnoiSystemPing, Exec!GribiModify, Exec!GnsiAuthzRotate
<1>5. CASE UNCHANGED execVars
  BY <1>5 DEF execVars
<1> QED
  BY <1>1, <1>2, <1>3, <1>4, <1>5 DEF Exec!Next

-----------------------------------------------------------------------------
\* What Return appends keeps every verdict explained.
LEMMA ReturnExplained ==
  ASSUME AwaitInv, i <= Len(Kinds), NEW cause \in {"nil", "deadline", "network"},
         NEW invalid \in Await!Values \cup {"nil"}, seen' \in SUBSET Await!Values,
         Await!Return(cause, invalid),
         cause = "nil" /\ invalid = "nil" => \E v \in seen' : Await!Valid(Kinds[i], v),
         cause = "deadline" \/ (cause = "nil" /\ invalid # "nil") =>
           invalid \in seen' /\ ~Await!Valid(Kinds[i], invalid)
  PROVE  AwaitInv'
<1> DEFINE r == [kind |-> Kinds[i], cause |-> cause, invalid |-> invalid, seen |-> seen']
<1>1. r \in AwaitResults
  BY KindsAssumption DEF AwaitInv, AwaitResults
<1>2. /\ results' = Append(results, r) /\ awaitPc' = "call" /\ i' = i + 1 /\ pending' = <<>>
      /\ lastInvalid' = invalid /\ value' = value
  BY DEF Await!Return
<1>3. results' \in Seq(AwaitResults) /\ Len(results') = Len(results) + 1 /\ results'[Len(results) + 1] = r
      /\ \A j \in 1 .. Len(results) : results'[j] = results[j]
  BY <1>1, <1>2 DEF AwaitInv
<1>4. /\ Await!Passed(r) => \E v \in r.seen : Await!Valid(r.kind, v)
      /\ ~Await!Passed(r) /\ r.cause # "network" => r.invalid \in r.seen /\ ~Await!Valid(r.kind, r.invalid)
  <2>1. r.kind = Kinds[i] /\ r.cause = cause /\ r.invalid = invalid /\ r.seen = seen'
    OBVIOUS
  <2> HIDE DEF r
  <2>2. Await!Passed(r) <=> cause = "nil" /\ invalid = "nil"
    BY <2>1, Zenon DEF Await!Passed, Await!NoErr
  <2>3. CASE cause = "nil" /\ invalid = "nil"
    BY <2>1, <2>2, <2>3, Zenon
  <2>4. CASE cause = "deadline" \/ (cause = "nil" /\ invalid # "nil")
    <3>1. ~Await!Passed(r)
      BY <2>2, <2>4
    <3> QED
      BY <2>1, <2>4, <3>1, Zenon
  <2>5. CASE cause = "network"
    <3>1. ~Await!Passed(r)
      BY <2>2, <2>5
    <3> QED
      BY <2>1, <2>5, <3>1, Zenon
  <2> QED
    BY <2>3, <2>4, <2>5, Zenon
<1> HIDE DEF r
<1>5. Await!VerdictsExplained'
  <2> SUFFICES ASSUME NEW j \in DOMAIN results'
               PROVE  /\ Await!Passed(results'[j]) =>
                           \E v \in results'[j].seen : Await!Valid(results'[j].kind, v)
                      /\ ~Await!Passed(results'[j]) /\ results'[j].cause # "network" =>
                           /\ results'[j].invalid \in results'[j].seen
                           /\ ~Await!Valid(results'[j].kind, results'[j].invalid)
    BY DEF Await!VerdictsExplained, Await!Passed, Await!NoErr
  <2>1. CASE j = Len(results) + 1
    BY <1>3, <1>4, <2>1
  <2>2. CASE j \in 1 .. Len(results)
    <3>1. j \in DOMAIN results /\ results'[j] = results[j]
      BY <1>3, <2>2 DEF AwaitInv
    <3> QED
      BY <3>1, Zenon DEF AwaitInv, Await!VerdictsExplained
  <2> QED
    BY <1>3, <2>1, <2>2 DEF AwaitInv
<1> QED
  BY <1>2, <1>3, <1>5 DEF AwaitInv

\* Look-ups, watches and the deadline keep AwaitInv.
LEMMA AwaitStep == AwaitInv /\ [Await!Next]_awaitVars => AwaitInv'
<1> SUFFICES ASSUME AwaitInv, [Await!Next]_awaitVars PROVE AwaitInv'
  OBVIOUS
<1>0. ASSUME UNCHANGED results PROVE Await!VerdictsExplained'
  BY <1>0 DEF AwaitInv, Await!VerdictsExplained
<1>1. ASSUME NEW v \in Await!Values, Await!Change(v) PROVE AwaitInv'
  BY <1>0, <1>1 DEF AwaitInv, Await!Change, Await!callVars
<1>2. CASE Await!Expire
  BY <1>0, <1>2 DEF AwaitInv, Await!Expire, Await!callVars
<1>3. CASE Await!Call
  BY <1>0, <1>3 DEF AwaitInv, Await!Call, Await!NoErr
<1>4. CASE Await!Lookup
  <2>1. seen' = {value} /\ i <= Len(Kinds) /\ value \in Await!Values /\ value # "nil" /\ seen' \in SUBSET Await!Values
    BY <1>4 DEF Await!Lookup, AwaitInv, Await!Values
  <2>2. CASE Await!Valid(Kinds[i], value)
    BY <1>4, <2>1, <2>2, ReturnExplained DEF Await!Lookup, Await!NoErr
  <2>3. CASE ~Await!Valid(Kinds[i], value) /\ checkOnly
    BY <1>4, <2>1, <2>3, ReturnExplained DEF Await!Lookup, Await!NoErr
  <2>4. CASE ~Await!Valid(Kinds[i], value) /\ ~checkOnly
    <3>1. /\ awaitPc' = "watch" /\ lastInvalid' = value /\ pending' = <<value>>
          /\ UNCHANGED <<value, i, results>>
      BY <1>4, <2>4 DEF Await!Lookup, Await!callVars
    <3> QED
      BY <1>0, <2>1, <2>4, <3>1 DEF AwaitInv
  <2> QED
    BY <2>2, <2>3, <2>4
<1>5. CASE Await!LookupFails
  <2>1. seen' = seen /\ i <= Len(Kinds) /\ Await!Return("network", "nil")
    BY <1>5 DEF Await!LookupFails, AwaitInv, Await!NoErr
  <2> QED
    BY <2>1, ReturnExplained DEF AwaitInv
<1>6. CASE Await!Deliver
  <2>1. /\ i <= Len(Kinds) /\ Head(pending) \in Await!Values /\ seen' = seen \cup {Head(pending)}
        /\ seen' \in SUBSET Await!Values /\ Tail(pending) \in Seq(Await!Values)
    BY <1>6 DEF Await!Deliver, AwaitInv
  <2>2. CASE Await!Valid(Kinds[i], Head(pending))
    BY <1>6, <2>1, <2>2, ReturnExplained DEF Await!Deliver, Await!NoErr
  <2>3. CASE ~Await!Valid(Kinds[i], Head(pending))
    <3>1. lastInvalid' = Head(pending) /\ pending' = Tail(pending) /\ UNCHANGED <<value, i, awaitPc, results>>
      BY <1>6, <2>3 DEF Await!Deliver, Await!callVars
    <3> QED
      BY <1>0, <2>1, <2>3, <3>1 DEF AwaitInv
  <2> QED
    BY <2>2, <2>3
<1>7. ASSUME NEW cause \in {"deadline", "network"}, Await!WatchEnds(cause) PROVE AwaitInv'
  <2>1. /\ seen' = seen /\ i <= Len(Kinds) /\ Await!Return(cause, lastInvalid)
        /\ lastInvalid \in seen /\ ~Await!Valid(Kinds[i], lastInvalid)
    BY <1>7 DEF Await!WatchEnds, AwaitInv
  <2> QED
    BY <2>1, ReturnExplained DEF AwaitInv
<1>8. CASE Await!Done \/ UNCHANGED awaitVars
  BY <1>0, <1>8 DEF AwaitInv, Await!Done, Await!vars, awaitVars
<1> QED
  BY <1>1, <1>2, <1>3, <1>4, <1>5, <1>6, <1>7, <1>8 DEF Await!Next

-----------------------------------------------------------------------------
\* A window of readings of four levels has a lowest and a highest one, and they
\* are what min and max say.
LEMMA Extremes ==
  ASSUME NEW L, L = Levels \/ L = SeenLevels, NEW w \in Seq(L), w # <<>>
  PROVE  /\ Optical!Stats(w).min \in L /\ Optical!Stats(w).max \in L
         /\ \A j \in DOMAIN w : Optical!Stats(w).min <= w[j] /\ w[j] <= Optical!Stats(w).max
<1> DEFINE T == {w[j] : j \in DOMAIN w}
<1>1. T \subseteq L /\ w[1] \in T
  OBVIOUS
<1> HIDE DEF T
<1>2. \E x \in T : \A y \in T : x <= y
  BY <1>1 DEF Levels, SeenLevels
<1>3. \E x \in T : \A y \in T : x >= y
  BY <1>1 DEF Levels, SeenLevels
<1>4. Optical!LowestOf(w) \in T /\ \A j \in DOMAIN w : Optical!LowestOf(w) <= w[j]
  <2>1. \E x \in {w[j] : j \in DOMAIN w} : \A j \in DOMAIN w : x <= w[j]
    BY <1>2 DEF T
  <2> QED
    BY <2>1, Zenon DEF Optical!LowestOf, T
<1>5. Optical!HighestOf(w) \in T /\ \A j \in DOMAIN w : Optical!HighestOf(w) >= w[j]
  <2>1. \E x \in {w[j] : j \in DOMAIN w} : \A j \in DOMAIN w : x >= w[j]
    BY <1>3 DEF T
  <2> QED
    BY <2>1, Zenon DEF Optical!HighestOf, T
<1>6. Optical!Stats(w).min = Optical!LowestOf(w) /\ Optical!Stats(w).max = Optical!HighestOf(w)
  BY DEF Optical!Stats
<1>7. \A j \in DOMAIN w : w[j] \in Int
  BY DEF Levels, SeenLevels
<1>8. Optical!HighestOf(w) \in Int
  BY <1>1, <1>5 DEF Levels, SeenLevels
<1> QED
  BY <1>1, <1>4, <1>5, <1>6, <1>7, <1>8

\* An interface is expected up or down, and up at the end.
LEMMA Wanted ==
  ASSUME OpticalInv
  PROVE  Optical!Want \in {"UP", "DOWN"} /\ (opticalPhase = 4 => Optical!Want = "UP")
BY DEF OpticalInv, Optical!Want, Optical!Wants

\* A sample of an OTN channel that is ready has no leaf out of its limits.
LEMMA OTNReady ==
  ASSUME OpticalInv, Optical!isOTNChannelReady(Optical!Want)
  PROVE  Optical!validateOTNChannelTelemetry(Optical!Want) = {}
<1>1. CASE Optical!Want = "UP"
  BY <1>1 DEF Optical!isOTNChannelReady, Optical!validateOTNChannelTelemetry, Optical!Fails
<1>2. CASE Optical!Want # "UP"
  BY <1>2 DEF Optical!isOTNChannelReady, Optical!validateOTNChannelTelemetry, Optical!Fails
<1> QED
  BY <1>1, <1>2

\* A ready sample is within the limits of the input power, which are wider.
LEMMA InputReady ==
  ASSUME OpticalInv, Optical!InputPowerReady(Optical!Want)
  PROVE  Optical!InputPowerFails(Optical!Want) = {}
<1>1. CASE Optical!Want = "UP"
  <2>1. Optical!InputPower.min \in Int /\ Optical!InputPower.max \in Int
    <3>1. in \in Seq(SeenLevels) /\ in # <<>>
      BY WindowAssumption DEF OpticalInv
    <3>2. Optical!Stats(in).min \in Int /\ Optical!Stats(in).max \in Int
      BY <3>1, Extremes DEF SeenLevels
    <3> QED
      BY <3>2 DEF Optical!InputPower, Optical!Streamed, Optical!Zero
  <2>2. Optical!Limited(Optical!InputPower, -130, -90)
    BY <1>1 DEF Optical!InputPowerReady, Optical!Target, Optical!powerLoss, Optical!powerReadingError
  <2>3. Optical!Limited(Optical!InputPower, -130, -70)
    BY <2>1, <2>2 DEF Optical!Limited, Optical!Within
  <2> QED
    BY <1>1, <2>3 DEF Optical!InputPowerFails, Optical!Fails, Optical!Target, Optical!powerLoss,
                      Optical!powerReadingError
<1>2. CASE Optical!Want # "UP"
  BY <1>2 DEF Optical!InputPowerReady, Optical!InputPowerFails, Optical!Fails
<1> QED
  BY <1>1, <1>2

\* An optical channel without a report in the last phase has light at both ends.
LEMMA LightIsOn ==
  ASSUME OpticalInv, opticalPhase = 4, plan.absent = {},
         Optical!validateOpticalChannelTelemetry(Optical!Want) = {}
  PROVE  \A j \in DOMAIN out : Optical!Within(out[j], -110, -90) /\ in[j] > -300
<1>1. Optical!Want = "UP"
  BY Wanted
<1>2. /\ Optical!Limited(Optical!OutputPower, -110, -90)
      /\ Optical!Limited(Optical!InputPower, -130, -70)
  BY <1>1 DEF Optical!validateOpticalChannelTelemetry, Optical!InputPowerFails, Optical!Fails,
              Optical!Target, Optical!powerLoss, Optical!powerReadingError
<1>3. Optical!OutputPower = Optical!Stats(out) /\ Optical!InputPower = Optical!Stats(in)
  BY DEF Optical!OutputPower, Optical!InputPower, Optical!Streamed
<1>4. /\ in \in Seq(SeenLevels) /\ in # <<>> /\ out \in Seq(Levels) /\ out # <<>>
      /\ DOMAIN in = DOMAIN out
  BY WindowAssumption DEF OpticalInv
<1>5. /\ Optical!Stats(out).min >= -110 /\ Optical!Stats(out).max <= -90
      /\ Optical!Stats(in).min >= -130
  BY <1>2, <1>3 DEF Optical!Limited, Optical!Within
<1>6. /\ Optical!Stats(out).min \in Int /\ Optical!Stats(out).max \in Int /\ Optical!Stats(in).min \in Int
      /\ \A j \in DOMAIN out : out[j] \in Int /\ in[j] \in Int
  BY <1>4, Extremes DEF Levels, SeenLevels
<1>7. \A j \in DOMAIN out : /\ Optical!Stats(out).min <= out[j] /\ out[j] <= Optical!Stats(out).max
                            /\ Optical!Stats(in).min <= in[j]
  BY <1>4, Extremes
<1> QED
  BY <1>5, <1>6, <1>7 DEF Optical!Within

\* Lasers, readings and checks keep OpticalInv.
LEMMA OpticalStep == OpticalInv /\ [Optical!Next]_opticalVars => OpticalInv'
<1> SUFFICES ASSUME OpticalInv, [Optical!Next]_opticalVars PROVE OpticalInv'
  OBVIOUS
<1>1. CASE Optical!Measure
  <2>1. PICK o \in 1 .. 4, q \in 1 .. 4 :
          /\ own' = o /\ peer' = q
          /\ out' = Append(Tail(out), Optical!Level[o]) /\ in' = Append(Tail(in), Optical!Seen(q))
          /\ UNCHANGED <<plan, opticalPhase, opticalErrors, status>> /\ status = "waiting"
    <3>1. Len(Optical!Level) = 4
      BY DEF Optical!Level
    <3>2. \A x \in 1 .. 4 : Optical!Towards(x) \subseteq 1 .. 4
      BY <3>1 DEF Optical!Towards
    <3>3. own \in 1 .. 4 /\ peer \in 1 .. 4 /\ 1 \in 1 .. 4
      BY DEF OpticalInv
    <3> QED
      BY <1>1, <3>2, <3>3, Zenon DEF Optical!Measure, Optical!Slide
  <2>2. Optical!Level[o] \in Levels /\ Optical!Seen(q) \in SeenLevels
    BY DEF Optical!Level, Optical!Seen, Optical!Loss, Levels, SeenLevels
  <2>3. out # <<>> /\ in # <<>> /\ Tail(out) \in Seq(Levels) /\ Tail(in) \in Seq(SeenLevels)
        /\ Len(Tail(out)) = Window - 1 /\ Len(Tail(in)) = Window - 1
    BY WindowAssumption DEF OpticalInv
  <2>4. out' \in Seq(Levels) /\ Len(out') = Window /\ in' \in Seq(SeenLevels) /\ Len(in') = Window
    BY <2>1, <2>2, <2>3, WindowAssumption
  <2> QED
    BY <2>1, <2>4 DEF OpticalInv, Optical!OTNReadyPasses, Optical!PassMeansLight
<1>2. CASE Optical!Validate
  <2>1. /\ status = "waiting" /\ Optical!Ready /\ opticalErrors' = opticalErrors \cup Optical!Reported
        /\ UNCHANGED <<plan, own, peer, out, in>>
        /\ opticalPhase' \in 1 .. 4 /\ (status' = "done" => opticalPhase = 4)
    BY <1>2 DEF Optical!Validate, Optical!Wants, OpticalInv
  <2>2. plan.stream \in {"otn", "och", "transceiver"}
    BY PluggablesAssumption DEF OpticalInv
  <2>3. "input-power" \notin Optical!Reported
    <3>1. CASE plan.stream = "otn"
      BY <2>1, <3>1, OTNReady DEF Optical!Ready, Optical!Reported
    <3>2. CASE plan.stream = "och"
      <4>1. Optical!InputPowerFails(Optical!Want) = {}
        BY <2>1, <3>2, InputReady DEF Optical!Ready, Optical!isOpticalChannelStreamReady
      <4> QED
        BY <3>2, <4>1 DEF Optical!Reported, Optical!validateOpticalChannelTelemetry, Optical!Fails
    <3>3. CASE plan.stream = "transceiver"
      <4>1. Optical!InputPowerFails(Optical!Want) = {}
        BY <2>1, <3>3, InputReady DEF Optical!Ready, Optical!isTransceiverStreamReady
      <4> QED
        BY <3>3, <4>1 DEF Optical!Reported, Optical!validateTranscieverTelemetry, Optical!Fails
    <3> QED
      BY <2>2, <3>1, <3>2, <3>3
  <2>4. Optical!OTNReadyPasses'
    <3> SUFFICES ASSUME plan.stream = "otn" PROVE opticalErrors' = {}
      BY <2>1 DEF Optical!OTNReadyPasses
    <3>1. Optical!Reported = {}
      BY <2>1, OTNReady DEF Optical!Ready, Optical!Reported
    <3> QED
      BY <2>1, <3>1 DEF OpticalInv, Optical!OTNReadyPasses
  <2>5. Optical!PassMeansLight'
    <3> SUFFICES ASSUME status' = "done", opticalErrors' = {}, plan.stream = "och", plan.absent = {}
                 PROVE  \A j \in DOMAIN out : Optical!Within(out[j], -110, -90) /\ in[j] > -300
      BY <2>1 DEF Optical!PassMeansLight, Optical!Within, Optical!Target, Optical!powerReadingError,
                  Optical!inactivePower
    <3>1. Optical!validateOpticalChannelTelemetry(Optical!Want) = {}
      BY <2>1 DEF Optical!Reported
    <3> QED
      BY <2>1, <3>1, LightIsOn
  <2> QED
    BY <2>1, <2>3, <2>4, <2>5 DEF OpticalInv
<1>3. CASE Optical!AwaitTimesOut
  BY <1>3 DEF OpticalInv, Optical!AwaitTimesOut, Optical!OTNReadyPasses, Optical!PassMeansLight
<1>4. CASE UNCHANGED opticalVars
  BY <1>4 DEF OpticalInv, opticalVars, Optical!OTNReadyPasses, Optical!PassMeansLight
<1> QED
  BY <1>1, <1>2, <1>3, <1>4 DEF Optical!Next

-----------------------------------------------------------------------------

\* Each part starts with its invariant.
LEMMA InitWaits == WaitsInit => WaitsInv
<1> SUFFICES ASSUME WaitsInit PROVE WaitsInv
  OBVIOUS
<1>1. part = "await" => AwaitInv
  BY DEF WaitsInit, Await!Init, AwaitInv, Await!VerdictsExplained, Await!Values, Await!NoErr
<1>2. part = "stream" => StreamInv
  <2>1. part = "stream" => ch = FALSE /\ loop = "off" /\ ret.call = "none"
    BY DEF WaitsInit, Stream!Init
  <2> QED
    BY <2>1, Zenon DEF StreamInv, Stream!AwaitTruthful
<1>3. part = "containerz" => ContainerzInv
  BY DEF WaitsInit, Containers!Init, ContainerzInv, Containers!CleanupRemoves
<1>4. part = "reboot" => RebootInv
  BY DEF WaitsInit, Reboot!Init, RebootInv, Reboot!RebootHappened, Reboot!ComponentsAreBack
<1>5. part = "exec" => ExecInv
  BY DEF WaitsInit, Exec!Init, ExecInv, Exec!ExecTells, Exec!None
<1>6. part = "optical" => OpticalInv
  <2> SUFFICES ASSUME part = "optical" PROVE OpticalInv
    OBVIOUS
  <2>1. /\ plan \in Pluggables /\ opticalPhase = 1 /\ own = 1 /\ peer = 1 /\ opticalErrors = {}
        /\ out = [j \in 1 .. Window |-> -400] /\ in = out /\ status = "waiting"
    BY DEF WaitsInit, Optical!Init, Optical!Level
  <2>2. out \in Seq(Levels) /\ Len(out) = Window /\ in \in Seq(SeenLevels) /\ Len(in) = Window
    BY <2>1, WindowAssumption DEF Levels, SeenLevels
  <2>3. opticalPhase \in 1 .. 4 /\ own \in 1 .. 4 /\ peer \in 1 .. 4
    BY <2>1
  <2>4. Optical!OTNReadyPasses /\ Optical!PassMeansLight
    BY <2>1 DEF Optical!OTNReadyPasses, Optical!PassMeansLight
  <2> QED
    BY <2>1, <2>2, <2>3, <2>4, Zenon DEF OpticalInv
<1> QED
  BY <1>1, <1>2, <1>3, <1>4, <1>5, <1>6 DEF WaitsInv

\* A step of one part keeps the invariants of all.
LEMMA WaitsStep == WaitsInv /\ [WaitsNext]_waitsVars => WaitsInv'
BY OnePart, AwaitStep, StreamStep, ContainerzStep, RebootStep, ExecStep, OpticalStep
   DEF WaitsInv

\* The invariants of the parts hold throughout.
LEMMA WaitsHold == WaitsSpec => []WaitsInv
BY InitWaits, WaitsStep, PTL DEF WaitsSpec

\* No wait of the project reports what it has not seen: see VerdictsEarned.
THEOREM WaitsAreEarned == WaitsSpec => []VerdictsEarned
<1>1. WaitsInv => VerdictsEarned
  BY DEF VerdictsEarned, WaitsInv, AwaitInv, StreamInv, RebootInv, ExecInv, OpticalInv,
         Optical!InputPowerReadyPasses
<1> QED
  BY <1>1, WaitsHold, PTL

\* A container test uses the container it started and leaves none: see
\* NothingLeft.
THEOREM NothingIsLeft == WaitsSpec => []NothingLeft
<1>1. WaitsInv => NothingLeft
  BY DEF WaitsInv, ContainerzInv, NothingLeft, Containers!TestUsesOwnContainer
<1> QED
  BY <1>1, WaitsHold, PTL

-----------------------------------------------------------------------------
(***************************************************************************)
(* The WaitGroup of CertzRotate counts its goroutines, for any number of   *)
(* pollers, cases and rotations.                                           *)
(***************************************************************************)

Running == {g \in Goroutines : gos[g] = "run"}

Between == {"preinit", "prepare", "send", "verify", "finalize", "services", "fatal", "done"}

\* The count is the number of running goroutines.  While they are started, those
\* that are not started yet have not run; outside CertzRotate nobody runs, so that
\* the next rotation begins with a count of zero.
CountInv ==
    /\ pc \in Between \cup {"spawn", "wait"}
    /\ gos \in [Goroutines -> {"none", "run", "done"}]
    /\ wg = Cardinality(Running)
    /\ pc \in Between => Running = {}
    /\ pc = "spawn" => \A g \in Goroutines : g \in spawned <=> gos[g] # "none"
    /\ pc = "wait" => \A g \in Goroutines : gos[g] # "none"
    /\ AfterWait => \A g \in Goroutines : gos[g] = "done"


\* Finitely many goroutines run.
LEMMA RunningFinite == IsFiniteSet(Running)
<1>1. IsFiniteSet(Goroutines)
  BY WaitersAssumption, FS_AddElement DEF Goroutines
<1> QED
  BY <1>1, FS_Subset DEF Running

\* The count is a number.
LEMMA CountNat == CountInv => wg \in Nat
BY RunningFinite, FS_CardinalityType DEF CountInv

\* A goroutine starts, or ends.
LEMMA OneMore ==
    ASSUME NEW g \in Goroutines, g \notin Running, Running' = Running \cup {g}
    PROVE  Cardinality(Running') = Cardinality(Running) + 1
BY RunningFinite, FS_AddElement

\* A goroutine that ends is one less.
LEMMA OneLess ==
    ASSUME NEW g \in Running, Running' = Running \ {g}
    PROVE  Cardinality(Running') = Cardinality(Running) - 1
BY RunningFinite, FS_RemoveElement

\* No goroutine runs at the start.
LEMMA InitCount == Init => CountInv
<1> SUFFICES ASSUME Init PROVE CountInv
  OBVIOUS
<1>1. Running = {}
  BY DEF Init, Running
<1> QED
  BY <1>1, FS_EmptySet DEF Init, CountInv, Between, AfterWait

\* Every step counts the goroutines that it starts and ends.
LEMMA CountStep == CountInv /\ [Next]_vars => CountInv'
<1> SUFFICES ASSUME CountInv, [Next]_vars PROVE CountInv'
  OBVIOUS
<1>q. ASSUME pc \in Between, pc' \in Between, UNCHANGED <<wg, spawned, gos>>,
             pc' \in {"verify", "finalize", "services", "done"} => AfterWait
      PROVE  CountInv'
  BY <1>q DEF CountInv, Running, AfterWait, Between
<1> USE DEF goVars
<1>1. CASE PreInitCheck
  BY <1>1, <1>q DEF PreInitCheck, Fatal, Between
<1>2. CASE Prepare
  BY <1>2, <1>q DEF Prepare, Fatal, Between
<1>3. CASE SendRotate
  <2>1. CASE Works(device, client)
    <3>1. Running = {} /\ gos' = [g \in Goroutines |-> IF g = Recv THEN "run" ELSE "none"]
      BY <1>3, <2>1 DEF SendRotate, CountInv, Between
    <3>2. Recv \in Goroutines /\ Running' = Running \cup {Recv}
      BY <3>1 DEF Running, Goroutines
    <3>3. Cardinality(Running') = Cardinality(Running) + 1
      BY <3>1, <3>2, OneMore
    <3> QED
      BY <1>3, <2>1, <3>1, <3>3 DEF SendRotate, CountInv, AfterWait, Between
  <2>2. CASE ~Works(device, client)
    BY <1>3, <2>2, <1>q DEF SendRotate, Fatal, Between
  <2> QED
    BY <2>1, <2>2
<1>4. CASE Receive
  <2>1. Recv \in Running /\ gos' = [gos EXCEPT ![Recv] = "done"] /\ wg' = wg - 1
    BY <1>4 DEF Receive, Running, Goroutines
  <2>2. Running' = Running \ {Recv}
    BY <2>1 DEF Running, CountInv
  <2>3. Cardinality(Running') = Cardinality(Running) - 1
    BY <2>1, <2>2, OneLess
  <2>4. pc \in {"spawn", "wait"} /\ UNCHANGED <<pc, spawned>>
    BY <1>4, <2>1 DEF Receive, CountInv, Between
  <2> QED
    BY <2>1, <2>3, <2>4 DEF CountInv, AfterWait, Between, Running, Goroutines
<1>5. ASSUME NEW w \in Waiters, SpawnWaiter(w) PROVE CountInv'
  <2>1. /\ w \in Goroutines /\ w \notin Running /\ gos[w] = "none" /\ pc = "spawn"
        /\ gos' = [gos EXCEPT ![w] = "run"] /\ wg' = wg + 1
    BY <1>5 DEF SpawnWaiter, Running, Goroutines, CountInv
  <2>2. Running' = Running \cup {w}
    BY <2>1 DEF Running, CountInv
  <2>3. Cardinality(Running') = Cardinality(Running) + 1
    BY <2>1, <2>2, OneMore
  <2>4. spawned' = spawned \cup {w} /\ pc' = IF spawned' = Goroutines THEN "wait" ELSE pc
    BY <1>5 DEF SpawnWaiter
  <2> QED
    BY <2>1, <2>3, <2>4 DEF CountInv, AfterWait, Between
<1>6. ASSUME NEW w \in Waiters, Poll(w) PROVE CountInv'
  <2>1. w \in Running /\ gos' = [gos EXCEPT ![w] = "done"] /\ wg' = wg - 1
    BY <1>6 DEF Poll, Running, Goroutines
  <2>2. Running' = Running \ {w}
    BY <2>1 DEF Running, CountInv
  <2>3. Cardinality(Running') = Cardinality(Running) - 1
    BY <2>1, <2>2, OneLess
  <2>4. pc \in {"spawn", "wait"} /\ UNCHANGED <<pc, spawned>>
    BY <1>6, <2>1 DEF Poll, CountInv, Between
  <2> QED
    BY <2>1, <2>3, <2>4 DEF CountInv, AfterWait, Between, Running
<1>7. CASE Wait
  <2>1. Running = {}
    BY <1>7, RunningFinite, FS_EmptySet DEF Wait, CountInv
  <2>2. \A g \in Goroutines : gos[g] = "done"
    BY <1>7, <2>1 DEF Wait, CountInv, Running
  <2>3. UNCHANGED <<wg, gos>> /\ pc' = "verify"
    BY <1>7 DEF Wait
  <2> QED
    BY <2>1, <2>2, <2>3 DEF CountInv, Between, Running
<1>8. CASE VerifyGnsi
  BY <1>8, <1>q DEF VerifyGnsi, Between, AfterWait
<1>9. CASE Finalize
  BY <1>9, <1>q DEF Finalize, Fatal, Between, AfterWait
<1>10. CASE ServicesValidationCheck
  BY <1>10, <1>q DEF ServicesValidationCheck, Fatal, Between, AfterWait
<1>11. CASE NextCase
  BY <1>11, <1>q DEF NextCase, Between, AfterWait
<1>12. CASE Stopped \/ UNCHANGED vars
  BY <1>12 DEF Stopped, vars, CountInv, Running, AfterWait
<1> QED
  BY <1>1, <1>2, <1>3, <1>4, <1>5, <1>6, <1>7, <1>8, <1>9, <1>10, <1>11, <1>12 DEF Next, Run

\* wg.Wait returns when the receiver and every poller have ended, in the first
\* rotation and in every later one; the count is never negative.
THEOREM GroupCounts == Spec => []NobodyLeftBehind
<1>1. CountInv => NobodyLeftBehind
  BY CountNat DEF CountInv, NobodyLeftBehind
<1> QED
  BY InitCount, CountStep, <1>1, PTL DEF Spec

-----------------------------------------------------------------------------
(***************************************************************************)
(* What a rotation leaves on the device.  Nobody runs once the test has    *)
(* left CertzRotate (CountInv), so what VerifyGnsi met is what is          *)
(* finalized, and what a failed test puts back stays.                      *)
(***************************************************************************)
Shapes ==
    /\ DOMAIN device = {"cert", "bundle", "profile", "stream", "ignores"}
    /\ device = [f \in DOMAIN device |-> device[f]]
    /\ kept = [cert |-> kept.cert, bundle |-> kept.bundle]

LeftInv ==
    /\ CountInv /\ Shapes /\ RollsBack
    /\ pc \in {"finalize", "services"} /\ reports = {} => Works(device, NewCA)

\* A test that stops the rotation rolls back to what was kept.
LEMMA BackRolls ==
    ASSUME Shapes, Fatal, kept' = kept
    PROVE  Shapes' /\ RollsBack'
BY DEF Shapes, Fatal, Back, RollsBack

\* The invariant holds at the start of the first rotation.
LEMMA InitLeft == Init => LeftInv
<1> SUFFICES ASSUME Init PROVE LeftInv
  OBVIOUS
<1>1. Shapes
  BY DEF Init, Shapes
<1> QED
  BY <1>1, InitCount DEF Init, LeftInv, RollsBack

\* Every step keeps it.
LEMMA LeftStep == LeftInv /\ [Next]_vars => LeftInv'
<1> SUFFICES ASSUME LeftInv, [Next]_vars PROVE LeftInv'
  OBVIOUS
<1>0. CountInv' /\ Shapes
  BY CountStep DEF LeftInv
<1>f. ASSUME Fatal, kept' = kept PROVE LeftInv'
  <2>1. pc' = "fatal"
    BY <1>f DEF Fatal
  <2> QED
    BY <1>f, <1>0, <2>1, BackRolls DEF LeftInv
<1>s. ASSUME Shapes', pc' \notin {"fatal", "finalize", "services"} PROVE LeftInv'
  BY <1>s, <1>0 DEF LeftInv, RollsBack
<1>u. ASSUME UNCHANGED <<device, kept>> PROVE Shapes'
  BY <1>u, <1>0 DEF Shapes
<1>1. CASE PreInitCheck
  BY <1>1, <1>f, <1>s, <1>u DEF PreInitCheck
<1>2. CASE Prepare
  BY <1>2, <1>f, <1>s, <1>u DEF Prepare
<1>3. CASE SendRotate
  <2>1. CASE Works(device, client)
    <3>1. device' = [device EXCEPT !.stream = TRUE] /\ kept' = kept /\ pc' = "spawn"
      BY <1>3, <2>1 DEF SendRotate
    <3>2. Shapes'
      BY <1>0, <3>1 DEF Shapes
    <3> QED
      BY <1>s, <3>1, <3>2
  <2> QED
    BY <1>3, <1>f, <2>1 DEF SendRotate
<1>4. CASE Receive
  <2>1. pc \in {"spawn", "wait"} /\ UNCHANGED <<pc, kept>>
    BY <1>4 DEF Receive, LeftInv, CountInv, Between, Running, Goroutines
  <2>2. \/ device' = Used(device)
        \/ device' = [device EXCEPT !.ignores = TRUE]
        \/ device' = device
    BY <1>4, Zenon DEF Receive
  <2>3. Shapes'
    BY <1>0, <2>1, <2>2 DEF Shapes, Used
  <2> QED
    BY <1>s, <2>1, <2>3
<1>5. ASSUME NEW w \in Waiters, SpawnWaiter(w) \/ Poll(w) PROVE LeftInv'
  <2>1. pc \in {"spawn", "wait"} /\ pc' \in {"spawn", "wait"} /\ UNCHANGED <<device, kept>>
    BY <1>5 DEF SpawnWaiter, Poll, LeftInv, CountInv, Between, Running, Goroutines
  <2> QED
    BY <1>s, <1>u, <2>1
<1>6. CASE Wait
  <2>1. pc' = "verify" /\ kept' = kept
    BY <1>6 DEF Wait
  <2>2. device' = device \/ device' = [device EXCEPT !.profile = "test"]
    BY <1>6 DEF Wait
  <2>3. Shapes'
    BY <1>0, <2>1, <2>2 DEF Shapes
  <2> QED
    BY <1>s, <2>1, <2>3
<1>7. CASE VerifyGnsi
  <2>1. /\ pc' = "finalize" /\ UNCHANGED <<device, kept, cases, k>>
        /\ reports' = {} => Works(device, NewCA)
    BY <1>7 DEF VerifyGnsi, ValidateGnsiAuthzGetRequest
  <2>2. reports' = {} => Works(device, NewCA)'
    BY <2>1 DEF Works, NewCA, Case
  <2> QED
    BY <1>0, <1>u, <2>1, <2>2 DEF LeftInv, RollsBack
<1>8. CASE Finalize
  <2>1. CASE Fatal /\ kept' = kept
    BY <1>f, <2>1
  <2>2. CASE /\ pc' = "services" /\ kept' = [cert |-> device.cert, bundle |-> device.bundle]
             /\ device' = [device EXCEPT !.stream = FALSE]
    <3>1. Shapes'
      BY <1>0, <2>2 DEF Shapes
    <3>2. pc = "finalize" /\ UNCHANGED <<cases, k, reports>>
      BY <1>8 DEF Finalize
    <3>3. device'.cert = device.cert /\ device'.bundle = device.bundle
      BY <1>0, <2>2 DEF Shapes
    <3>4. reports' = {} => Works(device, NewCA)'
      BY <3>2, <3>3 DEF LeftInv, Works, NewCA, Case
    <3> QED
      BY <1>0, <2>2, <3>1, <3>4 DEF LeftInv, RollsBack
  <2> QED
    BY <1>8, <2>1, <2>2 DEF Finalize
<1>9. CASE ServicesValidationCheck
  <2>1. CASE Fatal /\ kept' = kept
    BY <1>f, <2>1
  <2>2. CASE UNCHANGED <<pc, device>>
    <3>1. pc = "services" /\ UNCHANGED <<cases, k, kept>>
      BY <1>9 DEF ServicesValidationCheck
    <3>2. reports' = {} => reports = {}
      BY <1>9 DEF ServicesValidationCheck, ValidateGnsiAuthzGetRequest
    <3>3. reports' = {} => Works(device, NewCA)'
      BY <2>2, <3>1, <3>2 DEF LeftInv, Works, NewCA, Case
    <3> QED
      BY <1>0, <1>u, <2>2, <3>1, <3>3 DEF LeftInv, RollsBack
  <2> QED
    BY <1>9, <2>1, <2>2 DEF ServicesValidationCheck
<1>10. CASE NextCase
  <2>1. pc' \in {"prepare", "done"} /\ kept' = kept
        /\ device' = [device EXCEPT !.ignores = FALSE]
    BY <1>10 DEF NextCase
  <2>2. Shapes'
    BY <1>0, <2>1 DEF Shapes
  <2> QED
    BY <1>s, <2>1, <2>2
<1>11. CASE Stopped \/ UNCHANGED vars
  <2>1. UNCHANGED <<cases, k, pc, device, kept, reports>>
    BY <1>11 DEF Stopped, vars
  <2> QED
    BY <1>0, <1>u, <2>1 DEF LeftInv, RollsBack, Works, NewCA, Case
<1> QED
  BY <1>1, <1>2, <1>3, <1>4, <1>5, <1>6, <1>7, <1>8, <1>9, <1>10, <1>11 DEF Next, Run

\* A rotation that was finalized while nothing was reported left credentials
\* that work, for every plan of cases: what VerifyGnsi met is what was kept.
THEOREM SilenceIsEarned == Spec => []SilentMeansReachable
<1>1. LeftInv => SilentMeansReachable
  BY DEF LeftInv, SilentMeansReachable
<1> QED
  BY InitLeft, LeftStep, <1>1, PTL DEF Spec

\* Whatever step is fatal, in whatever case, the device ends with the last
\* certificates that were finalized and no open stream, and no goroutine of
\* the rotation changes that afterwards.
THEOREM FailuresRollBack == Spec => []RollsBack
<1>1. LeftInv => RollsBack
  BY DEF LeftInv
<1> QED
  BY InitLeft, LeftStep, <1>1, PTL DEF Spec

\* A rotation waits for its goroutines, keeps credentials that work and leaves
\* nothing half done: see RotationEndsWell.
THEOREM RotationsEndWell == Spec => []RotationEndsWell
BY GroupCounts, SilenceIsEarned, FailuresRollBack, PTL DEF RotationEndsWell
=============================================================================
