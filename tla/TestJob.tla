------------------------------- MODULE TestJob -------------------------------
(***************************************************************************)
(* One launched job from submitBuild to the badges that show its result:   *)
(* the script of the job (cloudbuild/virtual.sh) publishes the progress of *)
(* each test to a Pub/Sub topic, the callbacks of ci-trigger's             *)
(* subscription (subscription.go) write it into the badge objects, and the *)
(* handler that launched the job is meanwhile still writing "setup" into   *)
(* the same objects (updateBadges).  The three run concurrently, and the   *)
(* topic keeps no order and may deliver a message again.                   *)
(*                                                                         *)
(* Module CITrigger has many handlers and lets any status arrive at any    *)
(* time; this module has one launch for one device and the script's order. *)
(***************************************************************************)
EXTENDS Naturals, TLAPS

CONSTANTS
  NumTests,   \* tests of the device; both loops visit them in order
  Workers     \* callbacks sub.Receive runs at the same time

ASSUME NumTestsAssumption == NumTests \in Nat

Tests == 1 .. NumTests

VARIABLES
  badge,      \* [test -> status in the badge object's metadata, or "absent"]
  next,       \* the test whose badge updateBadges writes next
  script,     \* where the job's script is
  current,    \* the test the script is at
  result,     \* [test -> what go test returned]
  topic,      \* messages published and not yet delivered
  sent,       \* messages published
  worker,     \* [worker -> the message it is about to write, or Idle]
  overtaken,  \* history: some write to a badge may have passed an earlier one
  lost        \* history: some write to a badge never happened

jobVars == <<script, current, result>>
vars == <<badge, next, jobVars, topic, sent, worker, overtaken, lost>>

Results == {"success", "failure"}
Published == {"pending execution", "environment setup", "running"} \cup Results
Status == {"absent", "pending authorization", "setup"} \cup Published
Message == [test : Tests, status : Published]
Idle == [test |-> 0]

\* The rows of the status table of tools/ci-trigger/README.md.
Rank(s) ==
  CASE s = "absent" -> 0
    [] s = "pending authorization" -> 1
    [] s = "setup" -> 2
    [] s = "pending execution" -> 3
    [] s = "environment setup" -> 4
    [] s = "running" -> 5
    [] s \in Results -> 6

\* submitBuild has just returned.  The badges exist if the pull request event
\* of the commit was handled before.
Init ==
  /\ badge \in {[t \in Tests |-> s] : s \in {"absent", "pending authorization"}}
  /\ next = 1
  /\ script = "announce"
  /\ current = 1
  /\ result = [t \in Tests |-> "none"]
  /\ topic = {}
  /\ sent = {}
  /\ worker = [w \in Workers |-> Idle]
  /\ overtaken = FALSE
  /\ lost = FALSE

-----------------------------------------------------------------------------
\* updateBadges writes the next object of the device, whatever it holds.
UpdateBadges ==
  /\ next \in Tests
  /\ badge' = [badge EXCEPT ![next] = "setup"]
  /\ next' = next + 1
  /\ UNCHANGED <<jobVars, topic, sent, worker, overtaken, lost>>

\* A write fails and updateBadges returns.
UpdateBadgesFails ==
  /\ next \in Tests
  /\ next' = NumTests + 1
  /\ lost' = TRUE
  /\ UNCHANGED <<badge, jobVars, topic, sent, worker, overtaken>>

-----------------------------------------------------------------------------
\* gcloud pubsub topics publish.
Publish(t, s) ==
  LET m == [test |-> t, status |-> s] IN
  /\ topic' = topic \cup {m}
  /\ sent' = sent \cup {m}

\* ... which may fail, without stopping the script: nobody receives the message
\* (unless it was accepted after all, and arrives when nobody expects it).
PublishFails(m) ==
  /\ m \in topic
  /\ topic' = topic \ {m}
  /\ lost' = TRUE
  /\ UNCHANGED <<badge, next, jobVars, sent, worker, overtaken>>

\* The first loop announces every test ...
Announce ==
  /\ script = "announce"
  /\ current \in Tests
  /\ Publish(current, "pending execution")
  /\ current' = current + 1
  /\ UNCHANGED <<badge, next, script, result, worker, overtaken, lost>>

\* ... then the KNE cluster is deployed and the second loop begins.
Deploy ==
  /\ script = "announce"
  /\ current \notin Tests
  /\ script' = "create"
  /\ current' = 1
  /\ UNCHANGED <<badge, next, result, topic, sent, worker, overtaken, lost>>

\* Before kne create.
EnvironmentSetup ==
  /\ script = "create"
  /\ current \in Tests
  /\ Publish(current, "environment setup")
  /\ script' = "test"
  /\ UNCHANGED <<badge, next, current, result, worker, overtaken, lost>>

\* Mutant: the status before go test is not published.
Running_Silent ==
  /\ script = "test"
  /\ script' = "wait"
  /\ UNCHANGED <<badge, next, current, result, topic, sent, worker, overtaken, lost>>

\* Before go test.
Running ==
  /\ script = "test"
  /\ Publish(current, "running")
  /\ script' = "wait"
  /\ UNCHANGED <<badge, next, current, result, worker, overtaken, lost>>

\* go test returns (it fails if the topology could not be created).
GoTest(r) ==
  /\ script = "wait"
  /\ result' = [result EXCEPT ![current] = r]
  /\ script' = "report"
  /\ UNCHANGED <<badge, next, current, topic, sent, worker, overtaken, lost>>

\* Mutants of Report: $? is read after kne delete ...
Report_LateStatus ==
  /\ script = "report"
  /\ \E r \in Results : Publish(current, r)
  /\ script' = "create"
  /\ current' = current + 1
  /\ UNCHANGED <<badge, next, result, worker, overtaken, lost>>

\* ... and only a success is reported.
Report_SuccessOnly ==
  /\ script = "report"
  /\ IF result[current] = "success"
       THEN Publish(current, "success")
       ELSE UNCHANGED <<topic, sent>>
  /\ script' = "create"
  /\ current' = current + 1
  /\ UNCHANGED <<badge, next, result, worker, overtaken, lost>>

\* The status of go test is published and the topology deleted.
Report ==
  /\ script = "report"
  /\ Publish(current, result[current])
  /\ script' = "create"
  /\ current' = current + 1
  /\ UNCHANGED <<badge, next, result, worker, overtaken, lost>>

Exit ==
  /\ script = "create"
  /\ current \notin Tests
  /\ script' = "ended"
  /\ UNCHANGED <<badge, next, current, result, topic, sent, worker, overtaken, lost>>

\* The build's timeout, or the machine's cleanup timer, ends the job.
Kill ==
  /\ script \notin {"ended", "killed"}
  /\ script' = "killed"
  /\ UNCHANGED <<badge, next, current, result, topic, sent, worker, overtaken, lost>>

-----------------------------------------------------------------------------
\* The message is handled after everything that should precede it.
InOrder(m) ==
  /\ next \notin Tests
  /\ m \in topic
  /\ \A v \in Workers : worker[v] = Idle \/ worker[v].test # m.test
  /\ \A n \in topic : n.test = m.test => Rank(m.status) <= Rank(n.status)

\* A callback: the message, new or delivered before, is acknowledged, and the
\* attributes of its badge are read.
Deliver(w, m) ==
  /\ worker[w] = Idle
  /\ m \in sent
  /\ topic' = topic \ {m}
  /\ overtaken' = (overtaken \/ ~InOrder(m))
  /\ IF badge[m.test] = "absent"
       THEN lost' = TRUE /\ UNCHANGED worker
       ELSE worker' = [worker EXCEPT ![w] = m] /\ UNCHANGED lost
  /\ UNCHANGED <<badge, next, jobVars, sent>>

\* The callback writes the object.
UpdateBadgeStatus(w) ==
  /\ worker[w] # Idle
  /\ badge' = [badge EXCEPT ![worker[w].test] = worker[w].status]
  /\ worker' = [worker EXCEPT ![w] = Idle]
  /\ UNCHANGED <<next, jobVars, topic, sent, overtaken, lost>>

\* The write fails: the message is acknowledged and gone.
UpdateBadgeStatusFails(w) ==
  /\ worker[w] # Idle
  /\ worker' = [worker EXCEPT ![w] = Idle]
  /\ lost' = TRUE
  /\ UNCHANGED <<badge, next, jobVars, topic, sent, overtaken>>

-----------------------------------------------------------------------------
Script ==
  \/ Announce
  \/ Deploy
  \/ EnvironmentSetup
  \/ Running
  \/ \E r \in Results : GoTest(r)
  \/ Report
  \/ Exit
  \/ Kill

Handler == UpdateBadges \/ UpdateBadgesFails
Callback(w) == UpdateBadgeStatus(w) \/ UpdateBadgeStatusFails(w)
Subscription == \E m \in sent : PublishFails(m) \/ \E w \in Workers : Deliver(w, m)

Next ==
  \/ Handler
  \/ Script
  \/ Subscription
  \/ \E w \in Workers : Callback(w)

Spec == Init /\ [][Next]_vars

\* A message that waits in the topic while a callback is free is delivered.
DeliverPending == \E w \in Workers, m \in topic : Deliver(w, m)

\* The handler's goroutine and the callbacks are scheduled and their calls
\* return (they carry a context); go test may run forever (-timeout 0), but
\* then the build's own timeout ends the job; Pub/Sub delivers what it holds.
FairSpec ==
  /\ Spec
  /\ WF_vars(Handler)
  /\ WF_vars(Script)
  /\ WF_vars(DeliverPending)
  /\ \A w \in Workers : WF_vars(Callback(w))

-----------------------------------------------------------------------------
TypeOK ==
  /\ badge \in [Tests -> Status]
  /\ next \in 1 .. NumTests + 1
  /\ script \in {"announce", "create", "test", "wait", "report", "ended", "killed"}
  /\ current \in 1 .. NumTests + 1
  /\ result \in [Tests -> Results \cup {"none"}]
  /\ topic \subseteq sent
  /\ sent \subseteq Message
  /\ worker \in [Workers -> Message \cup {Idle}]
  /\ overtaken \in BOOLEAN
  /\ lost \in BOOLEAN

(***************************************************************************)
(* A badge that shows a result shows the result go test returned for that  *)
(* test, whatever is reordered, delivered again, lost or overwritten:      *)
(* virtual.sh reports $? of the test it just ran and updateBadgeStatus     *)
(* writes a status only into the badge the message names.                  *)
(***************************************************************************)
ResultTruthful ==
  \A t \in Tests : badge[t] \in Results => badge[t] = result[t]

(***************************************************************************)
(* While the messages of a test are handled in the order they were         *)
(* published, one at a time and after updateBadges, each write moves its   *)
(* badge down the status table, and one row at a time if none was lost.    *)
(***************************************************************************)
WalksTable ==
  [][\A t \in Tests : badge'[t] # badge[t] /\ ~overtaken' =>
       /\ Rank(badge[t]) < Rank(badge'[t])
       /\ ~lost' /\ badge[t] # "absent" => Rank(badge'[t]) = Rank(badge[t]) + 1]_vars

(***************************************************************************)
(* If nothing is overtaken or lost, every test's badge ends up showing the *)
(* result of the test, unless the job is killed.                           *)
(***************************************************************************)
ResultShown ==
  [](~overtaken /\ ~lost /\ script # "killed")
    => \A t \in Tests : <>[](badge[t] \in Results)

-----------------------------------------------------------------------------
(***************************************************************************)
(* Proof that a badge never shows a result go test did not return, for any *)
(* number of tests and of concurrent callbacks.                            *)
(***************************************************************************)

\* The script is at a test in the steps that name one.
AtTest == script \in {"test", "wait", "report"} => current \in Tests

\* The tests the script has not finished have no result yet.
NotYetRun ==
  /\ script = "announce" => \A t \in Tests : result[t] = "none"
  /\ script \in {"create", "test", "wait"} =>
       \A t \in Tests : current <= t => result[t] = "none"
  /\ script = "report" => result[current] \in Results
  /\ script = "report" => \A t \in Tests : current < t => result[t] = "none"

\* What was published, and what a callback is about to write, is true.
MessagesTruthful ==
  \A m \in sent : m.status \in Results => m.status = result[m.test]
WorkersHold == \A w \in Workers : worker[w] # Idle => worker[w] \in sent

TruthInv ==
  TypeOK /\ AtTest /\ NotYetRun /\ MessagesTruthful /\ WorkersHold /\ ResultTruthful

-----------------------------------------------------------------------------
\* A published message is well formed and nothing else about it matters.
LEMMA PublishType ==
  ASSUME TypeOK, NEW t \in Tests, NEW s \in Published, Publish(t, s)
  PROVE  topic' \subseteq sent' /\ sent' \subseteq Message
BY DEF TypeOK, Publish, Message

\* No result is anywhere before the job runs.
LEMMA InitTruth == Init => TruthInv
<1> SUFFICES ASSUME Init PROVE TruthInv
  OBVIOUS
<1>1. /\ badge \in [Tests -> Status]
      /\ \A t \in Tests : badge[t] \notin Results
  <2>1. PICK s \in {"absent", "pending authorization"} : badge = [t \in Tests |-> s]
    BY Zenon DEF Init
  <2> QED
    BY <2>1 DEF Status, Results
<1>2. next \in 1 .. NumTests + 1 /\ current \in 1 .. NumTests + 1
  <2>1. next = 1 /\ current = 1
    BY DEF Init
  <2> QED
    BY <2>1, NumTestsAssumption
<1>3. TypeOK
  BY <1>1, <1>2 DEF Init, TypeOK
<1> QED
  BY <1>1, <1>3
  DEF Init, TruthInv, AtTest, NotYetRun, MessagesTruthful, WorkersHold, ResultTruthful

\* The handler writes no result.
LEMMA HandlerTruth == TruthInv /\ Handler => TruthInv'
<1> SUFFICES ASSUME TruthInv, Handler PROVE TruthInv'
  OBVIOUS
<1>1. CASE UpdateBadges
  <2>1. badge' = [badge EXCEPT ![next] = "setup"] /\ badge \in [Tests -> Status]
    BY <1>1 DEF UpdateBadges, TruthInv, TypeOK
  <2>2. badge' \in [Tests -> Status]
    BY <2>1 DEF Status
  <2>3. next' \in 1 .. NumTests + 1
    BY <1>1, NumTestsAssumption DEF UpdateBadges, Tests
  <2>4. ResultTruthful'
    BY <1>1, <2>1 DEF UpdateBadges, TruthInv, ResultTruthful, Results, jobVars
  <2> QED
    BY <1>1, <2>2, <2>3, <2>4
    DEF UpdateBadges, TruthInv, TypeOK, AtTest, NotYetRun, MessagesTruthful, WorkersHold,
        jobVars
<1>2. CASE UpdateBadgesFails
  BY <1>2, NumTestsAssumption
  DEF UpdateBadgesFails, TruthInv, TypeOK, AtTest, NotYetRun, MessagesTruthful, WorkersHold,
      ResultTruthful, Tests, jobVars
<1> QED
  BY <1>1, <1>2 DEF Handler

\* The steps of the script that publish a status other than a result, and
\* leave the results alone.
LEMMA ProgressTruth ==
  ASSUME TruthInv, NEW t \in Tests, NEW s \in Published \ Results, Publish(t, s),
         UNCHANGED <<badge, next, result, worker, overtaken, lost>>
  PROVE  MessagesTruthful' /\ WorkersHold' /\ ResultTruthful'
BY DEF Publish, TruthInv, MessagesTruthful, WorkersHold, ResultTruthful, Results

\* The script publishes a result only once it has one.
LEMMA ScriptTruth == TruthInv /\ Script => TruthInv'
<1> SUFFICES ASSUME TruthInv, Script PROVE TruthInv'
  OBVIOUS
<1>1. CASE Announce
  <2>1. MessagesTruthful' /\ WorkersHold' /\ ResultTruthful'
    <3>1. "pending execution" \in Published \ Results
      BY DEF Published, Results
    <3> QED
      BY <1>1, <3>1, ProgressTruth DEF Announce
  <2>2. topic' \subseteq sent' /\ sent' \subseteq Message
    BY <1>1, PublishType DEF Announce, Published, TruthInv
  <2>3. current' \in 1 .. NumTests + 1
    <3>1. current \in Tests /\ current' = current + 1
      BY <1>1 DEF Announce
    <3> QED
      BY <3>1, NumTestsAssumption DEF Tests
  <2> QED
    BY <1>1, <2>1, <2>2, <2>3 DEF Announce, TruthInv, TypeOK, AtTest, NotYetRun
<1>2. CASE Deploy
  BY <1>2, NumTestsAssumption
  DEF Deploy, TruthInv, TypeOK, AtTest, NotYetRun, MessagesTruthful, WorkersHold,
      ResultTruthful, Tests
<1>3. CASE EnvironmentSetup
  <2>1. MessagesTruthful' /\ WorkersHold' /\ ResultTruthful'
    BY <1>3, ProgressTruth DEF EnvironmentSetup, Published, Results
  <2>2. topic' \subseteq sent' /\ sent' \subseteq Message
    BY <1>3, PublishType DEF EnvironmentSetup, Published, TruthInv
  <2> QED
    BY <1>3, <2>1, <2>2 DEF EnvironmentSetup, TruthInv, TypeOK, AtTest, NotYetRun
<1>4. CASE Running
  <2>1. current \in Tests
    BY <1>4 DEF Running, TruthInv, AtTest
  <2>2. MessagesTruthful' /\ WorkersHold' /\ ResultTruthful'
    BY <1>4, <2>1, ProgressTruth DEF Running, Published, Results
  <2>3. topic' \subseteq sent' /\ sent' \subseteq Message
    BY <1>4, <2>1, PublishType DEF Running, Published, TruthInv
  <2> QED
    BY <1>4, <2>2, <2>3 DEF Running, TruthInv, TypeOK, AtTest, NotYetRun
<1>5. ASSUME NEW r \in Results, GoTest(r) PROVE TruthInv'
  <2>1. current \in Tests /\ result[current] = "none"
    BY <1>5, NumTestsAssumption DEF GoTest, TruthInv, AtTest, NotYetRun, Tests
  <2>2. \A t \in Tests : t # current => result'[t] = result[t]
    BY <1>5, <2>1 DEF GoTest, TruthInv, TypeOK
  <2>3. result'[current] = r
    BY <1>5, <2>1 DEF GoTest, TruthInv, TypeOK
  <2>4. TypeOK'
    BY <1>5, <2>1 DEF GoTest, TruthInv, TypeOK
  <2>5. AtTest' /\ NotYetRun'
    BY <1>5, <2>1, <2>2, <2>3, NumTestsAssumption
    DEF GoTest, TruthInv, AtTest, NotYetRun, Tests
  <2>6. MessagesTruthful'
    <3>1. \A m \in sent : m.test \in Tests
      BY DEF TruthInv, TypeOK, Message
    <3> QED
      BY <1>5, <2>1, <2>2, <3>1 DEF GoTest, TruthInv, MessagesTruthful, Results
  <2>7. ResultTruthful'
    BY <1>5, <2>1, <2>2 DEF GoTest, TruthInv, ResultTruthful, Results
  <2> QED
    BY <1>5, <2>4, <2>5, <2>6, <2>7 DEF GoTest, TruthInv, WorkersHold
<1>6. CASE Report
  <2>1. current \in Tests /\ result[current] \in Results
    BY <1>6 DEF Report, TruthInv, AtTest, NotYetRun
  <2>2. topic' \subseteq sent' /\ sent' \subseteq Message
    BY <1>6, <2>1, PublishType DEF Report, Published, TruthInv
  <2>3. MessagesTruthful' /\ WorkersHold'
    BY <1>6, <2>1 DEF Report, Publish, TruthInv, MessagesTruthful, WorkersHold
  <2>4. TypeOK' /\ AtTest' /\ NotYetRun'
    BY <1>6, <2>1, <2>2, NumTestsAssumption
    DEF Report, TruthInv, TypeOK, AtTest, NotYetRun, Tests
  <2> QED
    BY <1>6, <2>3, <2>4 DEF Report, TruthInv, ResultTruthful
<1>7. CASE Exit \/ Kill
  BY <1>7
  DEF Exit, Kill, TruthInv, TypeOK, AtTest, NotYetRun, MessagesTruthful, WorkersHold,
      ResultTruthful
<1> QED
  BY <1>1, <1>2, <1>3, <1>4, <1>5, <1>6, <1>7 DEF Script

\* A delivery changes no result.
LEMMA SubscriptionTruth == TruthInv /\ Subscription => TruthInv'
<1> SUFFICES ASSUME TruthInv, NEW m \in sent,
                    PublishFails(m) \/ \E w \in Workers : Deliver(w, m)
             PROVE  TruthInv'
  BY DEF Subscription
<1>1. CASE PublishFails(m)
  BY <1>1
  DEF PublishFails, TruthInv, TypeOK, AtTest, NotYetRun, MessagesTruthful, WorkersHold,
      ResultTruthful, jobVars
<1>2. ASSUME NEW w \in Workers, Deliver(w, m) PROVE TruthInv'
  <2>1. m \in Message
    BY DEF TruthInv, TypeOK
  <2>2. UNCHANGED <<badge, next, script, current, result, sent>>
    BY <1>2 DEF Deliver, jobVars
  <2>3. worker' = worker \/ worker' = [worker EXCEPT ![w] = m]
    BY <1>2 DEF Deliver
  <2>4. topic' \subseteq sent /\ overtaken' \in BOOLEAN /\ lost' \in BOOLEAN
    BY <1>2, ZenonT(60) DEF Deliver, TruthInv, TypeOK
  <2>5. TypeOK'
    BY <2>1, <2>2, <2>3, <2>4 DEF TruthInv, TypeOK
  <2>6. WorkersHold'
    BY <2>2, <2>3 DEF TruthInv, TypeOK, WorkersHold
  <2> QED
    BY <2>2, <2>5, <2>6 DEF TruthInv, AtTest, NotYetRun, MessagesTruthful, ResultTruthful
<1> QED
  BY <1>1, <1>2

\* A callback writes the result of its message or the one it read.
LEMMA CallbackTruth ==
  ASSUME TruthInv, NEW w \in Workers, Callback(w)
  PROVE  TruthInv'
<1>1. CASE UpdateBadgeStatus(w)
  <2> DEFINE m == worker[w]
  <2>1. m \in sent /\ m \in Message
    BY <1>1 DEF UpdateBadgeStatus, TruthInv, TypeOK, WorkersHold
  <2>2. /\ m.test \in Tests
        /\ m.status \in Published
        /\ m.status \in Results => m.status = result[m.test]
    BY <2>1 DEF Message, TruthInv, MessagesTruthful
  <2>3. /\ badge' = [badge EXCEPT ![m.test] = m.status]
        /\ worker' = [worker EXCEPT ![w] = Idle]
        /\ UNCHANGED <<next, script, current, result, topic, sent, overtaken, lost>>
    BY <1>1 DEF UpdateBadgeStatus, jobVars
  <2> HIDE DEF m
  <2>4. TypeOK'
    BY <2>2, <2>3 DEF TruthInv, TypeOK, Status
  <2>5. WorkersHold'
    BY <2>3 DEF TruthInv, TypeOK, WorkersHold
  <2>6. ResultTruthful'
    BY <2>2, <2>3 DEF TruthInv, TypeOK, ResultTruthful
  <2> QED
    BY <2>3, <2>4, <2>5, <2>6 DEF TruthInv, AtTest, NotYetRun, MessagesTruthful
<1>2. CASE UpdateBadgeStatusFails(w)
  BY <1>2
  DEF UpdateBadgeStatusFails, TruthInv, TypeOK, AtTest, NotYetRun, MessagesTruthful,
      WorkersHold, ResultTruthful, jobVars
<1> QED
  BY <1>1, <1>2 DEF Callback

\* So every step keeps the results true.
LEMMA StepTruth == TruthInv /\ [Next]_vars => TruthInv'
<1> SUFFICES ASSUME TruthInv, [Next]_vars PROVE TruthInv'
  OBVIOUS
<1>1. CASE UNCHANGED vars
  BY <1>1
  DEF vars, jobVars, TruthInv, TypeOK, AtTest, NotYetRun, MessagesTruthful, WorkersHold,
      ResultTruthful
<1> QED
  BY <1>1, HandlerTruth, ScriptTruth, SubscriptionTruth, CallbackTruth DEF Next

(***************************************************************************)
(* For every number of tests and of callbacks: a badge that shows a result *)
(* shows what go test returned, in any order of deliveries and writes.     *)
(***************************************************************************)
THEOREM BadgesTellTheTruth == Spec => []ResultTruthful
<1>1. TruthInv => ResultTruthful
  BY DEF TruthInv
<1> QED
  BY InitTruth, StepTruth, <1>1, PTL DEF Spec

-----------------------------------------------------------------------------
(***************************************************************************)
(* Proof that a badge walks down the status table.  The script publishes   *)
(* the rows of a test in order and leaves none out; while deliveries are   *)
(* in order, what is in the topic is ahead of what a callback holds, and   *)
(* that is ahead of the badge.                                             *)
(***************************************************************************)

\* The row of the status the script will publish next for a test.
Upcoming(t) ==
  CASE script = "announce" -> IF t < current THEN 4 ELSE 3
    [] script = "create" -> IF t < current THEN 7 ELSE 4
    [] script = "test" -> IF t < current THEN 7 ELSE IF t = current THEN 5 ELSE 4
    [] script \in {"wait", "report"} -> IF t < current THEN 7 ELSE IF t = current THEN 6 ELSE 4
    [] OTHER -> 7

SentUpTo ==
  script # "killed" => \A t \in Tests :
    /\ \A m \in sent : m.test = t => Rank(m.status) < Upcoming(t)
    /\ Upcoming(t) > 3 => \E m \in sent : m.test = t /\ Rank(m.status) = Upcoming(t) - 1
NoGap ==
  \A m \in sent : Rank(m.status) > 3 =>
    \E n \in sent : n.test = m.test /\ Rank(n.status) = Rank(m.status) - 1
BadgeSent ==
  \A t \in Tests : badge[t] \in Published => [test |-> t, status |-> badge[t]] \in sent

\* updateBadges is ahead of every callback, and writes each badge but once.
SetupFirst ==
  /\ next \in Tests => \A w \in Workers : worker[w] = Idle
  /\ \A t \in Tests : next <= t => badge[t] \in {"absent", "pending authorization"}
  /\ ~lost => \A t \in Tests : t < next => Rank(badge[t]) >= 2

OnePerTest ==
  \A v, w \in Workers :
    worker[v] # Idle /\ worker[w] # Idle /\ worker[v].test = worker[w].test => v = w
WorkerAhead ==
  \A w \in Workers : worker[w] # Idle =>
    /\ Rank(badge[worker[w].test]) < Rank(worker[w].status)
    /\ ~lost => Rank(worker[w].status) = Rank(badge[worker[w].test]) + 1
TopicAhead ==
  \A m \in topic :
    /\ Rank(badge[m.test]) < Rank(m.status)
    /\ \A w \in Workers : worker[w] # Idle /\ worker[w].test = m.test =>
         Rank(worker[w].status) < Rank(m.status)
NoneLost ==
  ~lost => \A m \in sent :
    \/ m \in topic
    \/ \E w \in Workers : worker[w] = m
    \/ Rank(m.status) <= Rank(badge[m.test])

Walking == SetupFirst /\ OnePerTest /\ WorkerAhead /\ TopicAhead /\ NoneLost

WalkInv ==
  /\ TruthInv /\ SentUpTo /\ NoGap /\ BadgeSent
  /\ ~overtaken => Walking

-----------------------------------------------------------------------------

\* The places of the statuses in the table.
LEMMA RankValues ==
  /\ Rank("absent") = 0 /\ Rank("pending authorization") = 1 /\ Rank("setup") = 2
  /\ Rank("pending execution") = 3 /\ Rank("environment setup") = 4 /\ Rank("running") = 5
  /\ \A s \in Results : Rank(s) = 6
BY DEF Rank, Results

\* The job publishes the rows from the third on, the handlers write the ones before.
LEMMA RankTypes ==
  /\ \A s \in Status : Rank(s) \in Nat
  /\ \A s \in Published : Rank(s) \in 3 .. 6
  /\ \A s \in Status : s \notin Published => Rank(s) <= 2
<1>1. ASSUME NEW s \in Published PROVE Rank(s) \in 3 .. 6
  <2>1. s = "pending execution" \/ s = "environment setup" \/ s = "running" \/ s \in Results
    BY DEF Published
  <2>2. Rank(s) = 3 \/ Rank(s) = 4 \/ Rank(s) = 5 \/ Rank(s) = 6
    BY <2>1, RankValues, Zenon
  <2> QED
    BY <2>2
<1>2. ASSUME NEW s \in Status, s \notin Published PROVE Rank(s) \in Nat /\ Rank(s) <= 2
  <2>1. s = "absent" \/ s = "pending authorization" \/ s = "setup"
    BY <1>2 DEF Status
  <2>2. Rank(s) = 0 \/ Rank(s) = 1 \/ Rank(s) = 2
    BY <2>1, RankValues, Zenon
  <2> QED
    BY <2>2
<1>3. ASSUME NEW s \in Status PROVE Rank(s) \in Nat
  BY <1>1, <1>2
<1> QED
  BY <1>1, <1>2, <1>3

\* Two messages of a test in the same row are the same message.
LEMMA SameRow ==
  ASSUME TruthInv, NEW m \in sent, NEW n \in sent, m.test = n.test,
         Rank(m.status) = Rank(n.status)
  PROVE  m = n
<1>1. m \in Message /\ n \in Message
  BY DEF TruthInv, TypeOK
<1>2. m.status \in Published /\ n.status \in Published
  BY <1>1 DEF Message
<1>3. m.status = n.status \/ (m.status \in Results /\ n.status \in Results)
  <2>1. ASSUME NEW r \in Published, NEW s \in Published, Rank(r) = Rank(s), r \notin Results
        PROVE  r = s
    <3>1. r = "pending execution" \/ r = "environment setup" \/ r = "running"
      BY <2>1 DEF Published
    <3>2. s = "pending execution" \/ s = "environment setup" \/ s = "running" \/ s \in Results
      BY DEF Published
    <3>3. \/ r = "pending execution" /\ Rank(r) = 3
          \/ r = "environment setup" /\ Rank(r) = 4
          \/ r = "running" /\ Rank(r) = 5
      BY <3>1, RankValues, Zenon
    <3>4. \/ s = "pending execution" /\ Rank(s) = 3
          \/ s = "environment setup" /\ Rank(s) = 4
          \/ s = "running" /\ Rank(s) = 5
          \/ Rank(s) = 6
      BY <3>2, RankValues, Zenon
    <3>5. Rank(r) = Rank(s)
      BY <2>1
    <3>6. CASE Rank(r) = 3
      <4>1. Rank(s) # 4 /\ Rank(s) # 5 /\ Rank(s) # 6
        BY <3>5, <3>6
      <4>2. Rank(r) # 4 /\ Rank(r) # 5
        BY <3>6
      <4> QED
        BY <3>3, <3>4, <4>1, <4>2, Zenon
    <3>7. CASE Rank(r) = 4
      <4>1. Rank(s) # 3 /\ Rank(s) # 5 /\ Rank(s) # 6
        BY <3>5, <3>7
      <4>2. Rank(r) # 3 /\ Rank(r) # 5
        BY <3>7
      <4> QED
        BY <3>3, <3>4, <4>1, <4>2, Zenon
    <3>8. CASE Rank(r) = 5
      <4>1. Rank(s) # 3 /\ Rank(s) # 4 /\ Rank(s) # 6
        BY <3>5, <3>8
      <4>2. Rank(r) # 3 /\ Rank(r) # 4
        BY <3>8
      <4> QED
        BY <3>3, <3>4, <4>1, <4>2, Zenon
    <3> QED
      BY <3>3, <3>6, <3>7, <3>8, Zenon
  <2> QED
    BY <1>2, <2>1
<1>4. m.status = n.status
  BY <1>3 DEF TruthInv, MessagesTruthful
<1> QED
  BY <1>1, <1>4 DEF Message

\* A message is not the mark of an idle callback.
LEMMA NotIdle == ASSUME TypeOK, NEW m \in sent PROVE m # Idle
<1>1. m \in Message
  BY DEF TypeOK
<1>2. m.test # 0
  BY <1>1, NumTestsAssumption DEF Message, Tests
<1> QED
  BY <1>2 DEF Idle

\* No badge and no callback is ahead of what the script published.
LEMMA BehindUpcoming ==
  ASSUME WalkInv, script # "killed", NEW t \in Tests, Upcoming(t) \in 3 .. 7
  PROVE  /\ Rank(badge[t]) < Upcoming(t)
         /\ \A w \in Workers : worker[w] # Idle /\ worker[w].test = t =>
              Rank(worker[w].status) < Upcoming(t)
<1>1. badge[t] \in Status
  BY DEF WalkInv, TruthInv, TypeOK
<1>2. CASE badge[t] \in Published
  <2> DEFINE n == [test |-> t, status |-> badge[t]]
  <2>1. n \in sent /\ n.test = t /\ n.status = badge[t]
    BY <1>2 DEF WalkInv, BadgeSent
  <2> HIDE DEF n
  <2>2. Rank(badge[t]) < Upcoming(t)
    BY <2>1 DEF WalkInv, SentUpTo
  <2> QED
    BY <2>2 DEF WalkInv, SentUpTo, TruthInv, WorkersHold
<1>3. CASE badge[t] \notin Published
  <2>1. Rank(badge[t]) < Upcoming(t)
    BY <1>1, <1>3, RankTypes
  <2> QED
    BY <2>1 DEF WalkInv, SentUpTo, TruthInv, WorkersHold
<1> QED
  BY <1>2, <1>3

\* A step of the script that publishes the next row of a test.
LEMMA PublishWalk ==
  ASSUME WalkInv, NEW t \in Tests, NEW s \in Published, Publish(t, s),
         script # "killed", Upcoming(t) \in 3 .. 6, Rank(s) = Upcoming(t),
         \A u \in Tests \ {t} : Upcoming(u)' = Upcoming(u),
         Upcoming(t)' = Upcoming(t) + 1,
         UNCHANGED <<badge, next, worker, overtaken, lost>>
  PROVE  /\ SentUpTo' /\ NoGap' /\ BadgeSent'
         /\ ~overtaken' => Walking'
<1> DEFINE m == [test |-> t, status |-> s]
<1>1. m.test = t /\ m.status = s
  OBVIOUS
<1>2. topic' = topic \cup {m} /\ sent' = sent \cup {m}
  BY DEF Publish
<1> HIDE DEF m
<1>3. SentUpTo'
  <2>1. ASSUME NEW u \in Tests
        PROVE  /\ \A n \in sent' : n.test = u => Rank(n.status) < Upcoming(u)'
               /\ Upcoming(u)' > 3 =>
                    \E n \in sent' : n.test = u /\ Rank(n.status) = Upcoming(u)' - 1
    <3>1. \A n \in sent : n.test = u => Rank(n.status) < Upcoming(u)
      BY DEF WalkInv, SentUpTo
    <3>2. \A n \in sent : n.status \in Published
      BY DEF WalkInv, TruthInv, TypeOK, Message
    <3>3. CASE u = t
      BY <1>1, <1>2, <3>1, <3>2, <3>3, RankTypes
    <3>4. CASE u # t
      <4>1. Upcoming(u)' = Upcoming(u)
        BY <3>4
      <4>2. Upcoming(u) > 3 =>
              \E n \in sent : n.test = u /\ Rank(n.status) = Upcoming(u) - 1
        BY DEF WalkInv, SentUpTo
      <4> QED
        BY <1>1, <1>2, <3>1, <3>4, <4>1, <4>2
    <3> QED
      BY <3>3, <3>4
  <2> QED
    BY <2>1 DEF SentUpTo
<1>4. NoGap'
  <2>1. Rank(s) > 3 => \E n \in sent : n.test = t /\ Rank(n.status) = Rank(s) - 1
    BY DEF WalkInv, SentUpTo
  <2> QED
    BY <1>1, <1>2, <2>1 DEF WalkInv, NoGap
<1>5. BadgeSent'
  BY <1>2 DEF WalkInv, BadgeSent
<1>6. ASSUME ~overtaken PROVE Walking'
  <2>1. SetupFirst' /\ OnePerTest' /\ WorkerAhead'
    BY <1>6 DEF WalkInv, Walking, SetupFirst, OnePerTest, WorkerAhead
  <2>2. TopicAhead'
    BY <1>1, <1>2, <1>6, BehindUpcoming DEF WalkInv, Walking, TopicAhead
  <2>3. NoneLost'
    BY <1>2, <1>6 DEF WalkInv, Walking, NoneLost
  <2> QED
    BY <2>1, <2>2, <2>3 DEF Walking
<1> QED
  BY <1>3, <1>4, <1>5, <1>6

\* Everything is at the top of the table before the job runs.
LEMMA InitWalk == Init => WalkInv
<1> SUFFICES ASSUME Init PROVE WalkInv
  OBVIOUS
<1>1. TruthInv
  BY InitTruth
<1>3. \A t \in Tests : badge[t] \in {"absent", "pending authorization"}
  BY Zenon DEF Init
<1>4. SentUpTo /\ NoGap
  <2>1. script = "announce" /\ current = 1 /\ sent = {}
    BY DEF Init
  <2>2. ASSUME NEW t \in Tests PROVE Upcoming(t) = 3
    <3>1. ~(t < current)
      BY <2>1, NumTestsAssumption DEF Tests
    <3> QED
      BY <2>1, <3>1 DEF Upcoming
  <2> QED
    BY <2>1, <2>2 DEF SentUpTo, NoGap
<1>5. BadgeSent
  BY <1>3 DEF BadgeSent, Published, Results
<1>6. SetupFirst
  <2>1. next = 1 /\ \A w \in Workers : worker[w] = Idle
    BY DEF Init
  <2>2. \A t \in Tests : ~(t < next)
    BY <2>1, NumTestsAssumption DEF Tests
  <2> QED
    BY <1>3, <2>1, <2>2, Zenon DEF SetupFirst
<1>7. OnePerTest /\ WorkerAhead /\ TopicAhead /\ NoneLost
  BY DEF Init, OnePerTest, WorkerAhead, TopicAhead, NoneLost
<1> QED
  BY <1>1, <1>4, <1>5, <1>6, <1>7 DEF WalkInv, Walking

\* What the script does not touch keeps the callbacks' part of the invariant.
LEMMA QuietWalk ==
  ASSUME WalkInv, UNCHANGED <<badge, next, topic, sent, worker, overtaken, lost>>
  PROVE  NoGap' /\ BadgeSent' /\ (~overtaken' => Walking')
BY DEF WalkInv, Walking, NoGap, BadgeSent, SetupFirst, OnePerTest, WorkerAhead, TopicAhead,
       NoneLost

\* The writes of the handler keep WalkInv.
LEMMA HandlerWalk == WalkInv /\ Handler => WalkInv'
<1> SUFFICES ASSUME WalkInv, Handler PROVE WalkInv'
  OBVIOUS
<1>1. TruthInv'
  BY HandlerTruth DEF WalkInv
<1>2. UNCHANGED <<script, current, topic, sent, worker, overtaken>>
  BY DEF Handler, UpdateBadges, UpdateBadgesFails, jobVars
<1>3. SentUpTo' /\ NoGap'
  BY <1>2 DEF WalkInv, SentUpTo, NoGap, Upcoming
<1>4. CASE UpdateBadges
  <2>1. /\ next \in Tests
        /\ next' = next + 1
        /\ lost' = lost
        /\ badge'[next] = "setup"
        /\ \A t \in Tests : t # next => badge'[t] = badge[t]
    BY <1>4 DEF UpdateBadges, WalkInv, TruthInv, TypeOK
  <2>2. BadgeSent'
    BY <1>2, <2>1 DEF WalkInv, BadgeSent, Published, Results
  <2>3. ASSUME ~overtaken PROVE Walking'
    <3>1. \A w \in Workers : worker[w] = Idle
      BY <2>1, <2>3 DEF WalkInv, Walking, SetupFirst
    <3>2. OnePerTest' /\ WorkerAhead'
      BY <1>2, <3>1 DEF OnePerTest, WorkerAhead
    <3>3. SetupFirst'
      <4>1. ASSUME NEW t \in Tests, next + 1 <= t
            PROVE  badge'[t] \in {"absent", "pending authorization"}
        <5>1. t # next /\ next <= t
          BY <2>1, <4>1, NumTestsAssumption DEF Tests
        <5> QED
          BY <2>1, <2>3, <5>1 DEF WalkInv, Walking, SetupFirst
      <4>2. ASSUME NEW t \in Tests, t < next + 1, ~lost
            PROVE  Rank(badge'[t]) >= 2
        <5>1. CASE t = next
          <6>1. Rank(badge'[t]) = 2
            BY <2>1, <5>1, RankValues, Zenon
          <6> QED
            BY <6>1
        <5>2. CASE t # next
          <6>1. t < next
            BY <2>1, <4>2, <5>2, NumTestsAssumption DEF Tests
          <6> QED
            BY <2>1, <2>3, <4>2, <5>2, <6>1 DEF WalkInv, Walking, SetupFirst
        <5> QED
          BY <5>1, <5>2
      <4> QED
        BY <1>2, <2>1, <3>1, <4>1, <4>2 DEF SetupFirst
    <3>4. TopicAhead'
      <4>1. ASSUME NEW m \in topic PROVE Rank(badge'[m.test]) < Rank(m.status)
        <5>1. m.test \in Tests /\ m.status \in Published
          BY DEF WalkInv, TruthInv, TypeOK, Message
        <5>2. Rank(m.status) \in 3 .. 6
          BY <5>1, RankTypes
        <5>3. CASE m.test = next
          <6>1. Rank(badge'[m.test]) = 2
            BY <2>1, <5>3, RankValues, Zenon
          <6> QED
            BY <5>2, <6>1
        <5>4. CASE m.test # next
          BY <2>1, <2>3, <5>1, <5>4 DEF WalkInv, Walking, TopicAhead
        <5> QED
          BY <5>3, <5>4
      <4> QED
        BY <1>2, <3>1, <4>1 DEF TopicAhead
    <3>5. NoneLost'
      <4>1. ASSUME NEW m \in sent, ~lost
            PROVE  m \in topic \/ Rank(m.status) <= Rank(badge'[m.test])
        <5>1. m.test \in Tests /\ m.status \in Published /\ m # Idle
          BY NotIdle DEF WalkInv, TruthInv, TypeOK, Message
        <5>2. m \in topic \/ Rank(m.status) <= Rank(badge[m.test])
          BY <2>3, <3>1, <4>1, <5>1 DEF WalkInv, Walking, NoneLost
        <5>3. CASE m.test = next
          <6>1. badge[next] = "absent" \/ badge[next] = "pending authorization"
            <7>1. next <= next
              BY <2>1, NumTestsAssumption DEF Tests
            <7> QED
              BY <2>1, <2>3, <7>1 DEF WalkInv, Walking, SetupFirst
          <6>2. Rank(badge[next]) = 0 \/ Rank(badge[next]) = 1
            BY <6>1, RankValues, Zenon
          <6>3. Rank(m.status) \in 3 .. 6
            BY <5>1, RankTypes
          <6> QED
            BY <5>2, <5>3, <6>2, <6>3
        <5>4. CASE m.test # next
          BY <2>1, <5>1, <5>2, <5>4
        <5> QED
          BY <5>3, <5>4
      <4> QED
        BY <1>2, <2>1, <4>1 DEF NoneLost
    <3> QED
      BY <3>2, <3>3, <3>4, <3>5 DEF Walking
  <2> QED
    BY <1>1, <1>2, <1>3, <2>2, <2>3 DEF WalkInv
<1>5. CASE UpdateBadgesFails
  <2>1. badge' = badge /\ lost' = TRUE /\ next' = NumTests + 1
    BY <1>5 DEF UpdateBadgesFails
  <2>2. next' \notin Tests /\ \A t \in Tests : ~(next' <= t)
    BY <2>1, NumTestsAssumption DEF Tests
  <2>3. ASSUME ~overtaken PROVE Walking'
    <3>1. SetupFirst'
      BY <2>1, <2>2 DEF SetupFirst
    <3> QED
      BY <1>2, <2>1, <2>3, <3>1
      DEF WalkInv, Walking, OnePerTest, WorkerAhead, TopicAhead, NoneLost
  <2> QED
    BY <1>1, <1>2, <1>3, <2>1, <2>3 DEF WalkInv, BadgeSent
<1> QED
  BY <1>4, <1>5 DEF Handler

\* What the script publishes keeps WalkInv.
LEMMA ScriptWalk == WalkInv /\ Script => WalkInv'
<1> SUFFICES ASSUME WalkInv, Script PROVE WalkInv'
  OBVIOUS
<1>1. TruthInv'
  BY ScriptTruth DEF WalkInv
<1>2. current \in 1 .. NumTests + 1 /\ \A t \in Tests : t \in Nat
  BY NumTestsAssumption DEF WalkInv, TruthInv, TypeOK, Tests
<1>3. CASE Announce
  <2>1. current \in Tests /\ current' = current + 1 /\ script = "announce" /\ script' = script
    BY <1>3 DEF Announce
  <2>2. PICK c \in Tests : c = current
    BY <2>1
  <2>3. /\ Upcoming(c) = 3
        /\ Upcoming(c)' = 4
        /\ \A u \in Tests \ {c} : Upcoming(u)' = Upcoming(u)
    <3>1. c < current' /\ ~(c < current)
      BY <1>2, <2>1, <2>2
    <3>2. \A u \in Tests \ {c} : u < current' <=> u < current
      BY <1>2, <2>1, <2>2
    <3> QED
      BY <2>1, <2>2, <3>1, <3>2 DEF Upcoming
  <2>4. PICK s \in Published : Publish(c, s) /\ Rank(s) = 3
    BY <1>3, <2>2, RankValues, Zenon DEF Announce, Published
  <2>5. UNCHANGED <<badge, next, worker, overtaken, lost>>
    BY <1>3 DEF Announce
  <2>6. /\ script # "killed" /\ Upcoming(c) \in 3 .. 6 /\ Rank(s) = Upcoming(c)
        /\ Upcoming(c)' = Upcoming(c) + 1
    BY <2>1, <2>3, <2>4
  <2>7. SentUpTo' /\ NoGap' /\ BadgeSent' /\ (~overtaken' => Walking')
    BY <2>3, <2>4, <2>5, <2>6, PublishWalk, Zenon
  <2> QED
    BY <1>1, <2>7 DEF WalkInv
<1>4. CASE Deploy
  <2>1. /\ script = "announce" /\ script' = "create" /\ current' = 1
        /\ \A t \in Tests : t < current /\ ~(t < 1)
    BY <1>2, <1>4, NumTestsAssumption DEF Deploy, Tests
  <2>2. \A t \in Tests : Upcoming(t) = 4 /\ Upcoming(t)' = 4
    BY <2>1 DEF Upcoming
  <2>3. UNCHANGED <<badge, next, topic, sent, worker, overtaken, lost>>
    BY <1>4 DEF Deploy
  <2>4. SentUpTo'
    BY <2>1, <2>2, <2>3 DEF WalkInv, SentUpTo
  <2> QED
    BY <1>1, <2>3, <2>4, QuietWalk DEF WalkInv
<1>5. CASE EnvironmentSetup
  <2>1. current \in Tests /\ current' = current /\ script = "create" /\ script' = "test"
    BY <1>5 DEF EnvironmentSetup
  <2>2. /\ Upcoming(current) = 4
        /\ Upcoming(current)' = 5
        /\ \A u \in Tests \ {current} : Upcoming(u)' = Upcoming(u)
    BY <1>2, <2>1 DEF Upcoming
  <2>3. PICK s \in Published : Publish(current, s) /\ Rank(s) = 4
    BY <1>5, RankValues, Zenon DEF EnvironmentSetup, Published
  <2>4. UNCHANGED <<badge, next, worker, overtaken, lost>>
    BY <1>5 DEF EnvironmentSetup
  <2>5. script # "killed" /\ Upcoming(current) \in 3 .. 6 /\ Rank(s) = Upcoming(current)
        /\ Upcoming(current)' = Upcoming(current) + 1
    BY <2>1, <2>2, <2>3
  <2>6. SentUpTo' /\ NoGap' /\ BadgeSent' /\ (~overtaken' => Walking')
    BY <2>1, <2>2, <2>3, <2>4, <2>5, PublishWalk, Zenon
  <2> QED
    BY <1>1, <2>6 DEF WalkInv
<1>6. CASE Running
  <2>1. current \in Tests /\ current' = current /\ script = "test" /\ script' = "wait"
    BY <1>6 DEF Running, WalkInv, TruthInv, AtTest
  <2>2. /\ Upcoming(current) = 5
        /\ Upcoming(current)' = 6
        /\ \A u \in Tests \ {current} : Upcoming(u)' = Upcoming(u)
    BY <1>2, <2>1 DEF Upcoming
  <2>3. PICK s \in Published : Publish(current, s) /\ Rank(s) = 5
    BY <1>6, RankValues, Zenon DEF Running, Published
  <2>4. UNCHANGED <<badge, next, worker, overtaken, lost>>
    BY <1>6 DEF Running
  <2>5. script # "killed" /\ Upcoming(current) \in 3 .. 6 /\ Rank(s) = Upcoming(current)
        /\ Upcoming(current)' = Upcoming(current) + 1
    BY <2>1, <2>2, <2>3
  <2>6. SentUpTo' /\ NoGap' /\ BadgeSent' /\ (~overtaken' => Walking')
    BY <2>1, <2>2, <2>3, <2>4, <2>5, PublishWalk, Zenon
  <2> QED
    BY <1>1, <2>6 DEF WalkInv
<1>7. ASSUME NEW r \in Results, GoTest(r) PROVE WalkInv'
  <2>1. current' = current /\ script = "wait" /\ script' = "report"
    BY <1>7 DEF GoTest
  <2>2. \A u \in Tests : Upcoming(u)' = Upcoming(u)
    BY <2>1 DEF Upcoming
  <2>3. UNCHANGED <<badge, next, topic, sent, worker, overtaken, lost>>
    BY <1>7 DEF GoTest
  <2>4. SentUpTo'
    BY <2>1, <2>2, <2>3 DEF WalkInv, SentUpTo
  <2> QED
    BY <1>1, <2>3, <2>4, QuietWalk DEF WalkInv
<1>8. CASE Report
  <2>1. /\ current \in Tests /\ current' = current + 1
        /\ script = "report" /\ script' = "create" /\ result[current] \in Results
    BY <1>8 DEF Report, WalkInv, TruthInv, AtTest, NotYetRun
  <2>2. PICK c \in Tests : c = current
    BY <2>1
  <2>3. /\ Upcoming(c) = 6
        /\ Upcoming(c)' = 7
        /\ \A u \in Tests \ {c} : Upcoming(u)' = Upcoming(u)
    <3>1. c < current' /\ ~(c < current)
      BY <1>2, <2>1, <2>2
    <3>2. \A u \in Tests \ {c} : u < current' <=> u < current
      BY <1>2, <2>1, <2>2
    <3> QED
      BY <2>1, <2>2, <3>1, <3>2 DEF Upcoming
  <2>4. PICK s \in Published : Publish(c, s) /\ Rank(s) = 6
    BY <1>8, <2>1, <2>2, RankValues, Zenon DEF Report, Published
  <2>5. UNCHANGED <<badge, next, worker, overtaken, lost>>
    BY <1>8 DEF Report
  <2>6. /\ script # "killed" /\ Upcoming(c) \in 3 .. 6 /\ Rank(s) = Upcoming(c)
        /\ Upcoming(c)' = Upcoming(c) + 1
    BY <2>1, <2>3, <2>4
  <2>7. SentUpTo' /\ NoGap' /\ BadgeSent' /\ (~overtaken' => Walking')
    BY <2>3, <2>4, <2>5, <2>6, PublishWalk, Zenon
  <2> QED
    BY <1>1, <2>7 DEF WalkInv
<1>9. CASE Exit
  <2>1. /\ script = "create" /\ script' = "ended" /\ current' = current
        /\ \A t \in Tests : t < current
    BY <1>2, <1>9, NumTestsAssumption DEF Exit, Tests
  <2>2. \A u \in Tests : Upcoming(u)' = Upcoming(u)
    BY <2>1 DEF Upcoming
  <2>3. UNCHANGED <<badge, next, topic, sent, worker, overtaken, lost>>
    BY <1>9 DEF Exit
  <2>4. SentUpTo'
    BY <2>1, <2>2, <2>3 DEF WalkInv, SentUpTo
  <2> QED
    BY <1>1, <2>3, <2>4, QuietWalk DEF WalkInv
<1>10. CASE Kill
  <2>1. script' = "killed" /\ UNCHANGED <<badge, next, topic, sent, worker, overtaken, lost>>
    BY <1>10 DEF Kill
  <2>2. SentUpTo'
    BY <2>1 DEF SentUpTo
  <2> QED
    BY <1>1, <2>1, <2>2, QuietWalk DEF WalkInv
<1> QED
  BY <1>3, <1>4, <1>5, <1>6, <1>7, <1>8, <1>9, <1>10, Zenon DEF Script

\* What a callback reads and writes keeps WalkInv.
LEMMA CallbackWalk ==
  ASSUME WalkInv, NEW w \in Workers, Callback(w)
  PROVE  WalkInv'
<1>1. TruthInv'
  BY CallbackTruth DEF WalkInv
<1>2. UNCHANGED <<next, script, current, topic, sent, overtaken>>
  BY DEF Callback, UpdateBadgeStatus, UpdateBadgeStatusFails, jobVars
<1>3. SentUpTo' /\ NoGap'
  BY <1>2 DEF WalkInv, SentUpTo, NoGap, Upcoming
<1> DEFINE m == worker[w]
<1>4. m # Idle /\ m \in sent /\ m.test \in Tests /\ m.status \in Published
  <2>1. m # Idle
    BY DEF Callback, UpdateBadgeStatus, UpdateBadgeStatusFails
  <2>2. m \in sent /\ m \in Message
    BY <2>1 DEF WalkInv, TruthInv, TypeOK, WorkersHold
  <2> QED
    BY <2>1, <2>2 DEF Message
<1>5. worker'[w] = Idle /\ \A v \in Workers : v # w => worker'[v] = worker[v]
  BY DEF Callback, UpdateBadgeStatus, UpdateBadgeStatusFails, WalkInv, TruthInv, TypeOK
<1>6. CASE UpdateBadgeStatus(w)
  <2>1. /\ lost' = lost
        /\ badge'[m.test] = m.status
        /\ \A t \in Tests : t # m.test => badge'[t] = badge[t]
    BY <1>4, <1>6 DEF UpdateBadgeStatus, WalkInv, TruthInv, TypeOK
  <2>2. BadgeSent'
    <3>1. [test |-> m.test, status |-> m.status] \in sent
      BY <1>4 DEF WalkInv, TruthInv, TypeOK, Message
    <3> QED
      BY <1>2, <2>1, <3>1, Zenon DEF WalkInv, BadgeSent
  <2>3. ASSUME ~overtaken PROVE Walking'
    <3>1. Rank(badge[m.test]) < Rank(m.status)
      BY <1>4, <2>3 DEF WalkInv, Walking, WorkerAhead
    <3>2. next \notin Tests
      BY <1>4, <2>3 DEF WalkInv, Walking, SetupFirst
    <3>3. \A t \in Tests : ~(next <= t)
      BY <3>2, NumTestsAssumption DEF WalkInv, TruthInv, TypeOK, Tests
    <3>4. \A t \in Tests : badge[t] \in Status
      BY DEF WalkInv, TruthInv, TypeOK
    <3>5. SetupFirst'
      <4>1. ASSUME NEW t \in Tests, ~lost, t < next PROVE Rank(badge'[t]) >= 2
        <5>1. CASE t = m.test
          BY <1>4, <2>1, <5>1, RankTypes
        <5>2. CASE t # m.test
          BY <2>1, <2>3, <4>1, <5>2 DEF WalkInv, Walking, SetupFirst
        <5> QED
          BY <5>1, <5>2
      <4> QED
        BY <1>2, <2>1, <3>2, <3>3, <4>1, Zenon DEF SetupFirst
    <3>6. OnePerTest'
      BY <1>5, <2>3 DEF WalkInv, Walking, OnePerTest
    <3>7. \A v \in Workers : v # w /\ worker[v] # Idle =>
             worker[v].test # m.test /\ worker[v].test \in Tests
      BY <1>4, <2>3 DEF WalkInv, Walking, OnePerTest, TruthInv, TypeOK, Message
    <3>8. WorkerAhead'
      BY <1>5, <2>1, <2>3, <3>7 DEF WalkInv, Walking, WorkerAhead
    <3>9. TopicAhead'
      <4>1. ASSUME NEW n \in topic
            PROVE  Rank(badge'[n.test]) < Rank(n.status)
        <5>1. n.test \in Tests
          BY DEF WalkInv, TruthInv, TypeOK, Message
        <5>2. CASE n.test = m.test
          BY <1>4, <2>1, <2>3, <5>2 DEF WalkInv, Walking, TopicAhead
        <5>3. CASE n.test # m.test
          BY <2>1, <2>3, <5>1, <5>3 DEF WalkInv, Walking, TopicAhead
        <5> QED
          BY <5>2, <5>3
      <4> QED
        BY <1>2, <1>5, <2>3, <4>1 DEF WalkInv, Walking, TopicAhead
    <3>10. NoneLost'
      <4>1. ASSUME NEW n \in sent, ~lost
            PROVE  \/ n \in topic
                   \/ \E v \in Workers : worker'[v] = n
                   \/ Rank(n.status) <= Rank(badge'[n.test])
        <5>1. n.test \in Tests /\ n.status \in Published
          BY DEF WalkInv, TruthInv, TypeOK, Message
        <5>2. CASE n \in topic
          BY <5>2
        <5>3. CASE \E v \in Workers : worker[v] = n
          <6>1. PICK v \in Workers : worker[v] = n
            BY <5>3
          <6>2. CASE v = w
            <7>1. n = m
              BY <6>1, <6>2
            <7>2. Rank(n.status) = Rank(badge'[n.test]) /\ Rank(n.status) \in 3 .. 6
              BY <2>1, <5>1, <7>1, RankTypes
            <7> QED
              BY <7>2
          <6>3. CASE v # w
            BY <1>5, <6>1, <6>3
          <6> QED
            BY <6>2, <6>3
        <5>4. CASE Rank(n.status) <= Rank(badge[n.test])
          <6>1. CASE n.test = m.test
            <7>1. badge[n.test] \in Status
              BY <3>4, <5>1
            <7>2. Rank(n.status) \in Nat /\ Rank(badge[n.test]) \in Nat /\ Rank(m.status) \in Nat
              BY <1>4, <5>1, <7>1, RankTypes
            <7>3. Rank(badge'[n.test]) = Rank(m.status)
              BY <2>1, <6>1
            <7> HIDE DEF m
            <7> QED
              BY <3>1, <5>4, <6>1, <7>2, <7>3
          <6>2. CASE n.test # m.test
            BY <2>1, <5>1, <5>4, <6>2
          <6> QED
            BY <6>1, <6>2
        <5> QED
          BY <2>3, <4>1, <5>2, <5>3, <5>4, Zenon DEF WalkInv, Walking, NoneLost
      <4> QED
        BY <1>2, <2>1, <4>1, Zenon DEF NoneLost
    <3> QED
      BY <3>5, <3>6, <3>8, <3>9, <3>10 DEF Walking
  <2> QED
    BY <1>1, <1>2, <1>3, <2>2, <2>3 DEF WalkInv
<1>7. CASE UpdateBadgeStatusFails(w)
  <2>1. lost' = TRUE /\ badge' = badge
    BY <1>7 DEF UpdateBadgeStatusFails
  <2>2. ASSUME ~overtaken PROVE Walking'
    <3>1. SetupFirst'
      <4>1. next \notin Tests
        BY <1>4, <2>2 DEF WalkInv, Walking, SetupFirst
      <4>2. \A t \in Tests : next <= t => badge[t] \in {"absent", "pending authorization"}
        BY <2>2, Zenon DEF WalkInv, Walking, SetupFirst
      <4> QED
        BY <1>2, <2>1, <4>1, <4>2, Zenon DEF SetupFirst
    <3>2. OnePerTest' /\ WorkerAhead' /\ TopicAhead' /\ NoneLost'
      BY <1>2, <1>5, <2>1, <2>2
      DEF WalkInv, Walking, OnePerTest, WorkerAhead, TopicAhead, NoneLost
    <3> QED
      BY <3>1, <3>2 DEF Walking
  <2> QED
    BY <1>1, <1>2, <1>3, <2>1, <2>2 DEF WalkInv, BadgeSent
<1> QED
  BY <1>6, <1>7 DEF Callback

\* What comes before the first message of a test that is still in the topic has
\* been written, so that message is the next row of the table.
LEMMA NextRow ==
  ASSUME WalkInv, ~overtaken, ~lost, NEW m \in topic, InOrder(m)
  PROVE  Rank(m.status) = Rank(badge[m.test]) + 1
<1>1. m \in sent /\ m.test \in Tests /\ m.status \in Published /\ badge[m.test] \in Status
  BY DEF WalkInv, TruthInv, TypeOK, Message
<1>2. Rank(m.status) \in 3 .. 6 /\ Rank(badge[m.test]) \in Nat
  BY <1>1, RankTypes
<1>3. Rank(badge[m.test]) < Rank(m.status)
  BY DEF WalkInv, Walking, TopicAhead
<1>4. Rank(badge[m.test]) >= Rank(m.status) - 1
  <2>1. CASE Rank(m.status) > 3
    <3>1. PICK n \in sent : n.test = m.test /\ Rank(n.status) = Rank(m.status) - 1
      BY <1>1, <2>1 DEF WalkInv, NoGap
    <3>2. n \notin topic
      BY <1>2, <3>1 DEF InOrder
    <3>3. n # Idle
      BY NotIdle DEF WalkInv, TruthInv
    <3>4. \A w \in Workers : worker[w] # n
      BY <3>1, <3>3 DEF InOrder
    <3>5. Rank(n.status) <= Rank(badge[n.test])
      BY <3>2, <3>4 DEF WalkInv, Walking, NoneLost
    <3> QED
      BY <1>2, <3>1, <3>5
  <2>2. CASE ~(Rank(m.status) > 3)
    <3>1. m.test < next
      BY <1>1, NumTestsAssumption DEF InOrder, WalkInv, TruthInv, TypeOK, Tests
    <3>2. Rank(badge[m.test]) >= 2
      BY <1>1, <3>1 DEF WalkInv, Walking, SetupFirst
    <3> QED
      BY <1>2, <2>2, <3>2
  <2> QED
    BY <2>1, <2>2
<1> QED
  BY <1>2, <1>3, <1>4

\* A delivery keeps WalkInv, or is out of order and sets overtaken.
LEMMA SubscriptionWalk == WalkInv /\ Subscription => WalkInv'
<1> SUFFICES ASSUME WalkInv, NEW m \in sent,
                    PublishFails(m) \/ \E w \in Workers : Deliver(w, m)
             PROVE  WalkInv'
  BY DEF Subscription
<1>1. TruthInv'
  BY SubscriptionTruth, Zenon DEF WalkInv, Subscription
<1>2. UNCHANGED <<badge, next, script, current, sent>> /\ topic' = topic \ {m}
  BY DEF PublishFails, Deliver, jobVars
<1>3. SentUpTo' /\ NoGap' /\ BadgeSent'
  BY <1>2 DEF WalkInv, SentUpTo, NoGap, BadgeSent, Upcoming
<1>4. ASSUME worker' = worker, lost' = TRUE, ~overtaken PROVE Walking'
  <2>1. SetupFirst'
    BY <1>2, <1>4, Zenon DEF WalkInv, Walking, SetupFirst
  <2> QED
    BY <1>2, <1>4, <2>1 DEF WalkInv, Walking, OnePerTest, WorkerAhead, TopicAhead, NoneLost
<1>5. CASE PublishFails(m)
  <2>1. worker' = worker /\ lost' = TRUE /\ overtaken' = overtaken
    BY <1>5 DEF PublishFails
  <2> QED
    BY <1>1, <1>3, <1>4, <2>1, Zenon DEF WalkInv
<1>6. ASSUME NEW w \in Workers, Deliver(w, m) PROVE WalkInv'
  <2>1. ~overtaken' => ~overtaken /\ InOrder(m)
    BY <1>6, Zenon DEF Deliver
  <2>2. CASE badge[m.test] = "absent"
    <3>1. worker' = worker /\ lost' = TRUE
      BY <1>6, <2>2 DEF Deliver
    <3> QED
      BY <1>1, <1>3, <1>4, <2>1, <3>1, Zenon DEF WalkInv
  <2>3. CASE badge[m.test] # "absent"
    <3>1. /\ lost' = lost /\ worker'[w] = m /\ worker[w] = Idle
          /\ \A v \in Workers : v # w => worker'[v] = worker[v]
      BY <1>6, <2>3 DEF Deliver, WalkInv, TruthInv, TypeOK
    <3>2. ASSUME ~overtaken, InOrder(m) PROVE Walking'
      <4>1. m.test \in Tests /\ m.status \in Published
        BY DEF WalkInv, TruthInv, TypeOK, Message
      <4>2. \A v \in Workers : worker[v] = Idle \/ worker[v].test # m.test
        BY <3>2 DEF InOrder
      <4>3. SetupFirst'
        <5>1. next \notin Tests
          BY <3>2 DEF InOrder
        <5> QED
          BY <1>2, <3>1, <3>2, <5>1, Zenon DEF WalkInv, Walking, SetupFirst
      <4>4. OnePerTest'
        BY <3>1, <3>2, <4>2 DEF WalkInv, Walking, OnePerTest
      <4>5. WorkerAhead'
        <5>1. Rank(badge[m.test]) < Rank(m.status)
          BY <3>2 DEF WalkInv, Walking, TopicAhead, InOrder
        <5>2. ~lost => Rank(m.status) = Rank(badge[m.test]) + 1
          BY <3>2, NextRow DEF InOrder
        <5> QED
          BY <1>2, <3>1, <3>2, <5>1, <5>2 DEF WalkInv, Walking, WorkerAhead
      <4>6. TopicAhead'
        <5>1. ASSUME NEW n \in topic \ {m}, n.test = m.test
              PROVE  Rank(m.status) < Rank(n.status)
          <6>1. Rank(m.status) <= Rank(n.status)
            BY <3>2, <5>1 DEF InOrder
          <6>2. n \in sent /\ n.status \in Published
            BY <5>1 DEF WalkInv, TruthInv, TypeOK, Message
          <6>3. Rank(m.status) # Rank(n.status)
            BY <5>1, <6>2, SameRow DEF WalkInv
          <6>4. Rank(m.status) \in 3 .. 6 /\ Rank(n.status) \in 3 .. 6
            BY <4>1, <6>2, RankTypes
          <6> QED
            BY <6>1, <6>3, <6>4
        <5> QED
          BY <1>2, <3>1, <3>2, <5>1 DEF WalkInv, Walking, TopicAhead
      <4>7. NoneLost'
        <5>1. ASSUME NEW n \in sent, ~lost, n # m
              PROVE  \/ n \in topic \ {m}
                     \/ \E v \in Workers : worker'[v] = n
                     \/ Rank(n.status) <= Rank(badge[n.test])
          <6>1. n # Idle
            BY NotIdle DEF WalkInv, TruthInv
          <6>2. \A v \in Workers : worker[v] = n => worker'[v] = n
            BY <3>1, <6>1
          <6> QED
            BY <3>2, <5>1, <6>2 DEF WalkInv, Walking, NoneLost
        <5> QED
          BY <1>2, <3>1, <5>1, Zenon DEF NoneLost
      <4> QED
        BY <4>3, <4>4, <4>5, <4>6, <4>7 DEF Walking
    <3> QED
      BY <1>1, <1>3, <2>1, <3>2, Zenon DEF WalkInv
  <2> QED
    BY <2>2, <2>3
<1> QED
  BY <1>5, <1>6

\* So every step keeps the order of the table.
LEMMA StepWalk == WalkInv /\ [Next]_vars => WalkInv'
<1> SUFFICES ASSUME WalkInv, [Next]_vars PROVE WalkInv'
  OBVIOUS
<1>1. CASE UNCHANGED vars
  <2>1. UNCHANGED <<badge, next, script, current, topic, sent, worker, overtaken, lost>>
    BY <1>1 DEF vars, jobVars
  <2>2. SentUpTo'
    BY <2>1 DEF WalkInv, SentUpTo, Upcoming
  <2>3. TruthInv'
    BY StepTruth DEF WalkInv
  <2> QED
    BY <2>1, <2>2, <2>3, QuietWalk DEF WalkInv
<1> QED
  BY <1>1, HandlerWalk, ScriptWalk, SubscriptionWalk, CallbackWalk, Zenon DEF Next

\* The only two steps that write a badge move it down the table.
LEMMA StepWalks ==
  ASSUME WalkInv, [Next]_vars, NEW t \in Tests, badge'[t] # badge[t], ~overtaken'
  PROVE  /\ Rank(badge[t]) < Rank(badge'[t])
         /\ ~lost' /\ badge[t] # "absent" => Rank(badge'[t]) = Rank(badge[t]) + 1
<1>1. UpdateBadges \/ \E w \in Workers : UpdateBadgeStatus(w)
  BY DEF Next, Handler, UpdateBadgesFails, Script, Announce, Deploy, EnvironmentSetup, Running,
         GoTest, Report, Exit, Kill, Subscription, PublishFails, Deliver, Callback,
         UpdateBadgeStatusFails, vars
<1>2. CASE UpdateBadges
  <2>1. /\ t = next /\ badge'[t] = "setup" /\ ~overtaken
    BY <1>2 DEF UpdateBadges, WalkInv, TruthInv, TypeOK
  <2>2. next <= t
    BY <2>1, NumTestsAssumption DEF Tests
  <2>3. badge[t] = "absent" \/ badge[t] = "pending authorization"
    BY <2>1, <2>2, Zenon DEF WalkInv, Walking, SetupFirst
  <2>4. /\ Rank(badge'[t]) = 2
        /\ Rank(badge[t]) = 0 \/ Rank(badge[t]) = 1
        /\ badge[t] # "absent" => Rank(badge[t]) = 1
    BY <2>1, <2>3, RankValues, Zenon
  <2> QED
    BY <2>4
<1>3. ASSUME NEW w \in Workers, UpdateBadgeStatus(w)
      PROVE  /\ Rank(badge[t]) < Rank(badge'[t])
             /\ ~lost' => Rank(badge'[t]) = Rank(badge[t]) + 1
  <2>1. t = worker[w].test /\ badge'[t] = worker[w].status /\ worker[w] # Idle
    BY <1>3 DEF UpdateBadgeStatus, WalkInv, TruthInv, TypeOK
  <2>2. ~overtaken /\ lost' = lost
    BY <1>3 DEF UpdateBadgeStatus
  <2> QED
    BY <2>1, <2>2 DEF WalkInv, Walking, WorkerAhead
<1> QED
  BY <1>1, <1>2, <1>3, Zenon

(***************************************************************************)
(* For every number of tests and of callbacks: as long as the deliveries   *)
(* are in order, each write moves its badge down the status table, and to  *)
(* the very next row if no write was lost.                                 *)
(***************************************************************************)
THEOREM BadgesWalkTheTable == Spec => WalksTable
<1>1. WalkInv /\ [Next]_vars =>
        [\A t \in Tests : badge'[t] # badge[t] /\ ~overtaken' =>
           /\ Rank(badge[t]) < Rank(badge'[t])
           /\ ~lost' /\ badge[t] # "absent" => Rank(badge'[t]) = Rank(badge[t]) + 1]_vars
  BY StepWalks, Zenon
<1> QED
  BY InitWalk, StepWalk, <1>1, PTL DEF Spec, WalksTable
=============================================================================
