------------------------------ MODULE CITrigger ------------------------------
(***************************************************************************)
(* tools/ci-trigger: the service that launches test jobs for the commits   *)
(* of a pull request and shows their progress.  One goroutine per GitHub   *)
(* webhook event (main.go, `go processEvent(event)'), the callbacks of the *)
(* badge subscription, and the launched jobs (cloudbuild/virtual.sh) share *)
(* the badge objects of a Cloud Storage bucket and the bot's comments.     *)
(* None of the goroutines takes a lock: each call to a service is a step   *)
(* of its own, and everything in between interleaves.                      *)
(*                                                                         *)
(* One pull request is modelled, its commits being 1, 2, ... in push       *)
(* order: badge paths contain the pull request and the commit, so two pull *)
(* requests share nothing.  A handler serves one event; Handlers bounds    *)
(* the number of events received.                                          *)
(***************************************************************************)
EXTENDS Naturals, Sequences, FiniteSets, TLC

CONSTANTS
  Handlers,            \* one processEvent goroutine per webhook event received
  Workers,             \* callbacks sub.Receive runs at the same time
  Users,               \* GitHub accounts
  Authorized,          \* the active members of authorizedTeams
  Published,           \* the statuses the jobs publish for a badge
  Tests,               \* functional test directories
  MaxCommits,          \* bound on the commits pushed to the pull request
  modifiedTests,       \* [commit -> tests identifyModifiedTests finds in it]
  virtualDeviceTypes,  \* config.go's list of [vendor, model] records
  physicalDeviceTypes, \* config.go's list, whose models are all ""
  triggerKeywords,     \* config.go's [keyword -> set of [vendor, model]]
  Attempts,            \* of withRetry around the GitHub calls; 3 in the code
  MaxKeywords,         \* bound on the keywords one comment contains
  NoBuild              \* the empty CloudBuildID

Commits == 1 .. MaxCommits
Keywords == DOMAIN triggerKeywords
Listed(types) == {types[i] : i \in DOMAIN types}
Virtual == Listed(virtualDeviceTypes)
Physical == Listed(physicalDeviceTypes)
Devices == Virtual \cup Physical

ASSUME CommitsAssumption ==
  /\ MaxCommits \in Nat
  /\ modifiedTests \in [Commits -> SUBSET Tests]
ASSUME AttemptsAssumption == Attempts \in Nat
ASSUME UsersAssumption == Authorized \subseteq Users
ASSUME PublishedAssumption ==
  Published \cap {"absent", "pending authorization", "setup"} = {}
ASSUME NoBuildAssumption == NoBuild \notin Handlers
ASSUME DevicesAssumption ==
  /\ Devices \subseteq [vendor : STRING, model : STRING]
  /\ Virtual \cap Physical = {}
  /\ \A d \in Virtual : d.model # ""

Status == {"pending authorization", "setup"} \cup Published

VARIABLES
  author,     \* who opened the pull request
  head,       \* number of commits pushed: the head of the branch
  badge,      \* [commit -> [device -> [test -> metadata of the badge object]]]
  jobs,       \* {<<h, d>>: h launched a job for device d of commit sha[h]}
  comments,   \* the bot's comments on the pull request, oldest first
  pc, kind, asked, sha, status, build, todo, first, tries,  \* of each handler
  worker,     \* [worker -> the badge write it has yet to do, or Idle]
  disturbed   \* history: commits whose handling was not orderly (see Disturb)

serviceVars == <<author, head>>
storeVars == <<badge, worker>>
localVars == <<kind, asked, sha, status, build, todo, first, tries>>
vars == <<serviceVars, storeVars, jobs, comments, pc, localVars, disturbed>>

Builds == Handlers \cup {NoBuild}
Badge == [status : Status \cup {"absent"}, build : Builds]
Absent == [status |-> "absent", build |-> NoBuild]
Idle == [sha |-> 0]
Write == [sha : Commits, dev : Devices, test : Tests,
          status : Published, build : Builds]
Comment == [sha : Commits, build : [Devices -> Builds]]
PC == {"idle", "get", "attrs", "launch", "badges", "write", "done", "failed"}

AllPending == [d \in Devices |-> [t \in Tests |-> "pending authorization"]]
NoBuilds == [d \in Devices |-> NoBuild]

\* A handler that works on commit s.
Running == {"attrs", "launch", "badges", "write"}
Busy(h, s) == sha[h] = s /\ pc[h] \in Running

(***************************************************************************)
(* A commit is disturbed from the moment two handlers work on it at the    *)
(* same time, a call made for it fails, or a pull request event arrives    *)
(* for it after another event was already being handled.                   *)
(***************************************************************************)
Disturb(s) == disturbed' = disturbed \cup {s}

Init ==
  /\ author \in Users
  /\ head = 0
  /\ badge = [s \in Commits |-> [d \in Devices |-> [t \in Tests |-> Absent]]]
  /\ jobs = {}
  /\ comments = <<>>
  /\ pc = [h \in Handlers |-> "idle"]
  /\ kind = [h \in Handlers |-> "none"]
  /\ asked = [h \in Handlers |-> {}]
  /\ sha = [h \in Handlers |-> 0]
  /\ status = [h \in Handlers |-> AllPending]
  /\ build = [h \in Handlers |-> NoBuilds]
  /\ todo = [h \in Handlers |-> {}]
  /\ first = [h \in Handlers |-> 0]
  /\ tries = [h \in Handlers |-> 0]
  /\ worker = [w \in Workers |-> Idle]
  /\ disturbed = {}

-----------------------------------------------------------------------------
(***************************************************************************)
(* The device a createBuild loop compares with a requested type d.         *)
(***************************************************************************)
MatchesVirtual(dev, d) == dev = d
\* Mutant: the hardware model is not compared.
MatchesPhysical_VendorOnly(dev, d) == dev.vendor = d.vendor
MatchesPhysical(dev, d) == dev.vendor = d.vendor /\ (d.model = "" \/ dev.model = d.model)
Requested(types) ==
  {v \in Virtual : \E d \in types : MatchesVirtual(v, d)}
    \cup {p \in Physical : \E d \in types : MatchesPhysical(p, d)}

\* The badges of a commit's modified tests on a set of devices.
Badges(devs, s) == devs \X modifiedTests[s]

\* <<d, t>> belongs to the first device of the list that is still to be visited.
Position(order, d) == CHOOSE i \in DOMAIN order : order[i] = d
Visits(order, visited, d) == \A x \in visited : Position(order, d) <= Position(order, x[1])
AttrsOrder == virtualDeviceTypes \o physicalDeviceTypes
BadgesOrder == physicalDeviceTypes \o virtualDeviceTypes

\* The goroutine returns: its copy of the pull request is gone.
Finish(h, outcome) ==
  /\ pc' = [pc EXCEPT ![h] = outcome]
  /\ status' = [status EXCEPT ![h] = AllPending]
  /\ build' = [build EXCEPT ![h] = NoBuilds]
  /\ todo' = [todo EXCEPT ![h] = {}]
  /\ first' = [first EXCEPT ![h] = 0]
  /\ tries' = [tries EXCEPT ![h] = 0]
  /\ UNCHANGED <<kind, asked, sha>>

-----------------------------------------------------------------------------
\* A commit is pushed; GitHub sends a synchronize (or opened) event for it,
\* which may be delivered late, more than once or never.
Push ==
  /\ head < MaxCommits
  /\ head' = head + 1
  /\ UNCHANGED <<author, storeVars, jobs, comments, pc, localVars, disturbed>>

\* processPullRequest up to the first call with an effect.
ProcessPullRequest(h, s) ==
  /\ pc[h] = "idle"
  /\ s \in 1 .. head
  /\ kind' = [kind EXCEPT ![h] = "pull request"]
  /\ sha' = [sha EXCEPT ![h] = s]
  /\ IF author \in Authorized
       THEN /\ pc' = [pc EXCEPT ![h] = "launch"]
            /\ todo' = [todo EXCEPT ![h] = Badges(Requested(Virtual), s)]
       ELSE /\ pc' = [pc EXCEPT ![h] = "badges"]
            /\ todo' = [todo EXCEPT ![h] = Badges(Devices, s)]
  /\ IF \E g \in Handlers : sha[g] = s THEN Disturb(s) ELSE UNCHANGED disturbed
  /\ UNCHANGED <<serviceVars, storeVars, jobs, comments, asked, status, build, first, tries>>

\* processIssueComment: a comment by u containing the keywords in ks.
ProcessIssueComment(h, u, ks) ==
  /\ pc[h] = "idle"
  /\ head > 0
  /\ kind' = [kind EXCEPT ![h] = "comment"]
  /\ asked' = [asked EXCEPT ![h] = ks]
  /\ pc' = [pc EXCEPT ![h] = IF u \in Authorized /\ ks # {} THEN "get" ELSE "done"]
  /\ UNCHANGED <<serviceVars, storeVars, jobs, comments, sha, status, build, todo,
                 first, tries, disturbed>>

\* PullRequests.Get: the comment is about whatever commit is the head now.
GetPullRequest(h) ==
  /\ pc[h] = "get"
  /\ pc' = [pc EXCEPT ![h] = "attrs"]
  /\ sha' = [sha EXCEPT ![h] = head]
  /\ todo' = [todo EXCEPT ![h] = Badges(Devices, head)]
  /\ IF \E g \in Handlers : Busy(g, head) THEN Disturb(head) ELSE UNCHANGED disturbed
  /\ UNCHANGED <<serviceVars, storeVars, jobs, comments, kind, asked, status, build,
                 first, tries>>

\* Mutant: the badge path lacks the commit, so some other commit's object is read.
ReadAttrs_AnyCommit(h, d, t) ==
  /\ pc[h] = "attrs"
  /\ <<d, t>> \in todo[h]
  /\ Visits(AttrsOrder, todo[h], d)
  /\ todo' = [todo EXCEPT ![h] = @ \ {<<d, t>>}]
  /\ \E s \in Commits :
       LET attrs == badge[s][d][t] IN
       IF attrs.status = "absent"
         THEN UNCHANGED <<status, build>>
         ELSE /\ status' = [status EXCEPT ![h][d][t] = attrs.status]
              /\ build' = [build EXCEPT ![h][d] = attrs.build]
  /\ UNCHANGED <<serviceVars, storeVars, jobs, comments, pc, kind, asked, sha, first,
                 tries, disturbed>>

\* populateObjectMetadata, one badge: a missing object leaves the test as it was.
ReadAttrs(h, d, t) ==
  /\ pc[h] = "attrs"
  /\ <<d, t>> \in todo[h]
  /\ Visits(AttrsOrder, todo[h], d)
  /\ todo' = [todo EXCEPT ![h] = @ \ {<<d, t>>}]
  /\ LET attrs == badge[sha[h]][d][t] IN
       IF attrs.status = "absent"
         THEN UNCHANGED <<status, build>>
         ELSE /\ status' = [status EXCEPT ![h][d][t] = attrs.status]
              /\ build' = [build EXCEPT ![h][d] = attrs.build]
  /\ UNCHANGED <<serviceVars, storeVars, jobs, comments, pc, kind, asked, sha, first,
                 tries, disturbed>>

\* ... and so does a failed read: `continue'.
ReadAttrsFails(h, d, t) ==
  /\ pc[h] = "attrs"
  /\ <<d, t>> \in todo[h]
  /\ Visits(AttrsOrder, todo[h], d)
  /\ todo' = [todo EXCEPT ![h] = @ \ {<<d, t>>}]
  /\ Disturb(sha[h])
  /\ UNCHANGED <<serviceVars, storeVars, jobs, comments, pc, kind, asked, sha, status,
                 build, first, tries>>

\* The loop over the triggerKeywords map stops at the first keyword the
\* comment contains; the map's order is random.
SelectKeyword(h, k) ==
  /\ pc[h] = "attrs"
  /\ todo[h] = {}
  /\ k \in asked[h]
  /\ pc' = [pc EXCEPT ![h] = "launch"]
  /\ todo' = [todo EXCEPT ![h] = Badges(Requested(triggerKeywords[k]), sha[h])]
  /\ UNCHANGED <<serviceVars, storeVars, jobs, comments, kind, asked, sha, status, build,
                 first, tries, disturbed>>

\* Mutants of LaunchDevice: the launch marks the tests of every device ...
Marked(h, d) == [t \in Tests |->
  IF t \in modifiedTests[sha[h]] THEN "setup" ELSE status[h][d][t]]
LaunchDevice_MarksAll(h, d) ==
  /\ pc[h] = "launch"
  /\ \E t \in Tests : <<d, t>> \in todo[h]
  /\ Visits(AttrsOrder, todo[h], d)
  /\ \A t \in modifiedTests[sha[h]] : status[h][d][t] = "pending authorization"
  /\ todo' = [todo EXCEPT ![h] = {x \in @ : x[1] # d}]
  /\ jobs' = jobs \cup {<<h, d>>}
  /\ build' = [build EXCEPT ![h][d] = h]
  /\ status' = [status EXCEPT ![h] = [e \in Devices |-> Marked(h, e)]]
  /\ UNCHANGED <<serviceVars, storeVars, comments, pc, kind, asked, sha, first, tries,
                 disturbed>>

\* ... an error of submitBuild is ignored ...
LaunchDevice_IgnoresError(h, d) ==
  /\ pc[h] = "launch"
  /\ \E t \in Tests : <<d, t>> \in todo[h]
  /\ Visits(AttrsOrder, todo[h], d)
  /\ \A t \in modifiedTests[sha[h]] : status[h][d][t] = "pending authorization"
  /\ todo' = [todo EXCEPT ![h] = {x \in @ : x[1] # d}]
  /\ jobs' \in {jobs, jobs \cup {<<h, d>>}}
  /\ build' = [build EXCEPT ![h][d] = h]
  /\ status' = [status EXCEPT ![h][d] = Marked(h, d)]
  /\ UNCHANGED <<serviceVars, storeVars, comments, pc, kind, asked, sha, first, tries,
                 disturbed>>

\* ... the loop ends with the first launch ...
LaunchDevice_Breaks(h, d) ==
  /\ pc[h] = "launch"
  /\ \E t \in Tests : <<d, t>> \in todo[h]
  /\ Visits(AttrsOrder, todo[h], d)
  /\ \A t \in modifiedTests[sha[h]] : status[h][d][t] = "pending authorization"
  /\ todo' = [todo EXCEPT ![h] = {}]
  /\ jobs' = jobs \cup {<<h, d>>}
  /\ build' = [build EXCEPT ![h][d] = h]
  /\ status' = [status EXCEPT ![h][d] = Marked(h, d)]
  /\ UNCHANGED <<serviceVars, storeVars, comments, pc, kind, asked, sha, first, tries,
                 disturbed>>

\* ... or the statuses of the tests are not looked at.
LaunchDevice_Unchecked(h, d) ==
  /\ pc[h] = "launch"
  /\ \E t \in Tests : <<d, t>> \in todo[h]
  /\ Visits(AttrsOrder, todo[h], d)
  /\ todo' = [todo EXCEPT ![h] = {x \in @ : x[1] # d}]
  /\ jobs' = jobs \cup {<<h, d>>}
  /\ build' = [build EXCEPT ![h][d] = h]
  /\ status' = [status EXCEPT ![h][d] = Marked(h, d)]
  /\ UNCHANGED <<serviceVars, storeVars, comments, pc, kind, asked, sha, first, tries,
                 disturbed>>

\* createBuild, one device, in the order of config.go's lists: every test is
\* pending, so a job is created (submitBuild, or Publish to the physical test
\* topic) ...
LaunchDevice(h, d) ==
  /\ pc[h] = "launch"
  /\ \E t \in Tests : <<d, t>> \in todo[h]
  /\ Visits(AttrsOrder, todo[h], d)
  /\ \A t \in modifiedTests[sha[h]] : status[h][d][t] = "pending authorization"
  /\ todo' = [todo EXCEPT ![h] = {x \in @ : x[1] # d}]
  /\ jobs' = jobs \cup {<<h, d>>}
  /\ build' = [build EXCEPT ![h][d] = h]
  /\ status' = [status EXCEPT ![h][d] = [t \in Tests |->
                  IF t \in modifiedTests[sha[h]] THEN "setup" ELSE status[h][d][t]]]
  /\ UNCHANGED <<serviceVars, storeVars, comments, pc, kind, asked, sha, first, tries,
                 disturbed>>

\* Mutant of SkipDevice: waiting until the device's tests are pending again.
SkipDevice_Waits(h, d) ==
  /\ pc[h] = "launch"
  /\ \E t \in Tests : <<d, t>> \in todo[h]
  /\ Visits(AttrsOrder, todo[h], d)
  /\ \E t \in modifiedTests[sha[h]] : status[h][d][t] # "pending authorization"
  /\ UNCHANGED vars

\* ... or some test is not, and the device is skipped.
SkipDevice(h, d) ==
  /\ pc[h] = "launch"
  /\ \E t \in Tests : <<d, t>> \in todo[h]
  /\ Visits(AttrsOrder, todo[h], d)
  /\ \E t \in modifiedTests[sha[h]] : status[h][d][t] # "pending authorization"
  /\ todo' = [todo EXCEPT ![h] = {x \in @ : x[1] # d}]
  /\ UNCHANGED <<serviceVars, storeVars, jobs, comments, pc, kind, asked, sha, status,
                 build, first, tries, disturbed>>

\* createBuild returns; updateBadges visits every device.
StartBadges(h) ==
  /\ pc[h] = "launch"
  /\ todo[h] = {}
  /\ pc' = [pc EXCEPT ![h] = "badges"]
  /\ todo' = [todo EXCEPT ![h] = Badges(Devices, sha[h])]
  /\ UNCHANGED <<serviceVars, storeVars, jobs, comments, kind, asked, sha, status, build,
                 first, tries, disturbed>>

\* updateBadges, one badge: an unconditional overwrite of the object.
WriteBadge(h, d, t) ==
  /\ pc[h] = "badges"
  /\ <<d, t>> \in todo[h]
  /\ Visits(BadgesOrder, todo[h], d)
  /\ todo' = [todo EXCEPT ![h] = @ \ {<<d, t>>}]
  /\ badge' = [badge EXCEPT ![sha[h]][d][t] =
                 [status |-> status[h][d][t], build |-> build[h][d]]]
  /\ UNCHANGED <<serviceVars, worker, jobs, comments, pc, kind, asked, sha, status, build,
                 first, tries, disturbed>>

\* updateGitHub: firstComment lists the comments ...
ListComments(h) ==
  /\ pc[h] = "badges"
  /\ todo[h] = {}
  /\ pc' = [pc EXCEPT ![h] = "write"]
  /\ first' = [first EXCEPT ![h] = IF comments = <<>> THEN 0 ELSE 1]
  /\ UNCHANGED <<serviceVars, storeVars, jobs, comments, kind, asked, sha, status, build,
                 todo, tries, disturbed>>

\* ... and the bot's first comment is edited, or one is created.
Commented(h) ==
  LET body == [sha |-> sha[h], build |-> build[h]] IN
  IF first[h] = 0 THEN Append(comments, body) ELSE [comments EXCEPT ![first[h]] = body]

WriteComment(h) ==
  /\ pc[h] = "write"
  /\ tries[h] < Attempts
  /\ comments' = Commented(h)
  /\ Finish(h, "done")
  /\ UNCHANGED <<serviceVars, storeVars, jobs, disturbed>>

\* withRetry: the call reports an error, having taken effect or not.
RetryComment(h) ==
  /\ pc[h] = "write"
  /\ tries[h] < Attempts
  /\ tries' = [tries EXCEPT ![h] = @ + 1]
  /\ comments' \in {comments, Commented(h)}
  /\ UNCHANGED <<serviceVars, storeVars, jobs, pc, kind, asked, sha, status, build, todo,
                 first, disturbed>>

\* ... until the attempts are used up and the last error is returned.
GiveUp(h) ==
  /\ pc[h] = "write"
  /\ tries[h] = Attempts
  /\ Finish(h, "failed")
  /\ Disturb(sha[h])
  /\ UNCHANGED <<serviceVars, storeVars, jobs, comments>>

\* Any other call of a handler may return an error or overrun the five minutes
\* of its context, and the process may be restarted: the handler ends where it
\* is.  (A call that takes effect and still returns an error is the call's step
\* followed by this one, because the handler's own copy is lost with it.)
Fail(h) ==
  /\ pc[h] \in Running \cup {"get"}
  /\ Finish(h, "failed")
  /\ IF sha[h] # 0 THEN Disturb(sha[h]) ELSE UNCHANGED disturbed
  /\ UNCHANGED <<serviceVars, storeVars, jobs, comments>>

-----------------------------------------------------------------------------
(***************************************************************************)
(* A launched job publishes statuses for the badges of its tests (module   *)
(* TestJob has its script).  A job may run at any speed or die, and the    *)
(* topic delivers in any order, once, more than once or never: after the   *)
(* launch any status may arrive at any time.                               *)
(***************************************************************************)
\* A subscription callback acknowledges the message and reads the attributes
\* of its badge.  (Without a badge object the callback ends here: the message
\* is acknowledged and lost, and nothing changes.)
ReceiveStatus(w, h, d, t, s) ==
  /\ worker[w] = Idle
  /\ <<h, d>> \in jobs
  /\ t \in modifiedTests[sha[h]]
  /\ s \in Published
  /\ badge[sha[h]][d][t].status # "absent"
  /\ worker' = [worker EXCEPT ![w] =
       [sha |-> sha[h], dev |-> d, test |-> t, status |-> s,
        build |-> badge[sha[h]][d][t].build]]
  /\ UNCHANGED <<serviceVars, badge, jobs, comments, pc, localVars, disturbed>>

\* The callback writes the object back: the new status, the metadata it read.
UpdateBadgeStatus(w) ==
  /\ worker[w] # Idle
  /\ LET m == worker[w] IN
       badge' = [badge EXCEPT ![m.sha][m.dev][m.test] =
                   [status |-> m.status, build |-> m.build]]
  /\ worker' = [worker EXCEPT ![w] = Idle]
  /\ UNCHANGED <<serviceVars, jobs, comments, pc, localVars, disturbed>>

\* The write fails: the error is logged, the message was acknowledged.
UpdateBadgeStatusFails(w) ==
  /\ worker[w] # Idle
  /\ worker' = [worker EXCEPT ![w] = Idle]
  /\ UNCHANGED <<serviceVars, badge, jobs, comments, pc, localVars, disturbed>>

-----------------------------------------------------------------------------
Work(h) ==
  \/ GetPullRequest(h)
  \/ \E d \in Devices, t \in Tests : ReadAttrs(h, d, t) \/ ReadAttrsFails(h, d, t)
  \/ \E k \in Keywords : SelectKeyword(h, k)
  \/ \E d \in Devices : LaunchDevice(h, d) \/ SkipDevice(h, d)
  \/ StartBadges(h)
  \/ \E d \in Devices, t \in Tests : WriteBadge(h, d, t)
  \/ ListComments(h)
  \/ WriteComment(h)
  \/ RetryComment(h)
  \/ GiveUp(h)

Receive(h) ==
  \/ \E s \in Commits : ProcessPullRequest(h, s)
  \/ \E u \in Users, ks \in SUBSET Keywords :
        Cardinality(ks) <= MaxKeywords /\ ProcessIssueComment(h, u, ks)

WorkerStep(w) ==
  \/ \E h \in Handlers, d \in Devices, t \in Tests, s \in Published :
        ReceiveStatus(w, h, d, t, s)
  \/ UpdateBadgeStatus(w)
  \/ UpdateBadgeStatusFails(w)

Next ==
  \/ Push
  \/ \E h \in Handlers : Receive(h)
  \/ \E h \in Handlers : Work(h) \/ Fail(h)
  \/ \E w \in Workers : WorkerStep(w)

Spec == Init /\ [][Next]_vars

\* A goroutine that has been started is scheduled until it returns, and every
\* call it makes returns: calls to services carry its five-minute context, git
\* and "go mod vendor" (which do not) are assumed to end.
FairSpec == Spec /\ \A h \in Handlers : WF_vars(Work(h))

-----------------------------------------------------------------------------
TypeOK ==
  /\ author \in Users
  /\ head \in 0 .. MaxCommits
  /\ badge \in [Commits -> [Devices -> [Tests -> Badge]]]
  /\ jobs \subseteq Handlers \X Devices
  /\ comments \in Seq(Comment)
  /\ pc \in [Handlers -> PC]
  /\ kind \in [Handlers -> {"none", "pull request", "comment"}]
  /\ asked \in [Handlers -> SUBSET Keywords]
  /\ sha \in [Handlers -> 0 .. MaxCommits]
  /\ status \in [Handlers -> [Devices -> [Tests -> Status]]]
  /\ build \in [Handlers -> [Devices -> Builds]]
  /\ todo \in [Handlers -> SUBSET (Devices \X Tests)]
  /\ first \in [Handlers -> {0, 1}]
  /\ tries \in [Handlers -> 0 .. Attempts]
  /\ worker \in [Workers -> Write \cup {Idle}]
  /\ disturbed \subseteq Commits

\* Some job was launched for device d of commit s.
HasJob(s, d) == \E h \in Handlers : sha[h] = s /\ <<h, d>> \in jobs

(***************************************************************************)
(* A badge leaves "pending authorization" only when a job exists for its   *)
(* commit and device, whatever handlers, jobs and subscription callbacks   *)
(* overlap or fail (createBuild sets "setup" after submitBuild succeeded,  *)
(* populateObjectMetadata copies what the store says, updateBadges and     *)
(* updateBadgeStatus write it back).                                       *)
(***************************************************************************)
BadgeBackedByJob ==
  \A s \in Commits : \A d \in Devices : \A t \in Tests :
    badge[s][d][t].status \notin {"absent", "pending authorization"} => HasJob(s, d)

(***************************************************************************)
(* The build a badge or a bot comment links to was launched for the same   *)
(* commit and the same device: populateObjectMetadata, updateBadges,       *)
(* updateBadgeStatus and commentTpl never carry it elsewhere.              *)
(***************************************************************************)
BuildOf(b, s, d) == b = NoBuild \/ (sha[b] = s /\ <<b, d>> \in jobs)
BuildLinksMatch ==
  /\ \A s \in Commits : \A d \in Devices : \A t \in Tests :
       BuildOf(badge[s][d][t].build, s, d)
  /\ \A i \in 1 .. Len(comments) : \A d \in Devices :
       BuildOf(comments[i].build[d], comments[i].sha, d)

(***************************************************************************)
(* A commit whose events were handled one after the other, the pull        *)
(* request event first and without a failed call, has at most one job per  *)
(* device however many comments ask for it: the status check of createBuild*)
(* on what populateObjectMetadata read is enough.                          *)
(***************************************************************************)
OneJobPerDevice ==
  \A s \in Commits \ disturbed : \A d \in Devices : \A g, h \in Handlers :
    sha[g] = s /\ sha[h] = s /\ <<g, d>> \in jobs /\ <<h, d>> \in jobs => g = h

\* The devices an event asks to be tested.
Wanted(h) ==
  CASE kind[h] = "pull request" -> IF author \in Authorized THEN Requested(Virtual) ELSE {}
    [] kind[h] = "comment" -> UNION {Requested(triggerKeywords[k]) : k \in asked[h]}
    [] OTHER -> {}

\* Every device asked for has a job, once the handler returned without an error.
Served(h) ==
  /\ pc[h] = "done"
  /\ sha[h] # 0
  /\ kind[h] = "comment" => \E k \in Keywords : asked[h] = {k}
  /\ modifiedTests[sha[h]] # {}
  => \A d \in Wanted(h) : HasJob(sha[h], d)

(***************************************************************************)
(* When the handler of a pull request event, or of a comment with a single *)
(* keyword, returns without an error, every device asked for has a job for *)
(* the commit it read, if the commit modifies tests: a device createBuild  *)
(* skipped had been launched by somebody else.  Nor is hardware used       *)
(* without request: a pull request event launches virtual devices, never a *)
(* physical one of the same vendor (createBuild compares the hardware      *)
(* model of a requested type unless it is empty).                          *)
(***************************************************************************)
RequestServed ==
  \A h \in Handlers :
    /\ Served(h)
    /\ \A d \in Physical : <<h, d>> \in jobs => kind[h] = "comment"

(***************************************************************************)
(* README.md: "A job will be created for each device type requested to     *)
(* launch tests".  As RequestServed, for a comment with any keywords.      *)
(***************************************************************************)
JobPerRequestedType ==
  \A h \in Handlers :
    pc[h] = "done" /\ sha[h] # 0 /\ modifiedTests[sha[h]] # {}
      => \A d \in Wanted(h) : HasJob(sha[h], d)

(***************************************************************************)
(* updateBadgeStatus "maintains the previous metadata values": its write   *)
(* changes the status of a badge and keeps the build the badge links to.   *)
(***************************************************************************)
StatusUpdateKeepsBuild ==
  [][\A w \in Workers :
       worker[w] # Idle /\ worker'[w] = Idle =>
         LET m == worker[w] IN
         badge'[m.sha][m.dev][m.test].build = badge[m.sha][m.dev][m.test].build]_vars

(***************************************************************************)
(* Every event the service accepted is eventually finished with: each loop *)
(* of its handler visits each device and badge once, the retries are       *)
(* bounded, and no other handler can hold it up.                           *)
(***************************************************************************)
HandlerReturns ==
  \A h \in Handlers : pc[h] # "idle" ~> pc[h] \in {"done", "failed"}

-----------------------------------------------------------------------------
\* Device types, keywords and modified tests of small instances.
Ceos == [vendor |-> "ARISTA", model |-> "cEOS"]
Xrd == [vendor |-> "CISCO", model |-> "XRd"]
CiscoHw == [vendor |-> "CISCO", model |-> ""]

OneVirtual == <<Ceos>>
TwoVirtual == <<Ceos, Xrd>>
NoPhysical == <<>>
OnePhysical == <<CiscoHw>>

CeosKeyword == [k \in {"/fptest arista-ceos"} |-> {Ceos}]
MixedKeywords == [k \in {"/fptest virtual", "/fptest physical"} |->
  IF k = "/fptest virtual" THEN {Ceos, Xrd} ELSE {CiscoHw}]

AllModified == [s \in Commits |-> Tests]
HandlerSymmetry == Permutations(Handlers)
=============================================================================
