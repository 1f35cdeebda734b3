--------------------------- MODULE CITriggerProofs ---------------------------
(***************************************************************************)
(* Proofs about CITrigger, for any number of events, callbacks, commits,   *)
(* devices, tests and attempts.                                            *)
(***************************************************************************)
EXTENDS CITrigger, SequenceTheorems, TLAPS

(***************************************************************************)
(* TypeOK is not inductive alone: a handler indexes the badges by its      *)
(* commit, which is one once it works, and exists once a comment arrived;  *)
(* it edits a comment that is there.                                       *)
(***************************************************************************)
Bound ==
  \A h \in Handlers :
    /\ pc[h] \in Running => sha[h] \in Commits
    /\ pc[h] = "get" => head \in Commits
    /\ first[h] # 0 => comments # <<>>

\* The commit of a handler that launched a job is fixed.
Launched ==
  \A h \in Handlers : \A d \in Devices :
    <<h, d>> \in jobs => sha[h] \in Commits /\ pc[h] \notin {"idle", "get", "attrs"}

TypeInv == TypeOK /\ Bound /\ Launched

\* The badges of a set of devices are badges.
LEMMA BadgesType ==
  ASSUME NEW devs \in SUBSET Devices, NEW s \in Commits
  PROVE  Badges(devs, s) \in SUBSET (Devices \X Tests)
BY CommitsAssumption DEF Badges

\* createBuild asks for devices of the two lists only.
LEMMA RequestedType ==
  ASSUME NEW types
  PROVE  Requested(types) \in SUBSET Devices
BY DEF Requested, Devices

\* updateGitHub's call leaves every comment but the one it writes alone, and
\* removes none.
LEMMA CommentedType ==
  ASSUME TypeInv, NEW h \in Handlers, sha[h] \in Commits
  PROVE  /\ Commented(h) \in Seq(Comment)
         /\ Commented(h) # <<>>
         /\ \A i \in 1 .. Len(Commented(h)) :
              \/ Commented(h)[i] = [sha |-> sha[h], build |-> build[h]]
              \/ i \in 1 .. Len(comments) /\ Commented(h)[i] = comments[i]
<1> DEFINE body == [sha |-> sha[h], build |-> build[h]]
<1>1. body \in Comment
  BY Zenon DEF TypeInv, TypeOK, Comment
<1>2. comments \in Seq(Comment) /\ first[h] \in {0, 1}
  BY Zenon DEF TypeInv, TypeOK
<1>3. Commented(h) = IF first[h] = 0 THEN Append(comments, body)
                     ELSE [comments EXCEPT ![1] = body]
  BY <1>2, ZenonT(60) DEF Commented
<1>4. first[h] # 0 => 1 \in 1 .. Len(comments)
  BY <1>2 DEF TypeInv, Bound
<1> HIDE DEF body
<1>5. CASE first[h] # 0
  <2>1. /\ [comments EXCEPT ![1] = body] \in Seq(Comment)
        /\ Len([comments EXCEPT ![1] = body]) = Len(comments)
        /\ \A j \in 1 .. Len(comments) :
             [comments EXCEPT ![1] = body][j] = IF j = 1 THEN body ELSE comments[j]
    BY <1>1, <1>2, <1>4, <1>5, ExceptSeq
  <2> QED
    BY <1>2, <1>3, <1>4, <1>5, <2>1 DEF body
<1>6. CASE first[h] = 0
  <2>1. /\ Append(comments, body) \in Seq(Comment)
        /\ Append(comments, body) # <<>>
        /\ \A i \in 1 .. Len(Append(comments, body)) :
             \/ Append(comments, body)[i] = body
             \/ i \in 1 .. Len(comments) /\ Append(comments, body)[i] = comments[i]
    BY <1>1, <1>2
  <2> QED
    BY <1>3, <1>6, <2>1 DEF body
<1> QED
  BY <1>2, <1>5, <1>6

\* Counters may start at zero.
LEMMA BoundsNonempty == 0 \in 0 .. MaxCommits /\ 0 \in 0 .. Attempts
BY CommitsAssumption, AttemptsAssumption

\* The types hold when the service starts.
LEMMA InitType == Init => TypeInv
<1> SUFFICES ASSUME Init PROVE TypeInv
  OBVIOUS
<1>1. /\ head \in 0 .. MaxCommits
      /\ sha \in [Handlers -> 0 .. MaxCommits]
      /\ tries \in [Handlers -> 0 .. Attempts]
  BY BoundsNonempty DEF Init
<1>2. comments \in Seq(Comment)
  BY EmptySeq DEF Init
<1>3. badge \in [Commits -> [Devices -> [Tests -> Badge]]]
  BY DEF Init, Badge, Absent, Builds
<1> QED
  BY <1>1, <1>2, <1>3, Zenon
  DEF Init, TypeInv, TypeOK, Bound, Launched, Running, Builds, PC, AllPending, NoBuilds, Status

\* A push adds a commit.
LEMMA PushType ==
  ASSUME TypeInv, Push
  PROVE  TypeInv'
<1>1. head \in 0 .. MaxCommits
  BY Zenon DEF TypeInv, TypeOK
<1>2. head < MaxCommits /\ head' = head + 1
  BY DEF Push
<1>3. head' \in 0 .. MaxCommits /\ head' \in Commits
  BY <1>1, <1>2, CommitsAssumption DEF Commits
<1> QED
  BY <1>1, <1>2, <1>3, Zenon
  DEF TypeInv, TypeOK, Bound, Launched, Running, PC, serviceVars, storeVars, localVars,
      Push, Commits

\* A pull request event starts a handler with the event's commit.
LEMMA ProcessPullRequestType ==
  ASSUME TypeInv, NEW h \in Handlers, NEW s \in Commits, ProcessPullRequest(h, s)
  PROVE  TypeInv'
<1>1. s \in 0 .. MaxCommits
  BY CommitsAssumption DEF Commits
<1>2. Badges(Requested(Virtual), s) \in SUBSET (Devices \X Tests)
  BY BadgesType, RequestedType
<1>3. Badges(Devices, s) \in SUBSET (Devices \X Tests)
  BY BadgesType
<1>4. todo' \in [Handlers -> SUBSET (Devices \X Tests)]
  BY <1>1, <1>2, <1>3, Zenon DEF ProcessPullRequest, TypeInv, TypeOK
<1>5. pc' \in [Handlers -> PC]
  BY ZenonT(60) DEF ProcessPullRequest, TypeInv, TypeOK, PC
<1>6. disturbed \subseteq Commits
  BY Zenon DEF TypeInv, TypeOK
<1>7. disturbed' \in {disturbed, disturbed \cup {s}}
  BY Zenon DEF ProcessPullRequest, Disturb
<1>8. disturbed' \subseteq Commits
  BY <1>7, <1>6
<1>9. pc[h] = "idle" /\ sha' = [sha EXCEPT ![h] = s] /\ jobs' = jobs
  BY Zenon DEF ProcessPullRequest
<1>10. TypeOK'
  BY <1>1, <1>4, <1>5, <1>8, <1>9, ZenonT(60)
  DEF TypeInv, TypeOK, serviceVars, storeVars, ProcessPullRequest
<1>11. Bound'
  <2>1. \E x \in {"launch", "badges"} : pc' = [pc EXCEPT ![h] = x]
    BY Zenon DEF ProcessPullRequest
  <2>2. UNCHANGED <<head, comments, first>>
    BY Zenon DEF ProcessPullRequest, serviceVars
  <2>3. pc \in [Handlers -> PC] /\ sha \in [Handlers -> 0 .. MaxCommits] /\ Bound
    BY Zenon DEF TypeInv, TypeOK
  <2> QED
    BY <1>9, <2>1, <2>2, <2>3 DEF Bound, Running
<1>12. Launched'
  BY <1>9, ZenonT(60) DEF TypeInv, TypeOK, Launched, ProcessPullRequest
<1> QED
  BY <1>10, <1>11, <1>12 DEF TypeInv

\* A comment starts a handler that has no commit yet.
LEMMA ProcessIssueCommentType ==
  ASSUME TypeInv, NEW h \in Handlers, NEW u \in Users, NEW ks \in SUBSET Keywords,
         ProcessIssueComment(h, u, ks)
  PROVE  TypeInv'
<1>1. head \in 0 .. MaxCommits
  BY Zenon DEF TypeInv, TypeOK
<1>2. head > 0
  BY DEF ProcessIssueComment
<1>3. head \in Commits
  BY <1>1, <1>2, CommitsAssumption DEF Commits
<1> QED
  BY <1>1, <1>2, <1>3, Zenon
  DEF TypeInv, TypeOK, Bound, Launched, Running, PC, serviceVars, storeVars, localVars,
      ProcessIssueComment, Commits

\* The handler of a comment gets the head, which is a commit.
LEMMA GetPullRequestType ==
  ASSUME TypeInv, NEW h \in Handlers, GetPullRequest(h)
  PROVE  TypeInv'
BY BadgesType, CommitsAssumption, Zenon
DEF TypeInv, TypeOK, Bound, Launched, Running, PC, serviceVars, storeVars, localVars,
    GetPullRequest, Disturb, Commits

\* Reading a badge copies a status and a build that are well typed.
LEMMA ReadAttrsType ==
  ASSUME TypeInv, NEW h \in Handlers, NEW d \in Devices, NEW t \in Tests, ReadAttrs(h, d, t)
  PROVE  TypeInv'
<1> DEFINE attrs == badge[sha[h]][d][t]
<1>1. sha[h] \in Commits
  BY DEF ReadAttrs, TypeInv, Bound, Running
<1>2. badge \in [Commits -> [Devices -> [Tests -> Badge]]]
  BY Zenon DEF TypeInv, TypeOK
<1>3. attrs \in Badge
  BY <1>1, <1>2, SMTT(40)
<1>4. CASE attrs.status = "absent"
  <2>1. UNCHANGED <<status, build>> /\ todo' = [todo EXCEPT ![h] = @ \ {<<d, t>>}]
    BY <1>4 DEF ReadAttrs
  <2>2. todo' \in [Handlers -> SUBSET (Devices \X Tests)]
    BY <2>1, Zenon DEF TypeInv, TypeOK
  <2> QED
    BY <2>1, <2>2, Zenon
    DEF TypeInv, TypeOK, Bound, Launched, serviceVars, storeVars, ReadAttrs
<1>5. CASE attrs.status # "absent"
  <2>1. /\ status' = [status EXCEPT ![h][d][t] = attrs.status]
        /\ build' = [build EXCEPT ![h][d] = attrs.build]
        /\ todo' = [todo EXCEPT ![h] = @ \ {<<d, t>>}]
    BY <1>5 DEF ReadAttrs
  <2>2. attrs.status \in Status /\ attrs.build \in Builds
    BY <1>3, <1>5 DEF Badge
  <2> HIDE DEF attrs
  <2>3. /\ status' \in [Handlers -> [Devices -> [Tests -> Status]]]
        /\ build' \in [Handlers -> [Devices -> Builds]]
        /\ todo' \in [Handlers -> SUBSET (Devices \X Tests)]
    BY <2>1, <2>2, Zenon DEF TypeInv, TypeOK
  <2> QED
    BY <2>3, Zenon DEF TypeInv, TypeOK, Bound, Launched, serviceVars, storeVars, ReadAttrs
<1> QED
  BY <1>4, <1>5

\* A badge that cannot be read leaves the copy as it was.
LEMMA ReadAttrsFailsType ==
  ASSUME TypeInv, NEW h \in Handlers, NEW d \in Devices, NEW t \in Tests,
         ReadAttrsFails(h, d, t)
  PROVE  TypeInv'
BY Zenon DEF TypeInv, TypeOK, Bound, Launched, Running, PC, serviceVars, storeVars, localVars,
       ReadAttrsFails, Disturb

\* A keyword selects devices.
LEMMA SelectKeywordType ==
  ASSUME TypeInv, NEW h \in Handlers, NEW k \in Keywords, SelectKeyword(h, k)
  PROVE  TypeInv'
BY BadgesType, RequestedType, ZenonT(60)
DEF TypeInv, TypeOK, Bound, Launched, Running, PC, serviceVars, storeVars, localVars,
    SelectKeyword

\* A launched device is one, for the commit of its handler.
LEMMA LaunchDeviceType ==
  ASSUME TypeInv, NEW h \in Handlers, NEW d \in Devices, LaunchDevice(h, d)
  PROVE  TypeInv'
<1>1. /\ status \in [Handlers -> [Devices -> [Tests -> Status]]]
      /\ build \in [Handlers -> [Devices -> Builds]]
      /\ jobs \subseteq Handlers \X Devices
  BY Zenon DEF TypeInv, TypeOK
<1>2. "setup" \in Status /\ h \in Builds
  BY DEF Status, Builds
<1>3. jobs' = jobs \cup {<<h, d>>}
  BY Zenon DEF LaunchDevice
<1>4. [t \in Tests |->
          IF t \in modifiedTests[sha[h]] THEN "setup" ELSE status[h][d][t]] \in [Tests -> Status]
  BY <1>1, <1>2
<1>5. status' \in [Handlers -> [Devices -> [Tests -> Status]]]
  BY <1>1, <1>4, Zenon DEF LaunchDevice
<1>6. build' \in [Handlers -> [Devices -> Builds]]
  BY <1>1, <1>2, Zenon DEF LaunchDevice
<1>7. jobs' \subseteq Handlers \X Devices
  BY <1>1, <1>3, SMTT(40)
<1>8. todo' \in [Handlers -> SUBSET (Devices \X Tests)]
  BY Zenon DEF LaunchDevice, TypeInv, TypeOK
<1> QED
  BY <1>1, <1>2, <1>3, <1>4, <1>5, <1>6, <1>7, <1>8, Zenon
  DEF TypeInv, TypeOK, Bound, Launched, Running, PC, serviceVars, storeVars, localVars,
      LaunchDevice, Builds, Status

\* A skipped device is taken off the list.
LEMMA SkipDeviceType ==
  ASSUME TypeInv, NEW h \in Handlers, NEW d \in Devices, SkipDevice(h, d)
  PROVE  TypeInv'
BY Zenon DEF TypeInv, TypeOK, Bound, Launched, Running, PC, serviceVars, storeVars, localVars,
       SkipDevice

\* The badges to write are those of the devices asked for.
LEMMA StartBadgesType ==
  ASSUME TypeInv, NEW h \in Handlers, StartBadges(h)
  PROVE  TypeInv'
BY BadgesType, Zenon
DEF TypeInv, TypeOK, Bound, Launched, Running, PC, serviceVars, storeVars, localVars,
    StartBadges

\* A badge is written from the handler's copy.
LEMMA WriteBadgeType ==
  ASSUME TypeInv, NEW h \in Handlers, NEW d \in Devices, NEW t \in Tests, WriteBadge(h, d, t)
  PROVE  TypeInv'
<1>1. sha[h] \in Commits
  BY DEF WriteBadge, TypeInv, Bound, Running
<1>2. /\ status \in [Handlers -> [Devices -> [Tests -> Status]]]
      /\ build \in [Handlers -> [Devices -> Builds]]
  BY Zenon DEF TypeInv, TypeOK
<1>3. status[h][d][t] \in Status /\ build[h][d] \in Builds
  BY <1>2
<1>4. [status |-> status[h][d][t], build |-> build[h][d]] \in Badge
  BY <1>3 DEF Badge
<1>5. badge' \in [Commits -> [Devices -> [Tests -> Badge]]]
  BY <1>1, <1>4, Zenon DEF WriteBadge, TypeInv, TypeOK
<1>6. todo' \in [Handlers -> SUBSET (Devices \X Tests)]
  BY Zenon DEF WriteBadge, TypeInv, TypeOK
<1> QED
  BY <1>1, <1>2, <1>3, <1>4, <1>5, <1>6, Zenon
  DEF TypeInv, TypeOK, Bound, Launched, Running, PC, serviceVars, storeVars, localVars,
      WriteBadge, Badge

\* The comment found is one that is there.
LEMMA ListCommentsType ==
  ASSUME TypeInv, NEW h \in Handlers, ListComments(h)
  PROVE  TypeInv'
BY Zenon DEF TypeInv, TypeOK, Bound, Launched, Running, PC, serviceVars, storeVars, localVars,
       ListComments

\* A comment is edited or added.
LEMMA WriteCommentType ==
  ASSUME TypeInv, NEW h \in Handlers, WriteComment(h)
  PROVE  TypeInv'
<1>1. sha[h] \in Commits
  BY DEF WriteComment, TypeInv, Bound, Running
<1>2. Commented(h) \in Seq(Comment) /\ Commented(h) # <<>>
  BY <1>1, CommentedType, ZenonT(60)
<1>3. status' \in [Handlers -> [Devices -> [Tests -> Status]]]
  BY Zenon DEF WriteComment, Finish, TypeInv, TypeOK, AllPending, Status
<1>4. build' \in [Handlers -> [Devices -> Builds]]
  BY Zenon DEF WriteComment, Finish, TypeInv, TypeOK, NoBuilds, Builds
<1>5. todo' \in [Handlers -> SUBSET (Devices \X Tests)] /\ pc' \in [Handlers -> PC]
  BY Zenon DEF WriteComment, Finish, TypeInv, TypeOK, PC
<1>6. first' \in [Handlers -> {0, 1}] /\ tries' \in [Handlers -> 0 .. Attempts]
  BY BoundsNonempty, Zenon DEF WriteComment, Finish, TypeInv, TypeOK
<1> QED
  BY <1>1, <1>2, <1>3, <1>4, <1>5, <1>6, ZenonT(60)
  DEF TypeInv, TypeOK, Bound, Launched, Running, PC, serviceVars, storeVars, localVars,
      WriteComment, Finish, AllPending, NoBuilds, Status, Builds

\* An attempt is counted up to the bound.
LEMMA RetryCommentType ==
  ASSUME TypeInv, NEW h \in Handlers, RetryComment(h)
  PROVE  TypeInv'
<1>1. sha[h] \in Commits
  BY DEF RetryComment, TypeInv, Bound, Running
<1>2. Commented(h) \in Seq(Comment) /\ Commented(h) # <<>>
  BY <1>1, CommentedType, Zenon
<1>3. tries \in [Handlers -> 0 .. Attempts]
  BY Zenon DEF TypeInv, TypeOK
<1>4. tries[h] < Attempts /\ tries' = [tries EXCEPT ![h] = @ + 1]
  BY DEF RetryComment
<1>5. tries' \in [Handlers -> 0 .. Attempts]
  BY <1>4, <1>3, AttemptsAssumption, SMTT(40)
<1> QED
  BY <1>1, <1>2, <1>3, <1>4, <1>5, Zenon
  DEF TypeInv, TypeOK, Bound, Launched, Running, PC, serviceVars, storeVars, localVars,
      RetryComment

\* After the last attempt the handler returns its error.
LEMMA GiveUpType ==
  ASSUME TypeInv, NEW h \in Handlers, GiveUp(h)
  PROVE  TypeInv'
<1>1. sha[h] \in Commits
  BY DEF GiveUp, TypeInv, Bound, Running
<1>2. status' \in [Handlers -> [Devices -> [Tests -> Status]]]
  BY Zenon DEF GiveUp, Finish, TypeInv, TypeOK, AllPending, Status
<1>3. build' \in [Handlers -> [Devices -> Builds]]
  BY Zenon DEF GiveUp, Finish, TypeInv, TypeOK, NoBuilds, Builds
<1>4. todo' \in [Handlers -> SUBSET (Devices \X Tests)] /\ pc' \in [Handlers -> PC]
  BY Zenon DEF GiveUp, Finish, TypeInv, TypeOK, PC
<1>5. first' \in [Handlers -> {0, 1}] /\ tries' \in [Handlers -> 0 .. Attempts]
  BY BoundsNonempty, Zenon DEF GiveUp, Finish, TypeInv, TypeOK
<1> QED
  BY <1>1, <1>2, <1>3, <1>4, <1>5, ZenonT(60)
  DEF TypeInv, TypeOK, Bound, Launched, Running, PC, serviceVars, storeVars, localVars,
      GiveUp, Finish, Disturb, AllPending, NoBuilds, Status, Builds

\* A handler that fails keeps its commit and its jobs.
LEMMA FailType ==
  ASSUME TypeInv, NEW h \in Handlers, Fail(h)
  PROVE  TypeInv'
<1>1. sha \in [Handlers -> 0 .. MaxCommits]
  BY Zenon DEF TypeInv, TypeOK
<1>2. sha[h] # 0 => sha[h] \in Commits
  BY <1>1, CommitsAssumption DEF Commits
<1>3. pc[h] \in Running \cup {"get"}
  BY DEF Fail
<1>4. disturbed \subseteq Commits
  BY Zenon DEF TypeInv, TypeOK
<1>5. disturbed' \subseteq Commits
  BY <1>2, <1>4 DEF Fail, Disturb
<1>6. status' \in [Handlers -> [Devices -> [Tests -> Status]]]
  BY Zenon DEF Fail, Finish, TypeInv, TypeOK, AllPending, Status
<1>7. build' \in [Handlers -> [Devices -> Builds]]
  BY Zenon DEF Fail, Finish, TypeInv, TypeOK, NoBuilds, Builds
<1>8. todo' \in [Handlers -> SUBSET (Devices \X Tests)] /\ pc' \in [Handlers -> PC]
  BY Zenon DEF Fail, Finish, TypeInv, TypeOK, PC
<1>9. first' \in [Handlers -> {0, 1}] /\ tries' \in [Handlers -> 0 .. Attempts]
  BY BoundsNonempty, ZenonT(60) DEF Fail, Finish, TypeInv, TypeOK
<1> QED
  BY <1>1, <1>2, <1>3, <1>4, <1>5, <1>6, <1>7, <1>8, <1>9, ZenonT(60)
  DEF TypeInv, TypeOK, Bound, Launched, Running, PC, serviceVars, storeVars, localVars,
      Fail, Finish, Disturb, AllPending, NoBuilds, Status, Builds, Commits

\* A callback takes a message about a job that was launched.
LEMMA ReceiveStatusType ==
  ASSUME TypeInv, NEW w \in Workers, NEW h \in Handlers, NEW d \in Devices, NEW t \in Tests,
         NEW s \in Published, ReceiveStatus(w, h, d, t, s)
  PROVE  TypeInv'
<1>1. worker \in [Workers -> Write \cup {Idle}] /\ sha \in [Handlers -> 0 .. MaxCommits]
  BY Zenon DEF TypeInv, TypeOK
<1>2. badge \in [Commits -> [Devices -> [Tests -> Badge]]]
  BY Zenon DEF TypeInv, TypeOK
<1>3. sha[h] \in Commits
  BY DEF ReceiveStatus, Launched, TypeInv
<1>4. badge[sha[h]][d][t] \in Badge
  BY <1>2, <1>3
<1>5. badge[sha[h]][d][t].build \in Builds
  BY <1>4, SMTT(40) DEF Badge
<1>6. [sha |-> sha[h], dev |-> d, test |-> t, status |-> s,
       build |-> badge[sha[h]][d][t].build] \in Write
  BY <1>5, <1>3, SMTT(40) DEF Write
<1>7. worker' \in [Workers -> Write \cup {Idle}]
  BY <1>1, <1>6, SMTT(40) DEF ReceiveStatus
<1> QED
  BY <1>1, <1>2, <1>3, <1>4, <1>5, <1>6, <1>7, ZenonT(60)
  DEF TypeInv, TypeOK, Bound, Launched, Running, PC, serviceVars, storeVars, localVars,
      ReceiveStatus, Write, Badge

\* A callback writes a badge from its copy.
LEMMA UpdateBadgeStatusType ==
  ASSUME TypeInv, NEW w \in Workers, UpdateBadgeStatus(w)
  PROVE  TypeInv'
BY ZenonT(60)
DEF TypeInv, TypeOK, Bound, Launched, Running, PC, serviceVars, storeVars, localVars,
    UpdateBadgeStatus, Write, Idle, Badge, Status

\* A callback that fails writes nothing.
LEMMA UpdateBadgeStatusFailsType ==
  ASSUME TypeInv, NEW w \in Workers, UpdateBadgeStatusFails(w)
  PROVE  TypeInv'
BY Zenon DEF TypeInv, TypeOK, Bound, Launched, Running, PC, serviceVars, storeVars, localVars,
       UpdateBadgeStatusFails

(***************************************************************************)
(* Every step keeps the types, whichever action it is.                     *)
(***************************************************************************)
LEMMA StepType == TypeInv /\ [Next]_vars => TypeInv'
<1> SUFFICES ASSUME TypeInv, [Next]_vars PROVE TypeInv'
  OBVIOUS
<1>1. CASE UNCHANGED vars
  BY <1>1, Zenon DEF TypeInv, TypeOK, Bound, Launched, vars, serviceVars, storeVars, localVars
<1>2. CASE Push
  BY <1>2, PushType
<1>3. ASSUME NEW h \in Handlers, Receive(h) PROVE TypeInv'
  BY <1>3, ProcessPullRequestType, ProcessIssueCommentType DEF Receive
<1>4. ASSUME NEW h \in Handlers, Work(h) PROVE TypeInv'
  BY <1>4, GetPullRequestType, ReadAttrsType, ReadAttrsFailsType, SelectKeywordType,
     LaunchDeviceType, SkipDeviceType, StartBadgesType, WriteBadgeType, ListCommentsType,
     WriteCommentType, RetryCommentType, GiveUpType
  DEF Work
<1>5. ASSUME NEW h \in Handlers, Fail(h) PROVE TypeInv'
  BY <1>5, FailType
<1>6. ASSUME NEW w \in Workers, WorkerStep(w) PROVE TypeInv'
  BY <1>6, ReceiveStatusType, UpdateBadgeStatusType, UpdateBadgeStatusFailsType
  DEF WorkerStep
<1> QED
  BY <1>1, <1>2, <1>3, <1>4, <1>5, <1>6 DEF Next

\* TypeOK, and the bounds the handlers rely on, are invariants of the service.
LEMMA TypeInvHolds == Spec => []TypeInv
<1> QED
  BY InitType, StepType, PTL DEF Spec

(***************************************************************************)
(* Every value the handlers and callbacks of ci-trigger read, keep and     *)
(* write has its type, in every reachable state of the service.            *)
(***************************************************************************)
THEOREM TypeCorrect == Spec => []TypeOK
<1>1. TypeInv => TypeOK
  BY DEF TypeInv
<1> QED
  BY <1>1, TypeInvHolds, PTL

\* A job stays a job of its commit.
LEMMA JobsStay ==
  ASSUME TypeInv, [Next]_vars
  PROVE  \A h \in Handlers : \A d \in Devices :
           <<h, d>> \in jobs => <<h, d>> \in jobs' /\ sha'[h] = sha[h]
<1> SUFFICES ASSUME NEW h \in Handlers, NEW d \in Devices, <<h, d>> \in jobs
             PROVE  <<h, d>> \in jobs' /\ sha'[h] = sha[h]
  OBVIOUS
<1>1. pc[h] \notin {"idle", "get"} /\ sha \in [Handlers -> 0 .. MaxCommits]
  BY ZenonT(60) DEF TypeInv, TypeOK, Launched
<1>2. CASE UNCHANGED vars \/ Push \/ \E w \in Workers : WorkerStep(w)
  BY <1>2, ZenonT(60) DEF vars, localVars, Push, WorkerStep, ReceiveStatus, UpdateBadgeStatus,
              UpdateBadgeStatusFails
<1>3. ASSUME NEW g \in Handlers, Receive(g) PROVE <<h, d>> \in jobs' /\ sha'[h] = sha[h]
  BY <1>1, <1>3, Zenon DEF Receive, ProcessPullRequest, ProcessIssueComment
<1>4. ASSUME NEW g \in Handlers, Work(g) \/ Fail(g)
      PROVE  <<h, d>> \in jobs' /\ sha'[h] = sha[h]
  BY <1>1, <1>4, ZenonT(60)
  DEF Work, GetPullRequest, ReadAttrs, ReadAttrsFails, SelectKeyword, LaunchDevice,
      SkipDevice, StartBadges, WriteBadge, ListComments, WriteComment, RetryComment,
      GiveUp, Fail, Finish
<1> QED
  BY <1>2, <1>3, <1>4, SMTT(40) DEF Next

-----------------------------------------------------------------------------
(***************************************************************************)
(* OneJobPerDevice: on a commit that is not disturbed, a second job for a  *)
(* device is never created.  The argument: whoever comes after the handler *)
(* that launched a device finds it launched in each badge of that device.  *)
(***************************************************************************)
Pending == {"absent", "pending authorization"}

\* A handler visits badges of modified tests only.
TodoModified ==
  \A h \in Handlers : pc[h] \in Running =>
    \A d \in Devices : \A t \in Tests : <<d, t>> \in todo[h] => t \in modifiedTests[sha[h]]

\* The handlers of an undisturbed commit work one after the other ...
Alone ==
  \A g, h \in Handlers :
    pc[g] \in Running /\ pc[h] \in Running /\ sha[g] = sha[h] /\ sha[g] \notin disturbed
      => g = h

\* ... and none of them failed.
NoneFailed ==
  \A h \in Handlers : pc[h] = "failed" /\ sha[h] # 0 => sha[h] \in disturbed

\* A handler knows what it launched, and its badges show it once written.
Recorded ==
  \A h \in Handlers : \A d \in Devices : \A t \in Tests :
    <<h, d>> \in jobs /\ sha[h] \notin disturbed /\ t \in modifiedTests[sha[h]] =>
      /\ pc[h] \in Running => status[h][d][t] # "pending authorization"
      /\ \/ pc[h] \in {"done", "write"}
         \/ pc[h] = "badges" /\ <<d, t>> \notin todo[h]
         => badge[sha[h]][d][t].status \notin Pending

\* Another handler of the commit finds the device launched when it looks.
Noticed ==
  \A g \in Handlers : \A h \in Handlers : \A d \in Devices : \A t \in Tests :
    /\ g # h
    /\ <<h, d>> \in jobs
    /\ sha[g] = sha[h]
    /\ sha[h] \notin disturbed
    /\ pc[g] \in Running
    /\ t \in modifiedTests[sha[h]]
    => \/ pc[g] = "attrs" /\ <<d, t>> \in todo[g]
       \/ status[g][d][t] # "pending authorization"

OnceInv ==
  /\ TypeInv
  /\ TodoModified
  /\ Alone
  /\ NoneFailed
  /\ Recorded
  /\ Noticed
  /\ OneJobPerDevice

\* The types and bounds the proofs below use.
Types ==
  /\ pc \in [Handlers -> PC]
  /\ sha \in [Handlers -> 0 .. MaxCommits]
  /\ jobs \subseteq Handlers \X Devices
  /\ todo \in [Handlers -> SUBSET (Devices \X Tests)]
  /\ status \in [Handlers -> [Devices -> [Tests -> Status]]]
  /\ badge \in [Commits -> [Devices -> [Tests -> Badge]]]
  /\ worker \in [Workers -> Write \cup {Idle}]
  /\ Bound
  /\ Launched

\* The parts of the types that these proofs use.
LEMMA TypesHold == TypeInv => Types
BY Zenon DEF TypeInv, TypeOK, Types

\* A handler that launched a device of an undisturbed commit, and is not the
\* one at work on it, has returned, and the device's badges show the launch.
LEMMA LauncherDone ==
  ASSUME OnceInv,
         NEW g \in Handlers, NEW h \in Handlers, NEW d \in Devices, NEW t \in Tests,
         g # h, <<h, d>> \in jobs, sha[g] = sha[h], sha[h] \notin disturbed,
         pc[g] \in Running, t \in modifiedTests[sha[h]]
  PROVE  badge[sha[h]][d][t].status \notin Pending
<1>1. Types
  BY TypesHold DEF OnceInv
<1>2. pc[h] \notin Running
  BY DEF OnceInv, Alone
<1>3. sha[h] \in Commits /\ pc[h] \notin {"idle", "get", "attrs"}
  BY <1>1 DEF Types, Launched
<1>4. sha[h] # 0
  BY <1>3 DEF Commits
<1>5. pc[h] # "failed"
  BY <1>4 DEF OnceInv, NoneFailed
<1>6. pc[h] = "done"
  BY <1>1, <1>2, <1>3, <1>5 DEF Types, PC, Running
<1> QED
  BY <1>6, Zenon DEF OnceInv, Recorded

\* A step of a handler that already has its commit changes no other handler.
LEMMA WorkFrame ==
  ASSUME Types, NEW k \in Handlers, Work(k) \/ Fail(k), ~GetPullRequest(k)
  PROVE  /\ sha' = sha
         /\ disturbed \subseteq disturbed'
         /\ pc'[k] \in Running => pc[k] \in Running
         /\ \A g \in Handlers \ {k} :
              pc'[g] = pc[g] /\ todo'[g] = todo[g] /\ status'[g] = status[g]
<1>1. sha' = sha /\ disturbed \subseteq disturbed'
  BY ZenonT(60)
  DEF Disturb, Work, ReadAttrs, ReadAttrsFails, SelectKeyword, LaunchDevice, SkipDevice,
      StartBadges, WriteBadge, ListComments, WriteComment, RetryComment, GiveUp, Fail,
      Finish
<1>2. pc'[k] \in Running => pc[k] \in Running
  BY ZenonT(60)
  DEF Types, Running, Work, ReadAttrs, ReadAttrsFails, SelectKeyword, LaunchDevice,
      SkipDevice, StartBadges, WriteBadge, ListComments, WriteComment, RetryComment, GiveUp,
      Fail, Finish
<1>3. \A g \in Handlers \ {k} : pc'[g] = pc[g] /\ todo'[g] = todo[g]
  BY ZenonT(60)
  DEF Types, Work, ReadAttrs, ReadAttrsFails, SelectKeyword, LaunchDevice, SkipDevice,
      StartBadges, WriteBadge, ListComments, WriteComment, RetryComment, GiveUp, Fail,
      Finish
<1>4. \A g \in Handlers \ {k} : status'[g] = status[g]
  BY ZenonT(60)
  DEF Types, Work, ReadAttrs, ReadAttrsFails, SelectKeyword, LaunchDevice, SkipDevice,
      StartBadges, WriteBadge, ListComments, WriteComment, RetryComment, GiveUp, Fail,
      Finish
<1> QED
  BY <1>1, <1>2, <1>3, <1>4, SMTT(40)

\* What was disturbed stays so.
LEMMA DisturbedGrows ==
  ASSUME Types, [Next]_vars
  PROVE  disturbed \subseteq disturbed'
<1>1. CASE UNCHANGED vars \/ Push \/ \E w \in Workers : WorkerStep(w)
  BY <1>1, ZenonT(60) DEF vars, Push, WorkerStep, ReceiveStatus, UpdateBadgeStatus,
              UpdateBadgeStatusFails
<1>2. ASSUME NEW k \in Handlers, Receive(k) \/ GetPullRequest(k)
      PROVE  disturbed \subseteq disturbed'
  BY <1>2, Zenon DEF Receive, ProcessPullRequest, ProcessIssueComment, GetPullRequest, Disturb
<1> QED
  BY <1>1, <1>2, WorkFrame DEF Next

\* A handler only visits badges of tests that its commit modified, after every step.
LEMMA TodoModifiedStep ==
  ASSUME OnceInv, [Next]_vars
  PROVE  TodoModified'
<1>1. Types /\ TodoModified
  BY TypesHold DEF OnceInv
<1>2. CASE UNCHANGED vars \/ Push \/ \E w \in Workers : WorkerStep(w)
  BY <1>1, <1>2, ZenonT(60)
  DEF TodoModified, vars, localVars, Push, WorkerStep, ReceiveStatus, UpdateBadgeStatus,
      UpdateBadgeStatusFails
<1>3. ASSUME NEW k \in Handlers, NEW s \in Commits, ProcessPullRequest(k, s) PROVE TodoModified'
  <2>1. /\ sha' = [sha EXCEPT ![k] = s]
        /\ \E x \in {"launch", "badges"} : pc' = [pc EXCEPT ![k] = x]
        /\ \E devs : todo' = [todo EXCEPT ![k] = devs \X modifiedTests[s]]
    BY <1>3, Zenon DEF ProcessPullRequest, Badges
  <2> QED
    BY <1>1, <2>1 DEF Types, TodoModified, Running
<1>4. ASSUME NEW k \in Handlers, NEW u \in Users, NEW ks \in SUBSET Keywords,
             ProcessIssueComment(k, u, ks)
      PROVE  TodoModified'
  BY <1>1, <1>4 DEF Types, TodoModified, Running, ProcessIssueComment
<1>5. ASSUME NEW k \in Handlers, GetPullRequest(k) PROVE TodoModified'
  BY <1>1, <1>5 DEF Types, TodoModified, Running, Badges, GetPullRequest, Disturb
<1>6. ASSUME NEW k \in Handlers, Work(k) \/ Fail(k), ~GetPullRequest(k) PROVE TodoModified'
  <2>1. CASE Fail(k) \/ WriteComment(k) \/ GiveUp(k)
    <3>1. pc'[k] \notin Running
      BY <1>1, <2>1 DEF Types, Running, WriteComment, GiveUp, Fail, Finish
    <3> QED
      BY <1>1, <1>6, <3>1, WorkFrame DEF TodoModified
  <2>2. CASE \/ \E d \in Devices, t \in Tests :
                  ReadAttrs(k, d, t) \/ ReadAttrsFails(k, d, t) \/ WriteBadge(k, d, t)
             \/ \E d \in Devices : LaunchDevice(k, d) \/ SkipDevice(k, d)
             \/ ListComments(k) \/ RetryComment(k)
    <3>1. \/ \E x : todo' = [todo EXCEPT ![k] = @ \ {x}]
          \/ \E d \in Devices : todo' = [todo EXCEPT ![k] = {x \in @ : x[1] # d}]
          \/ todo' = todo
      BY <2>2, ZenonT(60)
      DEF ReadAttrs, ReadAttrsFails, WriteBadge, LaunchDevice, SkipDevice,
          ListComments, RetryComment
    <3>2. todo'[k] \subseteq todo[k]
      BY <1>1, <3>1 DEF Types
    <3> QED
      BY <1>1, <1>6, <3>2, WorkFrame, SMTT(40) DEF TodoModified
  <2>3. CASE StartBadges(k) \/ \E key \in Keywords : SelectKeyword(k, key)
    <3>1. \E devs : todo'[k] = devs \X modifiedTests[sha[k]]
      BY <1>1, <2>3, ZenonT(60) DEF Types, StartBadges, SelectKeyword, Badges
    <3> QED
      BY <1>1, <1>6, <3>1, WorkFrame, SMTT(40) DEF TodoModified
  <2> QED
    BY <1>6, <2>1, <2>2, <2>3 DEF Work
<1> QED
  BY <1>2, <1>3, <1>4, <1>5, <1>6 DEF Next, Receive

\* No step of an undisturbed commit gives it a second handler at work.
LEMMA AloneStep ==
  ASSUME OnceInv, [Next]_vars
  PROVE  Alone'
<1>1. Types /\ Alone
  BY TypesHold DEF OnceInv
<1>2. CASE UNCHANGED vars \/ Push \/ \E w \in Workers : WorkerStep(w)
  BY <1>1, <1>2, ZenonT(60)
  DEF Alone, vars, localVars, Push, WorkerStep, ReceiveStatus, UpdateBadgeStatus,
      UpdateBadgeStatusFails
<1>3. ASSUME NEW k \in Handlers, NEW s \in Commits, ProcessPullRequest(k, s) PROVE Alone'
  BY <1>1, <1>3, ZenonT(60) DEF Types, Alone, Running, Busy, ProcessPullRequest, Disturb
<1>4. ASSUME NEW k \in Handlers, NEW u \in Users, NEW ks \in SUBSET Keywords,
             ProcessIssueComment(k, u, ks)
      PROVE  Alone'
  BY <1>1, <1>4 DEF Types, Alone, Running, ProcessIssueComment
<1>5. ASSUME NEW k \in Handlers, GetPullRequest(k) PROVE Alone'
  <2>1. sha' = [sha EXCEPT ![k] = head] /\ pc' = [pc EXCEPT ![k] = "attrs"]
    BY <1>5 DEF GetPullRequest
  <2>2. /\ disturbed \subseteq disturbed'
        /\ (\E g \in Handlers : sha[g] = head /\ pc[g] \in Running) => head \in disturbed'
    BY <1>5 DEF GetPullRequest, Busy, Disturb
  <2> QED
    BY <1>1, <2>1, <2>2 DEF Types, Alone, Running
<1>6. ASSUME NEW k \in Handlers, Work(k) \/ Fail(k), ~GetPullRequest(k) PROVE Alone'
  BY <1>1, <1>6, WorkFrame DEF Alone
<1> QED
  BY <1>2, <1>3, <1>4, <1>5, <1>6 DEF Next, Receive

\* No handler of an undisturbed commit has failed, after every step.
LEMMA NoneFailedStep ==
  ASSUME OnceInv, [Next]_vars
  PROVE  NoneFailed'
<1>1. Types /\ NoneFailed
  BY TypesHold, SMTT(40) DEF OnceInv
<1>2. CASE UNCHANGED vars \/ Push \/ \E w \in Workers : WorkerStep(w)
  BY <1>1, <1>2, ZenonT(60)
  DEF NoneFailed, vars, localVars, Push, WorkerStep, ReceiveStatus, UpdateBadgeStatus,
      UpdateBadgeStatusFails
<1>3. ASSUME NEW k \in Handlers, NEW s \in Commits, ProcessPullRequest(k, s) PROVE NoneFailed'
  BY <1>1, <1>3, Zenon DEF Types, NoneFailed, Running, ProcessPullRequest, Disturb
<1>4. ASSUME NEW k \in Handlers, NEW u \in Users, NEW ks \in SUBSET Keywords,
             ProcessIssueComment(k, u, ks)
      PROVE  NoneFailed'
  BY <1>1, <1>4 DEF Types, NoneFailed, Running, ProcessIssueComment
<1>5. ASSUME NEW k \in Handlers, GetPullRequest(k) PROVE NoneFailed'
  BY <1>1, <1>5 DEF Types, NoneFailed, Running, GetPullRequest, Disturb
<1>6. ASSUME NEW k \in Handlers, Work(k) \/ Fail(k), ~GetPullRequest(k) PROVE NoneFailed'
  BY <1>1, <1>6, ZenonT(60)
  DEF Types, NoneFailed, Running, Work, ReadAttrs, ReadAttrsFails, SelectKeyword, LaunchDevice,
      SkipDevice, StartBadges, WriteBadge, ListComments, WriteComment, RetryComment,
      GiveUp, Fail, Finish, Disturb
<1> QED
  BY <1>2, <1>3, <1>4, <1>5, <1>6 DEF Next, Receive

\* A handler of an undisturbed commit knows what it launched, and the badges that
\* it has written show it, after every step.
LEMMA RecordedStep ==
  ASSUME OnceInv, [Next]_vars
  PROVE  Recorded'
<1> SUFFICES ASSUME NEW h \in Handlers, NEW d \in Devices, NEW t \in Tests,
                    <<h, d>> \in jobs', sha'[h] \notin disturbed', t \in modifiedTests[sha'[h]]
             PROVE  /\ pc'[h] \in Running => status'[h][d][t] # "pending authorization"
                    /\ \/ pc'[h] \in {"done", "write"}
                       \/ pc'[h] = "badges" /\ <<d, t>> \notin todo'[h]
                       => badge'[sha'[h]][d][t].status \notin Pending
  BY ZenonT(60) DEF Recorded
<1> DEFINE Goal == /\ pc'[h] \in Running => status'[h][d][t] # "pending authorization"
                   /\ \/ pc'[h] \in {"done", "write"}
                      \/ pc'[h] = "badges" /\ <<d, t>> \notin todo'[h]
                      => badge'[sha'[h]][d][t].status \notin Pending
<1>1. Types /\ Recorded
  BY TypesHold DEF OnceInv
<1>2. ASSUME UNCHANGED vars \/ Push
             \/ \E w \in Workers : UpdateBadgeStatusFails(w)
             \/ \E g \in Handlers, e \in Devices, u \in Tests, s \in Published :
                  ReceiveStatus(w, g, e, u, s)
      PROVE  Goal
  BY <1>1, <1>2, ZenonT(60)
  DEF Recorded, vars, storeVars, localVars, Push, ReceiveStatus, UpdateBadgeStatusFails
<1>3. ASSUME NEW w \in Workers, UpdateBadgeStatus(w) PROVE Goal
  <2>1. worker[w] \in Write
    BY <1>1, <1>3 DEF Types, UpdateBadgeStatus
  <2>2. worker[w].status \notin Pending
    BY <2>1, PublishedAssumption, Zenon DEF Write, Pending
  <2>3. UNCHANGED <<pc, jobs, sha, status, todo, disturbed>>
    BY <1>3 DEF UpdateBadgeStatus, localVars
  <2>4. sha[h] \in Commits
    BY <1>1, <2>3, SMTT(40) DEF Types, Launched
  <2>5. badge'[sha[h]][d][t].status \in {badge[sha[h]][d][t].status, worker[w].status}
    <3> DEFINE m == worker[w]
               s == m.sha
               e == m.dev
               u == m.test
               v == [status |-> m.status, build |-> m.build]
    <3>1. badge' = [badge EXCEPT ![s][e][u] = v]
      BY <1>3 DEF UpdateBadgeStatus
    <3>2. badge \in [Commits -> [Devices -> [Tests -> Badge]]]
      BY <1>1 DEF Types
    <3>3. s \in Commits /\ e \in Devices /\ u \in Tests
      BY <2>1 DEF Write
    <3>4. v.status = m.status
      OBVIOUS
    <3> HIDE DEF v, u, e, s
    <3>5. CASE sha[h] = s /\ d = e /\ t = u
      <4>1. badge'[s] = [badge[s] EXCEPT ![e][u] = v]
        BY <3>1, <3>2, <3>3
      <4>2. badge'[s][e] = [badge[s][e] EXCEPT ![u] = v]
        BY <3>2, <3>3, <4>1
      <4>3. badge'[s][e][u] = v
        BY <3>2, <3>3, <4>2, SMTT(40)
      <4> QED
        BY <3>4, <3>5, <4>3
    <3>6. CASE ~(sha[h] = s /\ d = e /\ t = u)
      BY <2>4, <3>1, <3>2, <3>3, <3>6, SMTT(40)
    <3> QED
      BY <3>5, <3>6, ZenonT(60)
  <2> QED
    BY <1>1, <2>2, <2>3, <2>5, ZenonT(60) DEF Recorded
<1>4. ASSUME NEW k \in Handlers, NEW e \in Devices, NEW u \in Tests, WriteBadge(k, e, u)
      PROVE  Goal
  <2>1. /\ UNCHANGED <<pc, jobs, sha, status, disturbed>>
        /\ todo' = [todo EXCEPT ![k] = @ \ {<<e, u>>}]
        /\ pc[k] = "badges"
    BY <1>4, SMTT(40) DEF WriteBadge
  <2>2. sha[h] \in Commits /\ sha[k] \in Commits
    BY <1>1, <2>1, SMTT(40) DEF Types, Launched, Bound, Running
  <2>3. CASE sha[k] = sha[h] /\ e = d /\ u = t
    <3>1. badge'[sha[h]][d][t].status = status[k][d][t]
      BY <1>1, <1>4, <2>2, <2>3 DEF Types, WriteBadge
    <3>2. status[k][d][t] # "pending authorization"
      <4>1. CASE k = h
        BY <2>1, <4>1, Zenon DEF OnceInv, Recorded, Running
      <4>2. CASE k # h
        BY <2>1, <2>3, <4>2, Zenon DEF OnceInv, Noticed, Running
      <4> QED
        BY <4>1, <4>2, ZenonT(60)
    <3>3. status[k][d][t] \notin Pending
      <4>1. status[k][d][t] \in Status
        BY <1>1, SMTT(40) DEF Types
      <4> QED
        BY <3>2, <4>1, PublishedAssumption, Zenon DEF Status, Pending
    <3>4. pc'[h] \in Running => status'[h][d][t] # "pending authorization"
      BY <2>1, Zenon DEF OnceInv, Recorded
    <3> QED
      BY <2>1, <3>1, <3>3, <3>4, ZenonT(60)
  <2>4. CASE ~(sha[k] = sha[h] /\ e = d /\ u = t)
    <3>1. badge'[sha[h]][d][t] = badge[sha[h]][d][t]
      BY <1>1, <1>4, <2>2, <2>4, SMTT(40) DEF Types, WriteBadge
    <3>2. <<d, t>> \notin todo'[h] => <<d, t>> \notin todo[h]
      BY <1>1, <2>1, <2>4, SMTT(40) DEF Types
    <3> QED
      BY <1>1, <2>1, <3>1, <3>2, ZenonT(60) DEF Recorded
  <2> QED
    BY <2>3, <2>4, Zenon
<1>5. ASSUME NEW k \in Handlers, NEW s \in Commits, ProcessPullRequest(k, s)
      PROVE  Goal
  BY <1>1, <1>5, ZenonT(60)
  DEF Types, Bound, Launched, Running, Recorded, ProcessPullRequest, serviceVars, storeVars,
      Finish, Disturb, Badges, Commits
<1>6. ASSUME NEW k \in Handlers, NEW u \in Users, NEW ks \in SUBSET Keywords,
             ProcessIssueComment(k, u, ks)
      PROVE  Goal
  BY <1>1, <1>6, Zenon
  DEF Types, Bound, Launched, Running, Recorded, ProcessIssueComment, serviceVars,
      storeVars, Finish, Disturb, Badges, Commits
<1>7. ASSUME NEW k \in Handlers, GetPullRequest(k)
      PROVE  Goal
  BY <1>1, <1>7, ZenonT(60)
  DEF Types, Bound, Launched, Running, Recorded, GetPullRequest, serviceVars, storeVars,
      Finish, Disturb, Badges, Commits
<1>8. ASSUME NEW k \in Handlers, NEW e \in Devices, NEW u \in Tests, ReadAttrs(k, e, u)
      PROVE  Goal
  BY <1>1, <1>8, ZenonT(60)
  DEF Types, Bound, Launched, Running, Recorded, ReadAttrs, serviceVars, storeVars, Finish,
      Disturb, Badges, Commits
<1>9. ASSUME NEW k \in Handlers, NEW e \in Devices, NEW u \in Tests, ReadAttrsFails(k, e, u)
      PROVE  Goal
  BY <1>1, <1>9, ZenonT(60)
  DEF Types, Bound, Launched, Running, Recorded, ReadAttrsFails, serviceVars, storeVars,
      Finish, Disturb, Badges, Commits
<1>10. ASSUME NEW k \in Handlers, NEW key \in Keywords, SelectKeyword(k, key)
      PROVE  Goal
  BY <1>1, <1>10, ZenonT(60)
  DEF Types, Bound, Launched, Running, Recorded, SelectKeyword, serviceVars, storeVars,
      Finish, Disturb, Badges, Commits
<1>11. ASSUME NEW k \in Handlers, NEW e \in Devices, LaunchDevice(k, e)
      PROVE  Goal
  BY <1>1, <1>11, ZenonT(60)
  DEF Types, Bound, Launched, Running, Recorded, LaunchDevice, serviceVars, storeVars,
      Finish, Disturb, Badges, Commits
<1>12. ASSUME NEW k \in Handlers, NEW e \in Devices, SkipDevice(k, e)
      PROVE  Goal
  BY <1>1, <1>12, ZenonT(60)
  DEF Types, Bound, Launched, Running, Recorded, SkipDevice, serviceVars, storeVars, Finish,
      Disturb, Badges, Commits
<1>13. ASSUME NEW k \in Handlers, StartBadges(k)
      PROVE  Goal
  BY <1>1, <1>13, ZenonT(60)
  DEF Types, Bound, Launched, Running, Recorded, StartBadges, serviceVars, storeVars,
      Finish, Disturb, Badges, Commits
<1>14. ASSUME NEW k \in Handlers, ListComments(k)
      PROVE  Goal
  BY <1>1, <1>14, ZenonT(60)
  DEF Types, Bound, Launched, Running, Recorded, ListComments, serviceVars, storeVars,
      Finish, Disturb, Badges, Commits
<1>15. ASSUME NEW k \in Handlers, WriteComment(k)
      PROVE  Goal
  BY <1>1, <1>15, ZenonT(60)
  DEF Types, Bound, Launched, Running, Recorded, WriteComment, serviceVars, storeVars,
      Finish, Disturb, Badges, Commits
<1>16. ASSUME NEW k \in Handlers, RetryComment(k)
      PROVE  Goal
  BY <1>1, <1>16, ZenonT(60)
  DEF Types, Bound, Launched, Running, Recorded, RetryComment, serviceVars, storeVars,
      Finish, Disturb, Badges, Commits
<1>17. ASSUME NEW k \in Handlers, GiveUp(k)
      PROVE  Goal
  BY <1>1, <1>17, ZenonT(60)
  DEF Types, Bound, Launched, Running, Recorded, GiveUp, serviceVars, storeVars, Finish,
      Disturb, Badges, Commits
<1>18. ASSUME NEW k \in Handlers, Fail(k)
      PROVE  Goal
  BY <1>1, <1>18, ZenonT(60)
  DEF Types, Bound, Launched, Running, Recorded, Fail, serviceVars, storeVars, Finish,
      Disturb, Badges, Commits
<1> HIDE DEF Goal
<1>19. Goal
  BY <1>2, <1>3, <1>4, <1>5, <1>6, <1>7, <1>8, <1>9, <1>10, <1>11, <1>12, <1>13, <1>14,
     <1>15, <1>16, <1>17, <1>18, ZenonT(60)
  DEF Next, Receive, Work, WorkerStep
<1> QED
  BY <1>19, Zenon DEF Goal

\* jobs only grows, by a launch.
LEMMA JobsFrame ==
  ASSUME [Next]_vars, NEW h \in Handlers, NEW d \in Devices,
         <<h, d>> \in jobs', <<h, d>> \notin jobs
  PROVE  LaunchDevice(h, d)
<1>1. CASE UNCHANGED vars \/ Push \/ \E w \in Workers : WorkerStep(w)
  BY <1>1, ZenonT(60) DEF vars, Push, WorkerStep, ReceiveStatus, UpdateBadgeStatus,
              UpdateBadgeStatusFails
<1>2. ASSUME NEW g \in Handlers, Receive(g) PROVE jobs' = jobs
  BY <1>2, Zenon DEF Receive, ProcessPullRequest, ProcessIssueComment
<1>3. ASSUME NEW g \in Handlers, Work(g) \/ Fail(g), ~\E e \in Devices : LaunchDevice(g, e)
      PROVE  jobs' = jobs
  BY <1>3, ZenonT(60)
  DEF Work, GetPullRequest, ReadAttrs, ReadAttrsFails, SelectKeyword,
      SkipDevice, StartBadges, WriteBadge, ListComments, WriteComment, RetryComment,
      GiveUp, Fail
<1>4. ASSUME NEW g \in Handlers, NEW e \in Devices, LaunchDevice(g, e)
      PROVE  LaunchDevice(h, d)
  BY <1>4, ZenonT(60) DEF LaunchDevice
<1> QED
  BY <1>1, <1>2, <1>3, <1>4, SMTT(40) DEF Next

\* What populateObjectMetadata makes of one badge.
LEMMA ReadAttrsStatus ==
  ASSUME TypeInv, NEW h \in Handlers, NEW e \in Devices, NEW u \in Tests, ReadAttrs(h, e, u),
         NEW d \in Devices, NEW t \in Tests
  PROVE  status'[h][d][t] =
           IF e = d /\ u = t /\ badge[sha[h]][d][t].status # "absent"
             THEN badge[sha[h]][d][t].status
             ELSE status[h][d][t]
<1> DEFINE read == badge[sha[h]][e][u].status
<1>1. status \in [Handlers -> [Devices -> [Tests -> Status]]]
  BY Zenon DEF TypeInv, TypeOK
<1>2. CASE read = "absent"
  BY <1>2, SMTT(40) DEF ReadAttrs
<1>3. CASE read # "absent"
  <2>1. status' = [status EXCEPT ![h][e][u] = read]
    BY <1>3 DEF ReadAttrs
  <2> HIDE DEF read
  <2>2. status'[h] = [status[h] EXCEPT ![e][u] = read]
    BY <1>1, <2>1
  <2>3. status'[h][d] = IF e = d THEN [status[h][d] EXCEPT ![u] = read] ELSE status[h][d]
    BY <1>1, <2>2, ZenonT(60)
  <2>4. status'[h][d][t] = IF e = d /\ u = t THEN read ELSE status[h][d][t]
    BY <1>1, <2>3
  <2> QED
    BY <1>3, <2>4, SMTT(40) DEF read
<1> QED
  BY <1>2, <1>3

\* A handler of an undisturbed commit that has looked at a badge knows of the job
\* another one launched, after every step.
LEMMA NoticedStep ==
  ASSUME OnceInv, [Next]_vars
  PROVE  Noticed'
<1> USE DEF Noticed
<1> TAKE g \in Handlers
<1> TAKE h \in Handlers
<1> TAKE d \in Devices
<1> TAKE t \in Tests
<1> HAVE /\ g # h
         /\ <<h, d>> \in jobs'
         /\ sha'[g] = sha'[h]
         /\ sha'[h] \notin disturbed'
         /\ pc'[g] \in Running
         /\ t \in modifiedTests[sha'[h]]
<1> HIDE DEF Noticed
<1> DEFINE Goal == \/ pc'[g] = "attrs" /\ <<d, t>> \in todo'[g]
                   \/ status'[g][d][t] # "pending authorization"
<1>1. Types /\ TypeInv /\ Noticed /\ Alone
  BY TypesHold DEF OnceInv
<1>2. <<h, d>> \in jobs
  <2> SUFFICES ASSUME <<h, d>> \notin jobs PROVE FALSE
    OBVIOUS
  <2>1. LaunchDevice(h, d)
    BY JobsFrame, SMTT(40)
  <2>2. UNCHANGED <<pc, sha, disturbed>> /\ pc[h] = "launch"
    BY <2>1, Zenon DEF LaunchDevice
  <2> QED
    BY <1>1, <2>2 DEF Alone, Running
<1>3. sha'[h] = sha[h]
  BY <1>1, <1>2, JobsStay
<1>4. disturbed \subseteq disturbed'
  BY <1>1, DisturbedGrows, SMTT(40)
<1>5. ASSUME sha'[g] = sha[g], pc[g] \in Running, status'[g] = status[g],
             pc[g] = "attrs" => pc'[g] = "attrs" /\ todo'[g] = todo[g]
      PROVE  Goal
  BY <1>1, <1>2, <1>3, <1>4, <1>5, ZenonT(60) DEF Noticed
<1>6. CASE UNCHANGED vars \/ Push \/ \E w \in Workers : WorkerStep(w)
  <2>1. UNCHANGED <<pc, sha, status, todo>>
    BY <1>6, ZenonT(60) DEF vars, localVars, Push, WorkerStep, ReceiveStatus, UpdateBadgeStatus,
                UpdateBadgeStatusFails
  <2> QED
    BY <1>5, <2>1, ZenonT(60)
<1>7. ASSUME NEW k \in Handlers, NEW s \in Commits, ProcessPullRequest(k, s) PROVE Goal
  <2>1. CASE k = g
    BY <1>1, <1>3, <1>7, <2>1, ZenonT(60) DEF Types, ProcessPullRequest, Disturb
  <2>2. CASE k # g
    BY <1>1, <1>5, <1>7, <2>2, ZenonT(60) DEF Types, ProcessPullRequest
  <2> QED
    BY <2>1, <2>2, ZenonT(60)
<1>8. ASSUME NEW k \in Handlers, NEW u \in Users, NEW ks \in SUBSET Keywords,
             ProcessIssueComment(k, u, ks)
      PROVE  Goal
  BY <1>1, <1>5, <1>8, ZenonT(60) DEF Types, ProcessIssueComment, Running
<1>9. ASSUME NEW k \in Handlers, GetPullRequest(k) PROVE Goal
  <2>1. CASE k = g
    BY <1>1, <1>3, <1>9, <2>1, ZenonT(60) DEF Types, GetPullRequest, Badges
  <2>2. CASE k # g
    BY <1>1, <1>5, <1>9, <2>2, ZenonT(60) DEF Types, GetPullRequest
  <2> QED
    BY <2>1, <2>2, ZenonT(60)
<1>10. ASSUME NEW e \in Devices, NEW u \in Tests, ReadAttrs(g, e, u) PROVE Goal
  <2>1. pc[g] = "attrs" /\ UNCHANGED <<pc, sha>> /\ todo' = [todo EXCEPT ![g] = @ \ {<<e, u>>}]
    BY <1>10, SMTT(40) DEF ReadAttrs
  <2>2. sha[h] \in Commits /\ sha[g] = sha[h]
    BY <1>1, <1>2, <1>3, <2>1, SMTT(40) DEF Types, Launched
  <2>3. CASE e = d /\ u = t
    <3>1. badge[sha[h]][d][t].status \notin Pending
      BY <1>2, <1>3, <1>4, <2>1, <2>2, LauncherDone, SMTT(40) DEF Running
    <3>2. badge[sha[g]][d][t].status \notin Pending
      BY <2>2, <3>1, SMTT(40)
    <3>3. status'[g][d][t] = IF e = d /\ u = t /\ badge[sha[g]][d][t].status # "absent"
                               THEN badge[sha[g]][d][t].status
                               ELSE status[g][d][t]
      BY <1>1, <1>10, ReadAttrsStatus, SMTT(40)
    <3> QED
      BY <2>3, <3>2, <3>3, ZenonT(60) DEF Pending
  <2>4. CASE ~(e = d /\ u = t)
    <3>1. status'[g][d][t] = status[g][d][t]
      BY <1>1, <1>10, <2>4, ReadAttrsStatus, SMTT(40)
    <3>2. <<d, t>> \in todo[g] => <<d, t>> \in todo'[g]
      BY <1>1, <2>1, <2>4, SMTT(40) DEF Types
    <3> QED
      BY <1>1, <1>2, <1>3, <1>4, <2>1, <2>2, <3>1, <3>2, ZenonT(60) DEF Noticed, Running
  <2> QED
    BY <2>3, <2>4, ZenonT(60)
<1>11. ASSUME NEW e \in Devices, LaunchDevice(g, e) PROVE Goal
  <2>1. pc[g] = "launch" /\ UNCHANGED <<pc, sha>>
    BY <1>11, ZenonT(60) DEF LaunchDevice
  <2>2. status[g][d][t] # "pending authorization"
    BY <1>1, <1>2, <1>3, <1>4, <2>1, ZenonT(60) DEF Noticed, Running
  <2>3. status'[g][d][t] \in {"setup", status[g][d][t]}
    BY <1>1, <1>11, ZenonT(60) DEF Types, LaunchDevice
  <2> QED
    BY <2>2, <2>3, Zenon
<1>12. ASSUME NEW e \in Devices, NEW u \in Tests, ReadAttrsFails(g, e, u) PROVE Goal
  BY <1>12, ZenonT(60) DEF ReadAttrsFails, Disturb
<1>13. ASSUME NEW key \in Keywords, SelectKeyword(g, key) PROVE Goal
  <2>1. pc[g] = "attrs" /\ todo[g] = {} /\ UNCHANGED <<sha, status>>
    BY <1>13, SMTT(40) DEF SelectKeyword
  <2> QED
    BY <1>1, <1>2, <1>3, <1>4, <2>1, ZenonT(60) DEF Noticed, Running
<1>14. CASE \/ \E e \in Devices : SkipDevice(g, e)
            \/ \E e \in Devices, u \in Tests : WriteBadge(g, e, u)
            \/ StartBadges(g) \/ ListComments(g) \/ RetryComment(g)
  BY <1>1, <1>5, <1>14, ZenonT(60)
  DEF Types, SkipDevice, WriteBadge, StartBadges, ListComments, RetryComment, Running
<1>15. CASE WriteComment(g) \/ GiveUp(g) \/ Fail(g)
  BY <1>1, <1>15, ZenonT(60) DEF Types, WriteComment, GiveUp, Fail, Finish, Running
<1>16. ASSUME NEW k \in Handlers, k # g, Work(k) \/ Fail(k), ~GetPullRequest(k) PROVE Goal
  BY <1>1, <1>5, <1>16, WorkFrame, ZenonT(60)
<1> HIDE DEF Goal
<1>17. ASSUME Work(g) \/ Fail(g) PROVE Goal
  BY <1>9, <1>10, <1>11, <1>12, <1>13, <1>14, <1>15, <1>17, ZenonT(60) DEF Work, Goal
<1>18. Goal
  BY <1>6, <1>7, <1>8, <1>9, <1>16, <1>17, ZenonT(60) DEF Next, Receive, Goal
<1> QED
  BY <1>18, Zenon DEF Goal

\* No step launches a device of an undisturbed commit again.
LEMMA OneJobStep ==
  ASSUME OnceInv, [Next]_vars
  PROVE  OneJobPerDevice'
<1> SUFFICES ASSUME NEW d \in Devices, NEW g \in Handlers, NEW h \in Handlers,
                    sha'[g] = sha'[h], sha'[g] \notin disturbed',
                    <<g, d>> \in jobs', <<h, d>> \in jobs', g # h
             PROVE  FALSE
  BY DEF OneJobPerDevice
<1>1. Types /\ TypeInv
  BY TypesHold DEF OnceInv
<1>2. ASSUME NEW x \in Handlers, NEW y \in Handlers, x # y, LaunchDevice(x, d),
             <<y, d>> \in jobs', sha'[x] = sha'[y], sha'[x] \notin disturbed'
      PROVE  FALSE
  <2>1. /\ UNCHANGED <<pc, sha, disturbed>> /\ pc[x] = "launch"
        /\ jobs' = jobs \cup {<<x, d>>}
        /\ \E t \in Tests : <<d, t>> \in todo[x]
        /\ \A t \in modifiedTests[sha[x]] : status[x][d][t] = "pending authorization"
    BY <1>2, Zenon DEF LaunchDevice
  <2>2. PICK t \in Tests : t \in modifiedTests[sha[x]]
    BY <2>1, Zenon DEF OnceInv, TodoModified, Running
  <2>3. status[x][d][t] # "pending authorization"
    BY <1>2, <2>1, <2>2, Zenon DEF OnceInv, Noticed, Running
  <2> QED
    BY <2>1, <2>2, <2>3, Zenon
<1>3. <<g, d>> \in jobs /\ <<h, d>> \in jobs
  BY <1>2, JobsFrame
<1>4. sha'[g] = sha[g] /\ sha'[h] = sha[h] /\ sha[g] \in Commits
  BY <1>1, <1>3, JobsStay, SMTT(40) DEF Types, Launched
<1>5. sha[g] \notin disturbed
  BY <1>1, <1>4, DisturbedGrows, SMTT(40)
<1> QED
  BY <1>3, <1>4, <1>5, ZenonT(60) DEF OnceInv, OneJobPerDevice

\* The invariant of LaunchedOnce holds when the service starts.
LEMMA OnceInit == Init => OnceInv
<1> SUFFICES ASSUME Init PROVE OnceInv
  OBVIOUS
<1>1. jobs = {} /\ \A h \in Handlers : pc[h] = "idle"
  BY DEF Init
<1> QED
  BY <1>1, InitType
  DEF OnceInv, TodoModified, Alone, NoneFailed, Recorded, Noticed, OneJobPerDevice, Running

\* Every step keeps it.
LEMMA OnceStep == OnceInv /\ [Next]_vars => OnceInv'
<1> SUFFICES ASSUME OnceInv, [Next]_vars PROVE OnceInv'
  OBVIOUS
<1>1. TypeInv'
  BY StepType DEF OnceInv
<1> QED
  BY <1>1, TodoModifiedStep, AloneStep, NoneFailedStep, RecordedStep, NoticedStep, OneJobStep
  DEF OnceInv

(***************************************************************************)
(* However many comments ask for it, a device gets at most one job for a   *)
(* commit whose events were handled one after the other without an error.  *)
(***************************************************************************)
THEOREM LaunchedOnce == Spec => []OneJobPerDevice
<1>1. OnceInv => OneJobPerDevice
  BY DEF OnceInv
<1> QED
  BY <1>1, OnceInit, OnceStep, PTL DEF Spec

-----------------------------------------------------------------------------
(***************************************************************************)
(* BadgeBackedByJob and BuildLinksMatch.  What the badges say is copied    *)
(* into handlers and callbacks, and from there back into badges and        *)
(* comments, so the invariant speaks of all the copies.  RequestServed     *)
(* rests on it: a device is skipped because of such a copy.                *)
(***************************************************************************)
Backed(st, s, d) == st \notin {"absent", "pending authorization"} => HasJob(s, d)

StoreBacked ==
  \A s \in Commits : \A d \in Devices : \A t \in Tests :
    Backed(badge[s][d][t].status, s, d) /\ BuildOf(badge[s][d][t].build, s, d)

HandlersBacked ==
  /\ \A h \in Handlers : \A d \in Devices : BuildOf(build[h][d], sha[h], d)
  /\ \A h \in Handlers : \A d \in Devices : \A t \in Tests :
       Backed(status[h][d][t], sha[h], d)

WorkersBacked ==
  \A w \in Workers : worker[w] # Idle =>
    /\ HasJob(worker[w].sha, worker[w].dev)
    /\ BuildOf(worker[w].build, worker[w].sha, worker[w].dev)

CommentsBacked ==
  \A i \in 1 .. Len(comments) : \A d \in Devices :
    BuildOf(comments[i].build[d], comments[i].sha, d)

\* Before it knows its commit, a handler has copied nothing.
Fresh ==
  \A h \in Handlers : pc[h] \in {"idle", "get"} =>
    status[h] = AllPending /\ build[h] = NoBuilds

BackedInv ==
  TypeInv /\ StoreBacked /\ HandlersBacked /\ WorkersBacked /\ CommentsBacked /\ Fresh

\* So what was backed by a job still is.
LEMMA BackedStays ==
  ASSUME TypeInv, [Next]_vars, NEW s, NEW d \in Devices
  PROVE  /\ HasJob(s, d) => HasJob(s, d)'
         /\ \A x : Backed(x, s, d) => Backed(x, s, d)'
         /\ \A b \in Builds : BuildOf(b, s, d) => BuildOf(b, s, d)'
<1>1. HasJob(s, d) => HasJob(s, d)'
  BY JobsStay DEF HasJob
<1>2. \A b \in Builds : BuildOf(b, s, d) => BuildOf(b, s, d)'
  BY JobsStay DEF BuildOf, Builds
<1> QED
  BY <1>1, <1>2, Zenon DEF Backed

\* A badge is only written by updateBadges and by updateBadgeStatus.
LEMMA BadgeFrame ==
  ASSUME [Next]_vars
  PROVE  \/ badge' = badge
         \/ \E h \in Handlers, d \in Devices, t \in Tests : WriteBadge(h, d, t)
         \/ \E w \in Workers : UpdateBadgeStatus(w)
<1>1. CASE UNCHANGED vars \/ Push \/ \E w \in Workers : WorkerStep(w)
  BY <1>1, ZenonT(60)
  DEF vars, storeVars, Push, WorkerStep, ReceiveStatus, UpdateBadgeStatusFails
<1>2. ASSUME NEW g \in Handlers, Receive(g) PROVE badge' = badge
  BY <1>2, Zenon DEF Receive, ProcessPullRequest, ProcessIssueComment, storeVars
<1>3. ASSUME NEW g \in Handlers, Work(g) \/ Fail(g),
             ~\E d \in Devices, t \in Tests : WriteBadge(g, d, t)
      PROVE  badge' = badge
  BY <1>3, ZenonT(60)
  DEF Work, GetPullRequest, ReadAttrs, ReadAttrsFails, SelectKeyword, LaunchDevice,
      SkipDevice, StartBadges, ListComments, WriteComment, RetryComment,
      GiveUp, Fail, storeVars
<1> QED
  BY <1>1, <1>2, <1>3, SMTT(40) DEF Next

\* What the handlers carry changes in the calls that read, launch or return.
LEMMA HandlerFrame ==
  ASSUME [Next]_vars, NEW h \in Handlers, TypeInv
  PROVE  \/ status'[h] = status[h] /\ build'[h] = build[h] /\ sha'[h] = sha[h]
         \/ /\ status'[h] = status[h] /\ build'[h] = build[h]
            /\ pc[h] \in {"idle", "get"}
         \/ status'[h] = AllPending /\ build'[h] = NoBuilds /\ sha'[h] = sha[h]
         \/ \E d \in Devices, t \in Tests : ReadAttrs(h, d, t)
         \/ \E d \in Devices : LaunchDevice(h, d)
<1> DEFINE Goal ==
         \/ status'[h] = status[h] /\ build'[h] = build[h] /\ sha'[h] = sha[h]
         \/ /\ status'[h] = status[h] /\ build'[h] = build[h]
            /\ pc[h] \in {"idle", "get"}
         \/ status'[h] = AllPending /\ build'[h] = NoBuilds /\ sha'[h] = sha[h]
         \/ \E d \in Devices, t \in Tests : ReadAttrs(h, d, t)
         \/ \E d \in Devices : LaunchDevice(h, d)
<1>1. /\ sha \in [Handlers -> 0 .. MaxCommits]
      /\ status \in [Handlers -> [Devices -> [Tests -> Status]]]
      /\ build \in [Handlers -> [Devices -> Builds]]
  BY Zenon DEF TypeInv, TypeOK
<1>2. ASSUME UNCHANGED vars \/ Push \/ \E w \in Workers : WorkerStep(w) PROVE Goal
  <2>1. UNCHANGED <<status, build, sha>>
    BY <1>2, ZenonT(60) DEF vars, localVars, Push, WorkerStep, ReceiveStatus, UpdateBadgeStatus,
                UpdateBadgeStatusFails
  <2> QED
    BY <2>1
<1>3. ASSUME NEW g \in Handlers, Receive(g) PROVE Goal
  BY <1>1, <1>3, Zenon DEF Receive, ProcessPullRequest, ProcessIssueComment
<1>4. ASSUME NEW g \in Handlers, NEW d \in Devices, NEW t \in Tests, ReadAttrs(g, d, t)
      PROVE  Goal
  BY <1>1, <1>4, ZenonT(60) DEF ReadAttrs
<1>5. ASSUME NEW g \in Handlers, NEW d \in Devices, LaunchDevice(g, d) PROVE Goal
  BY <1>1, <1>5, Zenon DEF LaunchDevice
<1>6. ASSUME NEW g \in Handlers, GetPullRequest(g) PROVE Goal
  BY <1>1, <1>6 DEF GetPullRequest
<1>7. ASSUME NEW g \in Handlers, WriteComment(g) \/ GiveUp(g) \/ Fail(g) PROVE Goal
  BY <1>1, <1>7 DEF WriteComment, GiveUp, Fail, Finish
<1>8. ASSUME NEW g \in Handlers, NEW d \in Devices, NEW t \in Tests,
             ReadAttrsFails(g, d, t) \/ WriteBadge(g, d, t)
      PROVE  Goal
  BY <1>8, SMTT(40) DEF ReadAttrsFails, WriteBadge
<1>9. ASSUME NEW g \in Handlers,
             StartBadges(g) \/ ListComments(g) \/ RetryComment(g)
             \/ (\E k \in Keywords : SelectKeyword(g, k))
             \/ (\E d \in Devices : SkipDevice(g, d))
      PROVE  Goal
  BY <1>9, Zenon DEF SkipDevice, StartBadges, ListComments, RetryComment, SelectKeyword
<1> HIDE DEF Goal
<1>10. ASSUME NEW g \in Handlers, Work(g) PROVE Goal
  BY <1>4, <1>5, <1>6, <1>7, <1>8, <1>9, <1>10 DEF Work
<1>11. Goal
  BY <1>2, <1>3, <1>7, <1>10 DEF Next
<1> QED
  BY <1>11 DEF Goal

\* A badge that a step writes is backed, since the copy was.
LEMMA StoreStep ==
  ASSUME BackedInv, [Next]_vars
  PROVE  StoreBacked'
<1> SUFFICES ASSUME NEW s \in Commits, NEW d \in Devices, NEW t \in Tests,
                    NEW x, x = badge'[s][d][t].status,
                    NEW b, b = badge'[s][d][t].build
             PROVE  Backed(x, s, d)' /\ BuildOf(b, s, d)'
  BY DEF StoreBacked
<1>1. TypeInv /\ badge \in [Commits -> [Devices -> [Tests -> Badge]]]
  BY Zenon DEF BackedInv, TypeInv, TypeOK
<1>2. CASE badge' = badge
  <2>1. b \in Builds
    BY <1>1, <1>2 DEF Badge
  <2>2. Backed(x, s, d) /\ BuildOf(b, s, d)
    BY <1>2 DEF BackedInv, StoreBacked
  <2> QED
    BY <1>1, <2>1, <2>2, BackedStays, ZenonT(60)
<1>3. ASSUME NEW h \in Handlers, NEW e \in Devices, NEW u \in Tests, WriteBadge(h, e, u)
      PROVE  Backed(x, s, d)' /\ BuildOf(b, s, d)'
  <2>1. \/ x = badge[s][d][t].status /\ b = badge[s][d][t].build
        \/ sha[h] = s /\ x = status[h][d][t] /\ b = build[h][d]
    BY <1>1, <1>3, ZenonT(60) DEF WriteBadge
  <2>2. badge[s][d][t].build \in Builds /\ build[h][d] \in Builds
    <3>1. badge[s][d][t].build \in Builds
      BY <1>1 DEF Badge
    <3>2. build[h][d] \in Builds
      BY <1>1, ZenonT(60) DEF TypeInv, TypeOK
    <3> QED
      BY <3>1, <3>2
  <2>3. Backed(x, s, d) /\ BuildOf(b, s, d)
    BY <2>1 DEF BackedInv, StoreBacked, HandlersBacked
  <2> QED
    BY <1>1, <2>1, <2>2, <2>3, BackedStays, ZenonT(60)
<1>4. ASSUME NEW w \in Workers, UpdateBadgeStatus(w)
      PROVE  Backed(x, s, d)' /\ BuildOf(b, s, d)'
  <2>1. worker[w] \in Write /\ worker[w] # Idle
    BY <1>1, <1>4, ZenonT(60) DEF UpdateBadgeStatus, TypeInv, TypeOK
  <2>2. \/ x = badge[s][d][t].status /\ b = badge[s][d][t].build
        \/ /\ worker[w].sha = s /\ worker[w].dev = d
           /\ x = worker[w].status /\ b = worker[w].build
    BY <1>1, <1>4, <2>1, ZenonT(60) DEF UpdateBadgeStatus, Write
  <2>3. badge[s][d][t].build \in Builds /\ worker[w].build \in Builds
    BY <1>1, <2>1 DEF Badge, Write
  <2>4. Backed(badge[s][d][t].status, s, d) /\ BuildOf(badge[s][d][t].build, s, d)
    BY DEF BackedInv, StoreBacked
  <2>5. HasJob(worker[w].sha, worker[w].dev)
        /\ BuildOf(worker[w].build, worker[w].sha, worker[w].dev)
    BY <2>1 DEF BackedInv, WorkersBacked
  <2>6. Backed(x, s, d) /\ BuildOf(b, s, d)
    BY <2>2, <2>4, <2>5, Zenon DEF Backed
  <2> QED
    BY <1>1, <2>2, <2>3, <2>6, BackedStays, ZenonT(60)
<1> QED
  BY <1>2, <1>3, <1>4, BadgeFrame

\* What a handler copies is backed, since the badge was, and what it launches
\* backs its copy.
LEMMA HandlersStep ==
  ASSUME BackedInv, [Next]_vars
  PROVE  HandlersBacked'
<1>1. /\ TypeInv
      /\ status \in [Handlers -> [Devices -> [Tests -> Status]]]
      /\ build \in [Handlers -> [Devices -> Builds]]
      /\ badge \in [Commits -> [Devices -> [Tests -> Badge]]]
  BY Zenon DEF BackedInv, TypeInv, TypeOK
<1>2. ASSUME NEW h \in Handlers, NEW d \in Devices, NEW s, s = sha'[h],
             NEW b, b = build'[h][d]
      PROVE  BuildOf(b, s, d)'
  <2>1. CASE b = NoBuild
    BY <2>1 DEF BuildOf
  <2>2. CASE b = build[h][d] /\ sha[h] = s
    BY <1>1, <2>2, BackedStays, ZenonT(60) DEF BackedInv, HandlersBacked
  <2>3. CASE build'[h] = build[h] /\ pc[h] \in {"idle", "get"}
    BY <1>2, <2>1, <2>3 DEF BackedInv, Fresh, NoBuilds
  <2>4. CASE build'[h] = NoBuilds
    BY <1>2, <2>1, <2>4 DEF NoBuilds
  <2>5. ASSUME NEW e \in Devices, NEW u \in Tests, ReadAttrs(h, e, u)
        PROVE  BuildOf(b, s, d)'
    <3>1. sha[h] \in Commits
      BY <1>1, <2>5 DEF ReadAttrs, TypeInv, Bound, Running
    <3>2. sha' = sha
      BY <2>5 DEF ReadAttrs
    <3>3. b = build[h][d] \/ (e = d /\ b = badge[sha[h]][e][u].build)
      BY <1>1, <1>2, <2>5 DEF ReadAttrs
    <3>4. badge[sha[h]][e][u].build \in Builds
      BY <1>1, <3>1 DEF Badge
    <3>5. BuildOf(badge[sha[h]][e][u].build, sha[h], e)
      BY <3>1 DEF BackedInv, StoreBacked
    <3> QED
      BY <1>1, <1>2, <2>2, <3>2, <3>3, <3>4, <3>5, BackedStays, ZenonT(60)
  <2>6. ASSUME NEW e \in Devices, LaunchDevice(h, e)
        PROVE  BuildOf(b, s, d)'
    <3>1. sha' = sha /\ jobs' = jobs \cup {<<h, e>>}
      BY <2>6, Zenon DEF LaunchDevice
    <3>2. b = build[h][d] \/ (e = d /\ b = h)
      BY <1>1, <1>2, <2>6, Zenon DEF LaunchDevice
    <3> QED
      BY <1>2, <2>2, <3>1, <3>2 DEF BuildOf
  <2>7. \/ build'[h] = build[h] /\ sha'[h] = sha[h]
        \/ build'[h] = build[h] /\ pc[h] \in {"idle", "get"}
        \/ build'[h] = NoBuilds
        \/ \E e \in Devices, u \in Tests : ReadAttrs(h, e, u)
        \/ \E e \in Devices : LaunchDevice(h, e)
    BY <1>1, HandlerFrame
  <2> QED
    BY <1>2, <2>2, <2>3, <2>4, <2>5, <2>6, <2>7, ZenonT(60)
<1>3. ASSUME NEW h \in Handlers, NEW d \in Devices, NEW t \in Tests, NEW s, s = sha'[h],
             NEW x, x = status'[h][d][t]
      PROVE  Backed(x, s, d)'
  <2>1. CASE x = "pending authorization"
    BY <2>1, Zenon DEF Backed
  <2>2. CASE x = status[h][d][t] /\ sha[h] = s
    BY <1>1, <2>2, BackedStays, ZenonT(60) DEF BackedInv, HandlersBacked
  <2>3. CASE status'[h] = AllPending
    <3>1. AllPending[d][t] = "pending authorization"
      BY DEF AllPending
    <3> QED
      BY <1>3, <2>1, <2>3, <3>1, Zenon
  <2>4. CASE status'[h] = status[h] /\ pc[h] \in {"idle", "get"}
    BY <2>3, <2>4 DEF BackedInv, Fresh
  <2>5. ASSUME NEW e \in Devices, NEW u \in Tests, ReadAttrs(h, e, u)
        PROVE  Backed(x, s, d)'
    <3>1. sha[h] \in Commits
      BY <1>1, <2>5 DEF ReadAttrs, TypeInv, Bound, Running
    <3>2. sha' = sha
      BY <2>5 DEF ReadAttrs
    <3>3. x = status[h][d][t] \/ (e = d /\ x = badge[sha[h]][e][u].status)
      <4> DEFINE read == badge[sha[h]][e][u].status
      <4>1. status' = status \/ status' = [status EXCEPT ![h][e][u] = read]
        BY <2>5 DEF ReadAttrs
      <4> HIDE DEF read
      <4>2. CASE status' = [status EXCEPT ![h][e][u] = read]
        <5>1. status'[h] = [status[h] EXCEPT ![e][u] = read]
          BY <1>1, <4>2
        <5>2. status'[h][d] = IF e = d THEN [status[h][d] EXCEPT ![u] = read] ELSE status[h][d]
          BY <1>1, <5>1, ZenonT(60)
        <5>3. x = status[h][d][t] \/ (e = d /\ x = read)
          BY <1>1, <1>3, <5>2
        <5> QED
          BY <5>3 DEF read
      <4> QED
        BY <1>3, <4>1, <4>2, SMTT(40)
    <3>4. Backed(badge[sha[h]][e][u].status, sha[h], e)
      BY <3>1 DEF BackedInv, StoreBacked
    <3> QED
      BY <1>1, <1>3, <2>2, <3>2, <3>3, <3>4, BackedStays, ZenonT(60)
  <2>6. ASSUME NEW e \in Devices, LaunchDevice(h, e)
        PROVE  Backed(x, s, d)'
    <3>1. sha' = sha /\ jobs' = jobs \cup {<<h, e>>}
      BY <2>6, Zenon DEF LaunchDevice
    <3>2. x = status[h][d][t] \/ e = d
      BY <1>1, <1>3, <2>6, Zenon DEF LaunchDevice
    <3>3. CASE e = d
      BY <1>3, <3>1, <3>3, ZenonT(60) DEF Backed, HasJob
    <3> QED
      BY <1>3, <2>2, <3>1, <3>2, <3>3
  <2> QED
    BY <1>1, <1>3, <2>2, <2>3, <2>4, <2>5, <2>6, HandlerFrame
<1> QED
  BY <1>2, <1>3 DEF HandlersBacked

\* What a callback copies is backed, since badge and message were.
LEMMA WorkersStep ==
  ASSUME BackedInv, [Next]_vars
  PROVE  WorkersBacked'
<1> SUFFICES ASSUME NEW w \in Workers, NEW m, m = worker'[w], m # Idle
             PROVE  HasJob(m.sha, m.dev)' /\ BuildOf(m.build, m.sha, m.dev)'
  BY DEF WorkersBacked
<1>1. TypeInv /\ worker \in [Workers -> Write \cup {Idle}]
  BY Zenon DEF BackedInv, TypeInv, TypeOK
<1>2. CASE m = worker[w]
  <2>1. m.dev \in Devices /\ m.build \in Builds
    BY <1>1, <1>2 DEF Write
  <2>2. HasJob(m.sha, m.dev) /\ BuildOf(m.build, m.sha, m.dev)
    <3>1. WorkersBacked
      BY Zenon DEF BackedInv
    <3> QED
      BY <1>2, <3>1, ZenonT(60) DEF WorkersBacked
  <2> QED
    BY <1>1, <2>1, <2>2, BackedStays
<1>3. ASSUME NEW h \in Handlers, NEW d \in Devices, NEW t \in Tests, NEW st \in Published,
             ReceiveStatus(w, h, d, t, st)
      PROVE  HasJob(m.sha, m.dev)' /\ BuildOf(m.build, m.sha, m.dev)'
  <2>1. m = [sha |-> sha[h], dev |-> d, test |-> t, status |-> st,
             build |-> badge[sha[h]][d][t].build]
    <3> DEFINE x == [sha |-> sha[h], dev |-> d, test |-> t, status |-> st,
                     build |-> badge[sha[h]][d][t].build]
    <3>1. worker' = [worker EXCEPT ![w] = x]
      BY <1>3 DEF ReceiveStatus
    <3> HIDE DEF x
    <3> QED
      BY <1>1, <3>1 DEF x
  <2>2. <<h, d>> \in jobs
    BY <1>3 DEF ReceiveStatus
  <2>3. sha[h] \in Commits
    BY <1>1, <2>2, SMTT(40) DEF TypeInv, Launched
  <2>4. HasJob(m.sha, m.dev)
    BY <2>1, <2>2, SMTT(40) DEF HasJob
  <2>5. m.build \in Builds
    <3>1. badge \in [Commits -> [Devices -> [Tests -> Badge]]]
      BY <1>1, ZenonT(60) DEF TypeInv, TypeOK
    <3> QED
      BY <2>1, <2>3, <3>1, SMTT(40) DEF Badge
  <2>6. BuildOf(m.build, m.sha, m.dev)
    BY <2>1, <2>3 DEF BackedInv, StoreBacked
  <2>7. m.dev \in Devices
    BY <2>1
  <2>8. HasJob(m.sha, m.dev)'
    BY <1>1, <2>4, <2>7, BackedStays
  <2> QED
    BY <1>1, <2>5, <2>6, <2>7, <2>8, BackedStays
<1>4. m = worker[w] \/ \E h \in Handlers, d \in Devices, t \in Tests, st \in Published :
                         ReceiveStatus(w, h, d, t, st)
  <2>1. CASE UNCHANGED worker
    BY <2>1
  <2>2. ASSUME NEW v \in Workers, UpdateBadgeStatus(v) \/ UpdateBadgeStatusFails(v)
        PROVE  m = worker[w]
    <3>1. worker' = [worker EXCEPT ![v] = Idle]
      BY <2>2 DEF UpdateBadgeStatus, UpdateBadgeStatusFails
    <3> QED
      BY <1>1, <3>1
  <2>3. ASSUME NEW v \in Workers, v # w, NEW h \in Handlers, NEW d \in Devices,
               NEW t \in Tests, NEW st \in Published, ReceiveStatus(v, h, d, t, st)
        PROVE  m = worker[w]
    <3> DEFINE x == [sha |-> sha[h], dev |-> d, test |-> t, status |-> st,
                     build |-> badge[sha[h]][d][t].build]
    <3>1. worker' = [worker EXCEPT ![v] = x]
      BY <2>3 DEF ReceiveStatus
    <3> HIDE DEF x
    <3> QED
      BY <1>1, <2>3, <3>1
  <2>4. ASSUME NEW h \in Handlers, Receive(h) \/ Work(h) \/ Fail(h)
        PROVE  UNCHANGED worker
    BY <2>4, ZenonT(60)
    DEF Receive, ProcessPullRequest, ProcessIssueComment, Work, GetPullRequest, ReadAttrs,
        ReadAttrsFails, SelectKeyword, LaunchDevice, SkipDevice, StartBadges, WriteBadge,
        ListComments, WriteComment, RetryComment, GiveUp, Fail, storeVars
  <2> QED
    BY <2>1, <2>2, <2>3, <2>4 DEF Next, WorkerStep, Push, vars, storeVars
<1> QED
  BY <1>2, <1>3, <1>4

\* A comment links to the builds of its handler, which are backed.
LEMMA CommentsStep ==
  ASSUME BackedInv, [Next]_vars
  PROVE  CommentsBacked'
<1>1. TypeInv /\ comments \in Seq(Comment)
  BY Zenon DEF BackedInv, TypeInv, TypeOK
<1>2. ASSUME NEW c \in Comment, NEW d \in Devices, BuildOf(c.build[d], c.sha, d)
      PROVE  BuildOf(c.build[d], c.sha, d)'
  <2>1. c.build[d] \in Builds
    BY DEF Comment
  <2> QED
    BY <1>1, <1>2, <2>1, BackedStays, ZenonT(60)
<1>3. CASE comments' = comments
  BY <1>1, <1>2, <1>3 DEF BackedInv, CommentsBacked
<1>4. ASSUME NEW h \in Handlers, WriteComment(h) \/ RetryComment(h),
             comments' = Commented(h)
      PROVE  CommentsBacked'
  <2>1. sha[h] \in Commits
    BY <1>1, <1>4 DEF WriteComment, RetryComment, TypeInv, Bound, Running
  <2>2. ASSUME NEW i \in 1 .. Len(comments'), NEW d \in Devices, NEW c, c = comments'[i]
        PROVE  BuildOf(c.build[d], c.sha, d)'
    <3>1. c \in Comment
      BY <1>1, <1>4, <2>1, <2>2, CommentedType, ElementOfSeq, ZenonT(60)
    <3>2. \/ c = [sha |-> sha[h], build |-> build[h]]
          \/ i \in 1 .. Len(comments) /\ c = comments[i]
      BY <1>1, <1>4, <2>1, <2>2, CommentedType
    <3>3. BuildOf(c.build[d], c.sha, d)
      BY <3>2 DEF BackedInv, CommentsBacked, HandlersBacked
    <3> QED
      BY <1>2, <3>1, <3>3
  <2> QED
    BY <2>2 DEF CommentsBacked
<1>5. \/ comments' = comments
      \/ \E h \in Handlers : (WriteComment(h) \/ RetryComment(h)) /\ comments' = Commented(h)
  <2>1. CASE UNCHANGED vars \/ Push \/ \E w \in Workers : WorkerStep(w)
    BY <2>1, ZenonT(60) DEF vars, Push, WorkerStep, ReceiveStatus, UpdateBadgeStatus,
                UpdateBadgeStatusFails
  <2>2. ASSUME NEW h \in Handlers, Receive(h) \/ Work(h) \/ Fail(h),
               ~WriteComment(h), ~RetryComment(h)
        PROVE  comments' = comments
    BY <2>2, ZenonT(60)
    DEF Receive, ProcessPullRequest, ProcessIssueComment, Work, GetPullRequest, ReadAttrs,
        ReadAttrsFails, SelectKeyword, LaunchDevice, SkipDevice, StartBadges, WriteBadge,
        ListComments, GiveUp, Fail
  <2>3. ASSUME NEW h \in Handlers, WriteComment(h) \/ RetryComment(h)
        PROVE  comments' \in {comments, Commented(h)}
    BY <2>3, SMTT(40) DEF WriteComment, RetryComment
  <2> QED
    BY <2>1, <2>2, <2>3 DEF Next
<1> QED
  BY <1>3, <1>4, <1>5

\* A handler copies nothing before it has a commit.
LEMMA FreshStep ==
  ASSUME BackedInv, [Next]_vars
  PROVE  Fresh'
<1> SUFFICES ASSUME NEW h \in Handlers, pc'[h] \in {"idle", "get"}
             PROVE  status'[h] = AllPending /\ build'[h] = NoBuilds
  BY SMTT(40) DEF Fresh
<1>1. TypeInv /\ pc \in [Handlers -> PC]
  BY Zenon DEF BackedInv, TypeInv, TypeOK
<1>2. pc[h] \in {"idle", "get"}
  <2>1. CASE UNCHANGED vars \/ Push \/ \E w \in Workers : WorkerStep(w)
    BY <2>1, ZenonT(60) DEF vars, Push, WorkerStep, ReceiveStatus, UpdateBadgeStatus,
                UpdateBadgeStatusFails
  <2>2. ASSUME NEW g \in Handlers, Receive(g) PROVE pc[h] \in {"idle", "get"}
    BY <1>1, <2>2, Zenon DEF Receive, ProcessPullRequest, ProcessIssueComment
  <2>3. ASSUME NEW g \in Handlers, Work(g) \/ Fail(g) PROVE pc[h] \in {"idle", "get"}
    BY <1>1, <2>3, ZenonT(60)
    DEF Work, GetPullRequest, ReadAttrs, ReadAttrsFails, SelectKeyword, LaunchDevice,
        SkipDevice, StartBadges, WriteBadge, ListComments, WriteComment, RetryComment,
        GiveUp, Fail, Finish
  <2> QED
    BY <2>1, <2>2, <2>3, SMTT(40) DEF Next
<1>3. status[h] = AllPending /\ build[h] = NoBuilds
  BY <1>2, SMTT(40) DEF BackedInv, Fresh
<1>4. ~(\E d \in Devices, t \in Tests : ReadAttrs(h, d, t))
      /\ ~(\E d \in Devices : LaunchDevice(h, d))
  BY <1>2, Zenon DEF ReadAttrs, LaunchDevice
<1> QED
  BY <1>1, <1>3, <1>4, HandlerFrame, SMTT(40)

\* The invariant of the badges holds when the service starts.
LEMMA BackedInit == Init => BackedInv
<1> SUFFICES ASSUME Init PROVE BackedInv
  OBVIOUS
<1>1. StoreBacked
  BY Zenon DEF Init, StoreBacked, Backed, BuildOf, Absent
<1>2. HandlersBacked
  BY Zenon DEF Init, HandlersBacked, Backed, BuildOf, AllPending, NoBuilds
<1>3. WorkersBacked
  BY DEF Init, WorkersBacked
<1>4. CommentsBacked
  BY DEF Init, CommentsBacked
<1>5. Fresh
  BY DEF Init, Fresh
<1> QED
  BY <1>1, <1>2, <1>3, <1>4, <1>5, InitType DEF BackedInv

\* Every step keeps it.
LEMMA BackedStep == BackedInv /\ [Next]_vars => BackedInv'
<1> SUFFICES ASSUME BackedInv, [Next]_vars PROVE BackedInv'
  OBVIOUS
<1>1. TypeInv'
  BY StepType DEF BackedInv
<1> QED
  BY <1>1, StoreStep, HandlersStep, WorkersStep, CommentsStep, FreshStep DEF BackedInv

(***************************************************************************)
(* Every badge beyond "pending authorization" has a job for its commit and *)
(* device: createBuild, populateObjectMetadata, updateBadges and           *)
(* updateBadgeStatus never invent or misplace a status.                    *)
(***************************************************************************)
THEOREM BadgesAreBacked == Spec => []BadgeBackedByJob
<1>1. BackedInv => BadgeBackedByJob
  BY Zenon DEF BackedInv, StoreBacked, Backed, BadgeBackedByJob
<1> QED
  BY <1>1, BackedInit, BackedStep, PTL DEF Spec

(***************************************************************************)
(* Every build link in a badge or a bot comment leads to a job of the same *)
(* commit and device.                                                      *)
(***************************************************************************)
THEOREM LinksMatch == Spec => []BuildLinksMatch
<1>1. BackedInv => BuildLinksMatch
  BY DEF BackedInv, StoreBacked, CommentsBacked, BuildLinksMatch
<1> QED
  BY <1>1, BackedInit, BackedStep, PTL DEF Spec
-----------------------------------------------------------------------------
(***************************************************************************)
(* RequestServed.  The argument follows a wanted device through            *)
(* createBuild: until it has a job it stays on the list of the handler,    *)
(* and the handler leaves the loop with an empty list.  A skipped device   *)
(* was launched by somebody, which is what BackedInv says of the status    *)
(* that made the handler skip it.                                          *)
(***************************************************************************)
\* A handler knows no commit before it asks for one, and only comments ask.
Identified ==
  \A h \in Handlers :
    /\ pc[h] \in {"idle", "get"} => sha[h] = 0
    /\ pc[h] # "idle" => kind[h] # "none"
    /\ pc[h] \in {"get", "attrs"} => kind[h] = "comment"

\* The events RequestServed speaks of.
Promised(h) ==
  /\ sha[h] # 0
  /\ kind[h] = "comment" => \E k \in Keywords : asked[h] = {k}
  /\ modifiedTests[sha[h]] # {}

Listing(h, d) == pc[h] = "launch" /\ \E t \in Tests : <<d, t>> \in todo[h]

\* A device asked for is on the list of createBuild until it has a job.
Looked ==
  \A h \in Handlers : Promised(h) /\ pc[h] \in {"launch", "badges", "write", "done"} =>
    \A d \in Wanted(h) : HasJob(sha[h], d) \/ Listing(h, d)

\* A pull request event neither lists nor launches hardware.
VirtualOnly ==
  \A h \in Handlers : kind[h] = "pull request" =>
    \A d \in Physical : <<h, d>> \notin jobs /\ ~Listing(h, d)

ServedInv == BackedInv /\ Identified /\ Looked /\ VirtualOnly

\* What handler h knows of its event, and has launched.
Same(h) ==
  /\ pc'[h] = pc[h] /\ kind'[h] = kind[h] /\ asked'[h] = asked[h]
  /\ sha'[h] = sha[h] /\ todo'[h] = todo[h]
  /\ \A d \in Devices : <<h, d>> \in jobs' <=> <<h, d>> \in jobs

\* config.go lists no hardware under the vendor and model of a virtual device.
LEMMA VirtualRequests == Requested(Virtual) \cap Physical = {}
<1> SUFFICES ASSUME NEW p \in Physical, NEW d \in Virtual,
                    MatchesVirtual(p, d) \/ MatchesPhysical(p, d)
             PROVE  FALSE
  BY DevicesAssumption, Zenon DEF Requested
<1>1. p \in [vendor : STRING, model : STRING] /\ d \in [vendor : STRING, model : STRING]
  BY DevicesAssumption, Zenon DEF Devices
<1>2. p.vendor = d.vendor /\ p.model = d.model
  BY DevicesAssumption, Zenon DEF MatchesVirtual, MatchesPhysical
<1>3. p = d
  BY <1>1, <1>2
<1> QED
  BY <1>3, DevicesAssumption, Zenon

\* A step is another handler's, or one of this handler's calls.
LEMMA OwnStep ==
  ASSUME TypeInv, [Next]_vars, NEW h \in Handlers
  PROVE  author' = author /\ (Same(h) \/ Receive(h) \/ Work(h) \/ Fail(h))
<1>1. /\ pc \in [Handlers -> PC] /\ kind \in [Handlers -> {"none", "pull request", "comment"}]
      /\ asked \in [Handlers -> SUBSET Keywords] /\ sha \in [Handlers -> 0 .. MaxCommits]
      /\ todo \in [Handlers -> SUBSET (Devices \X Tests)]
  BY Zenon DEF TypeInv, TypeOK
<1>2. ASSUME UNCHANGED vars \/ Push \/ \E w \in Workers : WorkerStep(w)
      PROVE  author' = author /\ Same(h)
  <2>1. UNCHANGED <<author, pc, kind, asked, sha, todo, jobs>>
    BY <1>2, ZenonT(60) DEF vars, serviceVars, localVars, Push, WorkerStep, ReceiveStatus,
                UpdateBadgeStatus, UpdateBadgeStatusFails
  <2> QED
    BY <2>1 DEF Same
<1>3. ASSUME NEW g \in Handlers, Receive(g) PROVE author' = author /\ (g # h => Same(h))
  <2>1. ASSUME NEW s \in Commits, ProcessPullRequest(g, s)
        PROVE  author' = author /\ (g # h => Same(h))
    <3>1. /\ \E x : pc' = [pc EXCEPT ![g] = x]
          /\ \E x : todo' = [todo EXCEPT ![g] = x]
          /\ UNCHANGED <<author, jobs, asked>>
      BY <2>1, Zenon DEF ProcessPullRequest, serviceVars
    <3> QED
      BY <1>1, <2>1, <3>1, Zenon DEF ProcessPullRequest, Same
  <2>2. ASSUME NEW u \in Users, NEW ks \in SUBSET Keywords, ProcessIssueComment(g, u, ks)
        PROVE  author' = author /\ (g # h => Same(h))
    BY <1>1, <2>2, Zenon DEF ProcessIssueComment, serviceVars, Same
  <2> QED
    BY <1>3, <2>1, <2>2 DEF Receive
<1>4. ASSUME NEW g \in Handlers, Work(g) PROVE author' = author /\ (g # h => Same(h))
  <2>1. CASE GetPullRequest(g) \/ StartBadges(g) \/ ListComments(g) \/ RetryComment(g)
             \/ \E k \in Keywords : SelectKeyword(g, k)
    BY <1>1, <2>1, Zenon DEF GetPullRequest, StartBadges, ListComments, RetryComment,
                      SelectKeyword, serviceVars, Same
  <2>2. ASSUME NEW d \in Devices, NEW t \in Tests,
               ReadAttrs(g, d, t) \/ ReadAttrsFails(g, d, t) \/ WriteBadge(g, d, t)
        PROVE  author' = author /\ (g # h => Same(h))
    BY <1>1, <2>2, Zenon DEF ReadAttrs, ReadAttrsFails, WriteBadge, serviceVars, Same
  <2>3. ASSUME NEW d \in Devices, SkipDevice(g, d) \/ LaunchDevice(g, d)
        PROVE  author' = author /\ (g # h => Same(h))
    BY <1>1, <2>3, Zenon DEF SkipDevice, LaunchDevice, serviceVars, Same
  <2>4. CASE WriteComment(g) \/ GiveUp(g)
    BY <1>1, <2>4, Zenon DEF WriteComment, GiveUp, Finish, serviceVars, Same
  <2> QED
    BY <1>4, <2>1, <2>2, <2>3, <2>4 DEF Work
<1>5. ASSUME NEW g \in Handlers, Fail(g) PROVE author' = author /\ (g # h => Same(h))
  BY <1>1, <1>5, Zenon DEF Fail, Finish, serviceVars, Same
<1> QED
  BY <1>2, <1>3, <1>4, <1>5 DEF Next

\* Every step keeps which handlers know a commit, and why.
LEMMA IdentifiedStep ==
  ASSUME ServedInv, [Next]_vars
  PROVE  Identified'
<1> SUFFICES ASSUME NEW h \in Handlers
             PROVE  /\ pc'[h] \in {"idle", "get"} => sha'[h] = 0
                    /\ pc'[h] # "idle" => kind'[h] # "none"
                    /\ pc'[h] \in {"get", "attrs"} => kind'[h] = "comment"
  BY DEF Identified
<1>1. /\ pc \in [Handlers -> PC] /\ kind \in [Handlers -> {"none", "pull request", "comment"}]
      /\ sha \in [Handlers -> 0 .. MaxCommits]
  BY Zenon DEF ServedInv, BackedInv, TypeInv, TypeOK
<1>2. /\ pc[h] \in {"idle", "get"} => sha[h] = 0
      /\ pc[h] # "idle" => kind[h] # "none"
      /\ pc[h] \in {"get", "attrs"} => kind[h] = "comment"
  BY DEF ServedInv, Identified
<1>3. CASE Same(h)
  BY <1>2, <1>3 DEF Same
<1>4. CASE Receive(h)
  <2>1. ASSUME NEW s \in Commits, ProcessPullRequest(h, s)
        PROVE  pc'[h] \in {"launch", "badges"} /\ kind'[h] = "pull request"
    BY <1>1, <2>1, Zenon DEF ProcessPullRequest
  <2>2. ASSUME NEW u \in Users, NEW ks \in SUBSET Keywords, ProcessIssueComment(h, u, ks)
        PROVE  pc'[h] \in {"get", "done"} /\ kind'[h] = "comment" /\ sha'[h] = 0
    BY <1>1, <1>2, <2>2, Zenon DEF ProcessIssueComment
  <2> QED
    BY <1>4, <2>1, <2>2, Zenon DEF Receive
<1>5. CASE Work(h)
  <2>1. CASE GetPullRequest(h) \/ StartBadges(h) \/ ListComments(h) \/ RetryComment(h)
             \/ \E k \in Keywords : SelectKeyword(h, k)
    BY <1>1, <1>2, <2>1, Zenon
    DEF GetPullRequest, StartBadges, ListComments, RetryComment, SelectKeyword
  <2>2. ASSUME NEW d \in Devices, NEW t \in Tests,
               ReadAttrs(h, d, t) \/ ReadAttrsFails(h, d, t) \/ WriteBadge(h, d, t)
        PROVE  UNCHANGED <<pc, kind, sha>>
    BY <2>2 DEF ReadAttrs, ReadAttrsFails, WriteBadge
  <2>3. ASSUME NEW d \in Devices, SkipDevice(h, d) \/ LaunchDevice(h, d)
        PROVE  UNCHANGED <<pc, kind, sha>>
    BY <2>3, Zenon DEF SkipDevice, LaunchDevice
  <2>4. CASE WriteComment(h) \/ GiveUp(h)
    BY <1>1, <1>2, <2>4, Zenon DEF WriteComment, GiveUp, Finish
  <2> QED
    BY <1>2, <1>5, <2>1, <2>2, <2>3, <2>4, Zenon DEF Work
<1>6. CASE Fail(h)
  BY <1>1, <1>2, <1>6, Zenon DEF Fail, Finish, Running
<1> QED
  BY <1>3, <1>4, <1>5, <1>6, OwnStep DEF ServedInv, BackedInv

\* The devices wanted do not change once the event is received.
LEMMA WantedStays ==
  ASSUME NEW h \in Handlers, author' = author, kind'[h] = kind[h], asked'[h] = asked[h]
  PROVE  Wanted(h)' = Wanted(h)
BY DEF Wanted

\* A device asked for is on the list of createBuild or has a job, after every
\* step.
LEMMA LookedStep ==
  ASSUME ServedInv, [Next]_vars
  PROVE  Looked'
<1> SUFFICES ASSUME NEW h \in Handlers, Promised(h)',
                    pc'[h] \in {"launch", "badges", "write", "done"},
                    NEW d \in Wanted(h)'
             PROVE  HasJob(sha[h], d)' \/ Listing(h, d)'
  BY DEF Looked
<1>1. /\ pc \in [Handlers -> PC] /\ kind \in [Handlers -> {"none", "pull request", "comment"}]
      /\ asked \in [Handlers -> SUBSET Keywords] /\ sha \in [Handlers -> 0 .. MaxCommits]
      /\ todo \in [Handlers -> SUBSET (Devices \X Tests)]
      /\ TypeInv /\ BackedInv /\ author' = author
  BY OwnStep, Zenon DEF ServedInv, BackedInv, TypeInv, TypeOK
<1>2. d \in Devices
  BY RequestedType, Zenon DEF Wanted
<1>3. HasJob(sha[h], d) /\ sha'[h] = sha[h] => HasJob(sha[h], d)'
  <2>1. ASSUME NEW s, s = sha[h], HasJob(s, d), sha'[h] = s PROVE HasJob(sha[h], d)'
    <3>1. HasJob(s, d)'
      BY <1>1, <1>2, <2>1, BackedStays, Zenon
    <3> QED
      BY <2>1, <3>1 DEF HasJob
  <2> QED
    BY <2>1, Zenon
<1>4. ASSUME kind'[h] = kind[h], asked'[h] = asked[h], sha'[h] = sha[h],
             pc[h] \in {"launch", "badges", "write", "done"}
      PROVE  HasJob(sha[h], d)' \/ Listing(h, d)
  <2>1. Promised(h) /\ d \in Wanted(h)
    BY <1>1, <1>4, WantedStays, Zenon DEF Promised
  <2>2. HasJob(sha[h], d) \/ Listing(h, d)
    BY <1>4, <2>1, Zenon DEF ServedInv, Looked
  <2> QED
    BY <1>3, <1>4, <2>2, Zenon
<1>5. CASE Same(h)
  <2>1. Listing(h, d) => Listing(h, d)'
    BY <1>5 DEF Same, Listing
  <2> QED
    BY <1>4, <1>5, <2>1 DEF Same
<1>6. CASE Receive(h)
  <2>1. ASSUME NEW s \in Commits, ProcessPullRequest(h, s)
        PROVE  Listing(h, d)'
    <3>1. kind'[h] = "pull request" /\ sha'[h] = s
      BY <1>1, <2>1, Zenon DEF ProcessPullRequest
    <3>2. author \in Authorized /\ d \in Requested(Virtual)
      BY <1>1, <3>1, Zenon DEF Wanted
    <3>3. pc'[h] = "launch" /\ todo'[h] = Badges(Requested(Virtual), s)
      BY <1>1, <2>1, <3>2, Zenon DEF ProcessPullRequest
    <3>4. modifiedTests[s] # {} /\ modifiedTests[s] \subseteq Tests
      BY <3>1, CommitsAssumption, Zenon DEF Promised
    <3> QED
      BY <3>2, <3>3, <3>4 DEF Badges, Listing
  <2>2. ASSUME NEW u \in Users, NEW ks \in SUBSET Keywords, ProcessIssueComment(h, u, ks)
        PROVE  FALSE
    BY <1>1, <2>2, Zenon DEF ProcessIssueComment, ServedInv, Identified, Promised
  <2> QED
    BY <1>6, <2>1, <2>2, Zenon DEF Receive
<1>7. CASE GetPullRequest(h)
  BY <1>1, <1>7, Zenon DEF GetPullRequest
<1>8. ASSUME NEW e \in Devices, NEW t \in Tests,
             ReadAttrs(h, e, t) \/ ReadAttrsFails(h, e, t) \/ WriteBadge(h, e, t)
      PROVE  HasJob(sha[h], d)' \/ Listing(h, d)'
  <2>1. /\ UNCHANGED <<pc, kind, asked, sha>>
        /\ pc[h] \in {"attrs", "badges"}
    BY <1>8, Zenon DEF ReadAttrs, ReadAttrsFails, WriteBadge
  <2> QED
    BY <1>4, <2>1, Zenon DEF Listing
<1>9. ASSUME NEW k \in Keywords, SelectKeyword(h, k)
      PROVE  Listing(h, d)'
  <2>1. /\ pc[h] = "attrs" /\ k \in asked[h] /\ UNCHANGED <<kind, asked, sha>>
        /\ pc'[h] = "launch"
        /\ todo'[h] = Badges(Requested(triggerKeywords[k]), sha[h])
    BY <1>1, <1>9, Zenon DEF SelectKeyword
  <2>2. kind'[h] = "comment"
    BY <2>1, Zenon DEF ServedInv, Identified
  <2>3. asked'[h] = {k}
    BY <2>1, <2>2, Zenon DEF Promised
  <2>4. d \in Requested(triggerKeywords[k])
    BY <2>2, <2>3 DEF Wanted
  <2>5. sha[h] \in Commits
    BY <1>1, <2>1, Zenon DEF TypeInv, Bound, Running
  <2>6. modifiedTests[sha[h]] # {} /\ modifiedTests[sha[h]] \subseteq Tests
    BY <2>1, <2>5, CommitsAssumption DEF Promised
  <2> QED
    BY <2>1, <2>4, <2>6, Zenon DEF Badges, Listing
<1>10. ASSUME NEW e \in Devices, LaunchDevice(h, e)
       PROVE  HasJob(sha[h], d)' \/ Listing(h, d)'
  <2>1. /\ UNCHANGED <<pc, kind, asked, sha>>
        /\ pc[h] = "launch" /\ jobs' = jobs \cup {<<h, e>>}
        /\ todo'[h] = {x \in todo[h] : x[1] # e}
    BY <1>1, <1>10, Zenon DEF LaunchDevice
  <2>2. d = e => HasJob(sha[h], d)'
    BY <2>1 DEF HasJob
  <2>3. d # e /\ Listing(h, d) => Listing(h, d)'
    BY <2>1 DEF Listing
  <2> QED
    BY <1>4, <2>1, <2>2, <2>3, Zenon
<1>11. ASSUME NEW e \in Devices, SkipDevice(h, e)
       PROVE  HasJob(sha[h], d)' \/ Listing(h, d)'
  <2>1. /\ UNCHANGED <<pc, kind, asked, sha>>
        /\ pc[h] = "launch"
        /\ todo'[h] = {x \in todo[h] : x[1] # e}
        /\ \E t \in modifiedTests[sha[h]] : status[h][e][t] # "pending authorization"
    BY <1>1, <1>11, Zenon DEF SkipDevice
  <2>2. sha[h] \in Commits
    BY <1>1, <2>1, Zenon DEF TypeInv, Bound, Running
  <2>3. PICK t \in Tests : status[h][e][t] # "pending authorization"
    BY <2>1, <2>2, CommitsAssumption, Zenon
  <2>4. status[h][e][t] # "absent"
    <3>1. status \in [Handlers -> [Devices -> [Tests -> Status]]]
      BY <1>1, Zenon DEF TypeInv, TypeOK
    <3>2. status[h][e][t] \in Status
      BY <3>1
    <3> QED
      BY <3>2, PublishedAssumption, Zenon DEF Status
  <2>5. HasJob(sha[h], e)
    BY <1>1, <2>3, <2>4, Zenon DEF BackedInv, HandlersBacked, Backed
  <2>6. d # e /\ Listing(h, d) => Listing(h, d)'
    BY <2>1, Zenon DEF Listing
  <2> QED
    BY <1>3, <1>4, <2>1, <2>5, <2>6, Zenon
<1>12. ASSUME StartBadges(h) \/ ListComments(h) \/ RetryComment(h) \/ WriteComment(h)
       PROVE  HasJob(sha[h], d)' \/ Listing(h, d)'
  <2>1. /\ UNCHANGED <<kind, asked, sha>>
        /\ pc[h] \in {"launch", "badges", "write"}
        /\ pc[h] = "launch" => todo[h] = {}
    BY <1>12 DEF StartBadges, ListComments, RetryComment, WriteComment, Finish
  <2>2. ~Listing(h, d)
    BY <2>1, Zenon DEF Listing
  <2> QED
    BY <1>4, <2>1, <2>2
<1>13. ASSUME GiveUp(h) \/ Fail(h) PROVE pc'[h] = "failed"
  BY <1>1, <1>13, Zenon DEF GiveUp, Fail, Finish
<1>14. CASE Work(h)
  BY <1>7, <1>8, <1>9, <1>10, <1>11, <1>12, <1>13, <1>14, Zenon DEF Work
<1> QED
  BY <1>1, <1>5, <1>6, <1>13, <1>14, OwnStep, Zenon

\* No step puts hardware on the list of a pull request event.
LEMMA VirtualOnlyStep ==
  ASSUME ServedInv, [Next]_vars
  PROVE  VirtualOnly'
<1> SUFFICES ASSUME NEW h \in Handlers, kind'[h] = "pull request", NEW d \in Physical
             PROVE  <<h, d>> \notin jobs' /\ ~Listing(h, d)'
  BY Zenon DEF VirtualOnly
<1>1. /\ pc \in [Handlers -> PC] /\ kind \in [Handlers -> {"none", "pull request", "comment"}]
      /\ todo \in [Handlers -> SUBSET (Devices \X Tests)]
      /\ TypeInv /\ d \in Devices
  BY Zenon DEF ServedInv, BackedInv, TypeInv, TypeOK, Devices
<1>2. kind[h] = "pull request" => <<h, d>> \notin jobs /\ ~Listing(h, d)
  BY Zenon DEF ServedInv, VirtualOnly
<1>3. CASE Same(h)
  BY <1>1, <1>2, <1>3, Zenon DEF Same, Listing
<1>4. CASE Receive(h)
  <2>1. PICK s \in Commits : ProcessPullRequest(h, s)
    <3>1. ASSUME NEW u \in Users, NEW ks \in SUBSET Keywords, ProcessIssueComment(h, u, ks)
          PROVE  kind'[h] = "comment"
      BY <1>1, <3>1, Zenon DEF ProcessIssueComment
    <3> QED
      BY <1>4, <3>1, Zenon DEF Receive
  <2>2. pc[h] = "idle" /\ jobs' = jobs
    BY <2>1, Zenon DEF ProcessPullRequest
  <2>3. <<h, d>> \notin jobs'
    BY <1>1, <2>2, Zenon DEF TypeInv, Launched
  <2>4. \/ pc'[h] = "badges"
        \/ todo'[h] = Badges(Requested(Virtual), s)
    BY <1>1, <2>1, Zenon DEF ProcessPullRequest
  <2>5. d \notin Requested(Virtual)
    BY VirtualRequests, Zenon
  <2> QED
    BY <2>3, <2>4, <2>5, Zenon DEF Listing, Badges
<1>5. CASE Work(h)
  <2>1. CASE GetPullRequest(h) \/ StartBadges(h) \/ ListComments(h)
    <3>1. UNCHANGED <<kind, jobs>> /\ pc'[h] # "launch"
      BY <1>1, <2>1, Zenon DEF GetPullRequest, StartBadges, ListComments
    <3> QED
      BY <1>2, <3>1, Zenon DEF Listing
  <2>2. ASSUME NEW e \in Devices, NEW t \in Tests,
               ReadAttrs(h, e, t) \/ ReadAttrsFails(h, e, t) \/ WriteBadge(h, e, t)
        PROVE  <<h, d>> \notin jobs' /\ ~Listing(h, d)'
    <3>1. UNCHANGED <<kind, jobs, pc>> /\ pc[h] # "launch"
      BY <2>2, Zenon DEF ReadAttrs, ReadAttrsFails, WriteBadge
    <3> QED
      BY <1>2, <3>1, Zenon DEF Listing
  <2>3. ASSUME NEW k \in Keywords, SelectKeyword(h, k) PROVE FALSE
    BY <2>3, Zenon DEF SelectKeyword, ServedInv, Identified
  <2>4. ASSUME NEW e \in Devices, SkipDevice(h, e) \/ LaunchDevice(h, e)
        PROVE  <<h, d>> \notin jobs' /\ ~Listing(h, d)'
    <3>1. /\ UNCHANGED <<kind, pc>> /\ Listing(h, e)
          /\ jobs' \subseteq jobs \cup {<<h, e>>}
          /\ todo'[h] \subseteq todo[h]
      BY <1>1, <2>4, Zenon DEF SkipDevice, LaunchDevice, Listing
    <3>2. d # e
      BY <1>2, <3>1, Zenon
    <3> QED
      BY <1>2, <3>1, <3>2, Zenon DEF Listing
  <2>5. CASE RetryComment(h)
    BY <1>2, <2>5, Zenon DEF RetryComment, Listing
  <2>6. CASE WriteComment(h) \/ GiveUp(h)
    BY <1>1, <1>2, <2>6, Zenon DEF WriteComment, GiveUp, Finish, Listing
  <2> QED
    BY <1>5, <2>1, <2>2, <2>3, <2>4, <2>5, <2>6, Zenon DEF Work
<1>6. CASE Fail(h)
  BY <1>1, <1>2, <1>6, Zenon DEF Fail, Finish, Listing
<1> QED
  BY <1>1, <1>3, <1>4, <1>5, <1>6, OwnStep, Zenon

(***************************************************************************)
(* When the handler of a pull request event or of a comment with a single  *)
(* keyword returns without an error, every device asked for has a job on   *)
(* the commit, and a pull request event launches no hardware, whatever the *)
(* other handlers, the callbacks and the jobs do in between.               *)
(***************************************************************************)
THEOREM RequestsAreServed == Spec => []RequestServed
<1>1. Init => ServedInv
  <2>1. Init => Identified /\ Looked /\ VirtualOnly
    BY DEF Init, Identified, Looked, VirtualOnly, Listing
  <2> QED
    BY <2>1, BackedInit DEF ServedInv
<1>2. ServedInv /\ [Next]_vars => ServedInv'
  <2>1. ServedInv /\ [Next]_vars => BackedInv'
    BY BackedStep DEF ServedInv
  <2> QED
    BY <2>1, IdentifiedStep, LookedStep, VirtualOnlyStep DEF ServedInv
<1>3. ServedInv => RequestServed
  <2> SUFFICES ASSUME ServedInv, NEW h \in Handlers
               PROVE  Served(h) /\ \A d \in Physical : <<h, d>> \in jobs => kind[h] = "comment"
    BY DEF RequestServed
  <2>1. Served(h)
    BY Zenon DEF ServedInv, Looked, Listing, Promised, Served
  <2>2. ASSUME NEW d \in Physical, <<h, d>> \in jobs PROVE kind[h] = "comment"
    <3>1. kind[h] \in {"none", "pull request", "comment"} /\ pc[h] # "idle" /\ d \in Devices
      BY <2>2, Zenon DEF ServedInv, BackedInv, TypeInv, TypeOK, Launched, Devices
    <3> QED
      BY <2>2, <3>1, Zenon DEF ServedInv, Identified, VirtualOnly
  <2> QED
    BY <2>1, <2>2
<1> QED
  BY <1>1, <1>2, <1>3, PTL DEF Spec
=============================================================================
