---------------------------- MODULE TestTracker ----------------------------
(***************************************************************************)
(* tools/addrundata/list_testtracker.go: the listing of all tests as a     *)
(* TestTracker plan, merged into the plan that an earlier run produced and *)
(* people have edited since.  A plan is a sequence of suites, one per test *)
(* section, and a suite a sequence of cases.  A case holds what the tool   *)
(* writes (uuid, plan, desc, dirs) and what people add (extra).  An entry  *)
(* with wf = FALSE is one the tool cannot read and must pass through.      *)
(***************************************************************************)
EXTENDS Naturals, SequencesExt

-----------------------------------------------------------------------------
(***************************************************************************)
(* tools/addrundata/lib.go: lessVersion, the order in which test sections  *)
(* and test plan IDs are listed.  versionTokenRE splits a string into      *)
(* tokens of a run of nondigits and a run of digits; here a version is     *)
(* that sequence of [word, digit], a word is its rank among the words used *)
(* and digit the sequence of the digits.                                   *)
(***************************************************************************)

(* A run of digits read as a number; only the empty run is not one, since  *)
(* no test plan ID has the nineteen digits that would overflow strconv.    *)
Atoi(ds) == FoldLeft(LAMBDA n, c : 10 * n + c, 0, ds)

IsNumber(ds) == ds # <<>>

(* s < t for Go strings. *)
LessString(s, t) ==
  \/ \E i \in 1..Len(s) : i \in 1..Len(t) /\ s[i] < t[i] /\ \A j \in 1..(i - 1) : s[j] = t[j]
  \/ Len(s) < Len(t) /\ \A j \in 1..Len(s) : s[j] = t[j]

LessToken_Text(a, b) ==
  \/ a.word < b.word
  \/ a.word = b.word /\ LessString(a.digit, b.digit)

LessToken(a, b) ==
  \/ a.word < b.word
  \/ /\ a.word = b.word
     /\ IF IsNumber(a.digit) /\ IsNumber(b.digit) /\ Atoi(a.digit) # Atoi(b.digit)
        THEN Atoi(a.digit) < Atoi(b.digit)
        ELSE LessString(a.digit, b.digit)

lessVersion(x, y) ==
  \/ \E i \in 1..Len(x) : /\ i \in 1..Len(y) /\ LessToken(x[i], y[i])
                          /\ \A j \in 1..(i - 1) : x[j] = y[j]
  \/ Len(x) < Len(y) /\ \A j \in 1..Len(x) : x[j] = y[j]
-----------------------------------------------------------------------------

CONSTANTS
  Suites,      \* what the test directories may hold: [dirs -> rundata]
  Plans,       \* the JSON plans a first run may merge with
  MaxRuns

VARIABLES
  ts,          \* the testsuite the run reads
  json,        \* the children of the plan
  ttp,         \* the ttPlan being merged: section -> UUID -> case
  pc, outcome, run,
  before,      \* the plan that the last merge started from
  listed       \* the testsuite that the last merge listed

vars == <<ts, json, ttp, pc, outcome, run, before, listed>>

Nil == [st |-> "nil"]

-----------------------------------------------------------------------------
(* Sections and grouping.                                                  *)

Dot == 1     \* the rank of "."

(* The tokens before the first ".". *)
testSection(p) ==
  LET dots == {i \in 1..Len(p) : p[i].word = Dot}
  IN IF dots = {} THEN p
     ELSE SubSeq(p, 1, (CHOOSE i \in dots : \A j \in dots : i <= j) - 1)

Uuids == {ts[d].uuid : d \in DOMAIN ts}

At(u) == {d \in DOMAIN ts : ts[d].uuid = u}

Kinds(u) == {d.kind : d \in At(u)}

Sections == {testSection(ts[d].plan) : d \in DOMAIN ts}

Consistent_Plan == \A d, e \in DOMAIN ts : ts[d].uuid = ts[e].uuid => ts[d].plan = ts[e].plan

(* ttBuildPlan compares every test with the first that has its UUID, in    *)
(* the order of a Go map; reduceMetadata has left the three fields.        *)
Consistent == \A d, e \in DOMAIN ts : ts[d].uuid = ts[e].uuid => ts[d] = ts[e]

DirChoices_One(u) == {[k \in {d.kind} |-> d] : d \in At(u)}

(* Of two directories of one kind the later in the map's order remains. *)
DirChoices(u) ==
  {f \in [Kinds(u) -> At(u)] : \A k \in Kinds(u) : f[k].kind = k}

CaseOf(u, dirs) ==
  LET md == ts[CHOOSE d \in At(u) : TRUE]
  IN [plan |-> md.plan, desc |-> md.desc, dirs |-> dirs]

PlanOf(dirs) ==
  [s \in Sections |->
     [u \in {v \in Uuids : \E d \in At(v) : testSection(ts[d].plan) = s} |->
        CaseOf(u, dirs[u])]]

-----------------------------------------------------------------------------
(* Merging.                                                                *)

(* ttCase.merge: overwrites what comes from the rundata, keeps the rest. *)
MergeCase_Anew(o, u, ttc) ==
  [wf |-> TRUE, uuid |-> u, plan |-> ttc.plan, desc |-> ttc.desc,
   dirs |-> ttc.dirs, extra |-> "default"]

MergeCase(o, u, ttc) ==
  [wf |-> TRUE, uuid |-> u, plan |-> ttc.plan, desc |-> ttc.desc,
   dirs |-> ttc.dirs, extra |-> o.extra]

NewCase == [extra |-> "default"]

(* bytp: which of the tests with a test plan ID a Go map keeps. *)
ByPlan(tts) ==
  {f \in [{tts[u].plan : u \in DOMAIN tts} -> DOMAIN tts] :
     \A p \in DOMAIN f : tts[f[p]].plan = p}

(* The tests that a child is updated from: by its test plan ID, else by    *)
(* its UUID, else none.                                                    *)
Target(child, tts, bytp) ==
  IF ~child.wf THEN {}
  ELSE IF child.plan # <<>> /\ child.plan \in DOMAIN bytp THEN {bytp[child.plan]}
  ELSE {child.uuid} \cap DOMAIN tts

(* What the child removes from the tests to be added. *)
Done_OwnUuid(child, tts, bytp) == IF child.wf THEN {child.uuid} ELSE {}

Done_Nothing(child, tts, bytp) == {}

Done(child, tts, bytp) == Target(child, tts, bytp)

(* The keys in the order of their versions, which leaves equal ones in any. *)
Sorted(version) ==
  {s \in SetToSeqs(DOMAIN version) :
     \A i, j \in 1..Len(s) : i < j => ~lessVersion(version[s[j]], version[s[i]])}

(* ttSuite.merge, as the set of its results. *)
MergeSuite(kids, tts) ==
  UNION {LET todos == DOMAIN tts \ UNION {Done(kids[i], tts, bytp) : i \in 1..Len(kids)}
             kept == [i \in 1..Len(kids) |->
                        LET t == Target(kids[i], tts, bytp)
                        IN IF t = {} THEN kids[i]
                           ELSE LET u == CHOOSE v \in t : TRUE
                                IN MergeCase(kids[i], u, tts[u])]
         IN {kept \o [i \in 1..Len(s) |-> MergeCase(NewCase, s[i], tts[s[i]])] :
               s \in Sorted([u \in todos |-> tts[u].plan])} :
         bytp \in ByPlan(tts)}

Known(suite) == suite.wf /\ suite.sec \in DOMAIN ttp

(* ttPlan.merge: the children that are there, then a new suite for every   *)
(* missing section.                                                        *)
WithSections(old) ==
  {old \o [i \in 1..Len(s) |-> [wf |-> TRUE, sec |-> s[i], kids |-> <<>>]] :
     s \in LET missing == DOMAIN ttp \ {old[i].sec : i \in {j \in 1..Len(old) : Known(old[j])}}
           IN Sorted([sec \in missing |-> sec])}

Merged(suite) ==
  IF Known(suite)
  THEN {[suite EXCEPT !.kids = k] : k \in MergeSuite(suite.kids, ttp[suite.sec])}
  ELSE {suite}

-----------------------------------------------------------------------------
Init ==
  /\ ts \in Suites /\ json \in Plans
  /\ ttp = <<>> /\ pc = "idle" /\ outcome = "none" /\ run = 0
  /\ before = json /\ listed = <<>>

(* reduceMetadata, then ttBuildPlan. *)
Build ==
  /\ pc = "idle" /\ run < MaxRuns /\ run' = run + 1
  /\ IF \E d \in DOMAIN ts : ts[d] = Nil
     THEN outcome' = "panic" /\ UNCHANGED <<ttp, pc>>
     ELSE IF Consistent
     THEN /\ \E dirs \in {f \in [Uuids -> UNION {DirChoices(u) : u \in Uuids}] :
                             \A u \in Uuids : f[u] \in DirChoices(u)} :
               ttp' = PlanOf(dirs)
          /\ pc' = "merge" /\ outcome' = "none"
     ELSE outcome' = "inconsistent" /\ UNCHANGED <<ttp, pc>>
  /\ UNCHANGED <<ts, json, before, listed>>

(* ttp.merge and the output, which the next run is given as -mergejson. *)
Merge ==
  /\ pc = "merge"
  /\ \E plan \in WithSections(json) :
       json' \in {f \in [1..Len(plan) -> UNION {Merged(plan[i]) : i \in 1..Len(plan)}] :
                    \A i \in 1..Len(plan) : f[i] \in Merged(plan[i])}
  /\ before' = json /\ listed' = ts
  /\ pc' = "idle" /\ outcome' = "written"
  /\ UNCHANGED <<ts, ttp, run>>

(* Tests are added, removed or renumbered before the next run. *)
Change ==
  /\ pc = "idle" /\ run < MaxRuns
  /\ ts' \in Suites /\ outcome' = "none"
  /\ UNCHANGED <<json, ttp, pc, run, before, listed>>

Next == Build \/ Merge \/ Change

Spec == Init /\ [][Next]_vars

-----------------------------------------------------------------------------
(* Properties.                                                             *)

Cases(suite) == {suite.kids[i] : i \in 1..Len(suite.kids)}

Written == outcome = "written"

(* Every test of the repository is in the plan that listTestTracker        *)
(* writes, in a suite of its section, under its UUID and with its present  *)
(* test plan ID and description, whatever the merged plan says of them.    *)
EveryTestListed ==
  Written => \A d \in DOMAIN ts : \E i \in 1..Len(json) :
     /\ json[i].wf /\ json[i].sec = testSection(ts[d].plan)
     /\ \E k \in Cases(json[i]) : k.wf /\ k.uuid = ts[d].uuid
                                  /\ k.plan = ts[d].plan /\ k.desc = ts[d].desc

(* The ATE, OTG and other versions of a test are one case that links the   *)
(* directory of each kind (ttBuildPlan), in whatever order they were met.  *)
VersionsCollated ==
  Written => \A d \in DOMAIN ts : \A i \in 1..Len(json) :
     json[i].wf => \A k \in Cases(json[i]) :
       (k.wf /\ k.uuid = ts[d].uuid /\ json[i].sec = testSection(ts[d].plan))
         => d.kind \in DOMAIN k.dirs /\ k.dirs[d.kind] \in At(ts[d].uuid)

(* A merge leaves every entry in its place: suites and cases that the tool *)
(* cannot read or that only the JSON knows are unchanged, and what people  *)
(* added to a case that is updated stays (ttPlan.merge, ttSuite.merge).    *)
EditsKept ==
  Written => /\ Len(before) <= Len(json)
             /\ \A i \in 1..Len(before) :
                  IF ~Known(before[i]) THEN json[i] = before[i]
                  ELSE /\ Len(before[i].kids) <= Len(json[i].kids)
                       /\ \A j \in 1..Len(before[i].kids) :
                            LET o == before[i].kids[j]
                                n == json[i].kids[j]
                            IN /\ n.extra = o.extra
                               /\ ~o.wf => n = o

(* No test plan ID is on two UUIDs. *)
PlansUnique ==
  \A d, e \in DOMAIN ts : ts[d].plan = ts[e].plan => ts[d].uuid = ts[e].uuid

OnePerKind == \A d, e \in DOMAIN ts : ts[d].uuid = ts[e].uuid /\ d.kind = e.kind => d = e

(* Listing the same tests again, merged with the plan that was just        *)
(* written, changes nothing: ttSuite.merge recognises each case it wrote.  *)
(* (A test plan ID on two UUIDs is what checkDuplicate reports; the order  *)
(* of a map then decides.)                                                 *)
StableStep ==
  pc = "merge" /\ listed = ts /\ PlansUnique /\ OnePerKind => json' = json

(* The sections that a merge adds are in the order of lessVersion, each    *)
(* before the next and never equal to it, with numbers by value: RT-2      *)
(* before RT-10 (ttPlan.sortedKeys).                                       *)
AddedInOrder ==
  Written => \A i, j \in (Len(before) + 1)..Len(json) : i < j =>
     LET a == json[i].sec
         b == json[j].sec
     IN a[1].word < b[1].word \/ (a[1].word = b[1].word /\ Atoi(a[1].digit) <= Atoi(b[1].digit))

(* Tests that share a UUID and differ in plan ID or description are never  *)
(* written to a plan: ttBuildPlan refuses them whichever it meets first.   *)
SharedUuidRefused ==
  Written => \A d, e \in DOMAIN ts : ts[d].uuid = ts[e].uuid => ts[d].desc = ts[e].desc
=============================================================================
