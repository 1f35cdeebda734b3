----------------------------- MODULE AddRundata -----------------------------
(***************************************************************************)
(* tools/addrundata: the tool that keeps a metadata.textproto beside every *)
(* test.  One run reads every test directory into memory, checks what it   *)
(* read and, with --fix, computes the rundata each test should have and    *)
(* replaces the files one after the other.  A run may fail or be killed    *)
(* between two files, and is then started again.                           *)
(*                                                                         *)
(* A UUID is [n, form]: n is which UUID it is and form how the file spells *)
(* it: "norm" (as uuid.String prints it), "raw" (parses to a version 4     *)
(* UUID, spelled otherwise), "bad" (does not parse, or another version)    *)
(* or "none" (empty).                                                      *)
(***************************************************************************)
EXTENDS FiniteSets, Naturals

CONSTANTS
  Trees,        \* the trees an author may start from: [Dirs -> entry]
  MaxRuns,      \* runs of the tool that are considered
  MaxFaults     \* failed system calls and kills that are considered

VARIABLES
  tree,         \* the directories on disk
  ts,           \* the testsuite map of the running process
  pc,           \* where the run is
  mode,         \* "check" or "fix": the -fix flag
  todo,         \* directories that ts.write has not visited
  at,           \* the directory whose file is being replaced
  updated,      \* ts.write has replaced a file
  outcome,      \* how the last run ended
  run, faults,
  settled       \* a --fix run has completed since the start

vars == <<tree, ts, pc, mode, todo, at, updated, outcome, run, faults, settled>>

-----------------------------------------------------------------------------
(* Paths and files.                                                        *)

toOTG(d) == IF d.kind = "ate_tests" THEN [d EXCEPT !.kind = "otg_tests"] ELSE d

Nil == [st |-> "nil"]

Rundata(p, dsc, u, tb) ==
  [st |-> "ok", plan |-> p, desc |-> dsc, uuid |-> u, testbed |-> tb]

ValidUuid(u) == u.form \in {"norm", "raw"}

(* uuid.NewRandom: a UUID no file has. *)
NewRandom(d) == [n |-> <<run, d>>, form |-> "norm"]

(* ts.read walks to a README.md and skips the ones non_test_readmes.txt lists. *)
Found(t) == {d \in DOMAIN t : t[d].readme.st # "none" /\ t[d].path # "exempt"}

(* The path is feature/<feature>/<subfeature>/<testkind>/<testname>, with  *)
(* a known test kind.                                                      *)
validPath(e) == e.path = "ok"

(* tc.read: a heading that parses, metadata that parse or are absent. *)
CaseReads(e) == e.readme.st = "ok" /\ e.meta.st \in {"ok", "nil"}

(* The package clause of a file, [base, suffix]; a file may have none. *)
checkPackageNameInFile(package) == package.suffix = "_test"

(* e.pkgs holds the package clauses of the directory's _test.go files. *)
checkGoTestFilePackageName(e) == \A package \in e.pkgs : checkPackageNameInFile(package)

Readable(e) == validPath(e) /\ CaseReads(e) /\ checkGoTestFilePackageName(e)

-----------------------------------------------------------------------------
(* The checks.                                                             *)

CaseOk(tc) ==
  /\ tc.existing # Nil
  /\ tc.existing.plan = tc.markdown.plan
  /\ tc.existing.desc = tc.markdown.desc
  /\ tc.existing.testbed # "UNSPECIFIED"
  /\ ValidUuid(tc.existing.uuid)

(* A heading "# : text" parses to an empty test plan ID, which is skipped. *)
NoPlan == ""
PlanKey(tc) == {tc.markdown.plan} \ {NoPlan}

UuidKey(tc) ==
  IF tc.existing = Nil \/ tc.existing.uuid.form = "none" THEN {} ELSE {tc.existing.uuid}

PlanKeys == [d \in DOMAIN ts |-> PlanKey(ts[d])]

UuidKeys == [d \in DOMAIN ts |-> UuidKey(ts[d])]

(* checkDuplicate meets the tests in the order of a Go map, which is any   *)
(* order: all that the order decides is which test of a key is first.      *)
Firsts(key) ==
  LET keys == UNION {key[d] : d \in DOMAIN ts}
  IN {f \in [keys -> DOMAIN ts] : \A k \in keys : k \in key[f[k]]}

NoDuplicate_AnyKind(key, wants) ==
  \A d \in DOMAIN ts : \A k \in key[d] :
     d.kind = wants[k].kind => d = wants[k]

NoDuplicate(key, wants) ==
  \A d \in DOMAIN ts : \A k \in key[d] : toOTG(d) = toOTG(wants[k])

Twins == {d \in DOMAIN ts : d.kind = "ate_tests" /\ toOTG(d) \in DOMAIN ts}

(* checkATEOTG reads the fields of both rundata, and has no test for nil.  *)
NilTwin == \E d \in Twins : Nil \in {ts[d].existing, ts[toOTG(d)].existing}

checkATEOTG ==
  \A d \in Twins : LET a == ts[d].existing
                       o == ts[toOTG(d)].existing
                   IN a.plan = o.plan /\ a.desc = o.desc /\ a.uuid = o.uuid

-----------------------------------------------------------------------------
(* The fixes.                                                              *)

FixedUuid_OnlyNormal(d) ==
  LET x == ts[d].existing
  IN IF x # Nil /\ x.uuid.form = "norm" THEN x.uuid ELSE NewRandom(d)

FixedUuid(d) ==
  LET x == ts[d].existing
  IN IF x # Nil /\ ValidUuid(x.uuid) THEN [x.uuid EXCEPT !.form = "norm"]
     ELSE NewRandom(d)

(* tc.fix returns before it looks at the testbed when the UUID is valid.   *)
FixedTestbed(d) ==
  LET x == ts[d].existing
      b == IF x = Nil THEN "UNSPECIFIED" ELSE x.testbed
  IN IF b = "UNSPECIFIED" /\ (x = Nil \/ ~ValidUuid(x.uuid))
     THEN "DUT_ATE_2LINKS" ELSE b

AteUuid_Own(d) == FixedUuid(d)

(* The second loop of ts.fix: an OTG test takes the UUID of its ATE test.  *)
AtesOf(d) == {a \in Twins : toOTG(a) = d}

Only(s) == CHOOSE a \in s : TRUE

AteUuid(d) == IF AtesOf(d) = {} THEN FixedUuid(d) ELSE FixedUuid(Only(AtesOf(d)))

fixed_KeepText(d) ==
  LET x == ts[d].existing
      h == IF x = Nil THEN ts[d].markdown ELSE x
  IN Rundata(h.plan, h.desc, AteUuid(d), FixedTestbed(d))

fixed(d) ==
  Rundata(ts[d].markdown.plan, ts[d].markdown.desc, AteUuid(d), FixedTestbed(d))

-----------------------------------------------------------------------------
(* A run of main.                                                          *)

Init ==
  /\ tree \in Trees
  /\ ts = <<>> /\ pc = "idle" /\ mode = "check" /\ todo = {} /\ at = {}
  /\ updated = FALSE /\ outcome = "none" /\ run = 0 /\ faults = 0
  /\ settled = FALSE

Exit(how) ==
  /\ pc' = "idle" /\ outcome' = how /\ todo' = {} /\ at' = {}

(* ts.read: any directory that cannot be read ends the run. *)
Read(m) ==
  /\ pc = "idle" /\ run < MaxRuns
  /\ run' = run + 1 /\ mode' = m /\ updated' = FALSE
  /\ LET dirs == Found(tree)
     IN IF \A d \in dirs : Readable(tree[d])
        THEN /\ ts' = [d \in dirs |-> [markdown |-> tree[d].readme,
                                       existing |-> tree[d].meta, fixed |-> Nil]]
             /\ pc' = "check" /\ outcome' = "none" /\ UNCHANGED <<todo, at>>
        ELSE ts' = <<>> /\ Exit("unreadable")
  /\ UNCHANGED <<tree, faults, settled>>

(* ts.check evaluates its four checks, whichever of them fail.  Without    *)
(* -fix its result is the run's; with -fix it is only logged.              *)
Check ==
  /\ pc = "check"
  /\ \E wp \in Firsts(PlanKeys), wu \in Firsts(UuidKeys) :
       LET ok == /\ \A d \in DOMAIN ts : CaseOk(ts[d])
                 /\ NoDuplicate(PlanKeys, wp)
                 /\ NoDuplicate(UuidKeys, wu)
                 /\ checkATEOTG
       IN IF NilTwin THEN Exit("panic")
          ELSE IF mode = "check" THEN Exit(IF ok THEN "passed" ELSE "problems")
          ELSE pc' = "fix" /\ UNCHANGED <<outcome, todo, at>>
  /\ UNCHANGED <<tree, ts, mode, updated, run, faults, settled>>

Fix ==
  /\ pc = "fix"
  /\ ts' = [d \in DOMAIN ts |-> [ts[d] EXCEPT !.fixed = fixed(d)]]
  /\ pc' = "write" /\ todo' = DOMAIN ts
  /\ UNCHANGED <<tree, mode, at, updated, outcome, run, faults, settled>>

UpToDate_Never(d) == FALSE

UpToDate(d) == ts[d].existing = ts[d].fixed

(* ts.write meets a test whose rundata did not change. *)
Noop(d) ==
  /\ pc = "write" /\ d \in todo /\ UpToDate(d)
  /\ todo' = todo \ {d}
  /\ UNCHANGED <<tree, ts, pc, mode, at, updated, outcome, run, faults, settled>>

CreateTemp_InPlace(d) ==
  /\ pc = "write" /\ d \in todo /\ ~UpToDate(d)
  /\ pc' = "rename" /\ at' = {d}
  /\ tree' = [tree EXCEPT ![d].meta = [st |-> "torn"]]
  /\ UNCHANGED <<ts, mode, todo, updated, outcome, run, faults, settled>>

(* tc.write writes the rundata to a temporary file of the directory ... *)
CreateTemp(d) ==
  /\ pc = "write" /\ d \in todo /\ ~UpToDate(d)
  /\ pc' = "rename" /\ at' = {d}
  /\ UNCHANGED <<tree, ts, mode, todo, updated, outcome, run, faults, settled>>

(* ... renames it ... *)
Rename(d) ==
  /\ pc = "rename" /\ d \in at
  /\ tree' = [tree EXCEPT ![d].meta = ts[d].fixed]
  /\ pc' = "remove"
  /\ UNCHANGED <<ts, mode, todo, at, updated, outcome, run, faults, settled>>

(* ... and removes the rundata_test.go that carried the rundata before. *)
Remove(d) ==
  /\ pc = "remove" /\ d \in at
  /\ tree' = [tree EXCEPT ![d].old = FALSE]
  /\ pc' = "write" /\ todo' = todo \ {d} /\ at' = {} /\ updated' = TRUE
  /\ UNCHANGED <<ts, mode, outcome, run, faults, settled>>

Written ==
  /\ pc = "write" /\ todo = {}
  /\ Exit(IF updated THEN "updated" ELSE "uptodate")
  /\ settled' = TRUE
  /\ UNCHANGED <<tree, ts, mode, updated, run, faults>>

(* A call of the operating system fails, or the process is killed. *)
Fault ==
  /\ pc \in {"fix", "write", "rename", "remove"} /\ faults < MaxFaults
  /\ faults' = faults + 1
  /\ Exit("failed")
  /\ UNCHANGED <<tree, ts, mode, updated, run, settled>>

Dirs == DOMAIN tree

Next ==
  \/ \E m \in {"check", "fix"} : Read(m)
  \/ Check \/ Fix \/ Written \/ Fault
  \/ \E d \in Dirs : Noop(d) \/ CreateTemp(d) \/ Rename(d) \/ Remove(d)

Spec == Init /\ [][Next]_vars

-----------------------------------------------------------------------------
(* Properties.                                                             *)

Meta(d) == tree[d].meta

Tests == Found(tree)

(* Two tests that are not the ATE and the OTG version of one test. *)
Unrelated(d, e) == d \in Tests /\ e \in Tests /\ toOTG(d) # toOTG(e)

(* Every test has whole rundata that repeats its README, no two unrelated  *)
(* tests share a UUID or a nonempty test plan ID, and the ATE and OTG      *)
(* versions of a test agree.                                               *)
Consistent ==
  /\ \A d \in Tests : /\ Meta(d).st = "ok"
                      /\ Meta(d).plan = tree[d].readme.plan
                      /\ Meta(d).desc = tree[d].readme.desc
                      /\ ValidUuid(Meta(d).uuid)
  /\ \A d, e \in Tests : Unrelated(d, e) =>
        /\ Meta(d).plan = Meta(e).plan => Meta(d).plan = NoPlan
        /\ Meta(d).uuid # Meta(e).uuid
  /\ \A d, e \in Tests : toOTG(d) = toOTG(e) => Meta(d).uuid = Meta(e).uuid

(* A pull request that passes the "Rundata Check" is consistent, in        *)
(* whatever order testsuite.check met the tests.                           *)
PassedIsConsistent == outcome = "passed" => Consistent

(* When a --fix run completes, however many runs were cut short before it, *)
(* every test's metadata.textproto repeats the heading of its README and   *)
(* holds a version 4 UUID.                                                 *)
FixRepairs ==
  outcome \in {"updated", "uptodate"} =>
    \A d \in Tests : /\ Meta(d).st = "ok"
                     /\ Meta(d).plan = tree[d].readme.plan
                     /\ Meta(d).desc = tree[d].readme.desc
                     /\ Meta(d).uuid.form = "norm"

(* When a --fix run completes, an ATE test and its OTG version have the    *)
(* same UUID (testsuite.fix), also when an earlier run was cut short after *)
(* it had given only one of them a new UUID.                               *)
TwinsShareUuid ==
  outcome \in {"updated", "uptodate"} =>
    \A d, e \in Tests : toOTG(d) = toOTG(e) => Meta(d).uuid = Meta(e).uuid

(* Once a --fix run has completed, another one finds everything up to      *)
(* date: testcase.write replaces no file and no test gets another UUID.    *)
FixIsIdempotent == settled => pc \notin {"rename", "remove"}

(* A metadata.textproto only ever changes to the whole rundata that the    *)
(* run computed for that test, whenever the run is cut short               *)
(* (testcase.write renames a finished file).                               *)
WholeStep ==
  \A d \in Dirs : Meta(d)' # Meta(d) => d \in DOMAIN ts /\ Meta(d)' = ts[d].fixed

(* A test that is not the OTG version of an ATE test keeps the UUID its    *)
(* file has, if that UUID is valid, in whatever spelling.                  *)
UuidStep ==
  \A d \in Tests : (/\ Meta(d).st = "ok" /\ ValidUuid(Meta(d).uuid)
                    /\ \A a \in Tests : toOTG(a) = d => a = d)
     => Meta(d)'.st = "ok" /\ Meta(d)'.uuid.n = Meta(d).uuid.n
=============================================================================
