----------------------------- MODULE CoreValidator -----------------------------
(***************************************************************************)
(* internal/core: before the tests a checker is registered for every       *)
(* device and lists its core files; after the tests the files are listed   *)
(* again, and new ones fail the run.  Each check runs in a goroutine per   *)
(* device: it lists the directory and then stats every file it listed.     *)
(***************************************************************************)
EXTENDS FiniteSets

CONSTANTS
  DUTs,
  Supported,  \* devices whose vendor has a core path and pattern
  Cores       \* core file names

VARIABLES
  files,     \* the core files on each device
  phase,     \* "register", "initial", "tests", "final", "over"
  todo,      \* devices not registered yet
  duts,      \* v.duts: devices with a checker
  job,       \* per device its goroutine: "off", "list", "stat", "done"
  listing,   \* what the goroutine has listed
  prevCores, \* c.prevCores
  delta,     \* the result of the goroutine's check
  checkOK,   \* per device whether the initial and the final check succeeded
  old,       \* ghost: files there since registration began
  appeared,  \* ghost: files under new names created during the tests and still there
  verdict    \* "none", "pass" or "fail"

vars == <<files, phase, todo, duts, job, listing, prevCores, delta, checkOK, old, appeared, verdict>>
Empty == [d \in DUTs |-> {}]

Init ==
  /\ files \in [DUTs -> SUBSET Cores] /\ old = files
  /\ phase = "register" /\ todo = DUTs /\ duts = {}
  /\ job = [d \in DUTs |-> "off"] /\ listing = Empty /\ prevCores = Empty /\ delta = Empty
  /\ checkOK = [d \in DUTs |-> {}] /\ appeared = Empty /\ verdict = "none"

-----------------------------------------------------------------------------
\* The devices: a process crashes, an old core is cleaned up.
Crash(d, f) ==
  /\ f \notin files[d] /\ phase # "over"
  /\ files' = [files EXCEPT ![d] = @ \cup {f}]
  /\ appeared' = IF phase = "tests" /\ f \notin prevCores[d]
                   THEN [appeared EXCEPT ![d] = @ \cup {f}] ELSE appeared
  /\ UNCHANGED <<phase, todo, duts, job, listing, prevCores, delta, checkOK, old, verdict>>

Remove(d, f) ==
  /\ f \in files[d] /\ phase # "over"
  /\ files' = [files EXCEPT ![d] = @ \ {f}]
  /\ appeared' = [appeared EXCEPT ![d] = @ \ {f}] /\ old' = [old EXCEPT ![d] = @ \ {f}]
  /\ UNCHANGED <<phase, todo, duts, job, listing, prevCores, delta, checkOK, verdict>>

\* newChecker: an unsupported vendor or a failing dial skips the device.
Register(d, dialed) ==
  /\ phase = "register" /\ d \in todo
  /\ todo' = todo \ {d}
  /\ duts' = IF d \in Supported /\ dialed THEN duts \cup {d} ELSE duts
  /\ UNCHANGED <<files, phase, job, listing, prevCores, delta, checkOK, old, appeared, verdict>>

\* start and stop: one goroutine for every registered device.
StartCheck ==
  /\ \/ phase = "register" /\ todo = {} /\ phase' = "initial"
     \/ phase = "tests" /\ phase' = "final"
  /\ job' = [d \in DUTs |-> IF d \in duts THEN "list" ELSE "off"]
  /\ delta' = Empty
  /\ UNCHANGED <<files, todo, duts, listing, prevCores, checkOK, old, appeared, verdict>>

\* checkCores: Stat of the directory.
List(d) ==
  /\ job[d] = "list"
  /\ job' = [job EXCEPT ![d] = "stat"] /\ listing' = [listing EXCEPT ![d] = files[d]]
  /\ UNCHANGED <<files, phase, todo, duts, prevCores, delta, checkOK, old, appeared, verdict>>

\* Mutant: the reference is replaced before the new files are told from it.
Stat_ReplacesFirst(d) ==
  /\ job[d] = "stat" /\ listing[d] \subseteq files[d]
  /\ job' = [job EXCEPT ![d] = "done"]
  /\ prevCores' = [prevCores EXCEPT ![d] = listing[d]]
  /\ delta' = [delta EXCEPT ![d] = listing[d] \ prevCores'[d]]
  /\ checkOK' = [checkOK EXCEPT ![d] = @ \cup {phase}]
  /\ UNCHANGED <<files, phase, todo, duts, listing, old, appeared, verdict>>

\* Mutant: the initial files are reported again at the end.
Stat_Forgets(d) ==
  /\ job[d] = "stat" /\ listing[d] \subseteq files[d]
  /\ job' = [job EXCEPT ![d] = "done"]
  /\ delta' = [delta EXCEPT ![d] = listing[d] \ prevCores[d]]
  /\ checkOK' = [checkOK EXCEPT ![d] = @ \cup {phase}]
  /\ UNCHANGED <<files, phase, todo, duts, listing, prevCores, old, appeared, verdict>>

\* checkCores and check: every listed file is found; the new ones are the delta.
Stat(d) ==
  /\ job[d] = "stat" /\ listing[d] \subseteq files[d]
  /\ job' = [job EXCEPT ![d] = "done"]
  /\ delta' = [delta EXCEPT ![d] = listing[d] \ prevCores[d]]
  /\ prevCores' = [prevCores EXCEPT ![d] = listing[d]]
  /\ checkOK' = [checkOK EXCEPT ![d] = @ \cup {phase}]
  /\ UNCHANGED <<files, phase, todo, duts, listing, old, appeared, verdict>>

\* A Stat fails, or a listed file is gone: the device has no files in the report.
CheckFails(d) ==
  /\ job[d] \in {"list", "stat"}
  /\ job' = [job EXCEPT ![d] = "done"]
  /\ UNCHANGED <<files, phase, todo, duts, listing, prevCores, delta, checkOK, old, appeared, verdict>>

\* wg.Wait; registerBefore only reports, registerAfter fails the run.
Finish ==
  /\ phase \in {"initial", "final"} /\ \A d \in duts : job[d] = "done"
  /\ phase' = IF phase = "initial" THEN "tests" ELSE "over"
  /\ verdict' = IF phase = "initial" THEN verdict
                ELSE IF \E d \in duts : delta[d] # {} THEN "fail" ELSE "pass"
  /\ UNCHANGED <<files, todo, duts, job, listing, prevCores, delta, checkOK, old, appeared>>

Next ==
  \/ \E d \in DUTs : \/ \E f \in Cores : Crash(d, f) \/ Remove(d, f)
                     \/ \E dialed \in BOOLEAN : Register(d, dialed)
                     \/ List(d) \/ Stat(d) \/ CheckFails(d)
  \/ StartCheck \/ Finish

Spec == Init /\ [][Next]_vars

-----------------------------------------------------------------------------
\* A run that passes missed no core of a device whose final check worked: a
\* process that crashed during the tests, on any device, fails the run however
\* the goroutines of the check interleave with it.
CrashesFailTheRun ==
  verdict = "pass" =>
    \A d \in duts : "final" \in checkOK[d] => appeared[d] = {}

\* When the initial check of a device worked, no core that was there before the
\* registration is held against the run.
OldCoresAreForgiven ==
  verdict # "none" => \A d \in duts : "initial" \in checkOK[d] => delta[d] \cap old[d] = {}
=============================================================================
