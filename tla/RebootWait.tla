------------------------------- MODULE RebootWait -------------------------------
(***************************************************************************)
(* Three ways to wait for a device that was told to reboot:                *)
(*   containerz  WaitForReboot of internal/containerztest                  *)
(*   chassis     RebootChassis of internal/cfgplugins/gribifullscale.go    *)
(*   dut         RebootDUT of internal/helpers/cisco.go                    *)
(* The device keeps answering for a while, goes down, comes up, and brings *)
(* up its components one by one; it may do all of this between two polls.  *)
(***************************************************************************)
EXTENDS Naturals

CONSTANTS
  Waiters,      \* the functions above that the run is about
  Glitches,     \* a poll may fail although the device is up
  Components,   \* number of components with an oper-status
  MaxPolls,     \* bound: polls before the waiting time is over
  DelayPolls    \* bound: polls within the delay of the reboot request

VARIABLES
  waiter, alreadyDown,
  phase,      \* "serving" before the reboot, "down", "up" after it
  comps,      \* components that report a status
  pc,         \* "delay", "poll", "boottime", "components", "passed", "failed"
  wentDown, time,
  errors      \* t.Errorf was called

vars == <<waiter, alreadyDown, phase, comps, pc, wentDown, time, errors>>
device == <<phase, comps>>

Init ==
  /\ waiter \in Waiters /\ alreadyDown \in IF waiter = "containerz" THEN BOOLEAN ELSE {FALSE}
  /\ phase \in IF alreadyDown THEN {"down", "up"} ELSE {"serving"}
  /\ comps = IF phase = "serving" THEN Components ELSE 0
  /\ pc = IF waiter = "chassis" THEN "delay" ELSE "poll"
  /\ wentDown = alreadyDown /\ time = 0 /\ errors = FALSE

\* The device; a component may never come back.
GoDown == phase = "serving" /\ phase' = "down" /\ comps' = 0
ComeUp == phase = "down" /\ phase' = "up" /\ UNCHANGED comps
CompUp == phase = "up" /\ comps < Components /\ comps' = comps + 1 /\ UNCHANGED phase
Device == (GoDown \/ ComeUp \/ CompUp) /\ UNCHANGED <<waiter, alreadyDown, pc, wentDown, time, errors>>

Answers == phase # "down"
MayFail == ~Answers \/ Glitches

-----------------------------------------------------------------------------
\* Mutant: an answer is enough.
WaitForReboot_AnyAnswer ==
  /\ waiter = "containerz" /\ pc = "poll" /\ UNCHANGED <<waiter, alreadyDown, device, errors>>
  /\ \/ time = MaxPolls /\ pc' = "failed" /\ UNCHANGED <<time, wentDown>>
     \/ time < MaxPolls /\ MayFail /\ time' = time + 1 /\ wentDown' = TRUE /\ UNCHANGED pc
     \/ time < MaxPolls /\ Answers /\ pc' = "passed" /\ UNCHANGED <<time, wentDown>>

\* WaitForReboot: an answer counts once a poll has failed, and the time is limited.
WaitForReboot ==
  /\ waiter = "containerz" /\ pc = "poll" /\ UNCHANGED <<waiter, alreadyDown, device, errors>>
  /\ \/ time = MaxPolls /\ pc' = "failed" /\ UNCHANGED <<time, wentDown>>
     \/ time < MaxPolls /\ MayFail /\ time' = time + 1 /\ wentDown' = TRUE /\ UNCHANGED pc
     \/ time < MaxPolls /\ Answers /\ wentDown /\ pc' = "passed" /\ UNCHANGED <<time, wentDown>>
     \/ time < MaxPolls /\ Answers /\ ~wentDown /\ time' = time + 1 /\ UNCHANGED <<pc, wentDown>>

\* deviceBootStatus: the first answer ends the wait.
RebootDUT ==
  /\ waiter = "dut" /\ pc = "poll" /\ UNCHANGED <<waiter, alreadyDown, device, wentDown, errors>>
  /\ \/ Answers /\ pc' = "passed" /\ UNCHANGED time
     \/ MayFail /\ time < MaxPolls /\ time' = time + 1 /\ UNCHANGED pc
     \/ MayFail /\ time = MaxPolls /\ pc' = "failed" /\ UNCHANGED time

\* RebootChassis, while the delay runs: a lookup that fails fails the test.
ChassisDelay ==
  /\ waiter = "chassis" /\ pc = "delay" /\ UNCHANGED <<waiter, alreadyDown, device, wentDown, errors>>
  /\ \/ time = DelayPolls /\ pc' = "poll" /\ time' = 0
     \/ time < DelayPolls /\ Answers /\ time' = time + 1 /\ UNCHANGED pc
     \/ time < DelayPolls /\ MayFail /\ pc' = "failed" /\ time' = 0

\* The boot loop: past the limit it reports an error and goes on polling.
ChassisPoll ==
  /\ waiter = "chassis" /\ pc = "poll" /\ UNCHANGED <<waiter, alreadyDown, device, wentDown>>
  /\ \/ Answers /\ pc' = "boottime" /\ UNCHANGED <<time, errors>>
     \/ MayFail /\ time < MaxPolls /\ time' = time + 1 /\ UNCHANGED <<pc, errors>>
     \/ MayFail /\ time = MaxPolls /\ errors' = TRUE /\ UNCHANGED <<pc, time>>

\* The boot time must have advanced.
ChassisBootTime ==
  /\ waiter = "chassis" /\ pc = "boottime" /\ UNCHANGED <<waiter, alreadyDown, device, wentDown>>
  /\ errors' = (errors \/ phase = "serving")
  /\ pc' = IF Answers THEN "components" ELSE "failed"
  /\ time' = 0

\* Mutant: past the limit the component loop only reports an error.
ChassisComponents_NoFatal ==
  /\ waiter = "chassis" /\ pc = "components" /\ UNCHANGED <<waiter, alreadyDown, device, wentDown>>
  /\ \/ Answers /\ comps = Components /\ pc' = (IF errors THEN "failed" ELSE "passed") /\ UNCHANGED <<time, errors>>
     \/ Answers /\ comps # Components /\ time < MaxPolls /\ time' = time + 1 /\ UNCHANGED <<pc, errors>>
     \/ Answers /\ comps # Components /\ time = MaxPolls /\ errors' = TRUE /\ UNCHANGED <<pc, time>>
     \/ ~Answers /\ pc' = "failed" /\ UNCHANGED <<time, errors>>

\* Mutant: the component loop ends as soon as components report.
ChassisComponents_Some ==
  /\ waiter = "chassis" /\ pc = "components" /\ UNCHANGED <<waiter, alreadyDown, device, wentDown, errors>>
  /\ \/ Answers /\ comps > 0 /\ pc' = (IF errors THEN "failed" ELSE "passed") /\ UNCHANGED time
     \/ Answers /\ comps = 0 /\ time < MaxPolls /\ time' = time + 1 /\ UNCHANGED pc
     \/ Answers /\ comps = 0 /\ time = MaxPolls /\ pc' = "failed" /\ UNCHANGED time
     \/ ~Answers /\ pc' = "failed" /\ UNCHANGED time

\* The same number of components must report a status as before the reboot.
ChassisComponents ==
  /\ waiter = "chassis" /\ pc = "components" /\ UNCHANGED <<waiter, alreadyDown, device, wentDown, errors>>
  /\ \/ Answers /\ comps = Components /\ pc' = (IF errors THEN "failed" ELSE "passed") /\ UNCHANGED time
     \/ Answers /\ comps # Components /\ time < MaxPolls /\ time' = time + 1 /\ UNCHANGED pc
     \/ Answers /\ comps # Components /\ time = MaxPolls /\ pc' = "failed" /\ UNCHANGED time
     \/ ~Answers /\ pc' = "failed" /\ UNCHANGED time

Wait == \/ WaitForReboot \/ RebootDUT \/ ChassisDelay \/ ChassisPoll \/ ChassisBootTime \/ ChassisComponents
Next == Device \/ Wait
Spec == Init /\ [][Next]_vars
Fairness == WF_vars(Wait)

-----------------------------------------------------------------------------
\* A success of WaitForReboot or RebootChassis is for a reboot that took place: the
\* device that answers is not the one that has not gone down yet.  RebootDUT does
\* not compare boot times and can succeed before the device goes down.
RebootHappened == pc = "passed" /\ waiter # "dut" => phase = "up"

\* RebootChassis hands on a device whose components are all back.
ComponentsAreBack == pc = "passed" /\ waiter = "chassis" => comps = Components
=============================================================================
