------------------------------- MODULE Containerz -------------------------------
(***************************************************************************)
(* internal/containerztest: Setup removes what an earlier test left,       *)
(* pushes the image, starts the container and waits for it; the function   *)
(* it returns stops and removes the container.  Every call to the device   *)
(* may fail, and a container may crash and be restarted by its policy.     *)
(***************************************************************************)
EXTENDS Naturals

CONSTANTS
  GivenNames,   \* the instance names a caller passes; "" leaves it to the default
  PollTimeout   \* bound: polls before the context of WaitForRunning expires

Default == "test-instance"
Names == GivenNames \cup {Default}

VARIABLES
  given,     \* opts.InstanceName
  removeImage, poll,   \* RemoveExistingImage, PollForRunningState
  pc,
  inst,      \* per name: "absent", "starting", "running", "stopped"
  ours,      \* the instance was started by this call
  image,     \* the image is on the device
  time,      \* polls made
  failed     \* a call of the clean-up failed

vars == <<given, removeImage, poll, pc, inst, ours, image, time, failed>>
opts == <<given, removeImage, poll>>

Init ==
  /\ given \in GivenNames /\ removeImage \in BOOLEAN /\ poll \in BOOLEAN
  /\ pc = "remove" /\ inst \in [Names -> {"absent", "running", "stopped"}]
  /\ ours = FALSE /\ image \in BOOLEAN /\ time = 0 /\ failed = FALSE

\* withDefaults
InstanceName == IF given = "" THEN Default ELSE given

-----------------------------------------------------------------------------
\* DeployAndStart, 1 and 2: errors are logged and the start goes on.
RemoveExisting ==
  /\ pc = "remove" /\ pc' = "push"
  /\ inst' \in {inst, [inst EXCEPT ![InstanceName] = "absent"]}
  /\ image' \in IF removeImage THEN {image, FALSE} ELSE {image}
  /\ UNCHANGED <<opts, ours, time, failed>>

\* 3 and 4: a push that fails may leave nothing, and the list decides.
PushImage ==
  /\ pc = "push"
  /\ \/ image' = TRUE /\ pc' = "start"
     \/ image' \in BOOLEAN /\ pc' = "fatal"
  /\ UNCHANGED <<opts, inst, ours, time, failed>>

\* Mutant: the error of StartContainer is dropped.
StartContainer_Unchecked ==
  /\ pc = "start"
  /\ IF inst[InstanceName] = "absent"
       THEN ours' = TRUE /\ inst' = [inst EXCEPT ![InstanceName] = "starting"]
       ELSE UNCHANGED <<ours, inst>>
  /\ pc' = IF poll THEN "poll" ELSE "test"
  /\ UNCHANGED <<opts, image, time, failed>>

\* 5: the device refuses a name that is in use.
StartContainer ==
  /\ pc = "start"
  /\ \/ /\ inst[InstanceName] = "absent" /\ ours' = TRUE
        /\ inst' = [inst EXCEPT ![InstanceName] = "starting"]
        /\ pc' = IF poll THEN "poll" ELSE "test"
     \/ pc' = "fatal" /\ UNCHANGED <<inst, ours>>
  /\ UNCHANGED <<opts, image, time, failed>>

\* Mutant: every list call gets the whole timeout again.
WaitForRunning_TimeoutPerCall ==
  /\ pc = "poll"
  /\ \/ inst[InstanceName] = "running" /\ pc' = "test" /\ UNCHANGED time
     \/ time' = (time + 1) % (PollTimeout + 1) /\ UNCHANGED pc
  /\ UNCHANGED <<opts, inst, ours, image, failed>>

\* 6: list until the instance is running; a list that fails is repeated, and both
\* look at the context before they go on.
WaitForRunning ==
  /\ pc = "poll"
  /\ \/ inst[InstanceName] = "running" /\ pc' = "test" /\ UNCHANGED time
     \/ time < PollTimeout /\ time' = time + 1 /\ UNCHANGED pc
     \/ time = PollTimeout /\ pc' = "fatal" /\ UNCHANGED time
  /\ UNCHANGED <<opts, inst, ours, image, failed>>

\* The clean-up: Stop, whose errors are only logged.  A name that is not on the
\* device is not found, which is no error.
Stop ==
  /\ pc = "test" /\ pc' = "cleanup"
  /\ \/ failed' = TRUE /\ UNCHANGED inst
     \/ /\ UNCHANGED failed
        /\ inst' = IF given \in Names /\ inst[given] # "absent"
                     THEN [inst EXCEPT ![given] = "stopped"] ELSE inst
  /\ UNCHANGED <<opts, ours, image, time>>

\* Mutant: only a running container is removed.
RemoveContainer_IfRunning ==
  /\ pc = "cleanup" /\ pc' = "done"
  /\ \/ failed' = TRUE /\ UNCHANGED inst
     \/ UNCHANGED failed /\ inst' = [inst EXCEPT ![given] = IF @ = "stopped" THEN @ ELSE "absent"]
  /\ UNCHANGED <<opts, ours, image, time>>

RemoveContainer ==
  /\ pc = "cleanup" /\ pc' = "done"
  /\ \/ failed' = TRUE /\ UNCHANGED inst
     \/ UNCHANGED failed /\ inst' = [inst EXCEPT ![given] = "absent"]
  /\ UNCHANGED <<opts, ours, image, time>>

\* The device: a container comes up, crashes, and is started again by the policy
\* "Always" or by a restart of the daemon.
Device ==
  \E n \in Names :
    /\ \/ inst[n] \in {"starting", "stopped"} /\ inst' = [inst EXCEPT ![n] = "running"]
       \/ inst[n] \in {"starting", "running"} /\ inst' = [inst EXCEPT ![n] = "stopped"]
    /\ UNCHANGED <<opts, pc, ours, image, time, failed>>

Program == RemoveExisting \/ PushImage \/ StartContainer \/ WaitForRunning \/ Stop \/ RemoveContainer
Next == Program \/ Device
Spec == Init /\ [][Next]_vars
Fairness == WF_vars(Program)

-----------------------------------------------------------------------------
\* The clean-up function that Setup returns removes the container it started,
\* unless a call of the clean-up itself fails; not even the restart policy brings
\* it back.
CleanupRemoves == pc = "done" /\ ~failed => inst[InstanceName] = "absent"

\* A test never runs against a container that an earlier test left behind under
\* the same name: removal errors are ignored, the error of the start is not.
TestUsesOwnContainer == pc = "test" => ours /\ image
=============================================================================
