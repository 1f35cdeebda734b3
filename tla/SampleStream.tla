----------------------------- MODULE SampleStream -----------------------------
(***************************************************************************)
(* internal/samplestream: a SAMPLE subscription whose callback stores the  *)
(* samples, and a test that calls Next and AwaitNext.  AwaitNext starts a  *)
(* goroutine that shares the variable lastVal with the caller and is not   *)
(* stopped by the timeout.                                                 *)
(*                                                                         *)
(* A sample is a number (its position in the stream) and whether it        *)
(* satisfies the predicate.  Sleeping is a step during which samples may   *)
(* or may not arrive.                                                      *)
(***************************************************************************)
EXTENDS Naturals, Sequences

CONSTANTS
  MaxSamples, \* bound: samples the device sends
  MaxCalls    \* bound: calls of Next and AwaitNext

Nil == [id |-> 0, good |-> FALSE]
VARIABLES
  data,    \* s.data
  stored,  \* s.lastVal
  closed,
  caller,  \* "idle", "next", "await" (its first Next) or "select"
  began,   \* how many samples had arrived when the call began
  local,   \* AwaitNext's lastVal, shared with the goroutine
  loop,    \* the goroutine: "off", "test", "sleep" or "sent"
  ch,      \* the channel holds a value
  ret,     \* what the last call returned
  calls

vars == <<data, stored, closed, caller, began, local, loop, ch, ret, calls>>

Init ==
  /\ data = <<>> /\ stored = Nil /\ closed = FALSE
  /\ caller = "idle" /\ began = 0 /\ local = Nil /\ loop = "off" /\ ch = FALSE
  /\ ret = [call |-> "none", val |-> Nil, ok |-> FALSE] /\ calls = 0

-----------------------------------------------------------------------------
\* The callback of ygnmi.Watch; a sample without a value is skipped.
Receive(good) ==
  /\ ~closed /\ Len(data) < MaxSamples
  /\ stored' = [id |-> Len(data) + 1, good |-> good]
  /\ data' = Append(data, stored')
  /\ UNCHANGED <<closed, caller, began, local, loop, ch, ret, calls>>

Close == ~closed /\ closed' = TRUE /\ UNCHANGED <<data, stored, caller, began, local, loop, ch, ret, calls>>

\* Next and AwaitNext begin by sleeping one interval.  A goroutine left behind by
\* an earlier AwaitNext shares nothing with a later one, so one is followed.
Call(f) ==
  /\ caller = "idle" /\ calls < MaxCalls
  /\ f = "await" => loop \in {"off", "sent"}
  /\ caller' = f /\ began' = Len(data) /\ calls' = calls + 1
  /\ UNCHANGED <<data, stored, closed, local, loop, ch, ret>>

\* What Next returns after its sleep.
Next1 == stored

NextReturns ==
  /\ caller = "next" /\ caller' = "idle"
  /\ ret' = [call |-> "Next", val |-> Next1, ok |-> TRUE]
  /\ UNCHANGED <<data, stored, closed, began, local, loop, ch, calls>>

AwaitSpawns ==
  /\ caller = "await" /\ caller' = "select"
  /\ local' = Next1 /\ loop' = "test" /\ ch' = FALSE
  /\ UNCHANGED <<data, stored, closed, began, ret, calls>>

\* Mutant: the loop ends with any sample.
LoopTests_Any ==
  /\ loop = "test"
  /\ IF local = Nil THEN loop' = "sleep" /\ UNCHANGED ch ELSE loop' = "sent" /\ ch' = TRUE
  /\ UNCHANGED <<data, stored, closed, caller, began, local, ret, calls>>

\* Mutant: the loop never looks at a sample again once one did not satisfy it.
LoopTests_Stuck ==
  /\ loop = "test"
  /\ IF ~local.good THEN UNCHANGED <<loop, ch>> ELSE loop' = "sent" /\ ch' = TRUE
  /\ UNCHANGED <<data, stored, closed, caller, began, local, ret, calls>>

LoopTests ==
  /\ loop = "test"
  /\ IF local = Nil \/ ~local.good THEN loop' = "sleep" /\ UNCHANGED ch ELSE loop' = "sent" /\ ch' = TRUE
  /\ UNCHANGED <<data, stored, closed, caller, began, local, ret, calls>>

LoopWakes ==
  /\ loop = "sleep" /\ loop' = "test" /\ local' = Next1
  /\ UNCHANGED <<data, stored, closed, caller, began, ch, ret, calls>>

AwaitReturns ==
  /\ caller = "select" /\ ch
  /\ caller' = "idle" /\ ret' = [call |-> "AwaitNext", val |-> local, ok |-> TRUE]
  /\ ch' = FALSE /\ loop' = "off"
  /\ UNCHANGED <<data, stored, closed, began, local, calls>>

\* The timeout leaves the goroutine running; local is read while it may write.
AwaitTimesOut ==
  /\ caller = "select"
  /\ caller' = "idle" /\ ret' = [call |-> "AwaitNext", val |-> local, ok |-> FALSE]
  /\ UNCHANGED <<data, stored, closed, began, local, loop, ch, calls>>

Next ==
  \/ \E good \in BOOLEAN : Receive(good)
  \/ Close
  \/ \E f \in {"next", "await"} : Call(f)
  \/ NextReturns \/ AwaitSpawns \/ LoopTests \/ LoopWakes \/ AwaitReturns \/ AwaitTimesOut

Spec == Init /\ [][Next]_vars
Fairness == WF_vars(LoopTests) /\ WF_vars(LoopWakes) /\ WF_vars(NextReturns \/ AwaitSpawns)

-----------------------------------------------------------------------------
\* When AwaitNext reports success, the sample it returns satisfies the
\* predicate, although the goroutine that found it shares the variable.
AwaitTruthful == ret.call = "AwaitNext" /\ ret.ok => ret.val # Nil /\ ret.val.good
=============================================================================
