------------------------------ MODULE CheckAwait ------------------------------
(***************************************************************************)
(* internal/check: a test awaits a list of validators, one after the       *)
(* other, against one deadline (AwaitUntil) or one context (Await), while  *)
(* the device's values change.  Await first looks the value up once, then  *)
(* watches it until it is valid, the context is done or the stream fails.  *)
(***************************************************************************)
EXTENDS Naturals, Sequences

CONSTANTS
  Kinds,      \* the validators of the list, a sequence of kinds
  MaxChanges  \* bound: changes of the watched value

Values == {"none", "want", "other"}
NoErr == "nil"

\* The validation functions of Equal, NotEqual, EqualOrNil, Present, NotPresent.
Valid(kind, v) ==
  CASE kind = "Equal" -> v = "want"
    [] kind = "NotEqual" -> v \notin {"none", "want"}
    [] kind = "EqualOrNil" -> v \in {"none", "want"}
    [] kind = "Present" -> v # "none"
    [] kind = "NotPresent" -> v = "none"

VARIABLES
  value, changes,
  expired,  \* the deadline has passed, or the context is done
  call,     \* "Await" or "AwaitUntil": how the list is awaited
  i,        \* the validator at work
  pc,       \* "call", "lookup", "watch", "returned"
  checkOnly,   \* Check instead of Await
  lastInvalid, \* the value last rejected, or NoErr
  seen,        \* the values fetched by this validator
  pending,     \* values the stream has yet to deliver
  results      \* per validator what it returned

vars == <<value, changes, expired, call, i, pc, checkOnly, lastInvalid, seen, pending, results>>
callVars == <<call, i, checkOnly>>

Init ==
  /\ value \in Values /\ changes = 0 /\ expired \in BOOLEAN
  /\ call \in {"Await", "AwaitUntil"} /\ i = 1 /\ pc = "call"
  /\ checkOnly = FALSE /\ lastInvalid = NoErr
  /\ seen = {} /\ pending = <<>> /\ results = <<>>

-----------------------------------------------------------------------------
Change(v) ==
  /\ changes < MaxChanges /\ v # value
  /\ value' = v /\ changes' = changes + 1
  /\ pending' = IF pc = "watch" THEN Append(pending, v) ELSE pending
  /\ UNCHANGED <<expired, callVars, pc, lastInvalid, seen, results>>

Expire == ~expired /\ expired' = TRUE
  /\ UNCHANGED <<value, changes, callVars, pc, lastInvalid, seen, pending, results>>

\* AwaitUntil with a deadline in the past is Check.
Call ==
  /\ pc = "call" /\ i <= Len(Kinds)
  /\ checkOnly' = (call = "AwaitUntil" /\ expired)
  /\ pc' = "lookup" /\ lastInvalid' = NoErr /\ seen' = {}
  /\ UNCHANGED <<value, changes, expired, call, i, pending, results>>

Return(cause, invalid) ==
  /\ results' = Append(results, [kind |-> Kinds[i], cause |-> cause, invalid |-> invalid, seen |-> seen'])
  /\ pc' = "call" /\ i' = i + 1 /\ pending' = <<>> /\ lastInvalid' = invalid
  /\ UNCHANGED <<value, changes, expired, call, checkOnly>>

\* Mutant: a context that is done ends Await before the first fetch.
Lookup_AfterContext ==
  /\ pc = "lookup"
  /\ IF expired /\ call = "Await" THEN seen' = {value} /\ Return("deadline", value)
     ELSE /\ seen' = {value}
          /\ IF Valid(Kinds[i], value) THEN Return(NoErr, NoErr)
             ELSE IF checkOnly THEN Return(NoErr, value)
             ELSE /\ pc' = "watch" /\ lastInvalid' = value /\ pending' = <<value>>
                  /\ UNCHANGED <<value, changes, expired, callVars, results>>

\* Check: ygnmi.Lookup has no deadline.
Lookup ==
  /\ pc = "lookup" /\ seen' = {value}
  /\ IF Valid(Kinds[i], value) THEN Return(NoErr, NoErr)
     ELSE IF checkOnly THEN Return(NoErr, value)
     ELSE /\ pc' = "watch" /\ lastInvalid' = value /\ pending' = <<value>>
          /\ UNCHANGED <<value, changes, expired, callVars, results>>

LookupFails == pc = "lookup" /\ seen' = seen /\ Return("network", NoErr)

\* Mutant: the watch ends with the first value it is given.
Deliver_First ==
  /\ pc = "watch" /\ pending # <<>>
  /\ seen' = seen \cup {Head(pending)}
  /\ Return(NoErr, NoErr)

\* The callback of ygnmi.Watch, given the values in their order.
Deliver ==
  /\ pc = "watch" /\ pending # <<>>
  /\ seen' = seen \cup {Head(pending)}
  /\ IF Valid(Kinds[i], Head(pending)) THEN Return(NoErr, NoErr)
     ELSE /\ lastInvalid' = Head(pending) /\ pending' = Tail(pending)
          /\ UNCHANGED <<value, changes, expired, callVars, pc, results>>

\* Mutant: the error of the first check is not kept.
WatchEnds_Bare(cause) ==
  /\ pc = "watch" /\ (cause = "deadline" => expired)
  /\ seen' = seen /\ Return(cause, NoErr)

\* Mutant: the watch is not given the context.
WatchEnds_NoContext(cause) ==
  /\ pc = "watch" /\ cause = "network"
  /\ seen' = seen /\ Return(cause, lastInvalid)

WatchEnds(cause) ==
  /\ pc = "watch" /\ (cause = "deadline" => expired)
  /\ seen' = seen /\ Return(cause, lastInvalid)

Done == pc = "call" /\ i > Len(Kinds) /\ UNCHANGED vars

Next ==
  \/ \E v \in Values : Change(v)
  \/ Expire \/ Call \/ Lookup \/ LookupFails \/ Deliver
  \/ \E cause \in {"deadline", "network"} : WatchEnds(cause)
  \/ Done

Spec == Init /\ [][Next]_vars
Fairness == WF_vars(Call \/ Lookup) /\ WF_vars(Deliver) /\ WF_vars(WatchEnds("deadline"))

-----------------------------------------------------------------------------
Passed(r) == r.cause = NoErr /\ r.invalid = NoErr

\* A validator that reports success was shown a value it accepts during the
\* call; one that fails for lack of time always says which value it last
\* rejected, even when its context is done before it is called, so "deadline
\* exceeded before any values were fetched" is not what Await reports.
VerdictsExplained ==
  \A k \in DOMAIN results : LET r == results[k] IN
    /\ Passed(r) => \E v \in r.seen : Valid(r.kind, v)
    /\ ~Passed(r) /\ r.cause # "network" => r.invalid \in r.seen /\ ~Valid(r.kind, r.invalid)

=============================================================================
