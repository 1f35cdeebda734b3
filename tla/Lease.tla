--------------------------------- MODULE Lease ---------------------------------
(***************************************************************************)
(* What the static binding promises: an exclusive lease of a testbed and   *)
(* of the sessions opened on its traffic generators.  The lease is pending *)
(* while it is acquired or given back, also after a failure, and free only *)
(* when every session is gone.                                             *)
(***************************************************************************)
CONSTANT SessionIds
VARIABLES state, held

Init == state = "free" /\ held = {}

Take == state = "free" /\ state' = "pending" /\ held' = held
Open == /\ state = "pending" /\ state' = "pending"
        /\ \E s \in SessionIds \ held : held' = held \cup {s}
Grant == state = "pending" /\ state' = "granted" /\ held' = held
GiveBack == state = "granted" /\ state' = "pending" /\ held' = held
Drop == \E s \in held : held' = held \ {s} /\ state' = state
Free == state = "pending" /\ held = {} /\ state' = "free" /\ held' = held

Next == Take \/ Open \/ Grant \/ GiveBack \/ Drop \/ Free
Spec == Init /\ [][Next]_<<state, held>>
=============================================================================
