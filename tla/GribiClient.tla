------------------------------ MODULE GribiClient ------------------------------
(***************************************************************************)
(* internal/gribi: clients that become leader by learning the server's     *)
(* election id and sending the next one, and that add and delete entries   *)
(* and then look for the expected result among all the results the fluent  *)
(* client has collected, whatever their operation.                         *)
(*                                                                         *)
(* An election id is a pair of words (the code's are 64 bits wide).        *)
(* A test uses its clients from one goroutine, so calls do not overlap.    *)
(***************************************************************************)
EXTENDS Naturals, FiniteSets

CONSTANTS
  Clients,
  Words,     \* values of a word of the election id: 2^64 in the code
  Entries,   \* entries: prefixes, groups or next hops
  MaxOps     \* bound: modify operations

Word == 0 .. Words - 1
Id == [low : Word, high : Word]
Value(id) == id.high * Words + id.low

\* Mutant: the low word wraps without a carry.
Increment_NoCarry(id) == [low |-> (id.low + 1) % Words, high |-> id.high]

Increment(id) ==
  LET low == (id.low + 1) % Words
  IN [low |-> low, high |-> IF low < id.low THEN (id.high + 1) % Words ELSE id.high]

Decrement(id) ==
  LET low == (id.low + Words - 1) % Words
  IN [low |-> low, high |-> IF low > id.low THEN (id.high + Words - 1) % Words ELSE id.high]

VARIABLES
  server,    \* the server's election id
  sent,      \* per client the id it last sent, as the server knows it
  own,       \* c.electionID
  started,   \* clients with a session
  rib,       \* entries the server holds
  results,   \* per client the results its fluent client has collected
  ops,
  last       \* the last call: who, what, whether its own operation succeeded, and the verdict

vars == <<server, sent, own, started, rib, results, ops, last>>
NoCall == [call |-> "none"]
One == [low |-> 1, high |-> 0]

Init ==
  /\ server \in Id /\ sent = [c \in Clients |-> One] /\ own = [c \in Clients |-> One]
  /\ started = {} /\ rib \in SUBSET Entries /\ results = [c \in Clients |-> {}]
  /\ ops = 0 /\ last = NoCall

-----------------------------------------------------------------------------
\* The server: the highest id counts, and its latest sender leads.
Highest(a, b) == IF Value(a) >= Value(b) THEN a ELSE b
Leads(c) == c \in started /\ sent[c] = server

Start(c) ==
  /\ c \notin started /\ started' = started \cup {c}
  /\ own' = [own EXCEPT ![c] = One] /\ sent' = [sent EXCEPT ![c] = One]
  /\ server' = Highest(One, server) /\ results' = [results EXCEPT ![c] = {}]
  /\ last' = NoCall /\ UNCHANGED <<rib, ops>>

Close(c) ==
  /\ c \in started /\ started' = started \ {c} /\ last' = NoCall
  /\ UNCHANGED <<server, sent, own, rib, results, ops>>

\* BecomeLeader: LearnElectionID sends id 1 to be told the server's, then
\* UpdateElectionID sends the next one.
BecomeLeader(c) ==
  LET learned == Highest(One, server)
      id == Increment(learned)
  IN /\ c \in started
     /\ server' = Highest(id, learned)
     /\ sent' = [sent EXCEPT ![c] = id] /\ own' = [own EXCEPT ![c] = id]
     /\ last' = [call |-> "lead", client |-> c, learned |-> learned]
     /\ UNCHANGED <<started, rib, results, ops>>

\* UpdateElectionID with an id the test derives from its own.
UpdateElectionID(c, id) ==
  /\ c \in started
  /\ server' = Highest(id, server)
  /\ sent' = [sent EXCEPT ![c] = id] /\ own' = [own EXCEPT ![c] = id]
  /\ last' = NoCall /\ UNCHANGED <<started, rib, results, ops>>

\* Mutant: no result is looked for.
HasResult_Any(c, r, collected) == TRUE

\* chk.HasResult with IgnoreOperationID: any collected result of that entry,
\* operation and programming result will do.
HasResult(c, r, collected) == r \in collected

\* AddEntries, AddIPv4 and AddIPv6, DeleteEntries, DeleteIPv4 and DeleteIPv6:
\* send, await, look for the result.  A client that does not lead, or a device
\* that cannot program the entry, answers with a failure.
Modify(c, op, e, programmed) ==
  LET ok == programmed /\ Leads(c)
      r == [op |-> op, e |-> e, ok |-> TRUE]
      collected == results[c] \cup {[r EXCEPT !.ok = ok]}
  IN /\ c \in started /\ ops < MaxOps /\ ops' = ops + 1
     /\ rib' = IF ~ok THEN rib ELSE IF op = "add" THEN rib \cup {e} ELSE rib \ {e}
     /\ results' = [results EXCEPT ![c] = collected]
     /\ last' = [call |-> op, client |-> c, e |-> e, ok |-> ok,
                 first |-> r \notin results[c], passed |-> HasResult(c, r, collected)]
     /\ UNCHANGED <<server, sent, own, started>>

\* Flush names an election id; FlushAll overrides it.
Flush(c, override) ==
  /\ c \in started /\ (override \/ Leads(c))
  /\ rib' = {} /\ last' = NoCall
  /\ UNCHANGED <<server, sent, own, started, results, ops>>

Next ==
  \E c \in Clients :
    \/ Start(c) \/ Close(c) \/ BecomeLeader(c)
    \/ UpdateElectionID(c, Decrement(own[c])) \/ UpdateElectionID(c, Increment(own[c]))
    \/ \E op \in {"add", "delete"}, e \in Entries, programmed \in BOOLEAN : Modify(c, op, e, programmed)
    \/ \E override \in BOOLEAN : Flush(c, override)

Spec == Init /\ [][Next]_vars

-----------------------------------------------------------------------------
\* A client that becomes leader leads: its id is the one after the server's, no
\* other client holds it, and entries it sends are accepted; only the very last
\* id of the 128-bit range cannot be exceeded.
BecomeLeaderWins ==
  last.call = "lead" /\ Value(last.learned) < Words * Words - 1 =>
    /\ Leads(last.client)
    /\ Value(server) = Value(last.learned) + 1
    /\ \A d \in started \ {last.client} : ~Leads(d)

\* The first time a client adds (or deletes) an entry, a failure to program it
\* fails the test.
FirstFailureNoticed ==
  last.call \in {"add", "delete"} /\ last.first => (last.passed <=> last.ok)
=============================================================================
