------------------------------- MODULE AFTStream -------------------------------
(***************************************************************************)
(* One AFTStreamSession of internal/telemetry/aftcache: a device streams   *)
(* its forwarding table ON_CHANGE, a goroutine moves the responses of the  *)
(* gNMI stream into a bounded channel (aftSubscribe), and ListenUntil      *)
(* applies them to the cache and evaluates a stopping condition on a       *)
(* ticker.  The test listens for the initial sync, then on the same        *)
(* session for a deletion, as the AFT tests do.                            *)
(*                                                                         *)
(* The device (external) sends, per entry, the latest value: changes that  *)
(* meet before they are sent are coalesced, and entries are sent in any    *)
(* order.  The stream and the channel together are one queue: the reader's *)
(* Recv is the step that takes the device's message.  A notification has a *)
(* timestamp; the cache (external) drops one older than what it holds.     *)
(***************************************************************************)
EXTENDS Naturals, FiniteSets, Sequences, TLAPS

-----------------------------------------------------------------------------
(***************************************************************************)
(* The abstract forwarding table of internal/telemetry/aftcache: how the   *)
(* entries of the gNMI cache are parsed into an AFTData value (ToAFT), and *)
(* how a prefix is resolved to its next hops (resolveRouteCBF).            *)
(*                                                                         *)
(* A cached entry is the notification last stored at its path: for a       *)
(* prefix its group, for a group its next hops, the hops that have a       *)
(* weight and its conditions, for a next hop its address.                  *)
(***************************************************************************)

CONSTANTS Prefixes, Groups, Hops, Addresses, Absent

ASSUME AbsentAssumption == Absent \notin Prefixes \cup Groups \cup Hops \cup Addresses

-----------------------------------------------------------------------------
\* parsePrefix: both required leaves, or an error.
ParsePrefix(n) == IF n.complete THEN [kind |-> "ok", nhg |-> n.nhg] ELSE [kind |-> "error"]

\* parseNHG: a conditional group is skipped; a group whose weights are not as
\* many as its next hops is an error.
ParseNHG(n) ==
  IF n.conditional THEN [kind |-> "skip"]
  ELSE IF Cardinality(n.nhs) # Cardinality(n.weights) THEN [kind |-> "error"]
  ELSE [kind |-> "ok", nhs |-> n.nhs, conditionals |-> {}]

\* parseNH: a next hop without address, interface and LSP is skipped.  The index in
\* the path and the index leaf of the update are the same, so none is refused for it.
ParseNH(n) == IF n.ip = Absent THEN [kind |-> "skip"] ELSE [kind |-> "ok", ip |-> n.ip]

\* What the entries of a cache parse to; Absent is no entry.
Stored(f) == {k \in DOMAIN f : f[k] # Absent}
PrefixResults(c) == [p \in Stored(c.prefixes) |-> ParsePrefix(c.prefixes[p])]
GroupResults(c) == [g \in Stored(c.groups) |-> ParseNHG(c.groups[g])]
HopResults(c) == [h \in Stored(c.hops) |-> ParseNH(c.hops[h])]

\* The keys that made it into the AFT; one that did not parse fails it.
Parsed(results) == {k \in DOMAIN results : results[k].kind = "ok"}
ParseFails(results) == \E k \in DOMAIN results : results[k].kind = "error"

ToAFTFails(c) ==
  ParseFails(PrefixResults(c)) \/ ParseFails(GroupResults(c)) \/ ParseFails(HopResults(c))

ToAFT(c) ==
  [prefixes |-> [p \in Parsed(PrefixResults(c)) |-> PrefixResults(c)[p].nhg],
   groups   |-> [g \in Parsed(GroupResults(c)) |->
                   [nhs |-> GroupResults(c)[g].nhs,
                    conditionals |-> GroupResults(c)[g].conditionals]],
   hops     |-> [h \in Parsed(HopResults(c)) |-> HopResults(c)[h].ip]]

-----------------------------------------------------------------------------
\* The conditions of group g that apply to packets marked dscp.
Matching(a, g, dscp) == {c \in a.groups[g].conditionals : dscp \in c.dscp}

Err(e) == [err |-> e, nhs |-> {}]
Leaf(a, g) ==
  IF a.groups[g].nhs \subseteq DOMAIN a.hops
    THEN [err |-> "none", nhs |-> {a.hops[h] : h \in a.groups[g].nhs}]
    ELSE Err("not exist")

\* isCNHG
IsCNHG(a, g) == a.groups[g].nhs = {} /\ a.groups[g].conditionals # {}
Unclear(a, g) == a.groups[g].nhs # {} /\ a.groups[g].conditionals # {}

\* resolveRouteCBF's loop: conditions are followed from group to group, each
\* conditional group at most once, to a group with next hops.
ResolveFrom(a, dscp) ==
  LET Walk[visited \in SUBSET Groups] ==
        [g \in Groups |->
           LET cs == Matching(a, g, dscp) IN
           IF g \notin DOMAIN a.groups THEN Err("not exist")
           ELSE IF Unclear(a, g) THEN Err("ambiguous")
           ELSE IF ~IsCNHG(a, g) THEN Leaf(a, g)
           ELSE IF g \in visited THEN Err("circular")
           ELSE IF cs = {} THEN Err("none")
           ELSE IF Cardinality(cs) > 1 THEN Err("ambiguous")
           ELSE Walk[visited \cup {g}][(CHOOSE c \in cs : TRUE).nhg]]
  IN Walk[{}]

Resolve(a, p, dscp) ==
  IF p \in DOMAIN a.prefixes THEN ResolveFrom(a, dscp)[a.prefixes[p]] ELSE Err("not exist")

-----------------------------------------------------------------------------

CONSTANTS
  Notes,        \* what the device may send for each entry
  WantNHs,      \* the next-hop addresses the sync waits for
  BufferSize,   \* aftBufferSize
  NHFailLimit,  \* nhFailLimit
  MaxChanges,   \* bound: changes of the device's table
  MaxTime       \* bound: notifications the device sends

Entries == Prefixes \cup Groups \cup Hops
StreamError == [kind |-> "error"]
Refused == [kind |-> "refused"]
Note(e, v, ts) == [kind |-> "note", e |-> e, note |-> v, ts |-> ts]

\* Values for Notes in a small instance: whole prefix entries, groups with their
\* next hops or without their weight, next hops with an address.
SmallNotes ==
  [e \in Entries |->
     IF e \in Prefixes THEN {[complete |-> TRUE, nhg |-> g] : g \in Groups}
     ELSE IF e \in Groups THEN {[conditional |-> FALSE, nhs |-> Hops, weights |-> w] : w \in {{}, Hops}}
     ELSE {[ip |-> a] : a \in Addresses}]

\* Absent marks an empty place; it is not the value of an entry or a message.
ASSUME StreamAssumption ==
  /\ BufferSize \in Nat /\ MaxTime \in Nat
  /\ \A e \in Entries : Absent \notin Notes[e]
  /\ Absent \notin {StreamError, Refused}
  /\ \A e \in Entries : \A v \in Notes[e] \cup {Absent} : \A ts \in 0 .. MaxTime :
       Note(e, v, ts) # Absent

\* The sync waits for some next hop (the tests give their neighbours' addresses),
\* and the group a prefix entry names is the identifier of a group.
ASSUME SyncAssumption ==
  /\ WantNHs # {}
  /\ \A p \in Prefixes : \A v \in Notes[p] : v.complete => v.nhg \in Groups

VARIABLES
  device,    \* the device's value of each entry
  dirty,     \* entries whose current value has not been sent
  changes, clock, skewed,
  gone,      \* prefixes the device has deleted since the session began
  broken,    \* the stream has failed
  held,      \* what the reader goroutine has received and not yet queued
  reader,    \* "run" or "exit"
  buffer,    \* the channel
  cancelled, \* the session's context is done
  cache,     \* per entry the notification and timestamp it holds
  stage,     \* "subscribe", "sync", "delete", "notify" or "over"
  passed,    \* the stopping conditions that were met
  heard,     \* ss.notifications: prefixes deleted by messages of this ListenUntil
  nhFailCount

devVars == <<device, dirty, changes, gone>>
sendVars == <<clock, skewed, broken>>
listenVars == <<cache, stage, passed, heard, nhFailCount>>
vars == <<devVars, sendVars, held, reader, buffer, cancelled, listenVars>>

Table(f) ==
  [prefixes |-> [p \in Prefixes |-> f[p]], groups |-> [g \in Groups |-> f[g]],
   hops |-> [h \in Hops |-> f[h]]]
Cached == [e \in Entries |-> cache[e].note]
Listening == stage \in {"sync", "delete", "notify"}

Init ==
  /\ device \in {f \in [Entries -> {Absent} \cup UNION {Notes[e] : e \in Entries}] :
                   \A e \in Entries : f[e] \in Notes[e] \cup {Absent}}
  /\ dirty = {e \in Entries : device[e] # Absent}
  /\ changes = 0 /\ clock = 0 /\ skewed = FALSE /\ gone = {}
  /\ broken = FALSE /\ held = Absent /\ reader = "run" /\ buffer = <<>>
  /\ cancelled = FALSE
  /\ cache = [e \in Entries |-> [note |-> Absent, ts |-> 0]]
  /\ stage = "subscribe" /\ passed = {} /\ heard = {} /\ nhFailCount = 0

-----------------------------------------------------------------------------
\* The device; what it does once nobody hears it is of no interest.
Heard == Listening /\ ~broken /\ ~cancelled
CanSend == Heard /\ clock < MaxTime /\ held = Absent

Change(e, v) ==
  /\ Heard /\ changes < MaxChanges /\ v # device[e]
  /\ device' = [device EXCEPT ![e] = v]
  /\ dirty' = dirty \cup {e}
  /\ changes' = changes + 1
  /\ gone' = IF e \in Prefixes /\ v = Absent THEN gone \cup {e} ELSE gone
  /\ UNCHANGED <<sendVars, held, reader, buffer, cancelled, listenVars>>

\* A notification for e; its timestamp may lie behind an earlier one's.
Send(e, ts) ==
  /\ CanSend /\ e \in dirty
  /\ held' = Note(e, device[e], ts)
  /\ dirty' = dirty \ {e}
  /\ clock' = clock + 1
  /\ skewed' = (skewed \/ ts # clock + 1)
  /\ UNCHANGED <<device, changes, gone, broken, reader, buffer, cancelled, listenVars>>

\* A response that a NotificationHook or the cache refuses.
SendRefused ==
  /\ CanSend
  /\ held' = Refused /\ clock' = clock + 1
  /\ UNCHANGED <<devVars, skewed, broken, reader, buffer, cancelled, listenVars>>

Break ==
  /\ Heard /\ broken' = TRUE
  /\ UNCHANGED <<devVars, clock, skewed, held, reader, buffer, cancelled, listenVars>>

-----------------------------------------------------------------------------
\* aftSubscribe's goroutine
\* Recv on a failed stream, or under a cancelled context; on a sound one it
\* returns what the device sends.
RecvError ==
  /\ stage # "subscribe" /\ reader = "run" /\ held = Absent /\ (broken \/ cancelled)
  /\ held' = StreamError
  /\ UNCHANGED <<devVars, sendVars, reader, buffer, cancelled, listenVars>>

\* Mutant: the channel is sent to whether or not the context is done, and it is
\* as large as the notifications that may arrive.
ReaderDone_NoCtx == FALSE /\ UNCHANGED vars

ReaderDone ==
  /\ reader = "run" /\ held # Absent /\ cancelled
  /\ reader' = "exit" /\ held' = Absent
  /\ UNCHANGED <<devVars, sendVars, buffer, cancelled, listenVars>>

\* Mutant: a full channel drops the response instead of blocking the reader.
Enqueue_Dropping ==
  /\ reader = "run" /\ held # Absent
  /\ buffer' = IF Len(buffer) < BufferSize THEN Append(buffer, held) ELSE buffer
  /\ held' = Absent
  /\ UNCHANGED <<devVars, sendVars, reader, cancelled, listenVars>>

Enqueue ==
  /\ reader = "run" /\ held # Absent /\ Len(buffer) < BufferSize
  /\ buffer' = Append(buffer, held) /\ held' = Absent
  /\ UNCHANGED <<devVars, sendVars, reader, cancelled, listenVars>>

-----------------------------------------------------------------------------
\* The test: NewAFTStreamSession, then ListenUntil twice
Subscribe(ok) ==
  /\ stage = "subscribe"
  /\ stage' = IF ok THEN "sync" ELSE "over"
  /\ UNCHANGED <<devVars, sendVars, held, reader, buffer, cancelled, cache, passed, heard, nhFailCount>>

\* t.Fatalf: the listener stops; loggingFinal drops the stored notifications.
Fatal == stage' = "over" /\ heard' = {} /\ UNCHANGED <<cache, passed, nhFailCount>>

\* The stopping condition is met: the next ListenUntil, or the end.
Met ==
  /\ passed' = passed \cup {stage}
  /\ heard' = {}
  /\ stage' \in IF stage = "sync" THEN {"delete", "notify"} ELSE {"over"}
  /\ UNCHANGED <<cache, nhFailCount>>

\* cache.GnmiUpdate: an older update is stale, a delete removes what is older.
GnmiUpdate(m) ==
  cache' = IF m.note # Absent
             THEN IF m.ts < cache[m.e].ts THEN cache
                  ELSE [cache EXCEPT ![m.e] = [note |-> m.note, ts |-> m.ts]]
             ELSE IF m.ts > cache[m.e].ts
                  THEN [cache EXCEPT ![m.e] = [note |-> Absent, ts |-> 0]] ELSE cache

Handle ==
  /\ Listening /\ buffer # <<>>
  /\ buffer' = Tail(buffer)
  /\ LET m == Head(buffer) IN
     IF m.kind = "note"
       THEN /\ GnmiUpdate(m)
            /\ heard' = IF m.note = Absent THEN heard \cup ({m.e} \cap Prefixes) ELSE heard
            /\ UNCHANGED <<stage, passed, nhFailCount>>
       ELSE Fatal
  /\ UNCHANGED <<devVars, sendVars, held, reader, cancelled>>

\* InitialSyncStoppingCondition's verdict on a table
Missing(a) == {p \in Prefixes : p \notin DOMAIN a.prefixes}
Wrong(a) == {p \in Prefixes : Resolve(a, p, 0).nhs # WantNHs}
Unresolvable(a) == {p \in Prefixes : Resolve(a, p, 0).err \notin {"none", "not exist"}}

\* Mutant: the initial sync does not wait for the prefixes that are missing.
SyncTick_NotMissing ==
  LET a == ToAFT(Table(Cached)) IN
  /\ stage = "sync"
  /\ IF ToAFTFails(Table(Cached)) \/ Unresolvable(a) # {} THEN Fatal
     ELSE IF Wrong(a) \ Missing(a) = {} THEN Met
     ELSE IF nhFailCount + 1 = NHFailLimit THEN Fatal
     ELSE nhFailCount' = nhFailCount + 1 /\ UNCHANGED <<cache, stage, passed, heard>>
  /\ UNCHANGED <<devVars, sendVars, held, reader, buffer, cancelled>>

\* Mutant: one wanted prefix too many is waited for.
SyncTick_NeverEnough == stage = "sync" /\ UNCHANGED vars

SyncTick ==
  LET a == ToAFT(Table(Cached)) IN
  /\ stage = "sync"
  /\ IF ToAFTFails(Table(Cached)) THEN Fatal
     ELSE IF Missing(a) # {} THEN UNCHANGED listenVars
     ELSE IF Unresolvable(a) # {} THEN Fatal
     ELSE IF Wrong(a) = {} THEN Met
     ELSE IF nhFailCount + 1 = NHFailLimit THEN Fatal
     ELSE nhFailCount' = nhFailCount + 1 /\ UNCHANGED <<cache, stage, passed, heard>>
  /\ UNCHANGED <<devVars, sendVars, held, reader, buffer, cancelled>>

\* Mutant: one prefix may be left.
DeleteTick_OneLeft ==
  /\ stage = "delete"
  /\ IF ToAFTFails(Table(Cached)) THEN Fatal
     ELSE IF Cardinality(DOMAIN ToAFT(Table(Cached)).prefixes) <= 1 THEN Met
     ELSE UNCHANGED listenVars
  /\ UNCHANGED <<devVars, sendVars, held, reader, buffer, cancelled>>

\* DeletionStoppingCondition
DeleteTick ==
  /\ stage = "delete"
  /\ IF ToAFTFails(Table(Cached)) THEN Fatal
     ELSE IF DOMAIN ToAFT(Table(Cached)).prefixes = {} THEN Met
     ELSE UNCHANGED listenVars
  /\ UNCHANGED <<devVars, sendVars, held, reader, buffer, cancelled>>

\* WaitForNotification, for a DELETE of each prefix; the wait may be over.
NotifyTick(waitOver) ==
  /\ stage = "notify"
  /\ IF Prefixes \subseteq heard THEN Met
     ELSE IF waitOver THEN Fatal
     ELSE UNCHANGED listenVars
  /\ UNCHANGED <<devVars, sendVars, held, reader, buffer, cancelled>>

\* ListenUntil's timeout, or hooks slower than periodicDeadline.
Timeout ==
  /\ Listening /\ ~cancelled /\ Fatal
  /\ UNCHANGED <<devVars, sendVars, held, reader, buffer, cancelled>>

\* The session's context is also the parent of ListenUntil's.
CtxDone ==
  /\ Listening /\ cancelled /\ Fatal
  /\ UNCHANGED <<devVars, sendVars, held, reader, buffer, cancelled>>

\* The caller cancels the session's context: when the test is over, or earlier.
Cancel ==
  /\ ~cancelled /\ stage # "subscribe" /\ cancelled' = TRUE
  /\ UNCHANGED <<devVars, sendVars, held, reader, buffer, listenVars>>

Reader == RecvError \/ Enqueue \/ ReaderDone
Listener == Handle \/ SyncTick \/ DeleteTick \/ \E o \in BOOLEAN : NotifyTick(o)

Next ==
  \/ \E e \in Entries : \E v \in Notes[e] \cup {Absent} : Change(e, v)
  \/ \E e \in Entries : \E ts \in {clock, clock + 1} : ts > 0 /\ Send(e, ts)
  \/ SendRefused \/ Break
  \/ \E ok \in BOOLEAN : Subscribe(ok)
  \/ Reader \/ Listener \/ Timeout \/ CtxDone \/ Cancel

Spec == Init /\ [][Next]_vars

\* The goroutine and the listener run; select picks every ready case in the
\* end; an honest device sends what has changed.  Nothing forces a timeout.
FairSpec ==
  /\ Spec
  /\ WF_vars(RecvError) /\ WF_vars(Enqueue) /\ SF_vars(ReaderDone)
  /\ WF_vars(CtxDone) /\ WF_vars(Subscribe(TRUE)) /\ SF_vars(Handle) /\ SF_vars(SyncTick)
  /\ \A e \in Entries : WF_vars(Send(e, clock + 1))

-----------------------------------------------------------------------------
InFlight(e) ==
  \/ \E i \in DOMAIN buffer : buffer[i].kind = "note" /\ buffer[i].e = e
  \/ held # Absent /\ held.kind = "note" /\ held.e = e

\* While the device's timestamps grow, the cache holds exactly the device's
\* value of every entry that has no unsent change and nothing under way,
\* however the reader, the bounded channel and the ticks interleave.
CacheTracksDevice ==
  ~skewed /\ reader = "run" =>
    \A e \in Entries : e \notin dirty /\ ~InFlight(e) => cache[e].note = device[e]

\* The condition for deleted routes is met after a successful sync only when
\* the device did delete every prefix since it was subscribed to, whatever the
\* timestamps: neither condition can pass on a table that was never there.
DeletionsHappened == {"delete", "notify"} \cap passed # {} => gone = Prefixes

\* If the device's table has not changed since the subscription, the initial
\* sync is declared complete only if the device's own table has every prefix
\* resolving to the wanted next hops: a partly received table never passes.
SyncIsTruthful ==
  "sync" \in passed /\ changes = 0 =>
    LET a == ToAFT(Table(device)) IN Missing(a) = {} /\ Wrong(a) = {}

\* Once the session's context is cancelled the reader goroutine ends, although
\* Recv then returns errors for ever and the listener may have stopped.
ReaderExits == cancelled /\ stage # "subscribe" ~> reader = "exit"

\* If the device's table stays what the sync waits for, the sync is declared
\* complete, or the listener has given up; it does not listen for ever.
SyncCompletes ==
  LET good == LET a == ToAFT(Table(device)) IN
              /\ ~ToAFTFails(Table(device)) /\ Missing(a) = {} /\ Wrong(a) = {}
              /\ ~skewed /\ clock + Cardinality(dirty) <= MaxTime
  IN <>[]good => <>(stage # "sync" /\ stage # "subscribe")

-----------------------------------------------------------------------------
(***************************************************************************)
(* The cache of a stream session follows the device, the initial sync is   *)
(* declared on a table the device has, and the deletion conditions are met *)
(* only after deletions, for every channel size, every table and every     *)
(* number of notifications.                                                *)
(***************************************************************************)
Values == {Absent} \cup UNION {Notes[e] : e \in Entries}
NoteMsgs == [kind : {"note"}, e : Entries, note : Values, ts : Nat]
Messages == NoteMsgs \cup {StreamError, Refused}

TypeOK ==
  /\ device \in [Entries -> Values] /\ \A e \in Entries : device[e] \in Notes[e] \cup {Absent}
  /\ dirty \subseteq Entries /\ gone \subseteq Prefixes /\ heard \subseteq Prefixes
  /\ clock \in Nat /\ skewed \in BOOLEAN
  /\ held \in Messages \cup {Absent} /\ buffer \in Seq(Messages)
  /\ cache \in [Entries -> [note : Values, ts : Nat]]
  /\ stage \in {"subscribe", "sync", "delete", "notify", "over"}

\* A deletion under way, heard, or seen in the cache after a sync was made by the
\* device.
IsDelete(m) == m.kind = "note" /\ m.note = Absent
DeleteInv ==
  /\ \A p \in Prefixes \cap dirty : device[p] = Absent => p \in gone
  /\ held # Absent /\ IsDelete(held) /\ held.e \in Prefixes => held.e \in gone
  /\ \A i \in DOMAIN buffer : IsDelete(buffer[i]) /\ buffer[i].e \in Prefixes => buffer[i].e \in gone
  /\ heard \subseteq gone
  /\ stage \in {"delete", "notify"} => \A p \in Prefixes : cache[p].note # Absent \/ p \in gone
  /\ DeletionsHappened

\* Timestamps grow along the channel and past everything in the cache.
OrderInv ==
  ~skewed =>
    /\ \A i, j \in DOMAIN buffer :
         i < j /\ buffer[i].kind = "note" /\ buffer[j].kind = "note" => buffer[i].ts < buffer[j].ts
    /\ \A i \in DOMAIN buffer : buffer[i].kind = "note" =>
         /\ buffer[i].ts <= clock
         /\ \A e \in Entries : cache[e].ts < buffer[i].ts
         /\ held # Absent /\ held.kind = "note" => buffer[i].ts < held.ts
    /\ held # Absent /\ held.kind = "note" =>
         held.ts <= clock /\ \A e \in Entries : cache[e].ts < held.ts
    /\ \A e \in Entries : cache[e].ts <= clock

\* Of the notifications of one entry that are under way, the last has the device's value.
HeldFor(e) == held # Absent /\ held.kind = "note" /\ held.e = e
QueuedFor(e, i) == buffer[i].kind = "note" /\ buffer[i].e = e
LastInv ==
  ~skewed /\ reader = "run" =>
    \A e \in Entries \ dirty :
      /\ HeldFor(e) => held.note = device[e]
      /\ ~HeldFor(e) => \A i \in DOMAIN buffer :
           QueuedFor(e, i) /\ (\A j \in DOMAIN buffer : i < j => ~QueuedFor(e, j)) =>
             buffer[i].note = device[e]
      /\ ~HeldFor(e) /\ (\A i \in DOMAIN buffer : ~QueuedFor(e, i)) => cache[e].note = device[e]

IInv == TypeOK /\ DeleteInv /\ OrderInv /\ LastInv

\* The stopping conditions, and everything that only ends the listening, leave the
\* messages and the tables alone.
Quiet == UNCHANGED <<device, dirty, gone, clock, skewed, held, reader, buffer, cache>>

-----------------------------------------------------------------------------

\* What carries the kind of a notification is one.
LEMMA NoteMessage == \A m \in Messages : m.kind = "note" => m \in NoteMsgs
BY DEF Messages, NoteMsgs, StreamError, Refused

\* The invariant holds when the session starts.
LEMMA InitInv == Init => IInv
<1> SUFFICES ASSUME Init PROVE IInv
  OBVIOUS
<1>1. TypeOK
  <2>1. device \in [Entries -> Values] /\ \A e \in Entries : device[e] \in Notes[e] \cup {Absent}
    BY DEF Init, Values
  <2>2. cache \in [Entries -> [note : Values, ts : Nat]]
    BY DEF Init, Values
  <2>3. dirty \subseteq Entries /\ skewed \in BOOLEAN
    BY Zenon DEF Init
  <2>4. buffer \in Seq(Messages) /\ clock \in Nat
    BY DEF Init
  <2>5. gone \subseteq Prefixes /\ heard \subseteq Prefixes /\ held \in Messages \cup {Absent}
    BY DEF Init
  <2> QED
    BY <2>1, <2>2, <2>3, <2>4, <2>5 DEF Init, TypeOK
<1>2. DeleteInv
  BY DEF Init, DeleteInv, DeletionsHappened
<1>3. OrderInv
  BY DEF Init, OrderInv
<1>4. LastInv
  BY DEF Init, LastInv, HeldFor, QueuedFor
<1> QED
  BY <1>1, <1>2, <1>3, <1>4 DEF IInv

\* What GnmiUpdate leaves in the cache.
LEMMA CacheType ==
  ASSUME TypeOK, NEW m \in NoteMsgs, GnmiUpdate(m)
  PROVE  /\ cache' \in [Entries -> [note : Values, ts : Nat]]
         /\ \A e \in Entries : e # m.e => cache'[e] = cache[e]
         /\ cache[m.e].ts < m.ts => cache'[m.e].note = m.note /\ cache'[m.e].ts <= m.ts
BY DEF TypeOK, NoteMsgs, GnmiUpdate, Values

\* No step leaves the types.
LEMMA TypeStep == IInv /\ [Next]_vars => TypeOK'
<1> SUFFICES ASSUME IInv, [Next]_vars PROVE TypeOK'
  OBVIOUS
<1> USE StreamAssumption DEF IInv, TypeOK, devVars, sendVars, listenVars
<1>1. ASSUME NEW e \in Entries, NEW v \in Notes[e] \cup {Absent}, Change(e, v) PROVE TypeOK'
  BY <1>1 DEF Change, Values
<1>2. ASSUME NEW e \in Entries, NEW ts \in {clock, clock + 1}, Send(e, ts) PROVE TypeOK'
  BY <1>2 DEF Send, Note, Messages, NoteMsgs
<1>3. CASE SendRefused BY <1>3 DEF SendRefused, Messages
<1>4. CASE Break BY <1>4 DEF Break
<1>5. ASSUME NEW ok \in BOOLEAN, Subscribe(ok) PROVE TypeOK'
  BY <1>5 DEF Subscribe
<1>6. CASE RecvError BY <1>6 DEF RecvError, Messages
<1>7. CASE Enqueue BY <1>7 DEF Enqueue
<1>8. CASE ReaderDone BY <1>8 DEF ReaderDone
<1>9. CASE Handle
  <2> DEFINE m == Head(buffer)
  <2>1. m \in Messages /\ buffer' \in Seq(Messages)
    BY <1>9 DEF Handle
  <2>2. CASE m.kind = "note"
    BY <1>9, <2>1, <2>2, NoteMessage, CacheType DEF Handle
  <2>3. CASE m.kind # "note"
    BY <1>9, <2>1, <2>3 DEF Handle, Fatal
  <2> QED
    BY <2>2, <2>3
<1>10. CASE SyncTick BY <1>10 DEF SyncTick, Fatal, Met
<1>11. CASE DeleteTick BY <1>11 DEF DeleteTick, Fatal, Met
<1>12. ASSUME NEW o \in BOOLEAN, NotifyTick(o) PROVE TypeOK'
  BY <1>12 DEF NotifyTick, Fatal, Met
<1>13. CASE Timeout BY <1>13 DEF Timeout, Fatal
<1>14. CASE CtxDone BY <1>14 DEF CtxDone, Fatal
<1>15. CASE Cancel BY <1>15 DEF Cancel
<1>16. CASE UNCHANGED vars BY <1>16 DEF vars
<1> QED
  BY <1>1, <1>2, <1>3, <1>4, <1>5, <1>6, <1>7, <1>8, <1>9, <1>10, <1>11, <1>12, <1>13, <1>14,
     <1>15, <1>16 DEF Next, Reader, Listener

-----------------------------------------------------------------------------
\* A prefix is in the table that ToAFT makes of the cache just when the cache has it,
\* unless ToAFT fails.
LEMMA PrefixesOfCache ==
  ASSUME NEW p \in Prefixes
  PROVE  /\ p \in DOMAIN ToAFT(Table(Cached)).prefixes => cache[p].note # Absent
         /\ ~ToAFTFails(Table(Cached)) /\ cache[p].note # Absent
              => p \in DOMAIN ToAFT(Table(Cached)).prefixes
BY Zenon DEF ToAFT, ToAFTFails, Table, Cached, Parsed, ParseFails, PrefixResults, Stored, ParsePrefix,
       Entries

\* The channel after the reader has queued what it holds.
LEMMA Appended ==
  ASSUME TypeOK, Enqueue
  PROVE  /\ DOMAIN buffer' = DOMAIN buffer \cup {Len(buffer) + 1} /\ Len(buffer) \in Nat
         /\ DOMAIN buffer = 1 .. Len(buffer)
         /\ buffer'[Len(buffer) + 1] = held
         /\ \A i \in DOMAIN buffer : buffer'[i] = buffer[i]
BY DEF TypeOK, Enqueue

\* The channel after the listener has taken a response.
LEMMA Taken ==
  ASSUME TypeOK, Handle
  PROVE  /\ Head(buffer) \in Messages /\ Head(buffer) = buffer[1]
         /\ Len(buffer) \in Nat \ {0} /\ DOMAIN buffer = 1 .. Len(buffer)
         /\ DOMAIN buffer' = 1 .. (Len(buffer) - 1)
         /\ \A i \in DOMAIN buffer' : buffer'[i] = buffer[i + 1]
BY DEF TypeOK, Handle

\* DeletionsHappened survives every step that keeps the conditions met.
LEMMA DeleteQuiet ==
  ASSUME IInv, UNCHANGED <<device, dirty, gone, held, buffer, cache, stage, passed>>, heard' \in {heard, {}}
  PROVE  DeleteInv'
BY DEF IInv, DeleteInv, DeletionsHappened, IsDelete

\* A stopping condition is met, or the listener gives up.
LEMMA DeleteEnd ==
  ASSUME IInv, UNCHANGED <<device, dirty, gone, held, buffer, cache>>, heard' = {},
         stage' \in {"delete", "notify"} => \A p \in Prefixes : cache[p].note # Absent \/ p \in gone,
         passed' = passed \/ gone = Prefixes \/ passed' = passed \cup {"sync"}
  PROVE  DeleteInv'
BY DEF IInv, DeleteInv, DeletionsHappened, IsDelete

\* A deletion that is under way or counted has happened on the device, after
\* every step.
LEMMA DeleteStep == IInv /\ [Next]_vars => DeleteInv'
<1> SUFFICES ASSUME IInv, [Next]_vars PROVE DeleteInv'
  OBVIOUS
<1> USE StreamAssumption DEF devVars, sendVars, listenVars
<1>f. ASSUME Fatal, UNCHANGED <<device, dirty, gone, held, buffer>> PROVE DeleteInv'
  BY <1>f, DeleteEnd DEF Fatal
<1>1. ASSUME NEW e \in Entries, NEW v \in Notes[e] \cup {Absent}, Change(e, v) PROVE DeleteInv'
  <2>1. gone \subseteq gone' /\ gone' \subseteq Prefixes
    BY <1>1 DEF Change, IInv, TypeOK
  <2> QED
    BY <1>1, <2>1 DEF Change, IInv, TypeOK, DeleteInv, DeletionsHappened, IsDelete
<1>2. ASSUME NEW e \in Entries, NEW ts \in {clock, clock + 1}, Send(e, ts) PROVE DeleteInv'
  BY <1>2 DEF Send, Note, IInv, TypeOK, DeleteInv, DeletionsHappened, IsDelete
<1>3. CASE SendRefused
  BY <1>3 DEF SendRefused, Refused, IInv, DeleteInv, DeletionsHappened, IsDelete
<1>4. CASE Break
  BY <1>4, DeleteQuiet DEF Break
<1>5. ASSUME NEW ok \in BOOLEAN, Subscribe(ok) PROVE DeleteInv'
  BY <1>5 DEF Subscribe, IInv, DeleteInv, DeletionsHappened, IsDelete
<1>6. CASE RecvError
  BY <1>6 DEF RecvError, StreamError, IInv, DeleteInv, DeletionsHappened, IsDelete
<1>7. CASE Enqueue
  <2>1. DOMAIN buffer' = DOMAIN buffer \cup {Len(buffer) + 1} /\ buffer'[Len(buffer) + 1] = held
        /\ \A i \in DOMAIN buffer : buffer'[i] = buffer[i]
    BY <1>7, Appended DEF IInv
  <2> QED
    BY <1>7, <2>1 DEF Enqueue, IInv, DeleteInv, DeletionsHappened, IsDelete
<1>8. CASE ReaderDone
  BY <1>8 DEF ReaderDone, IInv, DeleteInv, DeletionsHappened, IsDelete
<1>9. CASE Handle
  <2> DEFINE m == Head(buffer)
  <2>1. /\ m \in Messages /\ m = buffer[1] /\ 1 \in DOMAIN buffer
        /\ \A i \in DOMAIN buffer' : i + 1 \in DOMAIN buffer /\ buffer'[i] = buffer[i + 1]
    BY <1>9, Taken DEF IInv
  <2>2. CASE m.kind = "note"
    <3>1. m \in NoteMsgs /\ GnmiUpdate(m)
      BY <1>9, <2>1, <2>2, NoteMessage DEF Handle
    <3>2. m.note = Absent /\ m.e \in Prefixes => m.e \in gone
      BY <2>1, <2>2 DEF IInv, DeleteInv, IsDelete
    <3>3. heard' \subseteq gone
      BY <1>9, <2>2, <3>2 DEF Handle, IInv, DeleteInv
    <3>4. \A p \in Prefixes : cache[p].note # Absent \/ p \in gone =>
                              cache'[p].note # Absent \/ p \in gone
      BY <3>1, <3>2, CacheType, Zenon DEF GnmiUpdate, IInv, TypeOK, NoteMsgs, Entries
    <3> QED
      BY <1>9, <2>1, <2>2, <3>3, <3>4 DEF Handle, IInv, DeleteInv, DeletionsHappened, IsDelete
  <2>3. CASE m.kind # "note"
    BY <1>9, <2>1, <2>3 DEF Handle, Fatal, IInv, DeleteInv, DeletionsHappened, IsDelete
  <2> QED
    BY <2>2, <2>3
<1>10. CASE SyncTick
  <2>1. CASE Fatal
    BY <1>10, <2>1, <1>f DEF SyncTick
  <2>2. CASE Met /\ Missing(ToAFT(Table(Cached))) = {}
    <3>1. \A p \in Prefixes : cache[p].note # Absent
      BY <2>2, PrefixesOfCache DEF Missing
    <3> QED
      BY <1>10, <2>2, <3>1, DeleteEnd DEF SyncTick, Met
  <2>3. CASE UNCHANGED <<cache, stage, passed, heard>>
    BY <1>10, <2>3, DeleteQuiet DEF SyncTick
  <2> QED
    BY <1>10, <2>1, <2>2, <2>3 DEF SyncTick
<1>11. CASE DeleteTick
  <2>1. CASE Fatal
    BY <1>11, <2>1, <1>f DEF DeleteTick
  <2>2. CASE Met /\ ~ToAFTFails(Table(Cached)) /\ DOMAIN ToAFT(Table(Cached)).prefixes = {}
    <3>1. \A p \in Prefixes : cache[p].note = Absent
      BY <2>2, PrefixesOfCache
    <3>2. gone = Prefixes
      BY <1>11, <3>1, Zenon DEF DeleteTick, IInv, TypeOK, DeleteInv
    <3> QED
      BY <1>11, <2>2, <3>2, DeleteEnd DEF DeleteTick, Met
  <2>3. CASE UNCHANGED listenVars
    BY <1>11, <2>3, DeleteQuiet DEF DeleteTick
  <2> QED
    BY <1>11, <2>1, <2>2, <2>3 DEF DeleteTick
<1>12. ASSUME NEW o \in BOOLEAN, NotifyTick(o) PROVE DeleteInv'
  <2>1. CASE Fatal
    BY <1>12, <2>1, <1>f DEF NotifyTick
  <2>2. CASE Met /\ Prefixes \subseteq heard
    <3>1. gone = Prefixes
      BY <2>2, Zenon DEF IInv, TypeOK, DeleteInv
    <3> QED
      BY <1>12, <2>2, <3>1, DeleteEnd DEF NotifyTick, Met
  <2>3. CASE UNCHANGED listenVars
    BY <1>12, <2>3, DeleteQuiet DEF NotifyTick
  <2> QED
    BY <1>12, <2>1, <2>2, <2>3 DEF NotifyTick
<1>13. CASE Timeout BY <1>13, <1>f DEF Timeout
<1>14. CASE CtxDone BY <1>14, <1>f DEF CtxDone
<1>15. CASE Cancel BY <1>15, DeleteQuiet DEF Cancel
<1>16. CASE UNCHANGED vars BY <1>16, DeleteQuiet DEF vars
<1> QED
  BY <1>1, <1>2, <1>3, <1>4, <1>5, <1>6, <1>7, <1>8, <1>9, <1>10, <1>11, <1>12, <1>13, <1>14,
     <1>15, <1>16 DEF Next, Reader, Listener

-----------------------------------------------------------------------------
\* The timestamps of what is under way are natural numbers.
LEMMA Stamps ==
  ASSUME TypeOK
  PROVE  /\ clock \in Nat /\ \A e \in Entries : cache[e].ts \in Nat
         /\ \A i \in DOMAIN buffer : buffer[i] \in Messages /\ i \in Nat
         /\ \A i \in DOMAIN buffer : buffer[i].kind = "note" => buffer[i].ts \in Nat
         /\ held # Absent /\ held.kind = "note" => held.ts \in Nat
BY NoteMessage DEF TypeOK, NoteMsgs

\* A step that touches neither device, stream nor cache keeps the timestamps in order.
LEMMA OrderQuiet == IInv /\ Quiet => OrderInv'
BY DEF IInv, Quiet, OrderInv

\* Timestamps keep growing from the cache along the channel to the device.
LEMMA OrderStep == IInv /\ [Next]_vars => OrderInv'
<1> SUFFICES ASSUME IInv, [Next]_vars, ~skewed' PROVE OrderInv'
  BY DEF OrderInv
<1> USE DEF devVars, sendVars, listenVars
<1>0. TypeOK
  BY DEF IInv
<1>1. ASSUME NEW e \in Entries, NEW v \in Notes[e] \cup {Absent}, Change(e, v) PROVE OrderInv'
  BY <1>1 DEF Change, IInv, OrderInv
<1>2. ASSUME NEW e \in Entries, NEW ts \in {clock, clock + 1}, Send(e, ts) PROVE OrderInv'
  <2>1. ~skewed /\ ts = clock + 1 /\ clock' = clock + 1
    BY <1>2, Zenon DEF Send
  <2>2. held'.kind = "note" /\ held'.ts = clock + 1
    BY <1>2, <2>1 DEF Send, Note
  <2> QED
    BY <1>0, <1>2, <2>1, <2>2, Stamps DEF Send, IInv, OrderInv
<1>3. CASE SendRefused
  <2>1. held'.kind # "note"
    BY <1>3 DEF SendRefused, Refused
  <2> QED
    BY <1>0, <1>3, <2>1, Stamps DEF SendRefused, IInv, OrderInv
<1>4. CASE Break BY <1>4, OrderQuiet DEF Break, Quiet
<1>5. ASSUME NEW ok \in BOOLEAN, Subscribe(ok) PROVE OrderInv'
  BY <1>5, OrderQuiet DEF Subscribe, Quiet
<1>6. CASE RecvError
  <2>1. held'.kind # "note"
    BY <1>6 DEF RecvError, StreamError
  <2> QED
    BY <1>6, <2>1 DEF RecvError, IInv, OrderInv
<1>7. CASE Enqueue
  <2>1. held # Absent /\ held' = Absent /\ UNCHANGED <<cache, clock, skewed>>
    BY <1>7 DEF Enqueue
  <2> QED
    BY <1>0, <1>7, <2>1, Appended, Stamps DEF IInv, OrderInv
<1>8. CASE ReaderDone
  BY <1>8 DEF ReaderDone, IInv, OrderInv
<1>9. CASE Handle
  <2> DEFINE m == Head(buffer)
  <2>1. UNCHANGED <<held, clock, skewed>>
    BY <1>9 DEF Handle
  <2>t. /\ \A i \in DOMAIN buffer' : i \in Nat /\ i + 1 \in DOMAIN buffer /\ i + 1 > 1
        /\ \A i \in DOMAIN buffer' : buffer'[i] = buffer[i + 1]
    BY <1>0, <1>9, Taken
  <2>q. \A i, j \in DOMAIN buffer' :
          i < j /\ buffer'[i].kind = "note" /\ buffer'[j].kind = "note" => buffer'[i].ts < buffer'[j].ts
    <3> SUFFICES ASSUME NEW i \in DOMAIN buffer', NEW j \in DOMAIN buffer', i < j,
                        buffer'[i].kind = "note", buffer'[j].kind = "note"
                 PROVE  buffer'[i].ts < buffer'[j].ts
      OBVIOUS
    <3>1. i + 1 < j + 1
      BY <2>t
    <3> QED
      BY <2>1, <2>t, <3>1 DEF IInv, OrderInv
  <2>2. CASE m.kind = "note"
    <3>1. m \in NoteMsgs /\ GnmiUpdate(m)
      BY <1>0, <1>9, <2>2, Taken, NoteMessage, Zenon DEF Handle
    <3>2. /\ 1 \in DOMAIN buffer /\ m = buffer[1] /\ m.ts \in Nat /\ m.e \in Entries
          /\ \A e \in Entries : cache[e].ts < m.ts
      BY <1>0, <1>9, <2>1, <2>2, <3>1, Taken DEF IInv, OrderInv, NoteMsgs
    <3>3. \A e \in Entries : cache'[e].ts \in Nat /\ cache'[e].ts <= m.ts
      BY <1>0, <3>1, <3>2, CacheType, Stamps
    <3>4. \A i \in DOMAIN buffer : i > 1 /\ buffer[i].kind = "note" => m.ts < buffer[i].ts
      BY <2>1, <2>2, <3>2 DEF IInv, OrderInv
    <3>5. held # Absent /\ held.kind = "note" => m.ts < held.ts
      BY <2>1, <2>2, <3>2 DEF IInv, OrderInv
    <3>6. m.ts <= clock
      BY <2>1, <2>2, <3>2 DEF IInv, OrderInv
    <3>7. \A e \in Entries : cache'[e].ts <= clock
      BY <1>0, <3>2, <3>3, <3>6, Stamps
    <3>8. \A i \in DOMAIN buffer' : buffer'[i].kind = "note" =>
            \A e \in Entries : cache'[e].ts < buffer'[i].ts
      BY <1>0, <2>t, <3>2, <3>3, <3>4, Stamps
    <3>9. held # Absent /\ held.kind = "note" => \A e \in Entries : cache'[e].ts < held.ts
      BY <1>0, <3>2, <3>3, <3>5, Stamps
    <3> QED
      BY <1>0, <2>1, <2>t, <2>q, <3>7, <3>8, <3>9 DEF IInv, OrderInv
  <2>3. CASE m.kind # "note"
    <3>1. cache' = cache
      BY <1>9, <2>3 DEF Handle, Fatal
    <3> QED
      BY <1>0, <2>1, <2>t, <2>q, <3>1 DEF IInv, OrderInv
  <2> QED
    BY <2>2, <2>3
<1>10. CASE SyncTick BY <1>10, OrderQuiet DEF SyncTick, Fatal, Met, Quiet
<1>11. CASE DeleteTick BY <1>11, OrderQuiet DEF DeleteTick, Fatal, Met, Quiet
<1>12. ASSUME NEW o \in BOOLEAN, NotifyTick(o) PROVE OrderInv'
  BY <1>12, OrderQuiet DEF NotifyTick, Fatal, Met, Quiet
<1>13. CASE Timeout BY <1>13, OrderQuiet DEF Timeout, Fatal, Quiet
<1>14. CASE CtxDone BY <1>14, OrderQuiet DEF CtxDone, Fatal, Quiet
<1>15. CASE Cancel BY <1>15, OrderQuiet DEF Cancel, Quiet
<1>16. CASE UNCHANGED vars BY <1>16, OrderQuiet DEF vars, Quiet
<1> QED
  BY <1>1, <1>2, <1>3, <1>4, <1>5, <1>6, <1>7, <1>8, <1>9, <1>10, <1>11, <1>12, <1>13, <1>14,
     <1>15, <1>16 DEF Next, Reader, Listener

\* A step that touches neither device, stream nor cache changes no last value.
LEMMA LastQuiet == IInv /\ Quiet => LastInv'
BY DEF IInv, Quiet, LastInv, HeldFor, QueuedFor

\* What LastInv says of an entry, one clause at a time.
LEMMA LastHeld ==
  ASSUME IInv, ~skewed, reader = "run", NEW e \in Entries \ dirty, HeldFor(e)
  PROVE  held.note = device[e]
BY DEF IInv, LastInv

\* The last message in the channel about an entry has the device's value.
LEMMA LastQueued ==
  ASSUME IInv, ~skewed, reader = "run", NEW e \in Entries \ dirty, ~HeldFor(e),
         NEW i \in DOMAIN buffer, QueuedFor(e, i),
         \A j \in DOMAIN buffer : i < j => ~QueuedFor(e, j)
  PROVE  buffer[i].note = device[e]
BY DEF IInv, LastInv

\* With none under way, the cache has the device's value.
LEMMA LastCached ==
  ASSUME IInv, ~skewed, reader = "run", NEW e \in Entries \ dirty, ~HeldFor(e),
         \A i \in DOMAIN buffer : ~QueuedFor(e, i)
  PROVE  cache[e].note = device[e]
BY DEF IInv, LastInv

\* What is last under way for an entry stays the device's value of it.
LEMMA LastStep == IInv /\ [Next]_vars => LastInv'
<1> SUFFICES ASSUME IInv, [Next]_vars, ~skewed', reader' = "run" PROVE LastInv'
  BY DEF LastInv
<1> USE DEF devVars, sendVars, listenVars
<1>0. TypeOK
  BY DEF IInv
<1>1. ASSUME NEW e \in Entries, NEW v \in Notes[e] \cup {Absent}, Change(e, v) PROVE LastInv'
  <2>1. UNCHANGED <<skewed, held, reader, buffer, cache>>
    BY <1>1 DEF Change
  <2>2. \A f \in Entries \ dirty' : f \in Entries \ dirty /\ device'[f] = device[f]
    BY <1>0, <1>1 DEF Change, TypeOK
  <2>3. LastInv
    BY DEF IInv
  <2> QED
    BY <2>1, <2>2, <2>3 DEF LastInv, HeldFor, QueuedFor
<1>2. ASSUME NEW e \in Entries, NEW ts \in {clock, clock + 1}, Send(e, ts) PROVE LastInv'
  <2>1. ~skewed /\ reader = "run" /\ held = Absent /\ dirty' = dirty \ {e}
    BY <1>2, Zenon DEF Send, CanSend
  <2>2. held' = Note(e, device[e], ts) /\ UNCHANGED <<device, buffer, cache>>
    BY <1>2 DEF Send
  <2>3. held'.kind = "note" /\ held'.e = e /\ held'.note = device[e]
    BY <2>2 DEF Note
  <2>4. held' # Absent
    BY <1>0, <1>2, <2>2, StreamAssumption DEF Send, CanSend, TypeOK
  <2> QED
    BY <2>1, <2>2, <2>3, <2>4 DEF IInv, LastInv, HeldFor, QueuedFor
<1>3. CASE SendRefused
  <2>1. held'.kind # "note" /\ held = Absent
    BY <1>3 DEF SendRefused, Refused, CanSend
  <2>2. UNCHANGED <<skewed, reader, buffer, cache, device, dirty>>
    BY <1>3 DEF SendRefused
  <2>3. \A e \in Entries : ~HeldFor(e) /\ ~HeldFor(e)'
    BY <2>1 DEF HeldFor
  <2>4. LastInv
    BY DEF IInv
  <2> QED
    BY <2>2, <2>3, <2>4 DEF LastInv, QueuedFor
<1>4. CASE Break BY <1>4, LastQuiet DEF Break, Quiet
<1>5. ASSUME NEW ok \in BOOLEAN, Subscribe(ok) PROVE LastInv'
  BY <1>5, LastQuiet DEF Subscribe, Quiet
<1>6. CASE RecvError
  <2>1. held'.kind # "note" /\ held = Absent
    BY <1>6 DEF RecvError, StreamError
  <2>2. UNCHANGED <<skewed, reader, buffer, cache, device, dirty>>
    BY <1>6 DEF RecvError
  <2>3. \A e \in Entries : ~HeldFor(e) /\ ~HeldFor(e)'
    BY <2>1 DEF HeldFor
  <2>4. LastInv
    BY DEF IInv
  <2> QED
    BY <2>2, <2>3, <2>4 DEF LastInv, QueuedFor
<1>7. CASE Enqueue
  <2>1. held # Absent /\ held' = Absent /\ UNCHANGED <<cache, device, dirty, skewed, reader>>
    BY <1>7 DEF Enqueue
  <2>2. PICK n \in Nat :
          /\ DOMAIN buffer' = DOMAIN buffer \cup {n} /\ buffer'[n] = held
          /\ \A i \in DOMAIN buffer : i \in Nat /\ i < n /\ buffer'[i] = buffer[i]
    BY <1>0, <1>7, Appended
  <2>3. \A e \in Entries : ~HeldFor(e)'
    BY <2>1 DEF HeldFor
  <2>4. \A e \in Entries : /\ QueuedFor(e, n)' <=> HeldFor(e)
                           /\ \A i \in DOMAIN buffer : QueuedFor(e, i)' <=> QueuedFor(e, i)
    BY <2>1, <2>2 DEF HeldFor, QueuedFor
  <2>5. ASSUME NEW e \in Entries \ dirty, NEW i \in DOMAIN buffer', QueuedFor(e, i)',
               \A j \in DOMAIN buffer' : i < j => ~QueuedFor(e, j)'
        PROVE  buffer'[i].note = device[e]
    <3>1. CASE i = n
      BY <2>1, <2>2, <2>4, <2>5, <3>1, LastHeld
    <3>2. CASE i \in DOMAIN buffer
      <4>1. ~HeldFor(e)
        BY <2>2, <2>4, <2>5, <3>2
      <4>2. QueuedFor(e, i) /\ \A j \in DOMAIN buffer : i < j => ~QueuedFor(e, j)
        BY <2>2, <2>4, <2>5, <3>2
      <4>3. buffer[i].note = device[e]
        BY <2>1, <3>2, <4>1, <4>2, LastQueued
      <4> QED
        BY <2>2, <3>2, <4>3
    <3> QED
      BY <2>2, <3>1, <3>2
  <2>6. ASSUME NEW e \in Entries \ dirty, \A i \in DOMAIN buffer' : ~QueuedFor(e, i)'
        PROVE  cache[e].note = device[e]
    <3>1. ~HeldFor(e) /\ \A i \in DOMAIN buffer : ~QueuedFor(e, i)
      BY <2>2, <2>4, <2>6
    <3> QED
      BY <2>1, <3>1, LastCached
  <2> QED
    BY <2>1, <2>3, <2>5, <2>6 DEF LastInv
<1>8. CASE ReaderDone
  BY <1>8 DEF ReaderDone
<1>9. CASE Handle
  <2> DEFINE m == Head(buffer)
  <2>1. UNCHANGED <<held, device, dirty, skewed, reader>>
    BY <1>9 DEF Handle
  <2>2. /\ m = buffer[1] /\ 1 \in DOMAIN buffer /\ m \in Messages
        /\ \A i \in DOMAIN buffer' : i + 1 \in DOMAIN buffer /\ buffer'[i] = buffer[i + 1]
        /\ \A i \in DOMAIN buffer : i # 1 => i - 1 \in DOMAIN buffer' /\ buffer[i] = buffer'[i - 1]
        /\ \A i \in DOMAIN buffer : i \in Nat /\ i >= 1
        /\ \A i \in DOMAIN buffer' : i \in Nat
    BY <1>0, <1>9, Taken
  <2> SUFFICES ASSUME NEW e \in Entries \ dirty, ~HeldFor(e)
               PROVE  /\ \A i \in DOMAIN buffer' :
                           QueuedFor(e, i)' /\ (\A j \in DOMAIN buffer' : i < j => ~QueuedFor(e, j)') =>
                             buffer'[i].note = device[e]
                      /\ (\A i \in DOMAIN buffer' : ~QueuedFor(e, i)') => cache'[e].note = device[e]
    BY <2>1, Zenon DEF IInv, LastInv, HeldFor
  <2>3. ASSUME NEW i \in DOMAIN buffer', QueuedFor(e, i)', \A j \in DOMAIN buffer' : i < j => ~QueuedFor(e, j)'
        PROVE  buffer'[i].note = device[e]
    <3>1. QueuedFor(e, i + 1)
      BY <2>2, <2>3 DEF QueuedFor
    <3>2. ASSUME NEW j \in DOMAIN buffer, i + 1 < j PROVE ~QueuedFor(e, j)
      <4>1. j - 1 \in DOMAIN buffer' /\ i < j - 1 /\ buffer[j] = buffer'[j - 1]
        BY <2>2, <3>2
      <4> QED
        BY <2>3, <4>1 DEF QueuedFor
    <3>3. i + 1 \in DOMAIN buffer /\ buffer'[i] = buffer[i + 1]
      BY <2>2
    <3>4. buffer[i + 1].note = device[e]
      BY <2>1, <3>1, <3>2, <3>3, LastQueued
    <3> QED
      BY <3>3, <3>4
  <2>4. ASSUME \A i \in DOMAIN buffer' : ~QueuedFor(e, i)'
        PROVE  cache'[e].note = device[e]
    <3>1. \A j \in DOMAIN buffer : j # 1 => ~QueuedFor(e, j)
      BY <2>2, <2>4 DEF QueuedFor
    <3>2. CASE QueuedFor(e, 1)
      <4>0. 1 \in DOMAIN buffer /\ \A j \in DOMAIN buffer : 1 < j => ~QueuedFor(e, j)
        BY <2>2, <3>1
      <4>a. buffer[1].note = device[e]
        BY <2>1, <3>2, <4>0, LastQueued
      <4>1. m.note = device[e] /\ m.kind = "note" /\ m.e = e
        BY <2>2, <3>2, <4>a DEF QueuedFor
      <4>2. m \in NoteMsgs /\ GnmiUpdate(m)
        BY <1>9, <2>2, <4>1, NoteMessage, Zenon DEF Handle
      <4>3. cache[e].ts < m.ts
        BY <2>1, <2>2, <4>1, Zenon DEF IInv, OrderInv
      <4> QED
        BY <1>0, <4>1, <4>2, <4>3, CacheType
    <3>3. CASE ~QueuedFor(e, 1)
      <4>1. cache[e].note = device[e]
        BY <2>1, <3>1, <3>3, LastCached, Zenon
      <4>2. cache'[e] = cache[e]
        <5>1. CASE m.kind = "note"
          <6>1. m \in NoteMsgs /\ GnmiUpdate(m) /\ m.e # e
            BY <1>9, <2>2, <3>3, <5>1, NoteMessage DEF Handle, QueuedFor
          <6> QED
            BY <1>0, <6>1, CacheType
        <5>2. CASE m.kind # "note"
          BY <1>9, <5>2 DEF Handle, Fatal
        <5> QED
          BY <5>1, <5>2, Zenon
      <4> QED
        BY <4>1, <4>2, Zenon
    <3> QED
      BY <3>2, <3>3
  <2> QED
    BY <2>3, <2>4
<1>10. CASE SyncTick BY <1>10, LastQuiet DEF SyncTick, Fatal, Met, Quiet
<1>11. CASE DeleteTick BY <1>11, LastQuiet DEF DeleteTick, Fatal, Met, Quiet
<1>12. ASSUME NEW o \in BOOLEAN, NotifyTick(o) PROVE LastInv'
  BY <1>12, LastQuiet DEF NotifyTick, Fatal, Met, Quiet
<1>13. CASE Timeout BY <1>13, LastQuiet DEF Timeout, Fatal, Quiet
<1>14. CASE CtxDone BY <1>14, LastQuiet DEF CtxDone, Fatal, Quiet
<1>15. CASE Cancel BY <1>15, LastQuiet DEF Cancel, Quiet
<1>16. CASE UNCHANGED vars BY <1>16, LastQuiet DEF vars, Quiet
<1> QED
  BY <1>1, <1>2, <1>3, <1>4, <1>5, <1>6, <1>7, <1>8, <1>9, <1>10, <1>11, <1>12, <1>13, <1>14,
     <1>15, <1>16 DEF Next, Reader, Listener

-----------------------------------------------------------------------------
\* IInv is an invariant of the session, whatever the device sends.
THEOREM Invariance == Spec => []IInv
<1>1. IInv /\ [Next]_vars => IInv'
  BY TypeStep, DeleteStep, OrderStep, LastStep DEF IInv
<1> QED
  BY InitInv, <1>1, PTL DEF Spec

\* Neither deletion condition is met unless the device deleted every prefix.
THEOREM DeletionsAreReal == Spec => []DeletionsHappened
<1>1. IInv => DeletionsHappened
  BY DEF IInv, DeleteInv
<1> QED
  BY Invariance, <1>1, PTL

\* The cache holds the device's value of every entry with nothing under way.
THEOREM CacheFollows == Spec => []CacheTracksDevice
<1>1. ASSUME IInv PROVE CacheTracksDevice
  BY <1>1 DEF IInv, LastInv, HeldFor, QueuedFor, CacheTracksDevice, InFlight
<1> QED
  BY Invariance, <1>1, PTL

-----------------------------------------------------------------------------
(***************************************************************************)
(* SyncIsTruthful.  While the table has not changed, everything under way  *)
(* and in the cache is the device's value or missing, and a table with     *)
(* entries missing resolves a prefix to the device's next hops or to none. *)
(***************************************************************************)
SyncInv ==
  /\ changes \in Nat
  /\ changes = 0 =>
       /\ held # Absent /\ held.kind = "note" => held.note = device[held.e]
       /\ \A i \in DOMAIN buffer :
            buffer[i].kind = "note" => buffer[i].note = device[buffer[i].e]
       /\ \A e \in Entries : cache[e].note \in {Absent, device[e]}
  /\ SyncIsTruthful

Unconditional(a) == \A g \in DOMAIN a.groups : a.groups[g].conditionals = {}
Direct(a, g) == IF g \in DOMAIN a.groups THEN Leaf(a, g) ELSE Err("not exist")

\* resolveRouteCBF on a table without conditions, as ToAFT's are: the group's next
\* hops if all of them are there, whatever groups were visited.
LEMMA WalkLeaf ==
  ASSUME NEW a, NEW dscp, NEW k \in Groups, Unconditional(a)
  PROVE  ResolveFrom(a, dscp)[k] = Direct(a, k)
<1> DEFINE
      Body(f, visited, g) ==
        LET cs == Matching(a, g, dscp) IN
        IF g \notin DOMAIN a.groups THEN Err("not exist")
        ELSE IF Unclear(a, g) THEN Err("ambiguous")
        ELSE IF ~IsCNHG(a, g) THEN Leaf(a, g)
        ELSE IF g \in visited THEN Err("circular")
        ELSE IF cs = {} THEN Err("none")
        ELSE IF Cardinality(cs) > 1 THEN Err("ambiguous")
        ELSE f[visited \cup {g}][(CHOOSE c \in cs : TRUE).nhg]
      Leaves == [visited \in SUBSET Groups |-> [g \in Groups |-> Direct(a, g)]]
      Walk == CHOOSE f : f = [visited \in SUBSET Groups |-> [g \in Groups |-> Body(f, visited, g)]]
<1>1. ResolveFrom(a, dscp) = Walk[{}]
  BY DEF ResolveFrom
<1>2. \A g \in DOMAIN a.groups : ~Unclear(a, g) /\ ~IsCNHG(a, g)
  BY DEF Unconditional, Unclear, IsCNHG
<1>3. \A f, visited, g : Body(f, visited, g) = Direct(a, g)
  BY <1>2, Zenon DEF Direct
<1> HIDE DEF Body
<1>4. \E f : f = [visited \in SUBSET Groups |-> [g \in Groups |-> Body(f, visited, g)]]
  <2>1. Leaves = [visited \in SUBSET Groups |-> [g \in Groups |-> Body(Leaves, visited, g)]]
    BY <1>3
  <2> QED
    BY <2>1, Zenon
<1>5. Walk = [visited \in SUBSET Groups |-> [g \in Groups |-> Body(Walk, visited, g)]]
  BY <1>4, Zenon
<1> HIDE DEF Walk
<1>6. Walk[{}][k] = Direct(a, k)
  BY <1>3, <1>5
<1> QED
  BY <1>1, <1>6, Zenon

\* ToAFT, entry by entry.  It drops the conditional groups, so the tables it makes
\* have no conditions.
Aft(f) == ToAFT(Table(f))

\* The prefixes that ToAFT makes of a cache are the complete ones.
LEMMA ParsedPrefix ==
  ASSUME NEW f, NEW p
  PROVE  /\ p \in DOMAIN Aft(f).prefixes <=> p \in Prefixes /\ f[p] # Absent /\ f[p].complete
         /\ p \in DOMAIN Aft(f).prefixes => Aft(f).prefixes[p] = f[p].nhg
<1>1. Table(f).prefixes = [q \in Prefixes |-> f[q]]
  BY DEF Table
<1>2. \A n : /\ ParsePrefix(n).kind = "ok" <=> n.complete
             /\ n.complete => ParsePrefix(n).nhg = n.nhg
  BY DEF ParsePrefix
<1>3. Aft(f).prefixes =
        [q \in {k \in Prefixes : f[k] # Absent /\ ParsePrefix(f[k]).kind = "ok"} |->
           ParsePrefix(f[q]).nhg]
  BY <1>1, Zenon DEF Aft, ToAFT, Parsed, PrefixResults, Stored
<1> QED
  BY <1>2, <1>3

\* The groups that ToAFT makes of a cache are the ones that parse.
LEMMA ParsedGroup ==
  ASSUME NEW f, NEW g
  PROVE  /\ g \in DOMAIN Aft(f).groups
              <=> g \in Groups /\ f[g] # Absent /\ ParseNHG(f[g]).kind = "ok"
         /\ g \in DOMAIN Aft(f).groups =>
              Aft(f).groups[g].nhs = ParseNHG(f[g]).nhs /\ Aft(f).groups[g].conditionals = {}
<1> DEFINE r == GroupResults(Table(f))
<1>1. r = [q \in {k \in Groups : f[k] # Absent} |-> ParseNHG(f[q])]
  BY DEF Table, GroupResults, Stored
<1>2. \A n : ParseNHG(n).kind = "ok" => ParseNHG(n).conditionals = {}
  BY DEF ParseNHG
<1>3. Aft(f).groups = [q \in {k \in DOMAIN r : r[k].kind = "ok"} |->
                         [nhs |-> r[q].nhs, conditionals |-> r[q].conditionals]]
  BY Zenon DEF Aft, ToAFT, Parsed
<1> HIDE DEF r
<1>4. \A q : q \in DOMAIN Aft(f).groups <=> q \in DOMAIN r /\ r[q].kind = "ok"
  BY <1>3
<1>5. \A q \in DOMAIN Aft(f).groups : /\ Aft(f).groups[q].nhs = r[q].nhs
                                      /\ Aft(f).groups[q].conditionals = r[q].conditionals
  BY <1>3
<1>6. /\ \A q : q \in DOMAIN r <=> q \in Groups /\ f[q] # Absent
      /\ \A q \in DOMAIN r : r[q] = ParseNHG(f[q])
  BY <1>1
<1>7. g \in DOMAIN Aft(f).groups => r[g] = ParseNHG(f[g]) /\ ParseNHG(f[g]).kind = "ok"
  BY <1>4, <1>6
<1> QED
  BY <1>2, <1>4, <1>5, <1>6, <1>7, Zenon

\* The next hops that ToAFT makes of a cache are the ones that parse.
LEMMA ParsedHop ==
  ASSUME NEW f, NEW h
  PROVE  /\ h \in DOMAIN Aft(f).hops <=> h \in Hops /\ f[h] # Absent /\ ParseNH(f[h]).kind = "ok"
         /\ h \in DOMAIN Aft(f).hops => Aft(f).hops[h] = ParseNH(f[h]).ip
<1>1. Table(f).hops = [q \in Hops |-> f[q]]
  BY DEF Table
<1>2. Aft(f).hops =
        [q \in {k \in Hops : f[k] # Absent /\ ParseNH(f[k]).kind = "ok"} |-> ParseNH(f[q]).ip]
  BY <1>1, Zenon DEF Aft, ToAFT, Parsed, HopResults, Stored
<1> QED
  BY <1>2

\* Where c has an entry of f it parses to the same value.
LEMMA PartOfTable ==
  ASSUME NEW c, NEW f, \A e \in Entries : c[e] \in {Absent, f[e]}
  PROVE  /\ \A p \in DOMAIN Aft(c).prefixes :
              p \in DOMAIN Aft(f).prefixes /\ Aft(f).prefixes[p] = Aft(c).prefixes[p]
         /\ \A g \in DOMAIN Aft(c).groups :
              g \in DOMAIN Aft(f).groups /\ Aft(f).groups[g].nhs = Aft(c).groups[g].nhs
         /\ \A h \in DOMAIN Aft(c).hops :
              h \in DOMAIN Aft(f).hops /\ Aft(f).hops[h] = Aft(c).hops[h]
<1>1. ASSUME NEW p \in DOMAIN Aft(c).prefixes
      PROVE  p \in DOMAIN Aft(f).prefixes /\ Aft(f).prefixes[p] = Aft(c).prefixes[p]
  <2>1. p \in Prefixes /\ c[p] # Absent /\ c[p].complete
    BY <1>1, ParsedPrefix
  <2>2. c[p] = f[p]
    BY <2>1 DEF Entries
  <2> QED
    BY <1>1, <2>1, <2>2, ParsedPrefix
<1>2. ASSUME NEW g \in DOMAIN Aft(c).groups
      PROVE  g \in DOMAIN Aft(f).groups /\ Aft(f).groups[g].nhs = Aft(c).groups[g].nhs
  <2>1. g \in Groups /\ c[g] # Absent /\ ParseNHG(c[g]).kind = "ok"
    BY <1>2, ParsedGroup
  <2>2. c[g] = f[g]
    BY <2>1 DEF Entries
  <2> QED
    BY <1>2, <2>1, <2>2, ParsedGroup
<1>3. ASSUME NEW h \in DOMAIN Aft(c).hops
      PROVE  h \in DOMAIN Aft(f).hops /\ Aft(f).hops[h] = Aft(c).hops[h]
  <2>1. h \in Hops /\ c[h] # Absent /\ ParseNH(c[h]).kind = "ok"
    BY <1>3, ParsedHop
  <2>2. c[h] = f[h]
    BY <2>1 DEF Entries
  <2> QED
    BY <1>3, <2>1, <2>2, ParsedHop
<1> QED
  BY <1>1, <1>2, <1>3

\* A prefix that resolves to next hops in a part of the table resolves to the same
\* ones in the table.
LEMMA PartResolves ==
  ASSUME NEW c, NEW f, \A e \in Entries : c[e] \in {Absent, f[e]},
         NEW p \in DOMAIN Aft(c).prefixes, Aft(c).prefixes[p] \in Groups,
         Resolve(Aft(c), p, 0).nhs # {}
  PROVE  p \in DOMAIN Aft(f).prefixes /\ Resolve(Aft(f), p, 0).nhs = Resolve(Aft(c), p, 0).nhs
<1>1. PICK a : a = Aft(c)
  OBVIOUS
<1>2. PICK b : b = Aft(f)
  OBVIOUS
<1>3. PICK k \in Groups : k = a.prefixes[p]
  BY <1>1
<1>4. /\ p \in DOMAIN a.prefixes /\ p \in DOMAIN b.prefixes /\ b.prefixes[p] = k
      /\ \A g \in DOMAIN a.groups : g \in DOMAIN b.groups /\ b.groups[g].nhs = a.groups[g].nhs
      /\ \A h \in DOMAIN a.hops : h \in DOMAIN b.hops /\ b.hops[h] = a.hops[h]
  BY <1>1, <1>2, <1>3, PartOfTable
<1>5. Unconditional(a) /\ Unconditional(b)
  BY <1>1, <1>2, ParsedGroup DEF Unconditional
<1>6. Resolve(a, p, 0) = Direct(a, k)
  <2>1. Resolve(a, p, 0) = ResolveFrom(a, 0)[k]
    BY <1>3, <1>4, Zenon DEF Resolve
  <2> QED
    BY <1>5, <2>1, WalkLeaf
<1>7. Resolve(b, p, 0) = Direct(b, k)
  <2>1. Resolve(b, p, 0) = ResolveFrom(b, 0)[k]
    BY <1>4, Zenon DEF Resolve
  <2> QED
    BY <1>5, <2>1, WalkLeaf
<1>8. \A e : Err(e).nhs = {}
  BY DEF Err
<1>9. k \in DOMAIN a.groups /\ a.groups[k].nhs \subseteq DOMAIN a.hops
  BY <1>1, <1>6, <1>8, Zenon DEF Direct, Leaf
<1>10. Resolve(a, p, 0).nhs = {a.hops[h] : h \in a.groups[k].nhs}
  BY <1>6, <1>9 DEF Direct, Leaf
<1>11. Leaf(b, k).nhs = {b.hops[h] : h \in a.groups[k].nhs}
  <2>1. b.groups[k].nhs \subseteq DOMAIN b.hops /\ b.groups[k].nhs = a.groups[k].nhs
    BY <1>4, <1>9
  <2> QED
    BY <2>1 DEF Leaf
<1>12. Resolve(b, p, 0).nhs = {b.hops[h] : h \in a.groups[k].nhs}
  BY <1>4, <1>7, <1>9, <1>11, Zenon DEF Direct
<1>13. {b.hops[h] : h \in a.groups[k].nhs} = {a.hops[h] : h \in a.groups[k].nhs}
  BY <1>4, <1>9
<1> QED
  BY <1>1, <1>2, <1>4, <1>10, <1>12, <1>13, Zenon

\* So a cache that holds nothing but device values passes the sync only if the
\* device's table does.
LEMMA SyncTruth ==
  ASSUME TypeOK, \A e \in Entries : cache[e].note \in {Absent, device[e]},
         Missing(ToAFT(Table(Cached))) = {}, Wrong(ToAFT(Table(Cached))) = {}
  PROVE  Missing(ToAFT(Table(device))) = {} /\ Wrong(ToAFT(Table(device))) = {}
<1> SUFFICES ASSUME NEW p \in Prefixes
             PROVE  p \in DOMAIN Aft(device).prefixes /\ Resolve(Aft(device), p, 0).nhs = WantNHs
  BY DEF Missing, Wrong, Aft
<1>1. p \in DOMAIN Aft(Cached).prefixes /\ Resolve(Aft(Cached), p, 0).nhs = WantNHs
  BY DEF Missing, Wrong, Aft
<1>2. \A e \in Entries : Cached[e] \in {Absent, device[e]}
  BY DEF Cached
<1>3. Aft(Cached).prefixes[p] \in Groups
  <2>1. /\ Cached[p] # Absent /\ Cached[p].complete /\ p \in Entries
        /\ Aft(Cached).prefixes[p] = Cached[p].nhg
    BY <1>1, ParsedPrefix DEF Entries
  <2>2. Cached[p] \in Notes[p]
    BY <1>2, <2>1 DEF TypeOK
  <2> QED
    BY <2>1, <2>2, SyncAssumption
<1>4. Resolve(Aft(Cached), p, 0).nhs # {}
  BY <1>1, SyncAssumption, Zenon
<1>5. /\ p \in DOMAIN Aft(device).prefixes
      /\ Resolve(Aft(device), p, 0).nhs = Resolve(Aft(Cached), p, 0).nhs
  BY <1>1, <1>2, <1>3, <1>4, PartResolves, Zenon
<1> QED
  BY <1>1, <1>5, Zenon

\* Steps that leave the device, the messages and the cache alone, and meet no sync.
LEMMA SyncQuiet ==
  ASSUME SyncInv, UNCHANGED <<device, changes, held, buffer, cache>>,
         "sync" \in passed' => "sync" \in passed
  PROVE  SyncInv'
BY DEF SyncInv, SyncIsTruthful

\* While the table has not changed, everything on its way from the device to the
\* cache stays the device's own.
LEMMA SyncStep == IInv /\ SyncInv /\ [Next]_vars => SyncInv'
<1> SUFFICES ASSUME IInv, SyncInv, [Next]_vars PROVE SyncInv'
  OBVIOUS
<1> USE StreamAssumption DEF devVars, sendVars, listenVars
<1>1. ASSUME NEW e \in Entries, NEW v \in Notes[e] \cup {Absent}, Change(e, v) PROVE SyncInv'
  <2>1. changes' \in Nat /\ changes' # 0
    BY <1>1 DEF Change, SyncInv
  <2> QED
    BY <2>1, Zenon DEF SyncInv, SyncIsTruthful
<1>2. ASSUME NEW e \in Entries, NEW ts \in {clock, clock + 1}, Send(e, ts) PROVE SyncInv'
  BY <1>2, Zenon DEF Send, Note, SyncInv, SyncIsTruthful
<1>3. CASE SendRefused
  BY <1>3, Zenon DEF SendRefused, Refused, SyncInv, SyncIsTruthful
<1>4. CASE Break
  BY <1>4, SyncQuiet DEF Break
<1>5. ASSUME NEW ok \in BOOLEAN, Subscribe(ok) PROVE SyncInv'
  BY <1>5, SyncQuiet DEF Subscribe
<1>6. CASE RecvError
  BY <1>6, Zenon DEF RecvError, StreamError, SyncInv, SyncIsTruthful
<1>7. CASE Enqueue
  <2>1. DOMAIN buffer' = DOMAIN buffer \cup {Len(buffer) + 1} /\ buffer'[Len(buffer) + 1] = held
        /\ \A i \in DOMAIN buffer : buffer'[i] = buffer[i]
    BY <1>7, Appended DEF IInv
  <2> QED
    BY <1>7, <2>1, Zenon DEF Enqueue, SyncInv, SyncIsTruthful
<1>8. CASE ReaderDone
  BY <1>8, Zenon DEF ReaderDone, SyncInv, SyncIsTruthful
<1>9. CASE Handle
  <2> DEFINE m == Head(buffer)
  <2>1. /\ m \in Messages /\ m = buffer[1] /\ 1 \in DOMAIN buffer
        /\ \A i \in DOMAIN buffer' : i + 1 \in DOMAIN buffer /\ buffer'[i] = buffer[i + 1]
    BY <1>9, Taken DEF IInv
  <2>2. UNCHANGED <<device, changes, held, passed>>
    BY <1>9 DEF Handle, Fatal
  <2>3. changes = 0 => \A e \in Entries : cache'[e].note \in {Absent, device[e]}
    <3>1. CASE m.kind = "note"
      <4>1. m \in NoteMsgs /\ GnmiUpdate(m)
        BY <1>9, <2>1, <3>1, NoteMessage DEF Handle
      <4>2. changes = 0 => m.note = device[m.e]
        BY <2>1, <3>1 DEF SyncInv
      <4> HIDE DEF m
      <4>3. \A e \in Entries : \/ cache'[e].note \in {cache[e].note, Absent}
                               \/ e = m.e /\ cache'[e].note = m.note
        <5>1. cache \in [Entries -> [note : Values, ts : Nat]] /\ m.e \in Entries
          BY <4>1 DEF IInv, TypeOK, NoteMsgs
        <5>2. \E x : cache' = cache \/ cache' = [cache EXCEPT ![m.e] = [note |-> m.note, ts |-> x]]
                     \/ cache' = [cache EXCEPT ![m.e] = [note |-> Absent, ts |-> x]]
          BY <4>1, Zenon DEF GnmiUpdate
        <5> QED
          BY <5>1, <5>2
      <4> QED
        BY <4>2, <4>3 DEF SyncInv
    <3>2. CASE m.kind # "note"
      BY <1>9, <3>2, Zenon DEF Handle, Fatal, SyncInv
    <3> QED
      BY <3>1, <3>2
  <2> HIDE DEF m
  <2>4. changes = 0 => \A i \in DOMAIN buffer' :
          buffer'[i].kind = "note" => buffer'[i].note = device[buffer'[i].e]
    BY <2>1 DEF SyncInv
  <2>5. SyncIsTruthful'
    BY <2>2 DEF SyncInv, SyncIsTruthful
  <2> QED
    BY <2>2, <2>3, <2>4, <2>5 DEF SyncInv
<1>10. CASE SyncTick
  <2>1. UNCHANGED <<device, changes, held, buffer, cache>>
    BY <1>10, Zenon DEF SyncTick, Fatal, Met
  <2>2. CASE passed' = passed
    BY <2>1, <2>2, SyncQuiet
  <2>3. CASE Missing(ToAFT(Table(Cached))) = {} /\ Wrong(ToAFT(Table(Cached))) = {}
    <3>1. changes = 0 => Missing(ToAFT(Table(device))) = {} /\ Wrong(ToAFT(Table(device))) = {}
      BY <2>3, SyncTruth, Zenon DEF IInv, SyncInv
    <3> QED
      BY <2>1, <3>1, Zenon DEF SyncInv, SyncIsTruthful
  <2> QED
    BY <1>10, <2>2, <2>3, Zenon DEF SyncTick, Fatal
<1>11. CASE DeleteTick
  BY <1>11, SyncQuiet DEF DeleteTick, Fatal, Met
<1>12. ASSUME NEW o \in BOOLEAN, NotifyTick(o) PROVE SyncInv'
  BY <1>12, SyncQuiet DEF NotifyTick, Fatal, Met
<1>13. CASE Timeout BY <1>13, SyncQuiet DEF Timeout, Fatal
<1>14. CASE CtxDone BY <1>14, SyncQuiet DEF CtxDone, Fatal
<1>15. CASE Cancel BY <1>15, SyncQuiet DEF Cancel
<1>16. CASE UNCHANGED vars BY <1>16, SyncQuiet DEF vars
<1> QED
  BY <1>1, <1>2, <1>3, <1>4, <1>5, <1>6, <1>7, <1>8, <1>9, <1>10, <1>11, <1>12, <1>13, <1>14,
     <1>15, <1>16 DEF Next, Reader, Listener

\* If the device's table has not changed since the subscription, the initial sync is
\* declared complete only if that table has every prefix with the wanted next hops,
\* however its entries arrive.
THEOREM SyncsAreTruthful == Spec => []SyncIsTruthful
<1>1. Init => SyncInv
  BY DEF Init, SyncInv, SyncIsTruthful
<1>2. SyncInv => SyncIsTruthful
  BY DEF SyncInv
<1> QED
  BY <1>1, <1>2, SyncStep, Invariance, PTL DEF Spec
=============================================================================
