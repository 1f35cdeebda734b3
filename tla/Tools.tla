-------------------------------- MODULE Tools --------------------------------
(***************************************************************************)
(* Helpers that leave something behind, on a device or on disk, and what   *)
(* is proved about it for every value of the constants.  A behaviour is    *)
(* about one part: the gRIBI client, the rotation of credentials or the    *)
(* rundata tool.  The other parts stand still.                             *)
(*                                                                         *)
(* Each part has an inductive invariant of its own; a step is one of the   *)
(* part that the behaviour is about (OneTool), so the parts are proved one *)
(* after the other.                                                        *)
(***************************************************************************)
EXTENDS Integers, FiniteSets, TLAPS

CONSTANTS  \* the parameters of the parts, described where they are declared
  Clients, WordValues, RibEntries, MaxModifies,
  NewPasswords, NewPrincipals, AuthTypes, CheckTools, KeyDirs, MaxRotations,
  TestTrees, MaxRundataRuns, MaxFaults

VARIABLES
  part,  \* the part that this behaviour is about
  server, sent, own, started, rib, results, ops, last,
  device, kept, busy, call, wanted, login, calls, failed,
  tree, ts, pc, mode, rundataTodo, at, updated, outcome, run, faults, settled

-----------------------------------------------------------------------------
Gribi == INSTANCE GribiClient WITH
  Words <- WordValues, Entries <- RibEntries, MaxOps <- MaxModifies
Credentials == INSTANCE Credz WITH
  Passwords <- NewPasswords, Principals <- NewPrincipals, TypeLists <- AuthTypes,
  Tools <- CheckTools, Dirs <- KeyDirs, MaxCalls <- MaxRotations
Rundata == INSTANCE AddRundata WITH
  Trees <- TestTrees, MaxRuns <- MaxRundataRuns, todo <- rundataTodo

\* The files of a test directory have the parts that the tool reads.
IsUuid(u) == u = [n |-> u.n, form |-> u.form]
IsRundata(m) ==
  m = Rundata!Rundata(m.plan, m.desc, m.uuid, m.testbed) /\ IsUuid(m.uuid)
IsMeta(m) == (m.st = "nil" => m = Rundata!Nil) /\ (m.st = "ok" => IsRundata(m))
IsEntry(e) ==
  /\ e = [path |-> e.path, readme |-> e.readme, meta |-> e.meta, pkgs |-> e.pkgs, old |-> e.old]
  /\ IsMeta(e.meta)
IsTree(t) ==
  /\ t = [d \in DOMAIN t |-> t[d]]
  /\ \A d \in DOMAIN t : d = [kind |-> d.kind, test |-> d.test] /\ IsEntry(t[d])

\* A word holds 0 and 1 at least.
ASSUME WordsAssumption == WordValues \in Nat /\ WordValues > 1
ASSUME TreesAssumption == \A t \in TestTrees : IsTree(t)

gribiVars == <<server, sent, own, started, rib, results, ops, last>>
credzVars == <<device, kept, busy, call, wanted, login, calls, failed>>
rundataVars == <<tree, ts, pc, mode, rundataTodo, at, updated, outcome, run,
                 faults, settled>>
toolsVars == <<part, gribiVars, credzVars, rundataVars>>

\* A part that a behaviour is not about stands still.
Idle == "idle"
GribiIdle == server = Idle /\ sent = Idle /\ own = Idle /\ started = Idle /\
             rib = Idle /\ results = Idle /\ ops = Idle /\ last = Idle
CredentialsIdle == device = Idle /\ kept = Idle /\ busy = Idle /\ call = Idle /\
                   wanted = Idle /\ login = Idle /\ calls = Idle /\ failed = Idle
RundataIdle == tree = Idle /\ ts = Idle /\ pc = Idle /\ mode = Idle /\
               rundataTodo = Idle /\ at = Idle /\ updated = Idle /\
               outcome = Idle /\ run = Idle /\ faults = Idle /\ settled = Idle

ToolsInit ==
  /\ IF part = "gribi" THEN Gribi!Init ELSE GribiIdle
  /\ IF part = "credz" THEN Credentials!Init ELSE CredentialsIdle
  /\ IF part = "rundata" THEN Rundata!Init ELSE RundataIdle

ToolsNext ==
  \/ part = "gribi" /\ Gribi!Next /\ UNCHANGED <<part, credzVars, rundataVars>>
  \/ part = "credz" /\ Credentials!Next /\ UNCHANGED <<part, gribiVars, rundataVars>>
  \/ part = "rundata" /\ Rundata!Next /\ UNCHANGED <<part, gribiVars, credzVars>>

ToolsSpec == ToolsInit /\ [][ToolsNext]_toolsVars

-----------------------------------------------------------------------------
\* A gRIBI client that becomes leader leads alone, with the id after the server's,
\* over the carry between its words (the largest id apart, which has none after
\* it); the first time it adds or deletes an entry, a failure to program it fails
\* the test.  Between calls the device uses the credentials that were rotated, also
\* after a connection that broke half way, a login succeeds exactly when they allow
\* it, and no rotation finds an earlier one still open.
CallsTakeEffect ==
  /\ part = "gribi" => Gribi!BecomeLeaderWins /\ Gribi!FirstFailureNoticed
  /\ part = "credz" => /\ Credentials!CredentialsAsRotated /\ Credentials!LoginsAsRotated
                       /\ Credentials!NeverTurnedAway

\* A tree that passes the rundata check is consistent in whatever order the tests
\* were met; a --fix run that completes repairs every test, gives an ATE test and
\* its OTG version one UUID and leaves nothing for the next run to change,
\* however many runs were cut short before it.
RundataRepaired ==
  part = "rundata" => /\ Rundata!PassedIsConsistent /\ Rundata!FixRepairs
                      /\ Rundata!TwinsShareUuid /\ Rundata!FixIsIdempotent

\* No step of the rundata tool loses what is there: a metadata.textproto changes
\* only to the whole rundata of its test and keeps a valid UUID, wherever the run
\* is cut short.
NothingLost ==
  [][part = "rundata" => Rundata!WholeStep /\ Rundata!UuidStep]_toolsVars

-----------------------------------------------------------------------------
(* The gRIBI client.                                                       *)

\* No client that has a session has sent more than the server knows.
Known == \A c \in started : Gribi!Value(sent[c]) <= Gribi!Value(server)

GribiInv ==
  /\ server \in Gribi!Id /\ sent \in [Clients -> Gribi!Id] /\ own \in [Clients -> Gribi!Id]
  /\ started \subseteq Clients /\ Known
  /\ Gribi!BecomeLeaderWins /\ Gribi!FirstFailureNoticed

\* An id of the range has a value, and the two agree.
LEMMA IdValue ==
  ASSUME NEW a \in Gribi!Id
  PROVE  /\ Gribi!Value(a) \in Nat
         /\ a.low \in 0 .. WordValues - 1 /\ a.high \in 0 .. WordValues - 1
         /\ a = [low |-> a.low, high |-> a.high]
BY WordsAssumption DEF Gribi!Id, Gribi!Word, Gribi!Value

\* The id that a client starts with.
LEMMA OneId == Gribi!One \in Gribi!Id
BY WordsAssumption DEF Gribi!One, Gribi!Id, Gribi!Word

\* Increment and Decrement stay in the range, and so does the highest of two ids.
LEMMA IdClosed ==
  ASSUME NEW a \in Gribi!Id, NEW b \in Gribi!Id
  PROVE  /\ Gribi!Increment(a) \in Gribi!Id /\ Gribi!Decrement(a) \in Gribi!Id
         /\ Gribi!Highest(a, b) \in Gribi!Id
         /\ Gribi!Value(a) <= Gribi!Value(Gribi!Highest(a, b))
         /\ Gribi!Value(b) <= Gribi!Value(Gribi!Highest(a, b))
<1>1. \A x \in Nat : x % WordValues \in 0 .. WordValues - 1
  BY WordsAssumption
<1>2. Gribi!Increment(a) \in Gribi!Id /\ Gribi!Decrement(a) \in Gribi!Id
  BY <1>1, IdValue, WordsAssumption DEF Gribi!Id, Gribi!Word, Gribi!Increment, Gribi!Decrement
<1> QED
  BY <1>2, IdValue DEF Gribi!Highest

\* Increment adds one over the carry, except to the last id of the range.
LEMMA IncrementAdds ==
  ASSUME NEW a \in Gribi!Id, Gribi!Value(a) < WordValues * WordValues - 1
  PROVE  Gribi!Value(Gribi!Increment(a)) = Gribi!Value(a) + 1
<1> DEFINE M == WordValues  l == a.low  h == a.high
<1>1. M \in Nat /\ M > 1 /\ l \in 0 .. M - 1 /\ h \in 0 .. M - 1
  BY WordsAssumption, IdValue
<1>2. CASE l < M - 1
  <2>1. (l + 1) % M = l + 1
    BY <1>1, <1>2
  <2>2. Gribi!Increment(a) = [low |-> l + 1, high |-> h]
    BY <1>1, <2>1 DEF Gribi!Increment
  <2> QED
    BY <1>1, <2>2 DEF Gribi!Value
<1>3. CASE l = M - 1
  <2>1. (l + 1) % M = 0
    BY <1>1, <1>3
  <2>2. h # M - 1
    <3> SUFFICES ASSUME h = M - 1 PROVE FALSE
      OBVIOUS
    <3>1. Gribi!Value(a) = (M - 1) * M + (M - 1)
      BY <1>3 DEF Gribi!Value
    <3>2. (M - 1) * M + (M - 1) = M * M - 1
      BY <1>1
    <3> QED
      BY <3>1, <3>2, <1>1
  <2>3. (h + 1) % M = h + 1
    BY <1>1, <2>2
  <2>4. Gribi!Increment(a) = [low |-> 0, high |-> h + 1]
    BY <1>1, <1>3, <2>1, <2>3 DEF Gribi!Increment
  <2>5. (h + 1) * M + 0 = (h * M + (M - 1)) + 1
    BY <1>1
  <2> QED
    BY <1>3, <2>4, <2>5 DEF Gribi!Value
<1> QED
  BY <1>1, <1>2, <1>3

\* A client only changes the server's id to a higher one.
LEMMA GribiStep == GribiInv /\ [Gribi!Next]_gribiVars => GribiInv'
<1> SUFFICES ASSUME GribiInv, [Gribi!Next]_gribiVars PROVE GribiInv'
  OBVIOUS
<1> DEFINE Types == /\ server \in Gribi!Id /\ sent \in [Clients -> Gribi!Id]
                    /\ own \in [Clients -> Gribi!Id] /\ started \subseteq Clients
<1>t. Types /\ Known
  BY DEF GribiInv
<1>n. ASSUME last' = Gribi!NoCall PROVE Gribi!BecomeLeaderWins' /\ Gribi!FirstFailureNoticed'
  BY <1>n DEF Gribi!BecomeLeaderWins, Gribi!FirstFailureNoticed, Gribi!NoCall
\* A client sends an id, and the server keeps the highest.
<1>s. ASSUME NEW c \in Clients, NEW id \in Gribi!Id, NEW old \in Gribi!Id,
             Gribi!Value(server) <= Gribi!Value(old), server' = Gribi!Highest(id, old),
             sent' = [sent EXCEPT ![c] = id], own' = [own EXCEPT ![c] = id],
             started' \in {started, started \cup {c}}
      PROVE  Types' /\ Known'
  <2>1. /\ server' \in Gribi!Id /\ Gribi!Value(id) <= Gribi!Value(server')
        /\ Gribi!Value(server) <= Gribi!Value(server')
    BY <1>s, <1>t, IdClosed, IdValue
  <2>2. Types'
    BY <1>s, <1>t, <2>1
  <2>3. ASSUME NEW d \in started' PROVE Gribi!Value(sent'[d]) <= Gribi!Value(server')
    <3>1. CASE d = c
      BY <1>s, <1>t, <2>1, <3>1
    <3>2. CASE d # c
      <4>1. d \in started /\ sent'[d] = sent[d] /\ sent[d] \in Gribi!Id
        BY <1>s, <1>t, <2>3, <3>2
      <4> QED
        BY <1>t, <2>1, <4>1, IdValue DEF Known
    <3> QED
      BY <3>1, <3>2
  <2> QED
    BY <2>2, <2>3, <2>1 DEF Known, Gribi!Value
<1>1. ASSUME NEW c \in Clients, Gribi!Start(c) PROVE GribiInv'
  <2>1. /\ Gribi!One \in Gribi!Id /\ server \in Gribi!Id
        /\ Gribi!Value(server) <= Gribi!Value(server)
    BY <1>t, OneId, IdValue
  <2>2. /\ server' = Gribi!Highest(Gribi!One, server) /\ started' = started \cup {c}
        /\ sent' = [sent EXCEPT ![c] = Gribi!One] /\ own' = [own EXCEPT ![c] = Gribi!One]
    BY <1>1 DEF Gribi!Start
  <2>3. Types' /\ Known'
    BY <1>s, <2>1, <2>2
  <2> QED
    BY <1>1, <1>n, <2>3 DEF Gribi!Start, GribiInv
<1>2. ASSUME NEW c \in Clients, Gribi!Close(c) PROVE GribiInv'
  BY <1>2, <1>n, <1>t DEF Gribi!Close, GribiInv, Known, Gribi!Value
<1>3. ASSUME NEW c \in Clients, Gribi!BecomeLeader(c) PROVE GribiInv'
  <2> DEFINE learned == Gribi!Highest(Gribi!One, server)  id == Gribi!Increment(learned)
  <2>1. /\ learned \in Gribi!Id /\ id \in Gribi!Id
        /\ Gribi!Value(server) <= Gribi!Value(learned)
    BY <1>t, OneId, IdClosed
  <2>2. /\ c \in started /\ server' = Gribi!Highest(id, learned) /\ started' = started
        /\ sent' = [sent EXCEPT ![c] = id] /\ own' = [own EXCEPT ![c] = id]
        /\ last' = [call |-> "lead", client |-> c, learned |-> learned]
    BY <1>3 DEF Gribi!BecomeLeader
  <2> HIDE DEF learned, id
  <2>3. Types' /\ Known'
    BY <1>s, <2>1, <2>2
  <2>4. Gribi!BecomeLeaderWins'
    <3> SUFFICES ASSUME Gribi!Value(learned) < WordValues * WordValues - 1
                 PROVE  /\ c \in started /\ sent'[c] = server'
                        /\ Gribi!Value(server') = Gribi!Value(learned) + 1
                        /\ \A d \in started \ {c} : sent'[d] # server'
      BY <2>2 DEF Gribi!BecomeLeaderWins, Gribi!Leads, Gribi!Value
    <3>1. Gribi!Value(id) = Gribi!Value(learned) + 1
      BY <2>1, IncrementAdds DEF id
    <3>2. server' = id
      BY <2>1, <2>2, <3>1, IdValue DEF Gribi!Highest
    <3>3. ASSUME NEW d \in started \ {c} PROVE sent'[d] # server'
      <4>1. sent'[d] = sent[d] /\ sent[d] \in Gribi!Id
        BY <1>t, <2>2
      <4>2. Gribi!Value(sent[d]) <= Gribi!Value(server)
        BY <1>t DEF Known
      <4>3. Gribi!Value(sent[d]) < Gribi!Value(id)
        BY <1>t, <2>1, <3>1, <4>1, <4>2, IdValue
      <4> QED
        BY <2>1, <3>2, <4>1, <4>3, IdValue
    <3> QED
      BY <1>t, <2>2, <3>1, <3>2, <3>3
  <2> QED
    BY <2>2, <2>3, <2>4 DEF GribiInv, Gribi!FirstFailureNoticed
<1>4. ASSUME NEW c \in Clients, NEW id \in Gribi!Id, Gribi!UpdateElectionID(c, id) PROVE GribiInv'
  <2>1. server \in Gribi!Id /\ Gribi!Value(server) <= Gribi!Value(server)
    BY <1>t, IdValue
  <2>2. /\ server' = Gribi!Highest(id, server) /\ started' = started
        /\ sent' = [sent EXCEPT ![c] = id] /\ own' = [own EXCEPT ![c] = id]
    BY <1>4 DEF Gribi!UpdateElectionID
  <2>3. Types' /\ Known'
    BY <1>s, <2>1, <2>2
  <2> QED
    BY <1>4, <1>n, <2>3 DEF Gribi!UpdateElectionID, GribiInv
<1>5. ASSUME NEW c \in Clients, NEW op \in {"add", "delete"}, NEW e \in RibEntries,
             NEW programmed \in BOOLEAN, Gribi!Modify(c, op, e, programmed)
      PROVE  GribiInv'
  <2> DEFINE ok == programmed /\ Gribi!Leads(c)
             r == [op |-> op, e |-> e, ok |-> TRUE]
             collected == results[c] \cup {[r EXCEPT !.ok = ok]}
  <2>1. /\ UNCHANGED <<server, sent, own, started>>
        /\ last' = [call |-> op, client |-> c, e |-> e, ok |-> ok,
                    first |-> r \notin results[c], passed |-> r \in collected]
    BY <1>5 DEF Gribi!Modify, Gribi!HasResult
  <2>2. [r EXCEPT !.ok = ok] = [op |-> op, e |-> e, ok |-> ok]
    OBVIOUS
  <2>3. r \notin results[c] => (r \in collected <=> ok)
    <3>1. ok \in BOOLEAN
      OBVIOUS
    <3>2. ([op |-> op, e |-> e, ok |-> ok] = r) <=> ok
      BY <3>1
    <3> QED
      BY <2>2, <3>2
  <2>4. Gribi!FirstFailureNoticed'
    BY <2>1, <2>3 DEF Gribi!FirstFailureNoticed
  <2>5. Gribi!BecomeLeaderWins'
    BY <2>1 DEF Gribi!BecomeLeaderWins
  <2> QED
    BY <1>t, <2>1, <2>4, <2>5 DEF GribiInv, Known, Gribi!Value
<1>6. ASSUME NEW c \in Clients, NEW override \in BOOLEAN, Gribi!Flush(c, override) PROVE GribiInv'
  BY <1>6, <1>n, <1>t DEF Gribi!Flush, GribiInv, Known, Gribi!Value
<1>7. CASE UNCHANGED gribiVars
  BY <1>7 DEF gribiVars, GribiInv, Known, Gribi!Value, Gribi!BecomeLeaderWins, Gribi!Leads,
              Gribi!FirstFailureNoticed
<1>8. \A c \in Clients : Gribi!Decrement(own[c]) \in Gribi!Id /\ Gribi!Increment(own[c]) \in Gribi!Id
  BY <1>t, IdClosed
<1> QED
  BY <1>1, <1>2, <1>3, <1>4, <1>5, <1>6, <1>7, <1>8 DEF Gribi!Next

-----------------------------------------------------------------------------
(* The rotation of credentials.                                            *)

Fields == {"password", "keys", "principal", "ca", "types", "host", "check"}
IsState(r) == r = [f \in Fields |-> r[f]]
Sending == call.stage \in {"sent", "answered", "finalizing"}

\* Nobody but the call in progress has changed the device since the last one
\* returned, and what it sends is what it was asked for.  What the device keeps
\* follows when the finalization arrives, and only then is the service free.
CredzInv ==
  /\ IsState(device) /\ IsState(kept) /\ IsState(wanted)
  /\ call = [field |-> call.field, arg |-> call.arg, value |-> call.value, stage |-> call.stage]
  /\ call.stage # "idle" => call.field \in Fields /\ call.value = call.arg
  /\ call.stage \in {"idle", "sent"} => device = wanted
  /\ call.stage \in {"answered", "finalizing", "processed"} =>
       device = [wanted EXCEPT ![call.field] = call.arg]
  /\ kept = IF call.stage = "processed" THEN device ELSE wanted
  /\ busy = IF Sending THEN {Credentials!Service(call.field)} ELSE {}
  /\ Credentials!LoginsAsRotated /\ Credentials!NeverTurnedAway

\* The device and its clients go through a call without losing what was asked.
LEMMA CredzStep == CredzInv /\ [Credentials!Next]_credzVars => CredzInv'
<1> SUFFICES ASSUME CredzInv, [Credentials!Next]_credzVars PROVE CredzInv'
  OBVIOUS
<1> USE DEF CredzInv, IsState, Sending, Credentials!LoginsAsRotated, Credentials!NeverTurnedAway
<1>f. CASE Credentials!Fatalf
  BY <1>f DEF Credentials!Fatalf, Credentials!Ready
<1>s. ASSUME NEW field \in Fields, NEW arg, Credentials!Send(field, arg, arg) PROVE CredzInv'
  BY <1>s DEF Credentials!Send, Credentials!Ready
<1>d. ASSUME NEW how, NEW what,
             Credentials!DialSSH(Credentials!Accepts(device, how, what),
                                 Credentials!Accepts(wanted, how, what))
      PROVE  CredzInv'
  <2>1. device = wanted /\ call.stage = "idle"
    BY <1>d DEF Credentials!DialSSH, Credentials!Ready
  <2>2. login'.ok = login'.want /\ UNCHANGED <<device, kept, busy, call, wanted, failed>>
    BY <1>d, <2>1 DEF Credentials!DialSSH
  <2> QED
    BY <2>2
<1>1. ASSUME NEW p \in NewPasswords, Credentials!RotateUserPassword(p) PROVE CredzInv'
  BY <1>1, <1>s DEF Credentials!RotateUserPassword, Fields
<1>2. ASSUME NEW p \in NewPasswords, Credentials!SSHWithPassword(p) PROVE CredzInv'
  BY <1>2, <1>d DEF Credentials!SSHWithPassword
<1>3. ASSUME NEW u \in NewPrincipals, Credentials!RotateAuthorizedPrincipal(u) PROVE CredzInv'
  BY <1>3, <1>s DEF Credentials!RotateAuthorizedPrincipal, Fields
<1>4. ASSUME NEW types \in AuthTypes, Credentials!RotateAuthenticationTypes(types) PROVE CredzInv'
  BY <1>4, <1>s DEF Credentials!RotateAuthenticationTypes, Fields
<1>5. ASSUME NEW tool \in CheckTools, Credentials!RotateAuthorizedPrincipalCheck(tool) PROVE CredzInv'
  BY <1>5, <1>s DEF Credentials!RotateAuthorizedPrincipalCheck, Fields
<1>6. ASSUME NEW dir \in KeyDirs \cup {Credentials!NoDir}, Credentials!RotateAuthorizedKey(dir)
      PROVE  CredzInv'
  BY <1>6, <1>f, <1>s DEF Credentials!RotateAuthorizedKey, Fields
<1>7. ASSUME NEW dir \in KeyDirs \cup {Credentials!NoDir}, Credentials!RotateTrustedUserCA(dir)
      PROVE  CredzInv'
  BY <1>7, <1>f, <1>s DEF Credentials!RotateTrustedUserCA, Fields
<1>8. ASSUME NEW keyDir \in KeyDirs \cup {Credentials!NoDir},
             NEW certDir \in KeyDirs \cup {Credentials!NoDir},
             Credentials!RotateAuthenticationArtifacts(keyDir, certDir)
      PROVE  CredzInv'
  BY <1>8, <1>f, <1>s DEF Credentials!RotateAuthenticationArtifacts, Fields
<1>9. ASSUME NEW dir \in KeyDirs, Credentials!SSHWithKey(dir) PROVE CredzInv'
  BY <1>9, <1>f, <1>d DEF Credentials!SSHWithKey
<1>10. ASSUME NEW dir \in KeyDirs, Credentials!SSHWithCertificate(dir) PROVE CredzInv'
  BY <1>10, <1>f, <1>d DEF Credentials!SSHWithCertificate
<1>11. CASE Credentials!Apply
  BY <1>11 DEF Credentials!Apply
<1>12. CASE Credentials!Finalize
  BY <1>12 DEF Credentials!Finalize
<1>13. CASE Credentials!Process
  BY <1>13 DEF Credentials!Process
<1>14. CASE Credentials!Return
  BY <1>14 DEF Credentials!Return, Credentials!Idle, Credentials!None
<1>15. CASE Credentials!Break
  BY <1>15 DEF Credentials!Break, Credentials!Idle, Credentials!None
<1>16. CASE UNCHANGED credzVars
  BY <1>16 DEF credzVars
<1> QED
  BY <1>1, <1>2, <1>3, <1>4, <1>5, <1>6, <1>7, <1>8, <1>9, <1>10, <1>11, <1>12, <1>13, <1>14,
     <1>15, <1>16, Zenon DEF Credentials!Next

-----------------------------------------------------------------------------
(* The rundata tool.                                                       *)

\* The process holds what it read: the headings of the tests on disk, and
\* metadata that parsed or were not there.
Memory ==
  /\ DOMAIN ts = Rundata!Found(tree)
  /\ \A d \in DOMAIN ts :
       /\ ts[d] = [markdown |-> tree[d].readme, existing |-> ts[d].existing, fixed |-> ts[d].fixed]
       /\ ts[d].existing = Rundata!Nil \/ (ts[d].existing.st = "ok" /\ IsRundata(ts[d].existing))

\* While it writes, each test has its old metadata until the rename and the fixed
\* ones from then on.
Renamed(d) == d \notin rundataTodo \/ (pc = "remove" /\ d \in at)
Writing ==
  /\ rundataTodo \subseteq DOMAIN ts
  /\ \A d \in DOMAIN ts : ts[d].fixed = Rundata!fixed(d)
  /\ \A d \in DOMAIN ts : tree[d].meta = IF Renamed(d) THEN ts[d].fixed ELSE ts[d].existing
  /\ pc \in {"rename", "remove"} => \E d \in rundataTodo : at = {d}

\* A tree that fix would leave as it is.
IsSettled ==
  /\ \A d \in Rundata!Found(tree) :
       /\ tree[d].meta.st = "ok" /\ IsRundata(tree[d].meta)
       /\ tree[d].meta.plan = tree[d].readme.plan /\ tree[d].meta.desc = tree[d].readme.desc
       /\ tree[d].meta.uuid.form = "norm"
  /\ \A d, e \in Rundata!Found(tree) :
       Rundata!toOTG(d) = Rundata!toOTG(e) => tree[d].meta.uuid = tree[e].meta.uuid

RundataInv ==
  /\ IsTree(tree)
  /\ pc \in {"idle", "check", "fix", "write", "rename", "remove"}
  /\ pc # "idle" => Memory /\ outcome = "none"
  /\ pc \in {"check", "fix"} => \A d \in DOMAIN ts : ts[d].existing = tree[d].meta
  /\ pc \in {"write", "rename", "remove"} => Writing
  /\ outcome \in {"updated", "uptodate"} \/ settled => IsSettled
  /\ settled => pc \notin {"rename", "remove"}
  /\ settled /\ pc = "write" => \A d \in DOMAIN ts : Rundata!UpToDate(d)
  /\ Rundata!PassedIsConsistent

\* Two paths of one test are the same, or one is ATE and the other its OTG
\* version.
LEMMA Paths ==
  ASSUME NEW d, NEW e, d = [kind |-> d.kind, test |-> d.test], e = [kind |-> e.kind, test |-> e.test],
         Rundata!toOTG(d) = Rundata!toOTG(e), d # e
  PROVE  \/ d.kind = "ate_tests" /\ Rundata!toOTG(d) = e
         \/ e.kind = "ate_tests" /\ Rundata!toOTG(e) = d
BY DEF Rundata!toOTG

\* An ATE path has no other ATE path with its OTG version, and is the OTG version
\* of none.
LEMMA AtePaths ==
  ASSUME NEW a, a = [kind |-> a.kind, test |-> a.test], a.kind = "ate_tests"
  PROVE  /\ Rundata!toOTG(a).kind = "otg_tests"
         /\ \A b : b = [kind |-> b.kind, test |-> b.test] /\ b.kind = "ate_tests"
                     /\ Rundata!toOTG(b) = Rundata!toOTG(a) => b = a
BY DEF Rundata!toOTG

\* Replacing one metadata file leaves the rest of the tree alone.
LEMMA TreeMeta ==
  ASSUME IsTree(tree), NEW d \in DOMAIN tree, NEW x, IsMeta(x),
         tree' = [tree EXCEPT ![d].meta = x]
  PROVE  /\ IsTree(tree') /\ DOMAIN tree' = DOMAIN tree
         /\ Rundata!Found(tree') = Rundata!Found(tree)
         /\ \A e \in DOMAIN tree : tree'[e].readme = tree[e].readme
         /\ \A e \in DOMAIN tree : tree'[e].meta = IF e = d THEN x ELSE tree[e].meta
<1>1. DOMAIN tree' = DOMAIN tree /\ tree' = [e \in DOMAIN tree' |-> tree'[e]]
  BY DEF IsTree
<1>2. ASSUME NEW e \in DOMAIN tree
      PROVE  /\ tree'[e] = [path |-> tree[e].path, readme |-> tree[e].readme,
                            meta |-> IF e = d THEN x ELSE tree[e].meta,
                            pkgs |-> tree[e].pkgs, old |-> tree[e].old]
             /\ IsMeta(IF e = d THEN x ELSE tree[e].meta)
  BY DEF IsTree, IsEntry
<1>3. \A e \in DOMAIN tree : IsEntry(tree'[e])
  BY <1>2 DEF IsEntry
<1> QED
  BY <1>1, <1>2, <1>3 DEF IsTree, Rundata!Found

\* The same for the file that carried the rundata before.
LEMMA TreeOld ==
  ASSUME IsTree(tree), NEW d \in DOMAIN tree, NEW x, tree' = [tree EXCEPT ![d].old = x]
  PROVE  /\ IsTree(tree') /\ DOMAIN tree' = DOMAIN tree
         /\ Rundata!Found(tree') = Rundata!Found(tree)
         /\ \A e \in DOMAIN tree : tree'[e].readme = tree[e].readme /\ tree'[e].meta = tree[e].meta
<1>1. DOMAIN tree' = DOMAIN tree /\ tree' = [e \in DOMAIN tree' |-> tree'[e]]
  BY DEF IsTree
<1>2. ASSUME NEW e \in DOMAIN tree
      PROVE  /\ tree'[e] = [path |-> tree[e].path, readme |-> tree[e].readme, meta |-> tree[e].meta,
                            pkgs |-> tree[e].pkgs, old |-> IF e = d THEN x ELSE tree[e].old]
             /\ IsMeta(tree[e].meta)
  BY DEF IsTree, IsEntry
<1>3. \A e \in DOMAIN tree : IsEntry(tree'[e])
  BY <1>2 DEF IsEntry
<1> QED
  BY <1>1, <1>2, <1>3 DEF IsTree, Rundata!Found

\* tc.fix gives every test a UUID in normal form, its own where that is valid.
LEMMA OwnUuid ==
  ASSUME Memory, NEW d \in DOMAIN ts
  PROVE  /\ IsUuid(Rundata!FixedUuid(d)) /\ Rundata!FixedUuid(d).form = "norm"
         /\ ts[d].existing # Rundata!Nil /\ Rundata!ValidUuid(ts[d].existing.uuid) =>
              Rundata!FixedUuid(d).n = ts[d].existing.uuid.n
<1> DEFINE x == ts[d].existing
<1>1. CASE x # Rundata!Nil /\ Rundata!ValidUuid(x.uuid)
  <2>1. Rundata!FixedUuid(d) = [x.uuid EXCEPT !.form = "norm"]
    BY <1>1 DEF Rundata!FixedUuid
  <2>2. x.uuid = [n |-> x.uuid.n, form |-> x.uuid.form]
    BY <1>1 DEF Memory, IsRundata, IsUuid
  <2>3. Rundata!FixedUuid(d) = [n |-> x.uuid.n, form |-> "norm"]
    BY <2>1, <2>2
  <2> QED
    BY <2>3 DEF IsUuid
<1>2. CASE ~(x # Rundata!Nil /\ Rundata!ValidUuid(x.uuid))
  <2>1. Rundata!FixedUuid(d) = [n |-> <<run, d>>, form |-> "norm"]
    BY <1>2 DEF Rundata!FixedUuid, Rundata!NewRandom
  <2> QED
    BY <1>2, <2>1 DEF IsUuid
<1> QED
  BY <1>1, <1>2

\* The twins of a tree are an ATE test and its OTG version, and the OTG version
\* takes the UUID of the ATE test.
LEMMA TwinUuid ==
  ASSUME IsTree(tree), Memory
  PROVE  /\ \A a \in Rundata!Twins : Rundata!AteUuid(Rundata!toOTG(a)) = Rundata!FixedUuid(a)
         /\ \A d \in DOMAIN ts : d \notin {Rundata!toOTG(a) : a \in Rundata!Twins} =>
              Rundata!AteUuid(d) = Rundata!FixedUuid(d)
         /\ \A a \in Rundata!Twins : a \notin {Rundata!toOTG(b) : b \in Rundata!Twins}
<1>1. \A a \in Rundata!Twins : /\ a = [kind |-> a.kind, test |-> a.test] /\ a.kind = "ate_tests"
                               /\ a \in DOMAIN ts /\ Rundata!toOTG(a) \in DOMAIN ts
  BY DEF IsTree, Memory, Rundata!Twins, Rundata!Found
<1>2. \A a \in Rundata!Twins : Rundata!AtesOf(Rundata!toOTG(a)) = {a}
  BY <1>1, AtePaths DEF Rundata!AtesOf
<1>3. \A a : Rundata!Only({a}) = a
  BY Zenon DEF Rundata!Only
<1>4. \A d \in DOMAIN ts : d \notin {Rundata!toOTG(a) : a \in Rundata!Twins} => Rundata!AtesOf(d) = {}
  BY DEF Rundata!AtesOf
<1>5. \A a \in Rundata!Twins : a \notin {Rundata!toOTG(b) : b \in Rundata!Twins}
  BY <1>1, AtePaths
<1> QED
  BY <1>2, <1>3, <1>4, <1>5 DEF Rundata!AteUuid

\* What ts.fix computes for a test repeats its heading, with a UUID in normal
\* form that an ATE test shares with its OTG version.
LEMMA FixedRight ==
  ASSUME IsTree(tree), Memory
  PROVE  /\ \A d \in DOMAIN ts :
              /\ Rundata!fixed(d).st = "ok" /\ IsRundata(Rundata!fixed(d))
              /\ Rundata!fixed(d).plan = tree[d].readme.plan
              /\ Rundata!fixed(d).desc = tree[d].readme.desc
              /\ Rundata!fixed(d).uuid = Rundata!AteUuid(d)
              /\ Rundata!fixed(d).uuid.form = "norm"
         /\ \A d, e \in DOMAIN ts :
              Rundata!toOTG(d) = Rundata!toOTG(e) => Rundata!fixed(d).uuid = Rundata!fixed(e).uuid
<1> DEFINE Otgs == {Rundata!toOTG(a) : a \in Rundata!Twins}
<1>1. \A d \in DOMAIN ts : d = [kind |-> d.kind, test |-> d.test]
  BY DEF IsTree, Memory, Rundata!Found
<1>2. \A a \in Rundata!Twins : a \in DOMAIN ts
  BY DEF Rundata!Twins
<1>3. \A d \in DOMAIN ts : IsUuid(Rundata!AteUuid(d)) /\ Rundata!AteUuid(d).form = "norm"
  <2> SUFFICES ASSUME NEW d \in DOMAIN ts
               PROVE  \E a \in DOMAIN ts : Rundata!AteUuid(d) = Rundata!FixedUuid(a)
    BY OwnUuid
  <2>1. CASE d \in Otgs
    <3>1. PICK a \in Rundata!Twins : d = Rundata!toOTG(a)
      BY <2>1
    <3> QED
      BY <1>2, <3>1, TwinUuid
  <2>2. CASE d \notin Otgs
    BY <2>2, TwinUuid
  <2> QED
    BY <2>1, <2>2
<1>4. ASSUME NEW d \in DOMAIN ts
      PROVE  /\ Rundata!fixed(d).st = "ok" /\ IsRundata(Rundata!fixed(d))
             /\ Rundata!fixed(d).plan = tree[d].readme.plan
             /\ Rundata!fixed(d).desc = tree[d].readme.desc
             /\ Rundata!fixed(d).uuid = Rundata!AteUuid(d)
  <2>1. ts[d].markdown = tree[d].readme
    BY DEF Memory
  <2> QED
    BY <1>3, <2>1 DEF IsRundata, Rundata!fixed, Rundata!Rundata
<1>5. ASSUME NEW d \in DOMAIN ts, NEW e \in DOMAIN ts, d.kind = "ate_tests", Rundata!toOTG(d) = e
      PROVE  Rundata!AteUuid(d) = Rundata!AteUuid(e)
  <2>1. d \in Rundata!Twins
    BY <1>5 DEF Rundata!Twins
  <2> QED
    BY <1>5, <2>1, TwinUuid
<1>6. ASSUME NEW d \in DOMAIN ts, NEW e \in DOMAIN ts, Rundata!toOTG(d) = Rundata!toOTG(e)
      PROVE  Rundata!AteUuid(d) = Rundata!AteUuid(e)
  <2>1. CASE d = e
    BY <2>1
  <2>2. CASE d # e
    BY <1>1, <1>5, <1>6, <2>2, Paths
  <2> QED
    BY <2>1, <2>2
<1> QED
  BY <1>3, <1>4, <1>6

\* A tree that is settled is what ts.fix computes from it.
LEMMA SettledStays ==
  ASSUME IsTree(tree), Memory, IsSettled, \A d \in DOMAIN ts : ts[d].existing = tree[d].meta,
         NEW d \in DOMAIN ts
  PROVE  Rundata!fixed(d) = ts[d].existing
<1>1. \A e \in DOMAIN ts : e \in Rundata!Found(tree)
  BY DEF Memory
<1>2. \A e \in DOMAIN ts : Rundata!FixedUuid(e) = tree[e].meta.uuid
  <2> SUFFICES ASSUME NEW e \in DOMAIN ts PROVE Rundata!FixedUuid(e) = tree[e].meta.uuid
    OBVIOUS
  <2> DEFINE x == tree[e].meta
  <2>1. x.st = "ok" /\ x.uuid = [n |-> x.uuid.n, form |-> x.uuid.form] /\ x.uuid.form = "norm"
    BY <1>1 DEF IsSettled, IsRundata, IsUuid
  <2>2. x # Rundata!Nil /\ Rundata!ValidUuid(x.uuid)
    BY <2>1 DEF Rundata!Nil, Rundata!ValidUuid
  <2>3. Rundata!FixedUuid(e) = [x.uuid EXCEPT !.form = "norm"]
    BY <2>2 DEF Rundata!FixedUuid
  <2> QED
    BY <2>1, <2>3
<1>3. Rundata!AteUuid(d) = tree[d].meta.uuid
  <2>1. CASE d \in {Rundata!toOTG(a) : a \in Rundata!Twins}
    <3>1. PICK a \in Rundata!Twins : d = Rundata!toOTG(a)
      BY <2>1
    <3>2. a \in DOMAIN ts /\ a.kind = "ate_tests" /\ a = [kind |-> a.kind, test |-> a.test]
      BY <1>1 DEF IsTree, Rundata!Twins, Rundata!Found
    <3>3. Rundata!toOTG(d) = Rundata!toOTG(a)
      BY <3>1, <3>2 DEF Rundata!toOTG
    <3>4. tree[a].meta.uuid = tree[d].meta.uuid
      BY <1>1, <3>2, <3>3 DEF IsSettled
    <3> QED
      BY <1>2, <3>1, <3>2, <3>4, TwinUuid
  <2>2. CASE d \notin {Rundata!toOTG(a) : a \in Rundata!Twins}
    BY <1>2, <2>2, TwinUuid
  <2> QED
    BY <2>1, <2>2
<1>4. Rundata!FixedTestbed(d) = tree[d].meta.testbed
  <2>1. tree[d].meta # Rundata!Nil /\ Rundata!ValidUuid(tree[d].meta.uuid)
    BY <1>1 DEF IsSettled, Rundata!Nil, Rundata!ValidUuid
  <2> QED
    BY <2>1 DEF Rundata!FixedTestbed
<1>5. ts[d].markdown = tree[d].readme
  BY DEF Memory
<1>6. /\ tree[d].meta.plan = tree[d].readme.plan /\ tree[d].meta.desc = tree[d].readme.desc
      /\ IsRundata(tree[d].meta)
  BY <1>1 DEF IsSettled
<1> QED
  BY <1>3, <1>4, <1>5, <1>6 DEF Rundata!fixed, IsRundata

\* Whichever test of a key checkDuplicate meets first, no two unrelated tests
\* share the key.
LEMMA NoSharedKey ==
  ASSUME NEW key, NEW wants \in Rundata!Firsts(key), Rundata!NoDuplicate(key, wants),
         NEW d \in DOMAIN ts, NEW e \in DOMAIN ts, NEW k, k \in key[d], k \in key[e]
  PROVE  Rundata!toOTG(d) = Rundata!toOTG(e)
BY DEF Rundata!NoDuplicate

\* What ts.check finds to be right is consistent.
LEMMA CheckRight ==
  ASSUME IsTree(tree), Memory, \A d \in DOMAIN ts : ts[d].existing = tree[d].meta,
         NEW wp \in Rundata!Firsts(Rundata!PlanKeys), NEW wu \in Rundata!Firsts(Rundata!UuidKeys),
         \A d \in DOMAIN ts : Rundata!CaseOk(ts[d]),
         Rundata!NoDuplicate(Rundata!PlanKeys, wp), Rundata!NoDuplicate(Rundata!UuidKeys, wu),
         Rundata!checkATEOTG
  PROVE  Rundata!Consistent
<1>1. Rundata!Tests = DOMAIN ts
  BY DEF Rundata!Tests, Memory
<1>2. ASSUME NEW d \in DOMAIN ts
      PROVE  /\ Rundata!Meta(d) = ts[d].existing /\ ts[d].markdown = tree[d].readme
             /\ Rundata!Meta(d).st = "ok" /\ Rundata!Meta(d).plan = tree[d].readme.plan
             /\ Rundata!Meta(d).desc = tree[d].readme.desc /\ Rundata!ValidUuid(Rundata!Meta(d).uuid)
  <2>1. Rundata!CaseOk(ts[d]) /\ ts[d].existing = tree[d].meta /\ ts[d].markdown = tree[d].readme
    BY DEF Memory
  <2>2. ts[d].existing.st = "ok"
    BY <2>1 DEF Memory, Rundata!CaseOk
  <2> QED
    BY <2>1, <2>2 DEF Rundata!CaseOk, Rundata!Meta
<1>3. ASSUME NEW d \in DOMAIN ts, NEW e \in DOMAIN ts, Rundata!Unrelated(d, e),
             Rundata!Meta(d).plan = Rundata!Meta(e).plan, Rundata!Meta(d).plan # Rundata!NoPlan
      PROVE  FALSE
  <2>1. \A f \in DOMAIN ts : Rundata!PlanKeys[f] = {ts[f].markdown.plan} \ {Rundata!NoPlan}
    BY DEF Rundata!PlanKeys, Rundata!PlanKey
  <2>2. Rundata!Meta(d).plan \in Rundata!PlanKeys[d] /\ Rundata!Meta(d).plan \in Rundata!PlanKeys[e]
    BY <1>2, <1>3, <2>1
  <2> QED
    BY <1>3, <2>2, NoSharedKey DEF Rundata!Unrelated
<1>4. ASSUME NEW d \in DOMAIN ts, NEW e \in DOMAIN ts, Rundata!Unrelated(d, e),
             Rundata!Meta(d).uuid = Rundata!Meta(e).uuid
      PROVE  FALSE
  <2>1. \A f \in DOMAIN ts : Rundata!UuidKeys[f] = {Rundata!Meta(f).uuid}
    <3> SUFFICES ASSUME NEW f \in DOMAIN ts PROVE Rundata!UuidKey(ts[f]) = {Rundata!Meta(f).uuid}
      BY DEF Rundata!UuidKeys
    <3>1. ts[f].existing # Rundata!Nil /\ ts[f].existing.uuid.form # "none"
      BY <1>2 DEF Rundata!ValidUuid, Rundata!Nil
    <3> QED
      BY <1>2, <3>1 DEF Rundata!UuidKey
  <2> QED
    BY <1>4, <2>1, NoSharedKey DEF Rundata!Unrelated
<1>5. ASSUME NEW d \in DOMAIN ts, NEW e \in DOMAIN ts, d.kind = "ate_tests", Rundata!toOTG(d) = e
      PROVE  Rundata!Meta(d).uuid = Rundata!Meta(e).uuid
  <2>1. d \in Rundata!Twins
    BY <1>5 DEF Rundata!Twins
  <2> QED
    BY <1>2, <1>5, <2>1 DEF Rundata!checkATEOTG
<1>6. ASSUME NEW d \in DOMAIN ts, NEW e \in DOMAIN ts, Rundata!toOTG(d) = Rundata!toOTG(e)
      PROVE  Rundata!Meta(d).uuid = Rundata!Meta(e).uuid
  <2>1. d = [kind |-> d.kind, test |-> d.test] /\ e = [kind |-> e.kind, test |-> e.test]
    BY DEF IsTree, Memory, Rundata!Found
  <2>2. CASE d = e
    BY <2>2
  <2>3. CASE d # e
    BY <1>5, <1>6, <2>1, <2>3, Paths
  <2> QED
    BY <2>2, <2>3
<1> QED
  BY <1>1, <1>2, <1>3, <1>4, <1>6 DEF Rundata!Consistent

\* ts.fix changes nothing that it computes from.
LEMMA FixKeeps ==
  ASSUME Memory, Rundata!Fix, NEW d \in DOMAIN ts
  PROVE  Rundata!fixed(d)' = Rundata!fixed(d)
<1>1. /\ DOMAIN ts' = DOMAIN ts /\ run' = run
      /\ \A e \in DOMAIN ts : ts'[e].markdown = ts[e].markdown /\ ts'[e].existing = ts[e].existing
  BY DEF Memory, Rundata!Fix
<1>2. Rundata!Twins' = Rundata!Twins
  BY <1>1 DEF Rundata!Twins
<1>3. Rundata!AtesOf(d)' = Rundata!AtesOf(d)
  BY <1>2 DEF Rundata!AtesOf
<1>4. \A e \in DOMAIN ts : Rundata!FixedUuid(e)' = Rundata!FixedUuid(e)
  BY <1>1 DEF Rundata!FixedUuid, Rundata!NewRandom
<1>5. Rundata!FixedTestbed(d)' = Rundata!FixedTestbed(d)
  BY <1>1 DEF Rundata!FixedTestbed
<1>6. Rundata!AtesOf(d) # {} => Rundata!Only(Rundata!AtesOf(d)) \in DOMAIN ts
  <2>1. \A s : s # {} => Rundata!Only(s) \in s
    BY Zenon DEF Rundata!Only
  <2>2. Rundata!AtesOf(d) \subseteq DOMAIN ts
    BY DEF Rundata!AtesOf, Rundata!Twins
  <2> QED
    BY <2>1, <2>2
<1>7. Rundata!AteUuid(d)' = Rundata!AteUuid(d)
  BY <1>3, <1>4, <1>6 DEF Rundata!AteUuid
<1> QED
  BY <1>1, <1>5, <1>7 DEF Rundata!fixed

\* The steps of a run, one after the other.
LEMMA RundataStep == RundataInv /\ [Rundata!Next]_rundataVars => RundataInv'
<1> SUFFICES ASSUME RundataInv, [Rundata!Next]_rundataVars PROVE RundataInv'
  OBVIOUS
\* While the tree stands still, so does what is said of it alone.
<1>t. ASSUME UNCHANGED tree
      PROVE  /\ IsTree(tree)' /\ IsSettled' = IsSettled /\ Rundata!Consistent' = Rundata!Consistent
             /\ Rundata!Found(tree)' = Rundata!Found(tree)
  <2>1. IsTree(tree)' /\ Rundata!Found(tree)' = Rundata!Found(tree)
    BY <1>t DEF RundataInv
  <2>2. IsSettled' = IsSettled
    BY <1>t DEF IsSettled
  <2>3. Rundata!Consistent' = Rundata!Consistent
    BY <1>t DEF Rundata!Consistent, Rundata!Tests, Rundata!Meta, Rundata!Unrelated
  <2> QED
    BY <2>1, <2>2, <2>3
<1>m. ASSUME UNCHANGED <<tree, ts>> PROVE Memory' = Memory
  BY <1>m DEF Memory
<1>f. ASSUME UNCHANGED <<ts, run>>, NEW d \in DOMAIN ts PROVE Rundata!fixed(d)' = Rundata!fixed(d)
  BY <1>f DEF Rundata!fixed, Rundata!Rundata, Rundata!AteUuid, Rundata!AtesOf, Rundata!Twins,
              Rundata!FixedUuid, Rundata!NewRandom, Rundata!FixedTestbed
\* The process ends and has changed nothing in this step.
<1>x. ASSUME NEW how, Rundata!Exit(how), UNCHANGED tree,
             how \in {"updated", "uptodate"} => IsSettled, settled' => IsSettled,
             how = "passed" => Rundata!Consistent
      PROVE  RundataInv'
  BY <1>x, <1>t DEF RundataInv, Rundata!Exit, Rundata!PassedIsConsistent
<1>1. ASSUME NEW m \in {"check", "fix"}, Rundata!Read(m) PROVE RundataInv'
  <2> DEFINE dirs == Rundata!Found(tree)
  <2>1. pc = "idle" /\ UNCHANGED <<tree, settled>>
    BY <1>1 DEF Rundata!Read
  <2>2. CASE \A d \in dirs : Rundata!Readable(tree[d])
    <3>1. /\ ts' = [d \in dirs |-> [markdown |-> tree[d].readme, existing |-> tree[d].meta,
                                    fixed |-> Rundata!Nil]]
          /\ pc' = "check" /\ outcome' = "none"
      BY <1>1, <2>2 DEF Rundata!Read
    <3>2. \A d \in dirs : \/ tree[d].meta = Rundata!Nil
                          \/ tree[d].meta.st = "ok" /\ IsRundata(tree[d].meta)
      BY <2>2, SMTT(30) DEF RundataInv, IsTree, IsEntry, IsMeta, Rundata!Readable, Rundata!CaseReads,
                  Rundata!Found
    <3>3. Memory'
      BY <2>1, <3>1, <3>2 DEF Memory
    <3>4. \A d \in DOMAIN ts' : ts'[d].existing = tree'[d].meta
      BY <2>1, <3>1
    <3> QED
      BY <1>t, <2>1, <3>1, <3>3, <3>4 DEF RundataInv, Rundata!PassedIsConsistent
  <2>3. CASE ~(\A d \in dirs : Rundata!Readable(tree[d]))
    <3>1. Rundata!Exit("unreadable")
      BY <1>1, <2>3 DEF Rundata!Read
    <3> QED
      BY <1>x, <2>1, <3>1 DEF RundataInv
  <2> QED
    BY <2>2, <2>3
<1>2. CASE Rundata!Check
  <2>1. pc = "check" /\ UNCHANGED <<tree, ts, settled>>
    BY <1>2 DEF Rundata!Check
  <2>2. PICK wp \in Rundata!Firsts(Rundata!PlanKeys), wu \in Rundata!Firsts(Rundata!UuidKeys) :
          LET ok == /\ \A d \in DOMAIN ts : Rundata!CaseOk(ts[d])
                    /\ Rundata!NoDuplicate(Rundata!PlanKeys, wp)
                    /\ Rundata!NoDuplicate(Rundata!UuidKeys, wu)
                    /\ Rundata!checkATEOTG
          IN IF Rundata!NilTwin THEN Rundata!Exit("panic")
             ELSE IF mode = "check" THEN Rundata!Exit(IF ok THEN "passed" ELSE "problems")
             ELSE pc' = "fix" /\ UNCHANGED <<outcome, rundataTodo, at>>
    BY <1>2 DEF Rundata!Check
  <2> DEFINE ok == /\ \A d \in DOMAIN ts : Rundata!CaseOk(ts[d])
                   /\ Rundata!NoDuplicate(Rundata!PlanKeys, wp)
                   /\ Rundata!NoDuplicate(Rundata!UuidKeys, wu)
                   /\ Rundata!checkATEOTG
  <2>3. /\ IsTree(tree) /\ Memory /\ outcome = "none"
        /\ \A d \in DOMAIN ts : ts[d].existing = tree[d].meta
    BY <2>1 DEF RundataInv
  <2>4. ok => Rundata!Consistent
    BY <2>3, CheckRight
  <2> HIDE DEF ok
  <2>5. \/ Rundata!Exit("panic") \/ (ok /\ Rundata!Exit("passed")) \/ Rundata!Exit("problems")
        \/ pc' = "fix" /\ UNCHANGED <<outcome, rundataTodo, at>>
    BY <2>2 DEF ok
  <2>6. CASE Rundata!Exit("panic") \/ (ok /\ Rundata!Exit("passed")) \/ Rundata!Exit("problems")
    BY <1>x, <2>1, <2>4, <2>6, SMTT(30) DEF RundataInv
  <2>7. CASE pc' = "fix" /\ UNCHANGED <<outcome, rundataTodo, at>>
    BY <1>t, <1>m, <2>1, <2>3, <2>7 DEF RundataInv, Rundata!PassedIsConsistent
  <2> QED
    BY <2>5, <2>6, <2>7
<1>3. CASE Rundata!Fix
  <2>1. /\ pc = "fix" /\ pc' = "write" /\ rundataTodo' = DOMAIN ts
        /\ UNCHANGED <<tree, at, outcome, run, settled>>
        /\ ts' = [d \in DOMAIN ts |-> [ts[d] EXCEPT !.fixed = Rundata!fixed(d)]]
    BY <1>3 DEF Rundata!Fix
  <2>2. /\ IsTree(tree) /\ Memory /\ outcome = "none"
        /\ \A d \in DOMAIN ts : ts[d].existing = tree[d].meta
    BY <2>1 DEF RundataInv
  <2>3. \A d \in DOMAIN ts : ts'[d] = [markdown |-> tree[d].readme, existing |-> ts[d].existing,
                                       fixed |-> Rundata!fixed(d)]
    BY <2>1, <2>2 DEF Memory
  <2>4. DOMAIN ts' = DOMAIN ts
    BY <2>1
  <2>5. Memory'
    BY <2>1, <2>2, <2>3, <2>4 DEF Memory
  <2>6. ASSUME NEW d \in DOMAIN ts PROVE ts'[d].fixed = Rundata!fixed(d)'
    <3>1. Rundata!fixed(d)' = Rundata!fixed(d)
      BY <1>3, <2>2, FixKeeps
    <3>2. ts'[d].fixed = Rundata!fixed(d)
      BY <2>1, <2>2 DEF Memory
    <3> QED
      BY <3>1, <3>2
  <2>7. Writing'
    <3>1. \A d \in DOMAIN ts : ~Renamed(d)' /\ tree'[d].meta = ts'[d].existing
      BY <2>1, <2>2, <2>3 DEF Renamed
    <3>2. rundataTodo' \subseteq DOMAIN ts' /\ pc' \notin {"rename", "remove"}
      BY <2>1, <2>4
    <3> QED
      BY <2>4, <2>6, <3>1, <3>2 DEF Writing
  <2>8. ASSUME settled, NEW d \in DOMAIN ts PROVE ts'[d].existing = ts'[d].fixed
    <3>1. IsSettled
      BY <2>8 DEF RundataInv
    <3>2. Rundata!fixed(d) = ts[d].existing
      BY <2>2, <3>1, SettledStays
    <3>3. ts'[d].existing = ts[d].existing /\ ts'[d].fixed = Rundata!fixed(d)
      BY <2>1, <2>2 DEF Memory
    <3> QED
      BY <3>2, <3>3
  <2> QED
    BY <1>t, <2>1, <2>2, <2>4, <2>5, <2>7, <2>8 DEF RundataInv, Rundata!UpToDate, Rundata!PassedIsConsistent
<1>4. ASSUME NEW d \in DOMAIN tree, Rundata!Noop(d) PROVE RundataInv'
  <2>1. /\ pc = "write" /\ pc' = "write" /\ d \in rundataTodo /\ ts[d].existing = ts[d].fixed
        /\ rundataTodo' = rundataTodo \ {d} /\ UNCHANGED <<tree, ts, at, outcome, run, settled>>
    BY <1>4 DEF Rundata!Noop, Rundata!UpToDate
  <2>2. Writing'
    BY <1>f, <2>1 DEF RundataInv, Writing, Renamed
  <2> QED
    BY <1>t, <1>m, <2>1, <2>2 DEF RundataInv, Rundata!UpToDate, Rundata!PassedIsConsistent
<1>5. ASSUME NEW d \in DOMAIN tree, Rundata!CreateTemp(d) PROVE RundataInv'
  <2>1. /\ pc = "write" /\ pc' = "rename" /\ d \in rundataTodo /\ ~Rundata!UpToDate(d) /\ at' = {d}
        /\ UNCHANGED <<tree, ts, rundataTodo, outcome, run, settled>>
    BY <1>5, SMTT(30) DEF Rundata!CreateTemp
  <2>2. Writing'
    BY <1>f, <2>1 DEF RundataInv, Writing, Renamed
  <2>3. ~settled
    BY <2>1 DEF RundataInv, Writing
  <2> QED
    BY <1>t, <1>m, <2>1, <2>2, <2>3 DEF RundataInv, Rundata!PassedIsConsistent
<1>6. ASSUME NEW d \in DOMAIN tree, Rundata!Rename(d) PROVE RundataInv'
  <2>1. /\ pc = "rename" /\ pc' = "remove" /\ d \in at /\ tree' = [tree EXCEPT ![d].meta = ts[d].fixed]
        /\ UNCHANGED <<ts, rundataTodo, at, outcome, run, settled>>
    BY <1>6 DEF Rundata!Rename
  <2>2. IsTree(tree) /\ Memory /\ Writing /\ outcome = "none" /\ ~settled
    BY <2>1 DEF RundataInv
  <2>3. d \in DOMAIN ts /\ at = {d} /\ d \in rundataTodo
    BY <2>1, <2>2 DEF Writing
  <2>4. IsMeta(ts[d].fixed)
    <3>1. ts[d].fixed.st = "ok" /\ IsRundata(ts[d].fixed)
      BY <2>2, <2>3, FixedRight DEF Writing
    <3> QED
      BY <3>1 DEF IsMeta
  <2>5. /\ IsTree(tree') /\ Rundata!Found(tree') = Rundata!Found(tree)
        /\ \A e \in DOMAIN tree : tree'[e].readme = tree[e].readme
        /\ \A e \in DOMAIN tree : tree'[e].meta = IF e = d THEN ts[d].fixed ELSE tree[e].meta
    BY <2>1, <2>2, <2>4, TreeMeta
  <2>6. DOMAIN ts \subseteq DOMAIN tree
    BY <2>2 DEF Memory, Rundata!Found
  <2>7. Memory'
    BY <2>1, <2>2, <2>5, <2>6 DEF Memory
  <2>8. Writing'
    BY <1>f, <2>1, <2>2, <2>3, <2>5, <2>6 DEF Writing, Renamed
  <2> QED
    BY <2>1, <2>2, <2>5, <2>7, <2>8 DEF RundataInv, Rundata!PassedIsConsistent
<1>7. ASSUME NEW d \in DOMAIN tree, Rundata!Remove(d) PROVE RundataInv'
  <2>1. /\ pc = "remove" /\ pc' = "write" /\ d \in at /\ tree' = [tree EXCEPT ![d].old = FALSE]
        /\ rundataTodo' = rundataTodo \ {d} /\ UNCHANGED <<ts, outcome, run, settled>>
    BY <1>7 DEF Rundata!Remove
  <2>2. IsTree(tree) /\ Memory /\ Writing /\ outcome = "none" /\ ~settled
    BY <2>1 DEF RundataInv
  <2>3. d \in DOMAIN ts /\ at = {d} /\ d \in rundataTodo
    BY <2>1, <2>2 DEF Writing
  <2>5. /\ IsTree(tree') /\ Rundata!Found(tree') = Rundata!Found(tree)
        /\ \A e \in DOMAIN tree : tree'[e].readme = tree[e].readme /\ tree'[e].meta = tree[e].meta
    BY <2>1, <2>2, TreeOld
  <2>6. DOMAIN ts \subseteq DOMAIN tree
    BY <2>2 DEF Memory, Rundata!Found
  <2>7. Memory'
    BY <2>1, <2>2, <2>5, <2>6 DEF Memory
  <2>8. Writing'
    BY <1>f, <2>1, <2>2, <2>3, <2>5, <2>6 DEF Writing, Renamed
  <2> QED
    BY <2>1, <2>2, <2>5, <2>7, <2>8 DEF RundataInv, Rundata!PassedIsConsistent
<1>8. CASE Rundata!Written
  <2>1. /\ pc = "write" /\ rundataTodo = {} /\ UNCHANGED tree
        /\ Rundata!Exit("updated") \/ Rundata!Exit("uptodate")
    BY <1>8 DEF Rundata!Written
  <2>2. IsTree(tree) /\ Memory /\ Writing
    BY <2>1 DEF RundataInv
  <2>3. /\ DOMAIN ts = Rundata!Found(tree)
        /\ \A d \in DOMAIN ts : tree[d].meta = Rundata!fixed(d)
    BY <2>1, <2>2, SMTT(30) DEF Memory, Writing, Renamed
  <2>4. IsSettled
    BY <2>2, <2>3, FixedRight, SMTT(30) DEF IsSettled
  <2> QED
    BY <1>x, <2>1, <2>4
<1>9. CASE Rundata!Fault
  BY <1>9, <1>x DEF Rundata!Fault, RundataInv
<1>10. CASE UNCHANGED rundataVars
  <2>1. UNCHANGED <<tree, ts, pc, rundataTodo, at, outcome, run, settled>>
    BY <1>10 DEF rundataVars
  <2>2. Writing => Writing'
    BY <1>f, <2>1 DEF Writing, Renamed
  <2> QED
    BY <1>t, <1>m, <2>1, <2>2, Zenon DEF RundataInv, Rundata!UpToDate, Rundata!PassedIsConsistent
<1> QED
  BY <1>1, <1>2, <1>3, <1>4, <1>5, <1>6, <1>7, <1>8, <1>9, <1>10 DEF Rundata!Next, Rundata!Dirs

\* The steps that NothingLost speaks of: only a rename changes a file, and what it
\* puts in place is what ts.fix computed from the file that is there.
LEMMA NothingLostStep ==
  ASSUME RundataInv, [Rundata!Next]_rundataVars
  PROVE  Rundata!WholeStep /\ Rundata!UuidStep
<1>1. CASE UNCHANGED tree \/ \E d \in DOMAIN tree : Rundata!Remove(d)
  <2>1. \A d \in DOMAIN tree : tree'[d].meta = tree[d].meta
    BY <1>1, TreeOld DEF RundataInv, Rundata!Remove
  <2>2. Rundata!Tests \subseteq DOMAIN tree
    BY DEF Rundata!Tests, Rundata!Found
  <2> QED
    BY <2>1, <2>2 DEF Rundata!WholeStep, Rundata!UuidStep, Rundata!Meta, Rundata!Dirs
<1>2. ASSUME NEW d \in DOMAIN tree, Rundata!Rename(d)
      PROVE  Rundata!WholeStep /\ Rundata!UuidStep
  <2>1. pc = "rename" /\ d \in at /\ tree' = [tree EXCEPT ![d].meta = ts[d].fixed]
    BY <1>2 DEF Rundata!Rename
  <2>2. IsTree(tree) /\ Memory /\ Writing
    BY <2>1 DEF RundataInv
  <2>3. d \in DOMAIN ts /\ d \in rundataTodo
    BY <2>1, <2>2 DEF Writing
  <2>4. /\ ts[d].fixed = Rundata!fixed(d) /\ tree[d].meta = ts[d].existing
    BY <2>1, <2>2, <2>3, SMTT(30) DEF Writing, Renamed
  <2>5. /\ ts[d].fixed.st = "ok" /\ IsRundata(ts[d].fixed) /\ ts[d].fixed.uuid = Rundata!AteUuid(d)
    BY <2>2, <2>3, <2>4, FixedRight
  <2>6. \A e \in DOMAIN tree : tree'[e].meta = IF e = d THEN ts[d].fixed ELSE tree[e].meta
    BY <2>1, <2>2, <2>5, TreeMeta DEF IsMeta
  <2>7. Rundata!WholeStep
    BY <2>3, <2>6 DEF Rundata!WholeStep, Rundata!Meta, Rundata!Dirs
  <2>8. ASSUME Rundata!Meta(d).st = "ok", Rundata!ValidUuid(Rundata!Meta(d).uuid),
               \A a \in Rundata!Tests : Rundata!toOTG(a) = d => a = d
        PROVE  ts[d].fixed.uuid.n = Rundata!Meta(d).uuid.n
    <3>1. d \notin {Rundata!toOTG(a) : a \in Rundata!Twins}
      <4> SUFFICES ASSUME NEW a \in Rundata!Twins, d = Rundata!toOTG(a) PROVE FALSE
        OBVIOUS
      <4>1. a \in Rundata!Tests
        BY <2>2 DEF Rundata!Twins, Memory, Rundata!Tests
      <4> QED
        BY <2>2, <2>8, <4>1, TwinUuid
    <3>2. ts[d].fixed.uuid = Rundata!FixedUuid(d)
      BY <2>2, <2>3, <2>5, <3>1, TwinUuid
    <3>3. ts[d].existing # Rundata!Nil /\ Rundata!ValidUuid(ts[d].existing.uuid)
      BY <2>4, <2>8 DEF Rundata!Meta, Rundata!Nil
    <3> QED
      BY <2>2, <2>3, <2>4, <3>2, <3>3, OwnUuid, SMTT(30) DEF Rundata!Meta
  <2>9. Rundata!UuidStep
    <3> SUFFICES ASSUME NEW e \in Rundata!Tests, Rundata!Meta(e).st = "ok",
                        Rundata!ValidUuid(Rundata!Meta(e).uuid),
                        \A a \in Rundata!Tests : Rundata!toOTG(a) = e => a = e
                 PROVE  tree'[e].meta.st = "ok" /\ tree'[e].meta.uuid.n = Rundata!Meta(e).uuid.n
      BY DEF Rundata!UuidStep, Rundata!Meta
    <3>1. e \in DOMAIN tree
      BY SMTT(30) DEF Rundata!Tests, Rundata!Found
    <3>2. CASE e = d
      BY <2>5, <2>6, <2>8, <3>1, <3>2
    <3>3. CASE e # d
      BY <2>6, <3>1, <3>3 DEF Rundata!Meta
    <3> QED
      BY <3>2, <3>3
  <2> QED
    BY <2>7, <2>9
<1>3. \/ UNCHANGED tree \/ \E d \in DOMAIN tree : Rundata!Remove(d)
      \/ \E d \in DOMAIN tree : Rundata!Rename(d)
  BY DEF rundataVars, Rundata!Next, Rundata!Dirs, Rundata!Read, Rundata!Check, Rundata!Fix,
         Rundata!Written, Rundata!Fault, Rundata!Noop, Rundata!CreateTemp
<1> QED
  BY <1>1, <1>2, <1>3

-----------------------------------------------------------------------------
(* The parts together.                                                     *)

ToolsInv ==
  /\ part = "gribi" => GribiInv
  /\ part = "credz" => CredzInv
  /\ part = "rundata" => RundataInv

\* A step is one of the part that the behaviour is about.
LEMMA OneTool ==
  ASSUME [ToolsNext]_toolsVars
  PROVE  /\ part' = part
         /\ part = "gribi" => [Gribi!Next]_gribiVars
         /\ part = "credz" => [Credentials!Next]_credzVars
         /\ part = "rundata" => [Rundata!Next]_rundataVars
BY DEF ToolsNext, toolsVars

\* Every part starts in a state of its invariant.
LEMMA InitTools == ToolsInit => ToolsInv
<1> SUFFICES ASSUME ToolsInit PROVE ToolsInv
  OBVIOUS
<1>1. part = "gribi" => GribiInv
  BY OneId DEF ToolsInit, Gribi!Init, GribiInv, Known, Gribi!BecomeLeaderWins, Gribi!FirstFailureNoticed,
               Gribi!NoCall
<1>2. ASSUME part = "credz" PROVE CredzInv
  <2>1. /\ device = Credentials!Fresh /\ kept = Credentials!Fresh /\ wanted = Credentials!Fresh
        /\ busy = {} /\ call = Credentials!Idle /\ login = [ok |-> TRUE, want |-> TRUE] /\ failed = "no"
    BY <1>2 DEF ToolsInit, Credentials!Init
  <2>2. IsState(Credentials!Fresh)
    BY DEF IsState, Fields, Credentials!Fresh
  <2>3. Credentials!LoginsAsRotated /\ Credentials!NeverTurnedAway
    BY <2>1 DEF Credentials!LoginsAsRotated, Credentials!NeverTurnedAway
  <2> QED
    BY <2>1, <2>2, <2>3 DEF CredzInv, Sending, Credentials!Idle, Credentials!None
<1>3. part = "rundata" => RundataInv
  BY TreesAssumption DEF ToolsInit, Rundata!Init, RundataInv, Rundata!PassedIsConsistent
<1> QED
  BY <1>1, <1>2, <1>3 DEF ToolsInv

\* Every step keeps the invariant of its part.
LEMMA ToolsStep == ToolsInv /\ [ToolsNext]_toolsVars => ToolsInv'
BY OneTool, GribiStep, CredzStep, RundataStep DEF ToolsInv

\* The invariant holds.
LEMMA ToolsHold == ToolsSpec => []ToolsInv
BY InitTools, ToolsStep, PTL DEF ToolsSpec

\* Clients that become leader lead, first failures are noticed, and the device
\* uses the credentials it was given: see CallsTakeEffect.
THEOREM CallsTakeTheirEffect == ToolsSpec => []CallsTakeEffect
<1>1. ToolsInv => CallsTakeEffect
  BY SMTT(30) DEF ToolsInv, CallsTakeEffect, GribiInv, CredzInv, Credentials!CredentialsAsRotated
<1> QED
  BY <1>1, ToolsHold, PTL

\* addrundata accepts consistent trees only and repairs the others for good: see
\* RundataRepaired.
THEOREM RundataIsRepaired == ToolsSpec => []RundataRepaired
<1>1. RundataInv => /\ Rundata!PassedIsConsistent /\ Rundata!FixRepairs
                    /\ Rundata!TwinsShareUuid /\ Rundata!FixIsIdempotent
  BY DEF RundataInv, IsSettled, Rundata!FixRepairs, Rundata!TwinsShareUuid,
         Rundata!FixIsIdempotent, Rundata!Tests, Rundata!Meta
<1>2. ToolsInv => RundataRepaired
  BY <1>1 DEF ToolsInv, RundataRepaired
<1> QED
  BY <1>2, ToolsHold, PTL

\* No run of addrundata loses rundata or a UUID, wherever it is cut short: see
\* NothingLost.
THEOREM NothingIsLost == ToolsSpec => NothingLost
<1>1. ToolsInv /\ [ToolsNext]_toolsVars =>
        [part = "rundata" => Rundata!WholeStep /\ Rundata!UuidStep]_toolsVars
  BY OneTool, NothingLostStep DEF ToolsInv
<1> QED
  BY <1>1, ToolsHold, PTL DEF ToolsSpec, NothingLost
=============================================================================
