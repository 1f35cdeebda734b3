-------------------------------- MODULE Credz --------------------------------
(***************************************************************************)
(* Rotating account credentials and host parameters over gNSI              *)
(* credentialz, and logging in over SSH with them                          *)
(* (internal/security/credz).  Every Rotate function opens a stream, sends *)
(* one upload, waits for the answer, sends a finalization and sleeps.  The *)
(* stream is not closed.                                                   *)
(*                                                                         *)
(* The device (external) uses an upload at once, keeps it when the         *)
(* finalization arrives, goes back when the connection breaks before that, *)
(* and serves one rotation of each service at a time.                      *)
(***************************************************************************)
EXTENDS Naturals, FiniteSets

CONSTANTS
    Passwords, Principals, TypeLists, Tools,    \* what a test rotates to
    Dirs,       \* directories with [user, ca (keys), cert, host, hostcert]
    MaxCalls    \* bound on the calls of one test

VARIABLES
    device,     \* what the device uses
    kept,       \* what it goes back to
    busy,       \* services with a rotation that is not finalized
    call,       \* the call in progress: [field, arg, value (sent), stage], or Idle
    wanted,     \* ghost: what the finished calls were asked to rotate to
    login,      \* outcome of the last login
    calls,
    failed      \* why t.Fatalf ended the test, or "no"

vars == <<device, kept, busy, call, wanted, login, calls, failed>>

None == "none"
All == {"password", "pubkey"}
Fresh == [password |-> "p0", keys |-> None, principal |-> None, ca |-> None, types |-> All,
          host |-> <<None, None>>, check |-> None]
Idle == [field |-> None, arg |-> None, value |-> None, stage |-> "idle"]

\* The directory "" of the code: nothing is read, and nothing is in it.
NoKey == [id |-> None, algo |-> None]
NoDir == [user |-> NoKey, ca |-> NoKey, cert |-> None, host |-> None, hostcert |-> None]

\* Two services: account credentials and host parameters.
Service(field) == IF field \in {"password", "keys", "principal"} THEN "account" ELSE "host"

Init ==
    /\ device = Fresh /\ kept = Fresh /\ wanted = Fresh
    /\ busy = {} /\ call = Idle /\ login = [ok |-> TRUE, want |-> TRUE] /\ calls = 0 /\ failed = "no"

------------------------------------------------------------------------------
Ready == failed = "no" /\ call.stage = "idle" /\ calls < MaxCalls /\ calls' = calls + 1

\* A file that cannot be read, or a key of an unknown type, ends the test.
Fatalf == Ready /\ failed' = "file" /\ UNCHANGED <<device, kept, busy, call, wanted, login>>

\* The stream is opened and the request sent; the device turns a second
\* rotation of a service away.
Send(field, arg, value) ==
    /\ Ready
    /\ IF Service(field) \in busy
       THEN failed' = "turned_away" /\ UNCHANGED <<call, busy>>
       ELSE /\ call' = [field |-> field, arg |-> arg, value |-> value, stage |-> "sent"]
            /\ busy' = busy \cup {Service(field)}
            /\ UNCHANGED failed
    /\ UNCHANGED <<device, kept, wanted, login>>

keyTypeFromAlgo(algo) ==
    IF algo \in {"ssh-rsa", "ssh-ed25519", "ecdsa-sha2-nistp256", "ecdsa-sha2-nistp384", "ecdsa-sha2-nistp521"}
    THEN algo ELSE None

RotateUserPassword(password) == Send("password", password, password)
RotateAuthorizedPrincipal(userPrincipal) == Send("principal", userPrincipal, userPrincipal)
RotateAuthenticationTypes(authTypes) == Send("types", authTypes, authTypes)
RotateAuthorizedPrincipalCheck(tool) == Send("check", tool, tool)

\* A plausible slip: without a directory the keys stay as they are.
RotateAuthorizedKey_Keep(dir) ==
    IF dir = NoDir THEN Send("keys", None, device.keys)
    ELSE IF dir.user = NoKey THEN Fatalf ELSE Send("keys", dir.user.id, dir.user.id)

\* Without a directory the list is sent empty, which clears the keys.  A key of
\* an unknown type is sent all the same, as Ed25519.
RotateAuthorizedKey(dir) ==
    IF dir # NoDir /\ dir.user = NoKey THEN Fatalf ELSE Send("keys", dir.user.id, dir.user.id)

RotateTrustedUserCA(dir) ==
    IF dir # NoDir /\ (dir.ca = NoKey \/ keyTypeFromAlgo(dir.ca.algo) = None)
    THEN Fatalf ELSE Send("ca", dir.ca.id, dir.ca.id)

\* Key and certificate go into one artifact; what has no directory stays empty.
RotateAuthenticationArtifacts(keyDir, certDir) ==
    LET artifact == <<keyDir.host, certDir.hostcert>> IN
    IF (keyDir # NoDir /\ keyDir.host = None) \/ (certDir # NoDir /\ certDir.hostcert = None)
    THEN Fatalf ELSE Send("host", artifact, artifact)

\* The device uses the upload and answers.
Apply ==
    /\ call.stage = "sent"
    /\ device' = [device EXCEPT ![call.field] = call.value]
    /\ call' = [call EXCEPT !.stage = "answered"]
    /\ UNCHANGED <<kept, busy, wanted, login, calls, failed>>

\* A plausible slip: the finalization is forgotten.
Finalize_Forgotten ==
    /\ call.stage = "answered"
    /\ wanted' = [wanted EXCEPT ![call.field] = call.arg]
    /\ call' = Idle
    /\ UNCHANGED <<device, kept, busy, login, calls, failed>>

\* sendAccountCredentialsRequest and sendHostParametersRequest after Recv: the
\* finalization is sent on the same stream.
Finalize ==
    /\ call.stage = "answered"
    /\ call' = [call EXCEPT !.stage = "finalizing"]
    /\ UNCHANGED <<device, kept, busy, wanted, login, calls, failed>>

\* The device keeps what it uses.
Process ==
    /\ call.stage = "finalizing"
    /\ kept' = [kept EXCEPT ![call.field] = device[call.field]]
    /\ busy' = busy \ {Service(call.field)}
    /\ call' = [call EXCEPT !.stage = "processed"]
    /\ UNCHANGED <<device, wanted, login, calls, failed>>

\* The sleep is over: the finalization has been processed.
Return ==
    /\ call.stage = "processed"
    /\ wanted' = [wanted EXCEPT ![call.field] = call.arg]
    /\ call' = Idle
    /\ UNCHANGED <<device, kept, busy, login, calls, failed>>

\* The connection breaks before the finalization; Send or Recv fails the test.
Break ==
    /\ call.stage \in {"sent", "answered"}
    /\ device' = kept /\ busy' = {} /\ failed' = "broken" /\ call' = Idle
    /\ UNCHANGED <<kept, wanted, login, calls>>

------------------------------------------------------------------------------
\* What the SSH server of the device (external) lets in: a certificate needs a
\* principal, or a tool that checks it in another way.
Accepts(d, how, what) ==
    CASE how = "password" -> "password" \in d.types /\ d.password = what
      [] how = "key" -> "pubkey" \in d.types /\ d.keys = what /\ what # None
      [] OTHER -> "pubkey" \in d.types /\ d.ca = what /\ what # None /\ (d.principal # None \/ d.check # None)

\* DialSSH with one method; the ghost remembers what the rotations so far allow.
DialSSH(ok, want) ==
    /\ Ready
    /\ login' = [ok |-> ok, want |-> want]
    /\ UNCHANGED <<device, kept, busy, call, wanted, failed>>

SSHWithPassword(password) ==
    DialSSH(Accepts(device, "password", password), Accepts(wanted, "password", password))

SSHWithKey(dir) ==
    IF dir.user = NoKey THEN Fatalf
    ELSE DialSSH(Accepts(device, "key", dir.user.id), Accepts(wanted, "key", dir.user.id))

\* A plausible slip: the private key is offered without its certificate.
SSHWithCertificate_Key(dir) ==
    IF dir.user = NoKey \/ dir.cert = None THEN Fatalf
    ELSE DialSSH(Accepts(device, "key", dir.user.id), Accepts(wanted, "certificate", dir.cert))

\* The certificate stands for the CA that signed it.
SSHWithCertificate(dir) ==
    IF dir.user = NoKey \/ dir.cert = None THEN Fatalf
    ELSE DialSSH(Accepts(device, "certificate", dir.cert), Accepts(wanted, "certificate", dir.cert))

Next ==
    \/ \E p \in Passwords : RotateUserPassword(p) \/ SSHWithPassword(p)
    \/ \E u \in Principals : RotateAuthorizedPrincipal(u)
    \/ \E types \in TypeLists : RotateAuthenticationTypes(types)
    \/ \E tool \in Tools : RotateAuthorizedPrincipalCheck(tool)
    \/ \E dir \in Dirs \cup {NoDir} : RotateAuthorizedKey(dir) \/ RotateTrustedUserCA(dir)
    \/ \E keyDir, certDir \in Dirs \cup {NoDir} : RotateAuthenticationArtifacts(keyDir, certDir)
    \/ \E dir \in Dirs : SSHWithKey(dir) \/ SSHWithCertificate(dir)
    \/ Apply \/ Finalize \/ Process \/ Return \/ Break

Spec == Init /\ [][Next]_vars

------------------------------------------------------------------------------
\* Between calls the device uses exactly what the Rotate functions were asked to
\* rotate to, also when a call failed half way and the device went back.
CredentialsAsRotated ==
    call.stage = "idle" => device = wanted

\* A rotation is never turned away because an earlier one of its service is
\* still open: every Rotate function finalizes before it returns.
NeverTurnedAway == failed # "turned_away"

\* A login succeeds exactly when the credentials rotated so far allow it.
LoginsAsRotated == login.ok = login.want
==============================================================================
