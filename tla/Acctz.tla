-------------------------------- MODULE Acctz --------------------------------
(***************************************************************************)
(* The calls of the accounting tests (internal/security/acctz): SetupUsers *)
(* makes a permitted and two refused users, each Send function makes a     *)
(* refused and a permitted call and returns the accounting records it      *)
(* expects of the device.                                                  *)
(*                                                                         *)
(* The device (external) checks the password, then the role, runs the call *)
(* and logs it.  A record is [service, user, authz].                       *)
(***************************************************************************)
EXTENDS Naturals, Sequences

CONSTANT AcctzPlans  \* [vendor, deviations, role, calls]: what one test does

VARIABLES
    plan,
    users,      \* user -> [password, role], for the users the device has
    log,        \* what the device logged for the users of the test
    records,    \* what the Send functions expect
    next,       \* the call of the plan that comes next; 0 before SetupUsers
    errors,     \* calls that reported an error without ending the test
    fatal,      \* a call, or the setup, ended the test
    reached        \* ghost: calls of the permitted user that reached the device

acctzVars == <<plan, users, log, records, next, errors, fatal, reached>>

Services == {"gnmi", "gnoi", "gnsi", "gribi", "p4rt"}
Commands == {"cli", "failcli", "shell", "escalate"}
Success == "acctztestuser"
Bilbo == "bilbo"
FailAuthorize == "failauthuser"
PrivEsc == "acctzRegularUser"
Unset == "unset"   \* a user without a password
User(password, role) == [password |-> password, role |-> role]
NoUsers == [u \in {} |-> User(Unset, Unset)]
Deviates(d) == d \in plan.deviations
Record(service, user, authz) == [service |-> service, user |-> user, authz |-> authz]

\* The tests make each call once.  They look for gRIBI records only where refused
\* calls are logged, and the metadata of an Arista device opens gRIBI; no device
\* opens P4Runtime and leaves refused calls out.  A failing command needs the role
\* that SetupUsers then makes, and only an Arista device escalates.
ASSUME AcctzAssumption ==
    \A p \in AcctzPlans :
      LET called(c) == \E i \in DOMAIN p.calls : p.calls[i] = c
      IN  /\ p.calls \in Seq(Services \cup Commands)
          /\ \A i, j \in DOMAIN p.calls : p.calls[i] = p.calls[j] => i = j
          /\ p.vendor = "arista" => p.role
          /\ called("gribi") => /\ "no_fail_grpc" \notin p.deviations
                                /\ p.vendor = "arista" => "gribi_open" \in p.deviations
          /\ called("p4rt") => ~({"no_fail_grpc", "p4rt_open"} \subseteq p.deviations)
          /\ called("failcli") => p.role /\ p.vendor \in {"arista", "nokia", "cisco"}
          /\ called("escalate") => p.vendor = "arista"

AcctzInit ==
    /\ plan \in AcctzPlans
    /\ users = NoUsers /\ log = <<>> /\ records = <<>>
    /\ next = 0 /\ errors = {} /\ fatal = FALSE /\ reached = {}

------------------------------------------------------------------------------
\* setupUserPassword: a rotation of the user's password, finalized.
setupUserPassword(us, user, password) == [us EXCEPT ![user].password = password]

\* A plausible slip: the password of the user without authorization is set
\* only when the role is a string leaf.
Passwords_Leaf(us) ==
    LET two == setupUserPassword(setupUserPassword(us, Success, "verysecure"), Bilbo, "baggins") IN
    IF plan.role /\ ~Deviates("role_leaf") THEN setupUserPassword(two, FailAuthorize, "failauth") ELSE two

\* The passwords SetupUsers rotates to on devices other than Juniper.
Passwords(us) ==
    LET two == setupUserPassword(setupUserPassword(us, Success, "verysecure"), Bilbo, "baggins") IN
    IF plan.role THEN setupUserPassword(two, FailAuthorize, "failauth") ELSE two

\* aristaFailAuthzCliRole gives the role to both refused users; elsewhere the
\* OpenConfig leaf or the CLI's user group gives it to the second.
Roles ==
    [u \in {Success, Bilbo, FailAuthorize} |->
       IF u = Success THEN "admin"
       ELSE IF plan.role /\ (u = FailAuthorize \/ plan.vendor = "arista") THEN "fail" ELSE "none"]

\* The refused user gets its password with its configuration.
juniperSetup ==
    [u \in {Success, Bilbo} |->
       IF u = Success THEN User(Unset, "admin")
       ELSE User("baggins", IF plan.role THEN "fail" ELSE "deny_grpc")]

\* Any request may fail, which ends the test with or without users.
SetupUsers ==
    /\ next = 0 /\ ~fatal
    /\ LET created == IF plan.vendor = "juniper" THEN juniperSetup
                      ELSE [u \in DOMAIN Roles |-> User(Unset, Roles[u])]
       IN  \/ /\ users' = IF plan.vendor = "juniper" THEN setupUserPassword(created, Success, "verysecure")
                         ELSE Passwords(created)
              /\ next' = 1 /\ UNCHANGED fatal
           \/ users' \in {users, created} /\ fatal' = TRUE /\ UNCHANGED next
    /\ UNCHANGED <<plan, log, records, errors, reached>>

------------------------------------------------------------------------------
Authentic(u, password) == u \in DOMAIN users /\ users[u].password = password /\ password # Unset

\* What the device answers: "unauthenticated", "deny" or "permit".
Answer(service, u, password) ==
    IF ~Authentic(u, password) THEN "unauthenticated"
    ELSE IF \/ service = "gribi" /\ Deviates("gribi_open")
            \/ service = "p4rt" /\ Deviates("p4rt_open") THEN "permit"
    ELSE IF users[u].role = "admin" THEN "permit" ELSE "deny"

\* What it logs: refused calls are not logged by every device.
Logged(service, u, answer) ==
    IF answer = "unauthenticated" \/ (answer = "deny" /\ Deviates("no_fail_grpc")) THEN <<>>
    ELSE <<Record(service, u, answer)>>

\* A plausible slip: the same refused user is used on every device.
FailUser_Bilbo == [user |-> Bilbo, password |-> "failauth"]

\* The refused user of the gRPC calls; the variables are the package's.
FailUser ==
    IF plan.vendor = "arista" THEN [user |-> FailAuthorize, password |-> "failauth"]
    ELSE [user |-> Bilbo, password |-> "baggins"]

\* Whether the refused call is expected to be let in.
OpenTo(service) ==
    \/ service = "gribi" /\ Deviates("gribi_open")
    \/ service = "p4rt" /\ Deviates("p4rt_open")

\* expectedAuthzStatus.
expectedAuthzStatus(status, service) ==
    IF plan.vendor = "arista" /\ service = "gribi" /\ status = "deny" THEN "permit" ELSE status

\* A plausible slip: the open services are expected to refuse in the record.
ExpectRefused_Deny(service) ==
    IF Deviates("no_fail_grpc") /\ service # "gribi" THEN <<>>
    ELSE <<Record(service, FailUser.user, "deny")>>

\* The record expected for the refused call.  Every service but gRIBI leaves it
\* out when the device does not log refused calls.
ExpectRefused(service) ==
    IF Deviates("no_fail_grpc") /\ service # "gribi" THEN <<>>
    ELSE <<Record(service, FailUser.user,
                  expectedAuthzStatus(IF OpenTo(service) THEN "permit" ELSE "deny", service))>>

\* A plausible slip: gNOI looks for a message beside the error as well.
OnFailure_Quiet(service) ==
    IF service \in {"gnmi", "gribi", "p4rt"} THEN "fatal" ELSE "nothing"

\* What a permitted call that fails does: gNSI looks for a message beside the
\* error, and there is none.
OnFailure(service) ==
    CASE service \in {"gnmi", "gribi", "p4rt"} -> "fatal"
      [] service = "gnoi" -> "error"
      [] OTHER -> "nothing"

Current == IF next \in DOMAIN plan.calls THEN plan.calls[next] ELSE "end"

\* The refused call, then the permitted one, which may fail on the way.
SendRPCs(service) ==
    /\ ~fatal /\ next > 0 /\ Current = service
    /\ LET refused == Answer(service, FailUser.user, FailUser.password)
           asExpected == refused = IF OpenTo(service) THEN "permit" ELSE "deny"
       IN  \E arrives \in BOOLEAN :
            LET ok == arrives /\ Answer(service, Success, "verysecure") = "permit"
                failure == IF ok THEN "none" ELSE OnFailure(service)
            IN  /\ log' = log \o Logged(service, FailUser.user, refused)
                              \o (IF arrives THEN Logged(service, Success, "permit") ELSE <<>>)
                /\ records' = records \o ExpectRefused(service)
                                \o (IF failure = "fatal" THEN <<>>
                                    ELSE <<Record(service, Success, "permit")>>)
                /\ errors' = errors \cup (IF asExpected THEN {} ELSE {<<service, "refused">>})
                                    \cup (IF failure = "error" THEN {<<service, "permitted">>} ELSE {})
                /\ fatal' = (failure = "fatal")
                /\ reached' = reached \cup (IF ok THEN {service} ELSE {})
    /\ next' = next + 1
    /\ UNCHANGED <<plan, users>>

SendGnmiRPCs == SendRPCs("gnmi")
SendGnoiRPCs == SendRPCs("gnoi")
SendGnsiRPCs == SendRPCs("gnsi")
SendGribiRPCs == SendRPCs("gribi")
SendP4rtRPCs == SendRPCs("p4rt")

------------------------------------------------------------------------------
\* The user of a CLI, shell or escalation session, and its password.
Login(call) ==
    CASE call = "cli" -> User("verysecure", Success)
      [] call = "shell" -> IF plan.vendor = "nokia" THEN User("NokiaSrl1!", "linuxadmin")
                           ELSE User("verysecure", Success)
      [] call = "failcli" -> IF plan.vendor \in {"arista", "nokia", "cisco"}
                             THEN User("failauth", FailAuthorize) ELSE User("bagginsTest123!", Bilbo)
      [] OTHER -> User("acctzPass123", PrivEsc)

\* The permission expected in the record of a command.
ExpectCommand(call) ==
    CASE call = "failcli" -> IF Deviates("no_deny_status") THEN "unspecified" ELSE "deny"
      [] call = "escalate" -> "unspecified"
      [] OTHER -> "permit"

\* Users as a session finds them: SendPrivEscalation makes its own first, with
\* a password on Arista alone; linuxadmin is there on a Nokia device.
KnownTo(call) ==
    LET made == (IF call = "escalate" THEN {PrivEsc} ELSE {})
                \cup (IF plan.vendor = "nokia" THEN {"linuxadmin"} ELSE {})
    IN [u \in DOMAIN users \cup made |->
          IF u \in DOMAIN users THEN users[u]
          ELSE IF u = PrivEsc
          THEN User(IF plan.vendor = "arista" THEN "acctzPass123" ELSE Unset, "operator")
          ELSE User("NokiaSrl1!", "admin")]

\* What the device logs for a command of this user.
Commanded(call, role) ==
    IF call = "escalate" THEN "unspecified"
    ELSE IF role = "admin" THEN "permit"
    ELSE IF Deviates("no_deny_status") THEN "unspecified" ELSE "deny"

\* dialSSH, one command, and the record: a login that is refused ends the test.
SendCommand(call) ==
    /\ ~fatal /\ next > 0 /\ Current = call
    /\ LET who == Login(call).role
           known == KnownTo(call)
           in == who \in DOMAIN known /\ known[who].password = Login(call).password
       IN  /\ users' = known
           /\ fatal' = ~in
           /\ log' = IF in THEN Append(log, Record(call, who, Commanded(call, known[who].role))) ELSE log
           /\ records' = IF in THEN Append(records, Record(call, who, ExpectCommand(call))) ELSE records
    /\ next' = next + 1
    /\ UNCHANGED <<plan, errors, reached>>

SendSuccessCliCommand == SendCommand("cli")
SendFailCliCommand == SendCommand("failcli")
SendShellCommand == SendCommand("shell")
SendPrivEscalation == SendCommand("escalate")

\* The cleanup SetupUsers registers on an Arista device takes its users away.
Cleanup ==
    /\ (fatal \/ (next > 0 /\ Current = "end")) /\ plan.vendor = "arista" /\ plan.role
    /\ users' = [u \in DOMAIN users \ {Success, Bilbo, FailAuthorize} |-> users[u]]
    /\ users' # users
    /\ UNCHANGED <<plan, log, records, next, errors, fatal, reached>>

AcctzNext ==
    \/ SetupUsers
    \/ SendGnmiRPCs \/ SendGnoiRPCs \/ SendGnsiRPCs \/ SendGribiRPCs \/ SendP4rtRPCs
    \/ SendSuccessCliCommand \/ SendFailCliCommand \/ SendShellCommand \/ SendPrivEscalation
    \/ Cleanup

AcctzSpec == AcctzInit /\ [][AcctzNext]_acctzVars

------------------------------------------------------------------------------
Done == next > Len(plan.calls) /\ ~fatal /\ errors = {}

\* The records expected of a test in which every call reached the device are
\* the ones the device logged, in that order.
RecordsAreLogged == Done /\ {c \in Services : \E i \in DOMAIN plan.calls : plan.calls[i] = c} = reached =>
                        records = log

\* The refused user is refused for lack of permission on every device: it can
\* authenticate, and no service lets it in that should not.
RefusedForItsRole == \A s \in Services : <<s, "refused">> \notin errors

\* A permitted call that did not succeed is reported, but for one: SendGnsiRPCs
\* looks for a message beside the error.
SilentMeansSent ==
    Done => \A i \in DOMAIN plan.calls :
              plan.calls[i] \in Services \ {"gnsi"} => plan.calls[i] \in reached

\* Every session that is to run a command gets in: once the users are set up only
\* a call that does not reach the device ends the test.
SessionsGetIn == fatal /\ next > 0 => \E i \in DOMAIN plan.calls : plan.calls[i] \in Services \ reached

\* The accounting records that the Send functions expect are the ones the device
\* logs, the refused user is refused for its role on every vendor, sessions get
\* in, and a permitted call that failed is reported.
RecordsAsExpected == RecordsAreLogged /\ RefusedForItsRole /\ SilentMeansSent /\ SessionsGetIn
==============================================================================
