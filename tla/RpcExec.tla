------------------------------- MODULE RpcExec -------------------------------
(***************************************************************************)
(* The sample requests that show whether a user may make an RPC             *)
(* (internal/security/gnxi/rpcexec.go), one at a time.  Unary requests take *)
(* one answer; gRIBI Get and gNOI Ping read a stream to its end, gRIBI      *)
(* Modify until the session parameters are acknowledged, authz Rotate until *)
(* the device turns the empty policy down.                                 *)
(*                                                                         *)
(* The device (external) turns a user away on the first answer of a call,  *)
(* also of a stream, which opens without error.                            *)
(***************************************************************************)
EXTENDS Naturals, Sequences

CONSTANTS
    Rpcs,           \* the RPCs of this run
    HostnameSet,    \* whether the device may lack a host name: subset of BOOLEAN
    MaxMessages     \* bound on the messages of a stream

VARIABLES rpc, permitted, hostname, pc, messages, answer, result

vars == <<rpc, permitted, hostname, pc, messages, answer, result>>

Unary == {"GnmiGet", "GnmiSet", "GnmiSubscribe", "GnmiCapabilities", "GnoiSystemTime", "GnsiAuthzGet",
          "GnsiAuthzProbe", "GribiFlush"}
ToTheEnd == {"GribiGet", "GnoiSystemPing"}
Implemented == Unary \cup ToTheEnd \cup {"GribiModify", "GnsiAuthzRotate"}
None == "none"
Again == "again"

Init ==
    /\ rpc \in Rpcs /\ permitted \in BOOLEAN /\ hostname \in HostnameSet
    /\ pc = "dial" /\ messages = 0 /\ answer = None /\ result = None

\* Dialling and opening a stream may fail.
Dial ==
    /\ pc = "dial" /\ rpc \in Implemented
    /\ \/ pc' = "wait" /\ UNCHANGED result
       \/ pc' = "done" /\ result' = "unreachable"
    /\ UNCHANGED <<rpc, permitted, hostname, messages, answer>>

\* An RPC without an implementation.
Unimplemented ==
    /\ pc = "dial" /\ rpc \notin Implemented
    /\ pc' = "done" /\ result' = "unimplemented"
    /\ UNCHANGED <<rpc, permitted, hostname, messages, answer>>

------------------------------------------------------------------------------
\* What the device may answer next (external).
Answers ==
    IF ~permitted THEN {"denied"}
    ELSE IF rpc \in {"GnmiGet", "GnmiSubscribe"} /\ ~hostname THEN {"absent"}
    ELSE CASE rpc \in Unary -> {"ok"}
           [] rpc \in ToTheEnd -> IF messages < MaxMessages THEN {"message", "eof"} ELSE {"eof"}
           [] rpc = "GribiModify" -> IF messages < MaxMessages THEN {"message", "params"} ELSE {"params"}
           [] OTHER -> {"invalid_policy"}

Device ==
    /\ pc = "wait" /\ answer = None
    /\ answer' \in Answers
    /\ messages' = IF answer' = "message" THEN messages + 1 ELSE messages
    /\ UNCHANGED <<rpc, permitted, hostname, pc, result>>

\* What the exec functions make of an answer: the result they return, or Again.
OneAnswer(a) == a

\* A host name that is not set is no error.
GnmiGet(a) == IF a = "absent" THEN "ok" ELSE a

\* A plausible slip: the end of the stream is an error like others.
GribiGet_Eof(a) == IF a = "message" THEN Again ELSE a

GribiGet(a) == CASE a = "message" -> Again [] a = "eof" -> "ok" [] OTHER -> a
GnoiSystemPing(a) == CASE a = "message" -> Again [] a = "eof" -> "ok" [] OTHER -> a

\* A plausible slip: Modify waits for the end of the stream.
GribiModify_Stream(a) == CASE a \in {"message", "params"} -> Again [] a = "eof" -> "ok" [] OTHER -> a

\* The session parameters answer the request; other messages do not.
GribiModify(a) == CASE a = "message" -> Again [] a \in {"eof", "params"} -> "ok" [] OTHER -> a

\* A user who may rotate hears that the empty policy is invalid.
GnsiAuthzRotate(a) == CASE a = "message" -> Again [] a = "invalid_policy" -> "ok" [] OTHER -> a

Exec(a) ==
    CASE rpc = "GnmiGet" -> GnmiGet(a)
      [] rpc = "GribiGet" -> GribiGet(a)
      [] rpc = "GnoiSystemPing" -> GnoiSystemPing(a)
      [] rpc = "GribiModify" -> GribiModify(a)
      [] rpc = "GnsiAuthzRotate" -> GnsiAuthzRotate(a)
      [] OTHER -> OneAnswer(a)

Receive ==
    /\ pc = "wait" /\ answer # None
    /\ IF Exec(answer) = Again THEN UNCHANGED <<pc, result>> ELSE pc' = "done" /\ result' = Exec(answer)
    /\ answer' = None
    /\ UNCHANGED <<rpc, permitted, hostname, messages>>

Next == Dial \/ Unimplemented \/ Device \/ Receive

Spec == Init /\ [][Next]_vars
Fairness == WF_vars(Next)

------------------------------------------------------------------------------
\* The result tells whether the user may make the RPC: an RPC that reached the
\* device fails with "denied" exactly for users who may not, and succeeds for
\* the others, however many messages a stream carries.
ExecTells ==
    result \notin {None, "unreachable", "unimplemented"} => result = IF permitted THEN "ok" ELSE "denied"
==============================================================================
