---------------------------- MODULE PacketValidation ----------------------------
(***************************************************************************)
(* CaptureAndValidatePackets of packetvalidationhelpers: the validations a *)
(* test lists are applied in order to one capture, up to the first error.  *)
(***************************************************************************)
EXTENDS Integers, Sequences

-----------------------------------------------------------------------------
(***************************************************************************)
(* internal/otg_helpers/packetvalidationhelpers: the checks of captured    *)
(* packets.  All checks of one call read the same packet source, which     *)
(* hands out each packet once: a check starts where the one before it      *)
(* stopped.                                                                *)
(*                                                                         *)
(* A header is abstracted to what a check finds in it: "none" (the packet  *)
(* has no such header), "skip" (it is for another destination), "good" or  *)
(* "bad" (its fields are, or are not, the expected ones).                  *)
(***************************************************************************)

Header == {"none", "skip", "good", "bad"}
\* gre: what the payload of the tunnel header holds; "none" is a packet without
\* one and "skip" one whose payload has no inner IP header.
Packet == [vlan : {"none", "good", "bad"}, ip4 : Header, gre : Header,
           bgp : SUBSET {"type", "code", "subcode"}, macsec : BOOLEAN]

Result(v, s) == [verdict |-> v, rest |-> s]
From(s, i) == SubSeq(s, i, Len(s))
Least(S) == CHOOSE i \in S : \A j \in S : i <= j
First(S) == IF S = {} THEN 0 ELSE Least(S)

\* Mutant: a check that succeeded reads the rest of the capture too.
FirstDecides_Drains(s, header) ==
  LET i == First({j \in 1 .. Len(s) : s[j][header] \notin {"none", "skip"}}) IN
  IF i = 0 THEN Result("missing", <<>>)
  ELSE IF s[i][header] = "good" THEN Result("ok", <<>>) ELSE Result("wrong", From(s, i + 1))

\* Mutant: a packet with a wrong header is passed over.
FirstDecides_Lenient(s, header) ==
  LET i == First({j \in 1 .. Len(s) : s[j][header] # "none"}) IN
  IF i = 0 THEN Result("missing", <<>>) ELSE Result("ok", From(s, i + 1))

\* validateVlanHeader, validateIPv4Header, validateIPv6Header, validateMPLSLayer,
\* validateTCPHeader and validateUDPHeader: the first packet that has the header,
\* for the expected destination, decides.
FirstDecides(s, header) ==
  LET i == First({j \in 1 .. Len(s) : s[j][header] \notin {"none", "skip"}}) IN
  IF i = 0 THEN Result("missing", <<>>)
  ELSE Result(IF s[i][header] = "good" THEN "ok" ELSE "wrong", From(s, i + 1))

validateVlanHeader(s) == FirstDecides(s, "vlan")
validateIPv4Header(s) == FirstDecides(s, "ip4")

\* validateInnerIPv4Header, validateInnerIPv6Header of a GRE tunnel: encapPacket keeps the payload
\* of the last tunnel header, and is nil before the first one.
validateInnerHeader(s) ==
  IF s # <<>> /\ s[1].gre = "none" THEN Result("panic", <<>>)
  ELSE LET i == First({j \in 1 .. Len(s) : s[j].gre \in {"good", "bad"}}) IN
       IF i = 0 THEN Result("missing", <<>>)
       ELSE Result(IF s[i].gre = "good" THEN "ok" ELSE "wrong", From(s, i + 1))

\* validateBGPHeader: a packet is passed over only if none of the three fields is
\* the expected one.
validateBGPHeader(s) ==
  LET i == First({j \in 1 .. Len(s) : s[j].bgp # {}}) IN
  IF i = 0 THEN Result("missing", <<>>) ELSE Result("ok", From(s, i + 1))

\* validateMacsecHeader reads the whole capture.
validateMacsecHeader(s) ==
  Result(IF \E i \in 1 .. Len(s) : s[i].macsec THEN "ok" ELSE "missing", <<>>)
-----------------------------------------------------------------------------

CONSTANTS MaxPackets, MaxChecks, Packets, Checks

\* Captures of packets that the validations can tell apart.
Validations == {"vlan", "ip4", "inner", "bgp", "macsec"}
ASSUME CapturesAssumption ==
  /\ Packets \subseteq Packet /\ Checks \subseteq Validations
  /\ MaxPackets \in Nat /\ MaxChecks \in Nat

VARIABLES capture, validations, rest, idx, captureVerdict
captureVars == <<capture, validations, rest, idx, captureVerdict>>

SeqsUpTo(S, n) == UNION {[1 .. k -> S] : k \in 0 .. n}

CaptureInit ==
  /\ capture \in SeqsUpTo(Packets, MaxPackets)
  /\ validations \in SeqsUpTo(Checks, MaxChecks)
  /\ rest = <<>> /\ idx = 0 /\ captureVerdict = "running"

\* The capture is fetched and written to a file, which may fail.
GetCapture ==
  /\ idx = 0 /\ captureVerdict = "running"
  /\ \/ rest' = capture /\ idx' = 1 /\ UNCHANGED captureVerdict
     \/ captureVerdict' = "error" /\ UNCHANGED <<rest, idx>>
  /\ UNCHANGED <<capture, validations>>

Check(v) ==
  CASE v = "vlan" -> validateVlanHeader(rest)
    [] v = "ip4" -> validateIPv4Header(rest)
    [] v = "inner" -> validateInnerHeader(rest)
    [] v = "bgp" -> validateBGPHeader(rest)
    [] v = "macsec" -> validateMacsecHeader(rest)

\* One round of the loop over the validations.
Validate ==
  /\ captureVerdict = "running" /\ idx \in 1 .. Len(validations)
  /\ LET r == Check(validations[idx]) IN
     /\ rest' = r.rest
     /\ captureVerdict' = IF r.verdict = "ok" THEN captureVerdict ELSE r.verdict
     /\ idx' = IF r.verdict = "ok" THEN idx + 1 ELSE idx
  /\ UNCHANGED <<capture, validations>>

Return ==
  /\ captureVerdict = "running" /\ idx > Len(validations)
  /\ captureVerdict' = "ok" /\ UNCHANGED <<capture, validations, rest, idx>>

CaptureNext == GetCapture \/ Validate \/ Return
CaptureSpec == CaptureInit /\ [][CaptureNext]_captureVars

-----------------------------------------------------------------------------
Good(q, v) ==
  CASE v = "vlan" -> q.vlan = "good"
    [] v = "ip4" -> q.ip4 = "good"
    [] v = "inner" -> q.gre = "good"
    [] v = "bgp" -> q.bgp # {}
    [] v = "macsec" -> q.macsec

\* An accepted capture holds, for the validations in their order, packets one
\* after the other that pass them, and none with a wrong header before the packet
\* that was taken for the first validation.
AcceptsOnlyEvidence ==
  captureVerdict = "ok" =>
    /\ \E f \in [1 .. Len(validations) -> 1 .. Len(capture)] :
         /\ \A k \in 1 .. Len(validations) : Good(capture[f[k]], validations[k])
         /\ \A k \in 2 .. Len(validations) : f[k - 1] < f[k]
    /\ validations # <<>> /\ validations[1] = "ip4" =>
         LET i == Least({j \in 1 .. Len(capture) : capture[j].ip4 \in {"good", "bad"}})
         IN capture[i].ip4 = "good"

\* A capture of a flow whose packets all carry the expected headers is accepted
\* once it holds as many packets as there are validations: no validation takes
\* more than one of them.  (A MACsec validation reads to the end and comes last.)
UniformCapturePasses ==
  (/\ captureVerdict \in {"wrong", "missing", "panic"}
   /\ \A i \in 1 .. Len(capture), k \in 1 .. Len(validations) : Good(capture[i], validations[k])
   /\ \A k \in 1 .. Len(validations) - 1 : validations[k] # "macsec")
  => Len(capture) < Len(validations)

\* Captured packets are accepted on evidence, one packet after the other for the
\* validations in their order, and a capture of correct packets is accepted.
CapturesJudged == AcceptsOnlyEvidence /\ UniformCapturePasses
=============================================================================
