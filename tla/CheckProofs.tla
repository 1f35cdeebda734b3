----------------------------- MODULE CheckProofs -----------------------------
(***************************************************************************)
(* What is proved, for every value of the constants, of three helpers that *)
(* judge a device by what they read: the core file check, the validation   *)
(* of captured packets and the accessors of deviations.  Each has an       *)
(* inductive invariant of its own.                                         *)
(***************************************************************************)
EXTENDS CoreValidator, PacketValidation, Deviations, SequenceTheorems,
        WellFoundedInduction, TLAPS

-----------------------------------------------------------------------------
(* The core file check misses no new core and blames no old one, for any   *)
(* number of devices and core files.                                       *)

Phases == {"register", "initial", "tests", "final", "over"}
FileSets == [DUTs -> SUBSET Cores]

TypeOK ==
  /\ files \in FileSets /\ listing \in FileSets /\ prevCores \in FileSets /\ delta \in FileSets
  /\ old \in FileSets /\ appeared \in FileSets
  /\ phase \in Phases /\ duts \subseteq DUTs
  /\ job \in [DUTs -> {"off", "list", "stat", "done"}]
  /\ checkOK \in [DUTs -> SUBSET Phases]
  /\ verdict \in {"none", "pass", "fail"}

\* The goroutines run only in the two checks, and no later phase leaves one behind.
PhaseInv ==
  /\ phase \notin {"initial", "final"} => \A d \in DUTs : job[d] \in {"off", "done"}
  /\ \A d \in DUTs \ duts : job[d] = "off"
  /\ \A d \in DUTs : checkOK[d] \subseteq {"initial", "final"}
  /\ \A d \in DUTs : "final" \in checkOK[d] => phase \in {"final", "over"} /\ job[d] = "done"
  /\ \A d \in DUTs : phase = "initial" /\ "initial" \in checkOK[d] => job[d] = "done"
  /\ phase = "register" => \A d \in DUTs : checkOK[d] = {}
  /\ verdict # "none" => phase = "over"

\* A core created during the tests is not in the reference; it is in the final
\* listing, and then in the delta, for as long as it exists.
NewInv ==
  \A d \in DUTs :
    /\ appeared[d] \subseteq files[d]
    /\ phase \in {"register", "initial"} => appeared[d] = {}
    /\ phase \in {"tests", "final"} /\ "final" \notin checkOK[d] => appeared[d] \cap prevCores[d] = {}
    /\ phase = "final" /\ job[d] = "stat" => appeared[d] \subseteq listing[d]
    /\ "final" \in checkOK[d] => appeared[d] \subseteq delta[d]

\* A core that was there all the time is in the reference of a device whose
\* initial check worked, until the final check has used it.
OldInv ==
  \A d \in DUTs :
    /\ old[d] \subseteq files[d]
    /\ phase = "initial" /\ job[d] = "stat" => old[d] \subseteq listing[d]
    /\ "initial" \in checkOK[d] =>
         /\ "final" \notin checkOK[d] => old[d] \subseteq prevCores[d]
         /\ phase \in {"final", "over"} => delta[d] \cap old[d] = {}

VerdictInv == verdict = "pass" => \A d \in duts : delta[d] = {}

IInv == TypeOK /\ PhaseInv /\ NewInv /\ OldInv /\ VerdictInv

\* The invariant holds before the registration.
LEMMA InitInv == Init => IInv
BY DEF Init, IInv, TypeOK, FileSets, Phases, Empty, PhaseInv, NewInv, OldInv, VerdictInv

\* No step leaves the types.
LEMMA TypeStep == IInv /\ [Next]_vars => TypeOK'
<1> SUFFICES ASSUME IInv, [Next]_vars PROVE TypeOK'
  OBVIOUS
<1> USE DEF IInv, TypeOK, FileSets, Phases, Empty, PhaseInv
<1>1. ASSUME NEW d \in DUTs, NEW f \in Cores, Crash(d, f) PROVE TypeOK'
  BY <1>1 DEF Crash
<1>2. ASSUME NEW d \in DUTs, NEW f \in Cores, Remove(d, f) PROVE TypeOK'
  BY <1>2 DEF Remove
<1>3. ASSUME NEW d \in DUTs, NEW dialed \in BOOLEAN, Register(d, dialed) PROVE TypeOK'
  BY <1>3 DEF Register
<1>4. ASSUME NEW d \in DUTs, List(d) PROVE TypeOK'
  BY <1>4 DEF List
<1>5. ASSUME NEW d \in DUTs, Stat(d) PROVE TypeOK'
  BY <1>5 DEF Stat
<1>6. ASSUME NEW d \in DUTs, CheckFails(d) PROVE TypeOK'
  BY <1>6 DEF CheckFails
<1>7. CASE StartCheck BY <1>7 DEF StartCheck
<1>8. CASE Finish BY <1>8 DEF Finish
<1>9. CASE UNCHANGED vars BY <1>9 DEF vars
<1> QED
  BY <1>1, <1>2, <1>3, <1>4, <1>5, <1>6, <1>7, <1>8, <1>9 DEF Next

\* The goroutines of a check have ended when the next phase begins.
LEMMA PhaseStep == IInv /\ [Next]_vars => PhaseInv'
<1> SUFFICES ASSUME IInv, [Next]_vars PROVE PhaseInv'
  OBVIOUS
<1> USE DEF IInv, TypeOK, FileSets, Phases, Empty, PhaseInv
<1>1. ASSUME NEW d \in DUTs, NEW f \in Cores, Crash(d, f) PROVE PhaseInv'
  BY <1>1 DEF Crash
<1>2. ASSUME NEW d \in DUTs, NEW f \in Cores, Remove(d, f) PROVE PhaseInv'
  BY <1>2 DEF Remove
<1>3. ASSUME NEW d \in DUTs, NEW dialed \in BOOLEAN, Register(d, dialed) PROVE PhaseInv'
  BY <1>3 DEF Register
<1>4. ASSUME NEW d \in DUTs, List(d) PROVE PhaseInv'
  BY <1>4 DEF List
<1>5. ASSUME NEW d \in DUTs, Stat(d) PROVE PhaseInv'
  BY <1>5 DEF Stat
<1>6. ASSUME NEW d \in DUTs, CheckFails(d) PROVE PhaseInv'
  BY <1>6 DEF CheckFails
<1>7. CASE StartCheck BY <1>7 DEF StartCheck
<1>8. CASE Finish BY <1>8 DEF Finish
<1>9. CASE UNCHANGED vars BY <1>9 DEF vars
<1> QED
  BY <1>1, <1>2, <1>3, <1>4, <1>5, <1>6, <1>7, <1>8, <1>9 DEF Next

\* No interleaving of crashes, removals and goroutines loses a new core.
LEMMA NewStep == IInv /\ [Next]_vars => NewInv'
<1> SUFFICES ASSUME IInv, [Next]_vars PROVE NewInv'
  OBVIOUS
<1> USE DEF IInv, TypeOK, FileSets, Phases, Empty, PhaseInv, NewInv
<1>1. ASSUME NEW d \in DUTs, NEW f \in Cores, Crash(d, f) PROVE NewInv'
  BY <1>1 DEF Crash
<1>2. ASSUME NEW d \in DUTs, NEW f \in Cores, Remove(d, f) PROVE NewInv'
  BY <1>2 DEF Remove
<1>3. ASSUME NEW d \in DUTs, NEW dialed \in BOOLEAN, Register(d, dialed) PROVE NewInv'
  BY <1>3 DEF Register
<1>4. ASSUME NEW d \in DUTs, List(d) PROVE NewInv'
  BY <1>4 DEF List
<1>5. ASSUME NEW d \in DUTs, Stat(d) PROVE NewInv'
  BY <1>5 DEF Stat
<1>6. ASSUME NEW d \in DUTs, CheckFails(d) PROVE NewInv'
  BY <1>6 DEF CheckFails
<1>7. CASE StartCheck BY <1>7 DEF StartCheck
<1>8. CASE Finish BY <1>8 DEF Finish
<1>9. CASE UNCHANGED vars BY <1>9 DEF vars
<1> QED
  BY <1>1, <1>2, <1>3, <1>4, <1>5, <1>6, <1>7, <1>8, <1>9 DEF Next

\* Nor does any of them turn an old core into a new one.
LEMMA OldStep == IInv /\ [Next]_vars => OldInv'
<1> SUFFICES ASSUME IInv, [Next]_vars PROVE OldInv'
  OBVIOUS
<1> USE DEF IInv, TypeOK, FileSets, Phases, Empty, PhaseInv, OldInv
<1>1. ASSUME NEW d \in DUTs, NEW f \in Cores, Crash(d, f) PROVE OldInv'
  BY <1>1 DEF Crash
<1>2. ASSUME NEW d \in DUTs, NEW f \in Cores, Remove(d, f) PROVE OldInv'
  BY <1>2 DEF Remove
<1>3. ASSUME NEW d \in DUTs, NEW dialed \in BOOLEAN, Register(d, dialed) PROVE OldInv'
  BY <1>3 DEF Register
<1>4. ASSUME NEW d \in DUTs, List(d) PROVE OldInv'
  BY <1>4 DEF List
<1>5. ASSUME NEW d \in DUTs, Stat(d) PROVE OldInv'
  BY <1>5 DEF Stat
<1>6. ASSUME NEW d \in DUTs, CheckFails(d) PROVE OldInv'
  BY <1>6 DEF CheckFails
<1>7. CASE StartCheck BY <1>7 DEF StartCheck
<1>8. CASE Finish BY <1>8 DEF Finish
<1>9. CASE UNCHANGED vars BY <1>9 DEF vars
<1> QED
  BY <1>1, <1>2, <1>3, <1>4, <1>5, <1>6, <1>7, <1>8, <1>9 DEF Next

\* A run that passes found no new core, after every step.
LEMMA VerdictStep == IInv /\ [Next]_vars => VerdictInv'
<1> SUFFICES ASSUME IInv, [Next]_vars PROVE VerdictInv'
  OBVIOUS
<1> USE DEF IInv, TypeOK, FileSets, Phases, Empty, PhaseInv, VerdictInv
<1>1. ASSUME NEW d \in DUTs, NEW f \in Cores, Crash(d, f) PROVE VerdictInv'
  BY <1>1 DEF Crash
<1>2. ASSUME NEW d \in DUTs, NEW f \in Cores, Remove(d, f) PROVE VerdictInv'
  BY <1>2 DEF Remove
<1>3. ASSUME NEW d \in DUTs, NEW dialed \in BOOLEAN, Register(d, dialed) PROVE VerdictInv'
  BY <1>3 DEF Register
<1>4. ASSUME NEW d \in DUTs, List(d) PROVE VerdictInv'
  BY <1>4 DEF List
<1>5. ASSUME NEW d \in DUTs, Stat(d) PROVE VerdictInv'
  BY <1>5 DEF Stat
<1>6. ASSUME NEW d \in DUTs, CheckFails(d) PROVE VerdictInv'
  BY <1>6 DEF CheckFails
<1>7. CASE StartCheck BY <1>7 DEF StartCheck
<1>8. CASE Finish BY <1>8 DEF Finish
<1>9. CASE UNCHANGED vars BY <1>9 DEF vars
<1> QED
  BY <1>1, <1>2, <1>3, <1>4, <1>5, <1>6, <1>7, <1>8, <1>9 DEF Next

\* IInv is an invariant of registration and of the two checks.
THEOREM Invariance == Spec => []IInv
<1>1. IInv /\ [Next]_vars => IInv'
  BY TypeStep, PhaseStep, NewStep, OldStep, VerdictStep DEF IInv
<1> QED
  BY InitInv, <1>1, PTL DEF Spec

\* A run that passes missed no core of a device whose final check worked.
THEOREM CrashesAreSeen == Spec => []CrashesFailTheRun
<1>1. IInv => CrashesFailTheRun
  BY DEF IInv, TypeOK, NewInv, VerdictInv, CrashesFailTheRun
<1> QED
  BY Invariance, <1>1, PTL

\* No core from before the registration is held against a device whose initial
\* check worked.
THEOREM OldCoresIgnored == Spec => []OldCoresAreForgiven
<1>1. IInv => OldCoresAreForgiven
  BY DEF IInv, TypeOK, PhaseInv, OldInv, OldCoresAreForgiven
<1> QED
  BY Invariance, <1>1, PTL

-----------------------------------------------------------------------------
(* The validation of captured packets, for captures and lists of            *)
(* validations of any length.                                               *)

\* What is left of a sequence after n elements, and after m more.
LEMMA FromTells ==
  ASSUME NEW S, NEW s \in Seq(S), NEW n \in 0 .. Len(s)
  PROVE  /\ From(s, n + 1) \in Seq(S) /\ Len(From(s, n + 1)) = Len(s) - n
         /\ \A i \in 1 .. Len(s) - n : From(s, n + 1)[i] = s[n + i]
         /\ \A m \in 0 .. Len(s) - n :
              From(From(s, n + 1), m + 1) = From(s, n + m + 1)
<1> DEFINE t == SubSeq(s, n + 1, Len(s))
<1>1. t \in Seq(S) /\ Len(t) = Len(s) - n /\ \A i \in 1 .. Len(s) - n : t[i] = s[n + i]
  BY SubSeqProperties
<1>2. ASSUME NEW m \in 0 .. Len(s) - n
      PROVE  SubSeq(t, m + 1, Len(t)) = SubSeq(s, n + m + 1, Len(s))
  <2> DEFINE u == SubSeq(t, m + 1, Len(t))
             w == SubSeq(s, n + m + 1, Len(s))
  <2>1. u \in Seq(S) /\ Len(u) = Len(s) - n - m /\ \A i \in 1 .. Len(u) : u[i] = t[m + i]
    <3> HIDE DEF t
    <3>1. m + 1 \in Int /\ Len(t) \in Int /\ \A i \in m + 1 .. Len(t) : t[i] \in S
      BY <1>1
    <3>2. /\ u \in Seq(S)
          /\ Len(u) = IF m + 1 <= Len(t) THEN Len(t) - (m + 1) + 1 ELSE 0
          /\ \A i \in 1 .. Len(t) - (m + 1) + 1 : u[i] = t[m + 1 + i - 1]
      BY <3>1, SubSeqProperties
    <3> HIDE DEF u
    <3>3. Len(u) = Len(s) - n - m /\ Len(t) - (m + 1) + 1 = Len(u)
      <4>1. Len(t) = Len(s) - n /\ Len(t) \in Nat /\ m \in 0 .. Len(t)
        BY <1>1
      <4>2. \A l \in Nat : \A k \in 0 .. l :
              l - (k + 1) + 1 = l - k /\ (k + 1 <= l \/ l - k = 0)
        OBVIOUS
      <4>3. Len(u) = Len(t) - m /\ Len(t) - (m + 1) + 1 = Len(t) - m
        BY <3>2, <4>1, <4>2
      <4> QED
        BY <4>1, <4>3
    <3>4. ASSUME NEW i \in 1 .. Len(u) PROVE u[i] = t[m + i]
      <4>1. m + 1 + i - 1 = m + i
        BY <3>3
      <4> QED
        BY <3>2, <3>3, <4>1
    <3> QED
      BY <3>2, <3>3, <3>4
  <2>2. w \in Seq(S) /\ Len(w) = Len(s) - n - m /\ \A i \in 1 .. Len(w) : w[i] = s[n + m + i]
    BY SubSeqProperties
  <2> HIDE DEF t, u, w
  <2>3. ASSUME NEW i \in 1 .. Len(u) PROVE u[i] = w[i]
    <3>1. Len(s) \in Nat /\ n \in 0 .. Len(s) /\ Len(u) = Len(s) - n - m /\ Len(w) = Len(u)
      BY <2>1, <2>2
    <3>2. m + i \in 1 .. Len(s) - n /\ n + (m + i) = n + m + i
      BY <3>1
    <3>3. u[i] = t[m + i] /\ w[i] = s[n + m + i]
      BY <2>1, <2>2, <3>1
    <3>4. t[m + i] = s[n + (m + i)]
      BY <1>1, <3>2
    <3> QED
      BY <3>2, <3>3, <3>4
  <2>4. u = w
    BY <2>1, <2>2, <2>3, SeqEqual
  <2> QED
    BY <2>4 DEF u, w
<1> QED
  BY <1>1, <1>2 DEF From

\* A set of numbers has a least element.
LEMMA LeastNumber ==
  ASSUME NEW S \in SUBSET Nat, S # {}
  PROVE  \E i \in S : \A j \in S : i <= j
<1> DEFINE R == {ss \in Nat \X Nat : ss[1] < ss[2]}
<1>1. \A i, j \in Nat : <<j, i>> \in R <=> j < i
  OBVIOUS
<1>2. IsWellFoundedOn(R, Nat)
  BY NatLessThanWellFounded, Zenon DEF OpToRel
<1> HIDE DEF R
<1>3. \E i \in S : \A j \in S : ~(<<j, i>> \in R)
  BY <1>2, WFMin, Zenon
<1>4. PICK i \in S : \A j \in S : ~(j < i)
  BY <1>1, <1>3, Zenon
<1> QED
  BY <1>4

\* The first element of a set of positions.
LEMMA FirstTells ==
  ASSUME NEW n \in Nat, NEW S \in SUBSET (1 .. n), NEW i, i = First(S)
  PROVE  /\ S = {} => i = 0
         /\ S # {} => i \in S /\ i # 0 /\ i = Least(S) /\ \A j \in S : i <= j
         /\ 1 \in S => i = 1
<1>1. S \in SUBSET Nat /\ S \subseteq Nat \ {0}
  OBVIOUS
<1>2. ASSUME S # {} PROVE i \in S /\ i = Least(S) /\ \A j \in S : i <= j
  <2>1. \E l \in S : \A j \in S : l <= j
    BY <1>1, <1>2, LeastNumber, Zenon
  <2>2. Least(S) \in S /\ \A j \in S : Least(S) <= j
    BY <2>1, Zenon DEF Least
  <2> QED
    BY <1>2, <2>2, Zenon DEF First
<1>3. ASSUME S # {} PROVE i # 0
  BY <1>1, <1>2, <1>3
<1>4. ASSUME 1 \in S PROVE i = 1
  <2>1. i \in S /\ i <= 1
    BY <1>2, <1>4, Zenon
  <2> QED
    BY <1>1, <2>1
<1>5. ASSUME S = {} PROVE i = 0
  BY <1>5 DEF First
<1> QED
  BY <1>2, <1>3, <1>4, <1>5, Zenon

\* Packets that pass the first m validations, one after the other.
Evidence(f, m) ==
  /\ f \in [1 .. m -> 1 .. Len(capture)]
  /\ \A k \in 1 .. m : Good(capture[f[k]], validations[k])
  /\ \A k \in 2 .. m : f[k - 1] < f[k]

\* No packet with a wrong IPv4 header is before the first with a correct one.
FirstIsGood ==
  capture[Least({j \in 1 .. Len(capture) : capture[j].ip4 \in {"good", "bad"}})].ip4 = "good"

\* Every packet passes every validation, and a MACsec one comes last.
Uniform ==
  /\ \A i \in 1 .. Len(capture), k \in 1 .. Len(validations) : Good(capture[i], validations[k])
  /\ \A k \in 1 .. Len(validations) - 1 : validations[k] # "macsec"

\* The validations so far have read n packets, and found theirs among them; of
\* uniform packets they have read one each.
CapturesInv ==
  /\ capture \in Seq(Packet) /\ validations \in Seq(Validations) /\ idx \in Nat
  /\ captureVerdict = "running" /\ idx # 0 =>
       /\ idx - 1 <= Len(validations)
       /\ \E n \in 0 .. Len(capture) :
            /\ rest = From(capture, n + 1)
            /\ \E f : Evidence(f, idx - 1) /\ (idx > 1 => f[idx - 1] <= n)
            /\ idx = 1 => n = 0
            /\ Uniform /\ idx <= Len(validations) => n = idx - 1
       /\ idx > 1 /\ validations[1] = "ip4" => FirstIsGood
  /\ AcceptsOnlyEvidence
  /\ UniformCapturePasses

\* A validation for which the first packet of S decides.
LEMMA FirstOfDecides ==
  ASSUME NEW s \in Seq(Packet), NEW v, NEW S \in SUBSET (1 .. Len(s)),
         \A j \in 1 .. Len(s) : Good(s[j], v) => j \in S,
         NEW r, r = IF First(S) = 0 THEN Result("missing", <<>>)
                    ELSE Result(IF Good(s[First(S)], v) THEN "ok" ELSE "wrong",
                                         From(s, First(S) + 1))
  PROVE  /\ r.verdict \in {"ok", "wrong", "missing"}
         /\ r.verdict = "ok" =>
              \E i \in S : /\ Good(s[i], v) /\ r.rest = From(s, i + 1)
                           /\ \A j \in S : i <= j
         /\ s # <<>> /\ Good(s[1], v) => r.verdict = "ok" /\ r.rest = From(s, 2)
<1> DEFINE i == First(S)
<1>1. Len(s) \in Nat
  OBVIOUS
<1>2. /\ S = {} => i = 0
      /\ S # {} => i \in S /\ i # 0 /\ \A j \in S : i <= j
      /\ 1 \in S => i = 1
  BY <1>1, FirstTells
<1>3. /\ i = 0 => r.verdict = "missing"
      /\ i # 0 => r.verdict = (IF Good(s[i], v) THEN "ok" ELSE "wrong") /\ r.rest = From(s, i + 1)
  BY DEF Result
<1> HIDE DEF i
<1>4. ASSUME s # <<>>, Good(s[1], v) PROVE r.verdict = "ok" /\ r.rest = From(s, 2)
  BY <1>1, <1>2, <1>3, <1>4
<1> QED
  BY <1>2, <1>3, <1>4

\* What a validation that succeeds has read, and that it does on a packet that
\* passes it.
LEMMA CheckReads ==
  ASSUME NEW s \in Seq(Packet), rest = s, NEW v \in Validations,
         NEW r, r = Check(v)
  PROVE  /\ r.verdict \in {"ok", "wrong", "missing", "panic"}
         /\ r.verdict = "ok" =>
              \E i \in 1 .. Len(s), m \in 1 .. Len(s) :
                /\ i <= m /\ Good(s[i], v) /\ r.rest = From(s, m + 1)
                /\ v = "ip4" => \A j \in 1 .. Len(s) : s[j].ip4 \in {"good", "bad"} => i <= j
         /\ s # <<>> /\ Good(s[1], v) =>
              r.verdict = "ok" /\ (v # "macsec" => r.rest = From(s, 2))
<1>1. Len(s) \in Nat /\ \A i \in 1 .. Len(s) : s[i] \in Packet
  OBVIOUS
<1>2. ASSUME NEW S \in SUBSET (1 .. Len(s)),
             \A j \in 1 .. Len(s) : Good(s[j], v) => j \in S,
             v = "ip4" => \A j \in 1 .. Len(s) : s[j].ip4 \in {"good", "bad"} => j \in S,
             r = IF First(S) = 0 THEN Result("missing", <<>>)
                 ELSE Result(IF Good(s[First(S)], v) THEN "ok" ELSE "wrong",
                                      From(s, First(S) + 1))
      PROVE  /\ r.verdict \in {"ok", "wrong", "missing"}
             /\ r.verdict = "ok" =>
                  \E i \in 1 .. Len(s), m \in 1 .. Len(s) :
                    /\ i <= m /\ Good(s[i], v) /\ r.rest = From(s, m + 1)
                    /\ v = "ip4" => \A j \in 1 .. Len(s) : s[j].ip4 \in {"good", "bad"} => i <= j
             /\ s # <<>> /\ Good(s[1], v) => r.verdict = "ok" /\ r.rest = From(s, 2)
  <2>1. /\ r.verdict \in {"ok", "wrong", "missing"}
        /\ r.verdict = "ok" =>
             \E i \in S : /\ Good(s[i], v) /\ r.rest = From(s, i + 1)
                          /\ \A j \in S : i <= j
        /\ s # <<>> /\ Good(s[1], v) => r.verdict = "ok" /\ r.rest = From(s, 2)
    BY <1>2, FirstOfDecides
  <2>2. ASSUME NEW i \in S PROVE i \in 1 .. Len(s) /\ i <= i
    BY <1>1
  <2> QED
    BY <1>2, <2>1, <2>2, Zenon
<1>3. CASE v = "vlan"
  <2> DEFINE S == {j \in 1 .. Len(s) : s[j]["vlan"] \notin {"none", "skip"}}
  <2>1. \A x : Good(x, v) <=> x["vlan"] = "good"
    BY <1>3 DEF Good
  <2>2. r = IF First(S) = 0 THEN Result("missing", <<>>)
            ELSE Result(IF Good(s[First(S)], v) THEN "ok" ELSE "wrong",
                                 From(s, First(S) + 1))
    BY <1>3, <2>1 DEF Check, validateVlanHeader, FirstDecides
  <2>3. \A j \in 1 .. Len(s) : Good(s[j], v) => j \in S
    BY <2>1
  <2> HIDE DEF S
  <2>4. S \in SUBSET (1 .. Len(s))
    BY DEF S
  <2> QED
    BY <1>2, <1>3, <2>2, <2>3, <2>4
<1>4. CASE v = "ip4"
  <2> DEFINE S == {j \in 1 .. Len(s) : s[j]["ip4"] \notin {"none", "skip"}}
  <2>1. \A x : Good(x, v) <=> x["ip4"] = "good"
    BY <1>4 DEF Good
  <2>2. r = IF First(S) = 0 THEN Result("missing", <<>>)
            ELSE Result(IF Good(s[First(S)], v) THEN "ok" ELSE "wrong",
                                 From(s, First(S) + 1))
    BY <1>4, <2>1 DEF Check, validateIPv4Header, FirstDecides
  <2>3. \A j \in 1 .. Len(s) : Good(s[j], v) \/ s[j].ip4 \in {"good", "bad"} => j \in S
    BY <2>1
  <2>4. S \in SUBSET (1 .. Len(s))
    OBVIOUS
  <2> HIDE DEF S
  <2> QED
    BY <1>2, <1>4, <2>2, <2>3, <2>4
<1>5. CASE v = "inner"
  <2> DEFINE S == {j \in 1 .. Len(s) : s[j].gre \in {"good", "bad"}}
  <2>1. \A x : Good(x, v) <=> x.gre = "good"
    BY <1>5 DEF Good
  <2>2. CASE s # <<>> /\ s[1].gre = "none"
    BY <1>5, <2>1, <2>2 DEF Check, validateInnerHeader, Result
  <2>3. CASE ~(s # <<>> /\ s[1].gre = "none")
    <3>1. r = IF First(S) = 0 THEN Result("missing", <<>>)
              ELSE Result(IF Good(s[First(S)], v) THEN "ok" ELSE "wrong",
                                   From(s, First(S) + 1))
      BY <1>5, <2>1, <2>3 DEF Check, validateInnerHeader
    <3>2. \A j \in 1 .. Len(s) : Good(s[j], v) => j \in S
      BY <2>1
    <3>3. S \in SUBSET (1 .. Len(s))
      OBVIOUS
    <3> HIDE DEF S
    <3> QED
      BY <1>2, <1>5, <3>1, <3>2, <3>3
  <2> QED
    BY <2>2, <2>3
<1>6. CASE v = "bgp"
  <2> DEFINE S == {j \in 1 .. Len(s) : s[j].bgp # {}}
  <2>1. \A x : Good(x, v) <=> x.bgp # {}
    BY <1>6 DEF Good
  <2>2. S \in SUBSET (1 .. Len(s))
    OBVIOUS
  <2>3. First(S) # 0 => First(S) \in S
    <3> HIDE DEF S
    <3> QED
      BY <1>1, <2>2, FirstTells
  <2>4. r = IF First(S) = 0 THEN Result("missing", <<>>)
            ELSE Result(IF Good(s[First(S)], v) THEN "ok" ELSE "wrong",
                                 From(s, First(S) + 1))
    BY <1>6, <2>1, <2>3 DEF Check, validateBGPHeader
  <2>5. \A j \in 1 .. Len(s) : Good(s[j], v) => j \in S
    BY <2>1
  <2> HIDE DEF S
  <2> QED
    BY <1>2, <1>6, <2>2, <2>4, <2>5
<1>7. CASE v = "macsec"
  <2>1. \A x : Good(x, v) <=> x.macsec
    BY <1>7 DEF Good
  <2>2. r = Result(IF \E i \in 1 .. Len(s) : s[i].macsec THEN "ok" ELSE "missing", <<>>)
    BY <1>7 DEF Check, validateMacsecHeader
  <2>3. /\ r.verdict = IF \E i \in 1 .. Len(s) : s[i].macsec THEN "ok" ELSE "missing"
        /\ r.rest = <<>>
    BY <2>2 DEF Result
  <2>4. From(s, Len(s) + 1) = <<>>
    BY <1>1, SubSeqEmpty DEF From
  <2>5. s # <<>> => 1 \in 1 .. Len(s)
    BY <1>1
  <2>6. \A i \in 1 .. Len(s) : Len(s) \in 1 .. Len(s) /\ i <= Len(s)
    BY <1>1
  <2> QED
    BY <1>7, <2>1, <2>3, <2>4, <2>5, <2>6
<1> QED
  BY <1>3, <1>4, <1>5, <1>6, <1>7 DEF Validations

\* Fetching the capture, a validation and the return keep CapturesInv.
LEMMA CapturesStep ==
  ASSUME CapturesInv, [CaptureNext]_captureVars
  PROVE  CapturesInv'
<1>1. /\ capture \in Seq(Packet) /\ validations \in Seq(Validations) /\ idx \in Nat
      /\ Len(capture) \in Nat /\ Len(validations) \in Nat
  BY DEF CapturesInv
<1>2. CASE GetCapture
  <2>1. /\ captureVerdict = "running" /\ capture' = capture /\ validations' = validations
        /\ \/ rest' = capture /\ idx' = 1 /\ captureVerdict' = "running"
           \/ captureVerdict' = "error" /\ idx' = idx
    BY <1>2 DEF GetCapture
  <2>2. AcceptsOnlyEvidence' /\ UniformCapturePasses'
    BY <2>1 DEF AcceptsOnlyEvidence, UniformCapturePasses
  <2>3. CASE rest' = capture /\ idx' = 1 /\ captureVerdict' = "running"
    <3> DEFINE f == [k \in 1 .. 0 |-> 0]
    <3>1. rest' = From(capture, 0 + 1)
      BY <1>1, <2>3, SubSeqFull DEF From
    <3>2. Evidence(f, 0)'
      BY <2>1 DEF Evidence
    <3>3. (idx - 1)' = 0 /\ 0 \in 0 .. Len(capture')
      BY <1>1, <2>1, <2>3
    <3> HIDE DEF f
    <3>4. \E g : Evidence(g, idx - 1)' /\ (idx' > 1 => g[idx' - 1] <= 0)
      BY <2>3, <3>2, <3>3
    <3>5. \E n \in 0 .. Len(capture') :
            /\ rest' = From(capture', n + 1)
            /\ \E g : Evidence(g, idx - 1)' /\ (idx' > 1 => g[idx' - 1] <= n)
            /\ idx' = 1 => n = 0
            /\ Uniform' /\ idx' <= Len(validations') => n = idx' - 1
      BY <2>1, <2>3, <3>1, <3>3, <3>4
    <3> QED
      BY <1>1, <2>1, <2>2, <2>3, <3>5 DEF CapturesInv, From
  <2>4. CASE captureVerdict' = "error" /\ idx' = idx
    BY <1>1, <2>1, <2>2, <2>4 DEF CapturesInv
  <2> QED
    BY <2>1, <2>3, <2>4
<1>3. CASE Return
  <2>1. /\ captureVerdict = "running" /\ captureVerdict' = "ok" /\ idx > Len(validations)
        /\ UNCHANGED <<capture, validations, rest, idx>>
    BY <1>3 DEF Return
  <2>2. idx - 1 = Len(validations)
    BY <1>1, <2>1 DEF CapturesInv
  <2>3. PICK f : Evidence(f, Len(validations))
    BY <1>1, <2>1, <2>2 DEF CapturesInv
  <2>4. validations # <<>> /\ validations[1] = "ip4" => FirstIsGood
    BY <1>1, <2>1, <2>2 DEF CapturesInv
  <2>5. AcceptsOnlyEvidence'
    BY <2>1, <2>3, <2>4 DEF AcceptsOnlyEvidence, Evidence, FirstIsGood
  <2>6. UniformCapturePasses'
    BY <2>1 DEF UniformCapturePasses
  <2> QED
    BY <1>1, <2>1, <2>5, <2>6 DEF CapturesInv
<1>4. CASE Validate
  <2> DEFINE v == validations[idx]
             r == Check(v)
  <2>1. /\ captureVerdict = "running" /\ idx \in 1 .. Len(validations)
        /\ rest' = r.rest
        /\ captureVerdict' = (IF r.verdict = "ok" THEN captureVerdict ELSE r.verdict)
        /\ idx' = (IF r.verdict = "ok" THEN idx + 1 ELSE idx)
        /\ capture' = capture /\ validations' = validations
    BY <1>4 DEF Validate
  <2>2. PICK n \in 0 .. Len(capture) :
          /\ rest = From(capture, n + 1)
          /\ \E f : Evidence(f, idx - 1) /\ (idx > 1 => f[idx - 1] <= n)
          /\ idx = 1 => n = 0
          /\ Uniform /\ idx <= Len(validations) => n = idx - 1
    BY <1>1, <2>1 DEF CapturesInv
  <2>3. v \in Validations
    BY <1>1, <2>1
  <2>4. /\ rest \in Seq(Packet) /\ Len(rest) = Len(capture) - n
        /\ \A i \in 1 .. Len(rest) : rest[i] = capture[n + i]
        /\ \A m \in 0 .. Len(rest) : From(rest, m + 1) = From(capture, n + m + 1)
    <3>1. /\ From(capture, n + 1) \in Seq(Packet)
          /\ Len(From(capture, n + 1)) = Len(capture) - n
          /\ \A i \in 1 .. Len(capture) - n : From(capture, n + 1)[i] = capture[n + i]
          /\ \A m \in 0 .. Len(capture) - n :
               From(From(capture, n + 1), m + 1) = From(capture, n + m + 1)
      BY <1>1, FromTells, Zenon
    <3> QED
      BY <2>2, <3>1, Zenon
  <2> HIDE DEF v, r
  <2>5. /\ r.verdict \in {"ok", "wrong", "missing", "panic"}
        /\ r.verdict = "ok" =>
             \E i \in 1 .. Len(rest), m \in 1 .. Len(rest) :
               /\ i <= m /\ Good(rest[i], v) /\ r.rest = From(rest, m + 1)
               /\ v = "ip4" => \A j \in 1 .. Len(rest) : rest[j].ip4 \in {"good", "bad"} => i <= j
        /\ rest # <<>> /\ Good(rest[1], v) =>
             r.verdict = "ok" /\ (v # "macsec" => r.rest = From(rest, 2))
    BY <2>3, <2>4, CheckReads DEF r
  <2>6. Uniform /\ rest # <<>> => Good(rest[1], v)
    <3>1. rest # <<>> => 1 \in 1 .. Len(rest) /\ n + 1 \in 1 .. Len(capture)
      BY <1>1, <2>4
    <3> QED
      BY <2>1, <2>4, <3>1 DEF Uniform, v
  <2>7. AcceptsOnlyEvidence'
    BY <2>1, <2>5 DEF AcceptsOnlyEvidence
  <2>8. CASE r.verdict = "ok"
    <3>1. PICK i \in 1 .. Len(rest), m \in 1 .. Len(rest) :
            /\ i <= m /\ Good(rest[i], v) /\ r.rest = From(rest, m + 1)
            /\ v = "ip4" => \A j \in 1 .. Len(rest) : rest[j].ip4 \in {"good", "bad"} => i <= j
      BY <2>5, <2>8
    <3>2. PICK f : Evidence(f, idx - 1) /\ (idx > 1 => f[idx - 1] <= n)
      BY <2>2
    <3> DEFINE g == [k \in 1 .. idx |-> IF k = idx THEN n + i ELSE f[k]]
    <3>3. /\ n + m \in 0 .. Len(capture) /\ n + i \in 1 .. Len(capture) /\ n + i <= n + m
          /\ rest' = From(capture, n + m + 1)
          /\ Good(capture[n + i], v)
      <4>1. /\ n + m \in 0 .. Len(capture) /\ n + i \in 1 .. Len(capture) /\ n + i <= n + m
            /\ m \in 0 .. Len(rest)
        BY <1>1, <2>4, <3>1
      <4>2. rest' = From(capture, n + m + 1)
        BY <2>1, <2>4, <3>1, <4>1
      <4> QED
        BY <2>4, <3>1, <4>1, <4>2
    <3>4. Evidence(g, idx) /\ g[idx] = n + i
      <4>1. g \in [1 .. idx -> 1 .. Len(capture)]
        BY <2>1, <3>2, <3>3 DEF Evidence
      <4>2. \A k \in 1 .. idx : Good(capture[g[k]], validations[k])
        <5>1. ASSUME NEW k \in 1 .. idx, k # idx PROVE Good(capture[g[k]], validations[k])
          <6>1. k \in 1 .. idx - 1 /\ g[k] = f[k]
            BY <2>1, <5>1
          <6> QED
            BY <3>2, <6>1 DEF Evidence
        <5>2. Good(capture[g[idx]], validations[idx])
          BY <2>1, <3>3 DEF v
        <5> QED
          BY <5>1, <5>2, Zenon
      <4>3. \A k \in 2 .. idx : g[k - 1] < g[k]
        <5>1. ASSUME NEW k \in 2 .. idx, k # idx PROVE g[k - 1] < g[k]
          <6>1. k \in 2 .. idx - 1 /\ g[k] = f[k] /\ g[k - 1] = f[k - 1]
            BY <2>1, <5>1
          <6> QED
            BY <3>2, <6>1 DEF Evidence
        <5>2. idx > 1 => g[idx - 1] = f[idx - 1] /\ f[idx - 1] \in 1 .. Len(capture) /\ f[idx - 1] <= n /\ g[idx] = n + i
          BY <2>1, <3>2 DEF Evidence
        <5>3. idx > 1 => g[idx - 1] < g[idx]
          <6> HIDE DEF g
          <6> QED
            BY <1>1, <2>1, <2>2, <3>1, <5>2
        <5> HIDE DEF g
        <5> QED
          BY <2>1, <5>1, <5>3
      <4>4. g[idx] = n + i
        BY <2>1
      <4> HIDE DEF g
      <4> QED
        BY <4>1, <4>2, <4>3, <4>4 DEF Evidence
    <3> HIDE DEF g
    <3>a. PICK e : Evidence(e, idx) /\ e[idx] = n + i
      BY <3>4
    <3>5. idx' = idx + 1 /\ (idx - 1)' = idx /\ captureVerdict' = "running"
      BY <1>1, <2>1, <2>8
    <3>6. \E h : Evidence(h, idx - 1)' /\ (idx' > 1 => h[idx' - 1] <= n + m)
      <4>1. Evidence(e, idx - 1)'
        BY <2>1, <3>a, <3>5 DEF Evidence
      <4>2. idx' - 1 = idx /\ e[idx] <= n + m
        BY <1>1, <3>3, <3>a, <3>5
      <4> QED
        BY <4>1, <4>2, Zenon
    <3>7. Uniform' /\ idx' <= Len(validations') => n + m = idx' - 1
      <4> SUFFICES ASSUME Uniform', idx' <= Len(validations') PROVE n + m = idx' - 1
        OBVIOUS
      <4>1. Uniform
        BY <2>1 DEF Uniform
      <4>2. v # "macsec"
        BY <1>1, <2>1, <3>5, <4>1 DEF Uniform, v
      <4>3. rest # <<>> /\ n = idx - 1
        BY <1>1, <2>1, <2>2, <2>4, <3>1, <4>1
      <4>4. From(rest, m + 1) = From(rest, 1 + 1)
        BY <2>5, <2>6, <3>1, <4>1, <4>2, <4>3
      <4>5. Len(From(rest, m + 1)) = Len(rest) - m
        <5>1. m \in 0 .. Len(rest) /\ Len(rest) \in Nat
          BY <2>4
        <5> QED
          BY <2>4, <5>1, FromTells, Zenon
      <4>6. 1 \in 0 .. Len(rest)
        BY <2>4, <4>3
      <4>7. Len(From(rest, 1 + 1)) = Len(rest) - 1
        BY <2>4, <4>6, FromTells
      <4> QED
        BY <1>1, <2>1, <2>4, <3>5, <4>3, <4>4, <4>5, <4>7
    <3>8. idx = 1 /\ v = "ip4" => FirstIsGood
      <4> SUFFICES ASSUME idx = 1, v = "ip4" PROVE FirstIsGood
        OBVIOUS
      <4> DEFINE S == {j \in 1 .. Len(capture) : capture[j].ip4 \in {"good", "bad"}}
      <4>1. n = 0 /\ Len(rest) = Len(capture) /\ \A j \in 1 .. Len(capture) : rest[j] = capture[j]
        BY <1>1, <2>2, <2>4
      <4>2. i \in S /\ capture[i].ip4 = "good"
        BY <3>1, <4>1 DEF Good
      <4>3. \A j \in S : i <= j
        BY <3>1, <4>1
      <4>4. S \in SUBSET (1 .. Len(capture))
        OBVIOUS
      <4> HIDE DEF S
      <4>5. Least(S) \in S /\ \A j \in S : Least(S) <= j
        BY <1>1, <4>2, <4>4, FirstTells
      <4>6. Least(S) = i
        <5>1. \A j \in S : j \in Int
          BY <1>1, <4>4
        <5>2. i <= Least(S) /\ Least(S) <= i /\ i \in Int /\ Least(S) \in Int
          BY <4>2, <4>3, <4>5, <5>1
        <5> QED
          BY <5>2
      <4> QED
        BY <4>2, <4>6 DEF FirstIsGood, S
    <3>9. idx' > 1 /\ validations'[1] = "ip4" => FirstIsGood'
      <4>1. idx > 1 /\ validations[1] = "ip4" => FirstIsGood
        BY <2>1 DEF CapturesInv
      <4>2. idx = 1 \/ idx > 1
        BY <2>1
      <4>3. FirstIsGood' = FirstIsGood
        BY <2>1 DEF FirstIsGood
      <4> QED
        BY <2>1, <3>8, <4>1, <4>2, <4>3 DEF v
    <3>10. UniformCapturePasses'
      BY <3>5 DEF UniformCapturePasses
    <3>11. idx' # 1 /\ idx' - 1 <= Len(validations') /\ idx' \in Nat
      BY <1>1, <2>1, <3>5
    <3>12. \E k \in 0 .. Len(capture') :
             /\ rest' = From(capture', k + 1)
             /\ \E h : Evidence(h, idx - 1)' /\ (idx' > 1 => h[idx' - 1] <= k)
             /\ idx' = 1 => k = 0
             /\ Uniform' /\ idx' <= Len(validations') => k = idx' - 1
      <4>1. rest' = From(capture', n + m + 1) /\ n + m \in 0 .. Len(capture')
        BY <2>1, <3>3
      <4> QED
        BY <3>6, <3>7, <3>11, <4>1, Zenon
    <3> QED
      BY <1>1, <2>1, <2>7, <3>9, <3>10, <3>11, <3>12 DEF CapturesInv, From
  <2>9. CASE r.verdict # "ok"
    <3>1. captureVerdict' # "running" /\ idx' = idx
      BY <2>1, <2>5, <2>9
    <3>2. UniformCapturePasses'
      <4>1. Uniform => Len(capture) < Len(validations)
        BY <1>1, <2>1, <2>2, <2>4, <2>5, <2>6, <2>9
      <4> QED
        BY <2>1, <4>1 DEF UniformCapturePasses, Uniform
    <3> QED
      BY <1>1, <2>1, <2>7, <3>1, <3>2 DEF CapturesInv
  <2> QED
    BY <2>8, <2>9
<1>5. CASE UNCHANGED captureVars
  <2>1. UNCHANGED <<capture, validations, rest, idx, captureVerdict>>
    BY <1>5 DEF captureVars
  <2>2. AcceptsOnlyEvidence' = AcceptsOnlyEvidence
    BY <2>1 DEF AcceptsOnlyEvidence
  <2>3. UniformCapturePasses' = UniformCapturePasses
    BY <2>1 DEF UniformCapturePasses
  <2>4. FirstIsGood' = FirstIsGood /\ Uniform' = Uniform
    BY <2>1 DEF FirstIsGood, Uniform
  <2>5. \A f, m : Evidence(f, m)' = Evidence(f, m)
    BY <2>1 DEF Evidence
  <2> QED
    BY <2>1, <2>2, <2>3, <2>4, <2>5 DEF CapturesInv, From
<1> QED
  BY <1>2, <1>3, <1>4, <1>5 DEF CaptureNext

\* A capture that has not been fetched yet.
LEMMA CapturesStart ==
  ASSUME CaptureInit
  PROVE  CapturesInv
<1>1. /\ capture \in SeqsUpTo(Packets, MaxPackets)
      /\ validations \in SeqsUpTo(Checks, MaxChecks)
      /\ idx = 0 /\ captureVerdict = "running"
  BY DEF CaptureInit
<1>2. ASSUME NEW S, NEW T, S \subseteq T, NEW n \in Nat, NEW s \in SeqsUpTo(S, n)
      PROVE  s \in Seq(T)
  <2>1. PICK k \in 0 .. n : s \in [1 .. k -> S]
    BY DEF SeqsUpTo
  <2>2. k \in Nat /\ s \in [1 .. k -> T]
    BY <1>2, <2>1
  <2> QED
    BY <2>2
<1>3. capture \in Seq(Packet) /\ validations \in Seq(Validations)
  BY <1>1, <1>2, CapturesAssumption
<1> QED
  BY <1>1, <1>3 DEF CapturesInv, AcceptsOnlyEvidence, UniformCapturePasses

\* CapturesInv is an invariant of a call.
THEOREM CapturesHold == CaptureSpec => []CapturesInv
BY CapturesStart, CapturesStep, PTL DEF CaptureSpec

\* No capture is accepted without a packet for every validation, in their order,
\* and one of correct packets is not rejected: see CapturesJudged.
THEOREM CapturesAreJudged == CaptureSpec => []CapturesJudged
<1>1. CapturesInv => CapturesJudged
  BY DEF CapturesJudged, CapturesInv
<1> QED
  BY <1>1, CapturesHold, PTL

-----------------------------------------------------------------------------
(* The accessors of deviations, for metadata of any length.                 *)

\* The loop has met no entry that it must fail over, and what it keeps is the
\* only applicable entry of those it has passed.
LookupsInv ==
  /\ start \in Starts /\ lookupAt \in Nat \ {0} /\ matched \in Nat
  /\ lookupPc = "lookup" =>
       /\ ~Flagged
       /\ \A k \in Broken : k >= lookupAt
       /\ IF matched = 0 THEN \A k \in Applying : k >= lookupAt
          ELSE /\ matched \in Applying /\ matched < lookupAt
               /\ \A k \in Applying : k = matched \/ k >= lookupAt
  /\ AnswersTheOnlyMatch
  /\ ExitsOverItsOwnEntries
  /\ FlagTakesPrecedence

\* What a round of the loop decides of an entry is what the two sets say of it.
LEMMA VerdictTells ==
  ASSUME NEW k \in DOMAIN start.file, NEW found, start.file[k].vendor # "",
         NEW v, v = Verdict(start.file[k], Device(lookupCall), found)
  PROVE  /\ v = "continue" => k \notin Broken /\ k \notin Applying
         /\ v = "match" => k \notin Broken /\ k \in Applying /\ found = 0
         /\ v = "error" => k \in Broken \/ (k \in Applying /\ found # 0)
         /\ v \in {"continue", "match", "error"}
<1> DEFINE e == start.file[k]
           d == Device(lookupCall)
<1>1. k \in Mine <=> e.vendor = d.vendor
  BY Zenon DEF Mine
<1>2. k \in Broken <=> /\ k \in Mine
                               /\ \/ Bad(e.model)
                                  \/ MatchString(e.model, d.model) /\ Bad(e.version)
  BY Zenon DEF Broken
<1>3. k \in Applying <=> /\ k \in Mine
                                 /\ MatchString(e.model, d.model)
                                 /\ MatchString(e.version, d.version)
  BY Zenon DEF Applying
<1>4. v = IF d.vendor # e.vendor THEN "continue"
          ELSE IF Bad(e.model) THEN "error"
          ELSE IF ~MatchString(e.model, d.model) THEN "continue"
          ELSE IF Bad(e.version) THEN "error"
          ELSE IF ~MatchString(e.version, d.version) THEN "continue"
          ELSE IF found # 0 THEN "error" ELSE "match"
  BY Zenon DEF Verdict
<1> HIDE DEF e, d
<1> QED
  BY <1>1, <1>2, <1>3, <1>4

\* What the sets hold are indices of entries.
LEMMA IndexesOnly ==
  ASSUME start \in Starts
  PROVE  Applying \subseteq 1 .. Len(start.file) /\ Broken \subseteq 1 .. Len(start.file)
<1>1. DOMAIN start.file = 1 .. Len(start.file)
  BY StartsAssumption, Zenon
<1>2. Applying \subseteq DOMAIN start.file /\ Broken \subseteq DOMAIN start.file
  BY Zenon DEF Applying, Broken, Mine
<1> QED
  BY <1>1, <1>2, Zenon

\* The sets depend on the metadata, the devices and the accessor alone.
LEMMA SameEntries ==
  ASSUME UNCHANGED <<start, lookupCall>>
  PROVE  /\ Applying' = Applying /\ Broken' = Broken
         /\ Flagged' <=> Flagged
BY Zenon DEF Applying, Broken, Mine, Device, Flagged

\* A call, a round of the loop and the return keep LookupsInv.
LEMMA LookupsStep == LookupsInv /\ [LookupNext]_lookupVars => LookupsInv'
<1> SUFFICES ASSUME LookupsInv, [LookupNext]_lookupVars PROVE LookupsInv'
  OBVIOUS
<1>0. start \in Starts /\ lookupAt \in Nat \ {0} /\ matched \in Nat
  BY DEF LookupsInv
<1>1. ASSUME NEW a \in Accessors, Call(a) PROVE LookupsInv'
  <2>1. /\ UNCHANGED start /\ lookupCall' = a /\ lookupAt' = 1 /\ matched' = 0
        /\ IF Flagged' THEN lookupPc' = "answered" /\ answer' = start.flags[a]
           ELSE lookupPc' = "lookup"
    BY <1>1 DEF Call, isFlagSet, Flagged
  <2>2. Applying' \subseteq Nat \ {0} /\ Broken' \subseteq Nat \ {0}
    <3>1. DOMAIN start.file = 1 .. Len(start.file) /\ Len(start.file) \in Nat
      BY <1>0, StartsAssumption, Zenon
    <3>2. Applying' \subseteq DOMAIN start'.file /\ Broken' \subseteq DOMAIN start'.file
      BY Zenon DEF Applying, Broken, Mine
    <3>3. Applying' \subseteq 1 .. Len(start.file) /\ Broken' \subseteq 1 .. Len(start.file)
      BY <2>1, <3>1, <3>2, Zenon
    <3> QED
      BY <3>1, <3>3
  <2>3. CASE Flagged'
    BY <1>0, <2>1, <2>3 DEF LookupsInv, AnswersTheOnlyMatch, ExitsOverItsOwnEntries,
                            FlagTakesPrecedence
  <2>4. CASE ~Flagged'
    BY <1>0, <2>1, <2>2, <2>4 DEF LookupsInv, AnswersTheOnlyMatch, ExitsOverItsOwnEntries,
                            FlagTakesPrecedence
  <2> QED
    BY <2>3, <2>4
<1>2. CASE lookupDeviations
  <2> DEFINE v == Verdict(start.file[lookupAt], Device(lookupCall), matched)
  <2>1. /\ lookupPc = "lookup" /\ lookupAt <= Len(start.file) /\ UNCHANGED <<start, lookupCall, answer>>
        /\ lookupPc' = IF v = "error" THEN "exited" ELSE "lookup"
        /\ matched' = IF v = "match" THEN lookupAt ELSE matched
        /\ lookupAt' = lookupAt + 1
    BY <1>2 DEF lookupDeviations
  <2>2. lookupAt \in DOMAIN start.file /\ start.file[lookupAt].vendor # ""
    <3>1. Len(start.file) \in Nat /\ DOMAIN start.file = 1 .. Len(start.file)
      BY <1>0, StartsAssumption, Zenon
    <3>2. lookupAt \in DOMAIN start.file
      BY <1>0, <2>1, <3>1
    <3> QED
      BY <1>0, <3>2, StartsAssumption, Zenon
  <2>3. /\ v = "continue" => lookupAt \notin Broken /\ lookupAt \notin Applying
        /\ v = "match" => lookupAt \notin Broken /\ lookupAt \in Applying /\ matched = 0
        /\ v = "error" => lookupAt \in Broken \/ (lookupAt \in Applying /\ matched # 0)
        /\ v \in {"continue", "match", "error"}
    BY <2>2, VerdictTells, Zenon
  <2> HIDE DEF v
  <2>4. /\ Applying' = Applying /\ Broken' = Broken
        /\ Flagged' <=> Flagged
    BY <2>1, SameEntries
  <2>5. /\ \A k \in Applying : k \in Nat
        /\ \A k \in Broken : k \in Nat
    <3>1. Len(start.file) \in Nat
      BY <1>0, StartsAssumption, Zenon
    <3> QED
      BY <1>0, <3>1, IndexesOnly
  <2>6. CASE v = "error"
    <3>1. Broken # {} \/ \E j, k \in Applying : j # k
      <4>1. CASE lookupAt \in Applying /\ matched # 0
        <5>1. matched \in Applying /\ matched # lookupAt
          BY <1>0, <2>1, <4>1 DEF LookupsInv
        <5> QED
          BY <4>1, <5>1
      <4> QED
        BY <2>3, <2>6, <4>1
    <3> QED
      BY <1>0, <2>1, <2>4, <2>6, <3>1 DEF LookupsInv, AnswersTheOnlyMatch,
         ExitsOverItsOwnEntries, FlagTakesPrecedence
  <2>7. CASE v # "error"
    <3>1. /\ \A k \in Broken : k >= lookupAt + 1
          /\ IF matched' = 0 THEN \A k \in Applying : k >= lookupAt + 1
             ELSE /\ matched' \in Applying /\ matched' < lookupAt + 1
                  /\ \A k \in Applying : k = matched' \/ k >= lookupAt + 1
      <4>1. CASE v = "match"
        BY <1>0, <2>1, <2>3, <2>5, <4>1 DEF LookupsInv
      <4>2. CASE v = "continue"
        BY <1>0, <2>1, <2>3, <2>5, <4>2 DEF LookupsInv
      <4> QED
        BY <2>3, <2>7, <4>1, <4>2
    <3>2. matched' \in Nat /\ lookupAt' \in Nat \ {0} /\ ~Flagged /\ lookupPc' = "lookup"
      BY <1>0, <2>1, <2>7 DEF LookupsInv
    <3> QED
      BY <1>0, <2>1, <2>4, <3>1, <3>2 DEF LookupsInv, AnswersTheOnlyMatch,
         ExitsOverItsOwnEntries, FlagTakesPrecedence
  <2> QED
    BY <2>6, <2>7
<1>3. CASE mustLookupDeviations
  <2>1. /\ lookupPc = "lookup" /\ lookupAt > Len(start.file) /\ lookupPc' = "answered"
        /\ UNCHANGED <<start, lookupCall, lookupAt, matched>>
        /\ answer' = Refined(lookupCall,
                       Get(IF matched = 0 THEN << >> ELSE start.file[matched].deviations,
                                   Field(lookupCall)))
    BY <1>3, Zenon DEF mustLookupDeviations
  <2>2. /\ Applying' = Applying /\ Broken' = Broken
        /\ Flagged' <=> Flagged
    BY <2>1, SameEntries
  <2>3. ~Flagged /\ Broken = {} /\ Applying = IF matched = 0 THEN {} ELSE {matched}
    <3>1. /\ \A k \in Applying : k \in Nat /\ k < lookupAt
          /\ \A k \in Broken : k \in Nat /\ k < lookupAt
      <4>1. Len(start.file) \in Nat
        BY <1>0, StartsAssumption
      <4> QED
        BY <1>0, <2>1, <4>1, IndexesOnly
    <3> QED
      BY <1>0, <2>1, <3>1 DEF LookupsInv
  <2>4. \A j, k \in Applying : j = k
    BY <2>3
  <2>5. answer' = Refined(lookupCall, IF Applying = {} THEN 0
                    ELSE Get(start.file[CHOOSE k \in Applying : TRUE].deviations,
                                     Field(lookupCall)))
    <3>1. CASE matched = 0
      <4>1. Get(<< >>, Field(lookupCall)) = 0
        BY DEF Get
      <4> QED
        BY <2>1, <2>3, <3>1, <4>1
    <3>2. CASE matched # 0
      <4>1. Applying = {matched} /\ (CHOOSE k \in {matched} : TRUE) = matched
        BY <2>3, <3>2
      <4> QED
        BY <2>1, <3>2, <4>1
    <3> QED
      BY <3>1, <3>2
  <2> QED
    BY <1>0, <2>1, <2>2, <2>3, <2>4, <2>5 DEF LookupsInv, AnswersTheOnlyMatch,
       ExitsOverItsOwnEntries, FlagTakesPrecedence
<1>4. CASE UNCHANGED lookupVars
  <2>1. UNCHANGED <<start, lookupCall, lookupPc, lookupAt, matched, answer>>
    BY <1>4 DEF lookupVars
  <2>2. /\ Applying' = Applying /\ Broken' = Broken
        /\ Flagged' <=> Flagged
    BY <2>1, SameEntries
  <2> QED
    BY <2>1, <2>2 DEF LookupsInv, AnswersTheOnlyMatch, ExitsOverItsOwnEntries,
                      FlagTakesPrecedence
<1> QED
  BY <1>1, <1>2, <1>3, <1>4 DEF LookupNext

\* LookupsInv is an invariant of any sequence of calls.
THEOREM LookupsHold == LookupSpec => []LookupsInv
<1>1. LookupInit => LookupsInv
  BY DEF LookupInit, LookupsInv, AnswersTheOnlyMatch, ExitsOverItsOwnEntries, FlagTakesPrecedence
<1> QED
  BY <1>1, LookupsStep, PTL DEF LookupSpec

\* Every accessor answers from the only applicable entry, or its flag: see
\* DeviationsTold.
THEOREM DeviationsAreTold == LookupSpec => []DeviationsTold
<1>1. LookupsInv => DeviationsTold
  BY DEF DeviationsTold, LookupsInv
<1> QED
  BY <1>1, LookupsHold, PTL

=============================================================================
