-------------------------- MODULE OpticalTelemetry --------------------------
(***************************************************************************)
(* The measured leaves of internal/telemetry/transceiver: a validator      *)
(* waits (AwaitNext) for a sample that its readiness predicate accepts and *)
(* then compares the leaves of that sample with their limits.  While the   *)
(* link is brought up or down the lasers of the two ends ramp, each at its *)
(* own pace, and min, avg and max cover old and new readings.              *)
(*                                                                         *)
(* Powers are in tenths of dBm.  Quality values keep the order of the      *)
(* constants of the code on a small scale: Q and ESNR are read from the    *)
(* same scale, and a bit error rate of 1 stands for 1e-9, 100 for 1e-2,    *)
(* 500 for 0.5 and 1000 for 1.0.                                           *)
(***************************************************************************)
EXTENDS Integers, Sequences, FiniteSets

CONSTANTS
  Window,  \* bound: readings that min, avg and max cover
  Plans    \* [stream, absent, cfo, dark, dead]: the validated component, leaf
           \* groups the device does not stream, the statistics of the carrier
           \* frequency offset, the inactive bit error rate, a laser that
           \* stays dark

Target == -100            \* params.TargetOpticalPower
powerReadingError == 10
powerLoss == 20
inactivePower == -300
minAllowedQValue == 7
maxAllowedQValue == 14
minAllowedPreFECBER == 1
maxAllowedPreFECBER == 100
inactivePreFECBER == {0, 500, 1000}
minAllowedCDValue == -200
maxAllowedCDValue == 2400
inactiveCDValue == 1
maxAllowedCarrierFrequencyOffset == 3600
inactiveCarrierFrequencyOffset == 1

\* The device's laser while it ramps, and what the other end sees of it.
Level == <<-400, -150, -120, -100>>
Loss == 5
Seen(i) == IF i = 1 THEN Level[1] ELSE Level[i] - Loss

VARIABLES
  plan,
  phase,   \* 1 .. Len(Wants): what the test waits for
  own,     \* index in Level: the laser of the validated port
  peer,    \* and of the port at the other end
  out, in, \* the last Window readings of output and input power
  qual,    \* and of the link's quality
  errors,  \* leaves reported so far
  status

vars == <<plan, phase, own, peer, out, in, qual, errors, status>>

\* The order of TerminalDevicePathsTest and PlatformPathsTest.
Wants == <<"DOWN", "UP", "DOWN", "UP">>
Want == Wants[phase]

-----------------------------------------------------------------------------
\* A device's statistics over a window of readings.
LowestOf(w) == CHOOSE x \in {w[i] : i \in DOMAIN w} : \A i \in DOMAIN w : x <= w[i]
HighestOf(w) == CHOOSE x \in {w[i] : i \in DOMAIN w} : \A i \in DOMAIN w : x >= w[i]
SumOf(w) == LET f[i \in 0 .. Len(w)] == IF i = 0 THEN 0 ELSE f[i - 1] + w[i] IN f[Len(w)]
Stats(w) == [min |-> LowestOf(w), max |-> HighestOf(w), avg |-> SumOf(w) \div Len(w), instant |-> w[Len(w)]]
Zero == [min |-> 0, max |-> 0, avg |-> 0, instant |-> 0]
Values(s) == {s.min, s.max, s.avg, s.instant}
Streamed(leaf, s) == IF leaf \in plan.absent THEN Zero ELSE s

\* Getters of leaves that are not streamed return zero.
InputPower == Streamed("input-power", Stats(in))
OutputPower == Streamed("output-power", Stats(out))
QValue == Streamed("q-value", Stats(qual))
\* A link without light has the vendor's inactive rate, one that is up a rate
\* that falls as the quality rises.
PreFECBER == Streamed("pre-fec-ber", Stats([i \in DOMAIN qual |-> IF qual[i] = 0 THEN plan.dark ELSE 60 - 2 * qual[i]]))
Dispersion == Streamed("chromatic-dispersion",
                       IF in[Len(in)] > inactivePower THEN [min |-> 90, avg |-> 100, max |-> 110, instant |-> 100] ELSE Zero)
Offset == Streamed("carrier-frequency-offset", IF in[Len(in)] > inactivePower THEN plan.cfo ELSE Zero)

-----------------------------------------------------------------------------
Abs(x) == IF x < 0 THEN -x ELSE x
Within(v, lo, hi) == v >= lo /\ v <= hi
\* errorTolerance = 0.05 around the sample's own min and max.
NearRange(v, s) == 100 * v <= 100 * s.max + 5 * Abs(s.max) /\ 100 * v >= 100 * s.min - 5 * Abs(s.min)
Settled(s) == NearRange(s.avg, s) /\ NearRange(s.instant, s)
Limited(s, lo, hi) == Within(s.min, lo, hi) /\ Within(s.max, lo, hi) /\ Settled(s)

\* Mutant: the maximum is not awaited.
isOTNChannelReady_Min(want) ==
  IF want = "UP"
    THEN Within(QValue.min, minAllowedQValue, maxAllowedQValue) /\ Settled(QValue) /\ Settled(PreFECBER)
    ELSE \E b \in inactivePreFECBER : PreFECBER.instant = b /\ QValue.instant = 0

isOTNChannelReady(want) ==
  IF want = "UP"
    THEN /\ Limited(QValue, minAllowedQValue, maxAllowedQValue)
         /\ Limited(PreFECBER, minAllowedPreFECBER, maxAllowedPreFECBER)
    ELSE /\ \E b \in inactivePreFECBER : Values(PreFECBER) = {b}
         /\ Values(QValue) = {0}

InputPowerReady(want) ==
  IF want = "UP"
    THEN Limited(InputPower, Target - powerLoss - powerReadingError, Target + powerReadingError)
    ELSE \A v \in Values(InputPower) : v <= inactivePower

isOpticalChannelStreamReady(want) == InputPowerReady(want)

\* Mutant: an interface that is down is awaited with the limits of one that is up.
isTransceiverStreamReady_Up(want) ==
  /\ InputPowerReady("UP")
  /\ Within(OutputPower.instant, Target - powerLoss - powerReadingError, Target + powerReadingError)

isTransceiverStreamReady(want) ==
  /\ InputPowerReady(want)
  /\ IF want = "UP"
       THEN Within(OutputPower.instant, Target - powerLoss - powerReadingError, Target + powerReadingError)
       ELSE OutputPower.instant <= inactivePower

-----------------------------------------------------------------------------
\* The leaves of an accepted sample that are reported.
Fails(leaf, ok) == IF ok THEN {} ELSE {leaf}

validateOTNChannelTelemetry(want) ==
  IF want = "UP"
    THEN Fails("q-value", Limited(QValue, minAllowedQValue, maxAllowedQValue))
         \cup Fails("pre-fec-ber", Limited(PreFECBER, minAllowedPreFECBER, maxAllowedPreFECBER))
    ELSE Fails("q-value", Values(QValue) = {0}) \cup Fails("pre-fec-ber", Values(PreFECBER) \subseteq inactivePreFECBER)

\* Mutant: the limits are those of the output power.
InputPowerFails_Output(want) ==
  IF want = "UP"
    THEN Fails("input-power", Limited(InputPower, Target - powerReadingError, Target + powerReadingError))
    ELSE Fails("input-power", \A v \in Values(InputPower) : v <= inactivePower)

InputPowerFails(want) ==
  IF want = "UP"
    THEN Fails("input-power", Limited(InputPower, Target - powerLoss - powerReadingError, Target + powerLoss + powerReadingError))
    ELSE Fails("input-power", \A v \in Values(InputPower) : v <= inactivePower)

\* Mutant: of the output power only the last reading is compared.
validateOpticalChannelTelemetry_Instant(want) ==
  InputPowerFails(want) \cup
  Fails("output-power", IF want = "UP"
                          THEN Within(OutputPower.instant, Target - powerReadingError, Target + powerReadingError)
                          ELSE OutputPower.instant <= inactivePower)

validateOpticalChannelTelemetry(want) ==
  InputPowerFails(want) \cup
  (IF want = "UP"
     THEN Fails("output-power", Limited(OutputPower, Target - powerReadingError, Target + powerReadingError))
          \cup Fails("chromatic-dispersion", Limited(Dispersion, minAllowedCDValue, maxAllowedCDValue))
          \cup Fails("carrier-frequency-offset",
                     \A v \in Values(Offset) : Within(v, -maxAllowedCarrierFrequencyOffset, maxAllowedCarrierFrequencyOffset))
     ELSE Fails("output-power", \A v \in Values(OutputPower) : v <= inactivePower)
          \cup Fails("chromatic-dispersion", \A v \in Values(Dispersion) : v <= inactiveCDValue)
          \cup Fails("carrier-frequency-offset", \A v \in Values(Offset) : v <= inactiveCarrierFrequencyOffset))

validateTranscieverTelemetry(want) ==
  InputPowerFails(want) \cup
  Fails("output-power", IF want = "UP"
                          THEN Within(OutputPower.instant, Target - powerReadingError, Target + powerReadingError)
                          ELSE OutputPower.instant <= inactivePower)

Ready ==
  CASE plan.stream = "otn" -> isOTNChannelReady(Want)
    [] plan.stream = "och" -> isOpticalChannelStreamReady(Want)
    [] plan.stream = "transceiver" -> isTransceiverStreamReady(Want)

Reported ==
  CASE plan.stream = "otn" -> validateOTNChannelTelemetry(Want)
    [] plan.stream = "och" -> validateOpticalChannelTelemetry(Want)
    [] plan.stream = "transceiver" -> validateTranscieverTelemetry(Want)

-----------------------------------------------------------------------------
\* The device ramps one level at a time towards what the test asked for.
Towards(i) == IF Want = "UP" THEN {i, IF i < Len(Level) THEN i + 1 ELSE i} ELSE {i, IF i > 1 THEN i - 1 ELSE i}
Slide(w, x) == Append(Tail(w), x)
Quality(o, q) == IF o = 1 \/ q = 1 THEN 0 ELSE 4 + o + q   \* 12 with both lasers at the target

Measure ==
  /\ status = "waiting"
  /\ \E o \in (IF plan.dead THEN {1} ELSE Towards(own)), q \in Towards(peer) :
    /\ own' = o /\ peer' = q
    /\ out' = Slide(out, Level[o]) /\ in' = Slide(in, Seen(q)) /\ qual' = Slide(qual, Quality(o, q))
    /\ UNCHANGED <<plan, phase, errors, status>>

\* AwaitNext returns the first sample that is ready; then the test toggles the
\* ports for the next phase.
Validate ==
  /\ status = "waiting" /\ Ready
  /\ errors' = errors \cup Reported
  /\ phase' = (IF phase < Len(Wants) THEN phase + 1 ELSE phase)
  /\ status' = IF phase = Len(Wants) THEN "done" ELSE status
  /\ UNCHANGED <<plan, own, peer, out, in, qual>>

\* Ten minutes without a ready sample; a device that settles needs less.
AwaitTimesOut ==
  /\ status = "waiting" /\ (plan.dead \/ plan.absent # {}) /\ ~Ready
  /\ status' = "failed" /\ UNCHANGED <<plan, phase, own, peer, out, in, qual, errors>>

Init ==
  /\ plan \in Plans /\ phase = 1 /\ own = 1 /\ peer = 1
  /\ out = [i \in 1 .. Window |-> Level[1]] /\ in = out /\ qual = [i \in 1 .. Window |-> 0]
  /\ errors = {} /\ status = "waiting"

Next == Measure \/ Validate \/ AwaitTimesOut
Spec == Init /\ [][Next]_vars

\* The lasers do ramp and settle, and AwaitNext sees a settled sample.
Fairness ==
  /\ WF_vars(Measure /\ (own' # own \/ peer' # peer))
  /\ WF_vars(Measure /\ own' = own /\ peer' = peer)
  /\ WF_vars(Validate) /\ WF_vars(AwaitTimesOut)

-----------------------------------------------------------------------------
\* A sample that isOTNChannelReady accepts passes the checks of
\* validateOTNChannelTelemetry, whatever the lasers do meanwhile.
OTNReadyPasses == plan.stream = "otn" => errors = {}

\* The readiness of the input power, stricter than its checks, keeps a healthy
\* transceiver and optical channel from being reported for it.
InputPowerReadyPasses == ~plan.dead => "input-power" \notin errors

\* When a test has ended without a report the light was really on: the power of
\* both ends was within the reading error of the target in the last phase, so a
\* laser that stays dark is reported.
PassMeansLight ==
  status = "done" /\ errors = {} /\ plan.stream = "och" /\ plan.absent = {} =>
    \A i \in DOMAIN out : Within(out[i], Target - powerReadingError, Target + powerReadingError) /\ in[i] > inactivePower
=============================================================================
