------------------------------ MODULE MCWaits -------------------------------
(*****************************************************************************)
(* Everything that waits for a device, for model checking.  A behaviour is   *)
(* about one of the parts of Waits, a certificate rotation with its polling  *)
(* goroutines, or the configuration of transponders and the wait for their   *)
(* links; one run asks of each whether it ends and whether its success was   *)
(* earned.                                                                   *)
(*****************************************************************************)
EXTENDS Waits

CONSTANT TransponderPlans  \* the Plans of OpticalConfig

\* A first rotation, a server certificate of the same CA alone, another CA.
Rotation(ca, both, newTLS) ==
  [ca |-> ca, bundle |-> ca, both |-> both, newTLS |-> newTLS, mismatch |-> FALSE]
MCPlans == {<<Rotation(1, TRUE, FALSE), Rotation(1, FALSE, TRUE), Rotation(2, TRUE, TRUE)>>,
            <<Rotation(1, TRUE, FALSE), Rotation(2, TRUE, TRUE)>>}

MCKinds == <<"Equal", "NotEqual", "EqualOrNil", "Present">>
MCRpcs ==
  {"GnmiGet", "GnmiSet", "GnmiSubscribe", "GnmiCapabilities", "GnoiSystemTime", "GnsiAuthzGet", "GnsiAuthzProbe",
   "GribiGet", "GnoiSystemPing", "GribiModify", "GribiFlush", "GnsiAuthzRotate", "GnoiOsInstall"}

\* The three components with each inactive bit error rate, a dark laser, and
\* leaf groups that are not streamed.
Pluggable(stream, absent, dark, dead) ==
  [stream |-> stream, absent |-> absent, dark |-> dark, dead |-> dead,
   cfo |-> [min |-> -20, avg |-> 0, max |-> 20, instant |-> 10]]
MCPluggables ==
  {Pluggable(s, {}, d, x) : s \in {"otn", "och", "transceiver"}, d \in {0, 500, 1000}, x \in BOOLEAN}
  \cup {Pluggable("otn", a, 0, FALSE) : a \in {{"q-value"}, {"pre-fec-ber"}, {"q-value", "pre-fec-ber"}}}
  \cup {Pluggable("och", {a}, 0, FALSE) : a \in {"input-power", "output-power"}}

\* Transponders of three vendors at both rates, with each fault.
Vendor == [
  ARISTA  |-> {"rate_class_unsupported", "otn_trib_unsupported", "otn_to_eth", "admin_state_unsupported"},
  NOKIA   |-> {"explicit_dco", "eth_ingress_unsupported", "breakout_unsupported_800",
               "port_speed_unsupported", "explicit_breakout_interface"},
  JUNIPER |-> {"eth_ingress_unsupported"},
  CISCO   |-> {"otn_trib_unsupported", "eth_ingress_unsupported", "eth_cisco_numbering",
               "otn_cisco_numbering", "admin_state_unsupported"}]
Line(id, pmd, lband) == [id |-> id, pmd |-> pmd, lband |-> lband]
DUT(test, vendor, pmd, lband, fault) ==
  [test |-> test, vendor |-> vendor, dev |-> Vendor[vendor],
   ports |-> <<Line(2, pmd, lband), Line(1, pmd, lband)>>,
   modes |-> <<>>, freqs |-> <<>>, powers |-> <<>>, fault |-> fault]
Vendors == {"ARISTA", "NOKIA", "JUNIPER"}
Pmds == {"400ZR", "400ZRP", "800ZR", "800ZRP"}
MCTransponderPlans ==
  {DUT(t, v, pmd, l, f) : t \in {"terminal", "platform"}, v \in Vendors, pmd \in Pmds, l \in BOOLEAN,
                          f \in {"none", "halved", "crossed", "mode", "breakout", "stuck"}}
  \cup {[DUT(t, v, "800ZR", FALSE, "none") EXCEPT !.modes = <<2, 3>>, !.powers = <<-7, -9>>, !.freqs = <<191300000, 196100000>>] :
          t \in {"terminal", "platform"}, v \in Vendors}
  \cup {[DUT("terminal", "JUNIPER", "800ZR", FALSE, "unsupported") EXCEPT !.modes = <<1, 7>>],
        DUT("terminal", "JUNIPER", "100G", FALSE, "unsupported")}

VARIABLES
  transponderPlan, lists, round, pos, at, params, batch, transponderDevice, oper,
  transponderErrors, transponderStatus

-----------------------------------------------------------------------------
Transponder == INSTANCE OpticalConfig WITH
  Plans <- TransponderPlans, plan <- transponderPlan, device <- transponderDevice,
  errors <- transponderErrors, status <- transponderStatus

transponderVars == <<transponderPlan, lists, round, pos, at, params, batch,
                     transponderDevice, oper, transponderErrors,
                     transponderStatus>>

CertzRotationIdle == cases = Idle /\ k = Idle /\ pc = Idle /\ wg = 0 /\
                     spawned = Idle /\ gos = [g \in Goroutines |-> "none"] /\
                     answered = Idle /\ device = Idle /\ kept = Idle /\
                     client = Idle /\ checked = Idle /\ reports = Idle
TransponderIdle == transponderPlan = [ports |-> <<>>] /\ lists = Idle /\
                   round = Idle /\ pos = 1 /\ at = Idle /\ params = Idle /\
                   batch = Idle /\ transponderDevice = Idle /\ oper = Idle /\
                   transponderErrors = Idle /\ transponderStatus = Idle

MCInit ==
  /\ part \in {"certz", "await", "stream", "containerz", "reboot", "exec",
               "optical", "transponder"}
  /\ WaitsInit
  /\ IF part = "certz" THEN Init ELSE CertzRotationIdle
  /\ IF part = "transponder" THEN Transponder!Init ELSE TransponderIdle

MCNext ==
  \/ WaitsNext /\ UNCHANGED <<vars, transponderVars>>
  \/ part = "certz" /\ Next /\ UNCHANGED <<waitsVars, transponderVars>>
  \/ part = "transponder" /\ Transponder!Next /\ UNCHANGED <<waitsVars, vars>>

mcVars == <<vars, waitsVars, transponderVars>>
MCSpec == MCInit /\ [][MCNext]_mcVars
\* The code that waits goes on when it can, the device answers what it is asked
\* and lasers settle; a part that stands still has no step to be fair to.
FairSpec ==
  /\ MCSpec
  /\ Fairness /\ Await!Fairness /\ Stream!Fairness /\ Containers!Fairness /\ Reboot!Fairness
  /\ Exec!Fairness /\ Optical!Fairness /\ Transponder!Fairness

-----------------------------------------------------------------------------
\* The transponder tests tell good from bad: no faulty transponder passes, and
\* one that does what it is told passes every round whatever its deviations
\* leave out, as its channels are chained port by port at the rate of the round
\* and the breakout of the port has that rate.
TranspondersJudged ==
  part = "transponder" => /\ Transponder!FaultsAreReported /\ Transponder!HealthyDevicePasses
                          /\ Transponder!ChainsMeet /\ Transponder!BreakoutAgrees

\* Every wait ends: the validators once the deadline has passed, the container
\* set-up even when each list call fails, a sample RPC, the telemetry test
\* whichever laser is faster, the transponder test, and a rotation unless its upload is refused; the
\* goroutine AwaitNext leaves behind at its timeout, if the last sample is good; a
\* wait for a reboot ends on a device that stays up, with or without all of its
\* components.
WaitsEnd ==
  /\ (part = "await" /\ expired) ~> (part = "await" /\ i > Len(Kinds))
  /\ (part = "containerz") ~> (containerzPc \in {"fatal", "done"})
  /\ (part = "exec") ~> (execPc = "done")
  /\ (part = "optical") ~> (status # "waiting")
  /\ (part = "transponder") ~> (transponderStatus # "running")
  /\ (pc = "wait") ~> (pc # "wait" \/ "recv" \in reports)
  /\ <>[](part = "stream" /\ stored.good) => <>[](loop \in {"off", "sent"})
  /\ <>[](phase = "up") => <>(rebootPc \in {"passed", "failed"})
=============================================================================
