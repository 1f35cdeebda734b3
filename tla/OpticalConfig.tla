--------------------------- MODULE OpticalConfig ---------------------------
(***************************************************************************)
(* The coherent-optics tests of internal/telemetry/transceiver:            *)
(* TerminalDevicePathsTest and PlatformPathsTest configure every port with *)
(* NewInterfaceConfigAll (internal/cfgplugins/interface.go), toggle the    *)
(* ports and compare what the device streams with the ConfigParameters     *)
(* that all ports share.  Rounds are the triples of operational mode,      *)
(* frequency and target power; each goes DOWN, UP, DOWN, UP.               *)
(*                                                                         *)
(* A port is a number that orders the port names.  The transceiver, the    *)
(* hardware port and the optical channel of port p are called p.  Measured *)
(* leaves are the subject of module OpticalTelemetry.                      *)
(***************************************************************************)
EXTENDS Integers, Sequences, FiniteSets, TLC

CONSTANT Plans
  \* [test, vendor, dev (deviations set), ports (dut.Ports(), [id, pmd, lband]),
  \*  modes, freqs, powers (the flags, <<>> when not given), fault]

VARIABLES
  plan,
  lists,    \* the TunableParamters after setToDefaults
  round,    \* the round in progress, from 1
  pos,      \* the next entry of Phases
  at,       \* the next port of a loop over dut.Ports()
  params,   \* *cfgplugins.ConfigParameters
  batch,    \* the SetBatch: for each kind, a function from keys to configs
  device,   \* the same for the device
  oper,     \* interfaces/interface/state/oper-status, UP or not
  errors,   \* leaves reported with t.Errorf
  status    \* "running", "done", "failed" (t.Fatalf) or "panicked"

vars == <<plan, lists, round, pos, at, params, batch, device, oper, errors, status>>

D(deviation) == deviation \in plan.dev
Ids == {plan.ports[i].id : i \in DOMAIN plan.ports}
Pmd(p) == (CHOOSE i \in DOMAIN plan.ports : plan.ports[i].id = p)
PMD(p) == plan.ports[Pmd(p)].pmd
Pmd400 == {"400ZR", "400ZRP"}
Pmd800 == {"800ZR", "800ZRP"}
Empty == <<>>

-----------------------------------------------------------------------------
\* The defaults: they look at the first port only; <<>> is a t.Fatalf.
OperationalModeList_Default ==
  LET pmd == plan.ports[1].pmd IN
  CASE pmd = "400ZR" /\ plan.vendor = "CISCO" -> <<5003>>
    [] pmd = "400ZR" /\ plan.vendor \in {"ARISTA", "JUNIPER", "NOKIA"} -> <<1>>
    [] pmd = "400ZRP" /\ plan.vendor = "CISCO" -> <<6004>>
    [] pmd = "400ZRP" /\ plan.vendor \in {"ARISTA", "JUNIPER", "NOKIA"} -> <<5>>
    [] pmd = "800ZR" -> <<1, 3>>
    [] pmd = "800ZRP" -> <<8, 4>>
    [] OTHER -> <<>>

FrequencyList_Default ==
  LET p == plan.ports[1] IN
  CASE p.pmd \in {"400ZR", "800ZR"} -> <<196100000>>
    [] p.pmd \in {"400ZRP", "800ZRP"} -> IF p.lband THEN <<190000000>> ELSE <<196100000>>
    [] OTHER -> <<>>

TargetOpticalPowerList_Default ==
  LET pmd == plan.ports[1].pmd IN
  CASE pmd = "400ZR" -> <<-10>>
    [] pmd \in {"400ZRP", "800ZR"} -> <<-7>>
    [] pmd = "800ZRP" -> <<-4>>
    [] OTHER -> <<>>

setToDefaults ==
  LET or(given, default) == IF given = <<>> THEN default ELSE given IN
  /\ pos = 0 /\ status = "running"
  /\ lists' = [modes  |-> or(plan.modes, OperationalModeList_Default),
               freqs  |-> or(plan.freqs, FrequencyList_Default),
               powers |-> or(plan.powers, TargetOpticalPowerList_Default)]
  /\ IF \E l \in DOMAIN lists' : lists'[l] = <<>>
       THEN status' = "failed" /\ UNCHANGED pos
       ELSE pos' = 1 /\ UNCHANGED status
  /\ UNCHANGED <<plan, round, at, params, batch, device, oper, errors>>

Rounds == Len(lists.modes) * Len(lists.freqs) * Len(lists.powers)

\* The three nested loops.
RoundParameters(r) ==
  LET np == Len(lists.powers)
      nf == Len(lists.freqs)
  IN [enabled |-> FALSE,
      mode  |-> lists.modes[1 + ((r - 1) \div (np * nf))],
      freq  |-> lists.freqs[1 + (((r - 1) \div np) % nf)],
      power |-> lists.powers[1 + ((r - 1) % np)]]

-----------------------------------------------------------------------------
\* The position of a port among the ports sorted by name.
SortedIndex(p) == Cardinality({q \in Ids : q < p})
AssignOTNIndexes(p) == (IF PMD(p) \in Pmd400 THEN 4000 ELSE 8000) + SortedIndex(p)

\* Mutant: the OTN and Ethernet channels are numbered from the same start.
AssignETHIndexes_Same(p) == AssignOTNIndexes(p)
AssignETHIndexes(p) == (IF PMD(p) \in Pmd400 THEN 40000 ELSE 80000) + SortedIndex(p)

Rates(speed, channels, form) ==
  [speed |-> speed, rate |-> speed, trib |-> speed, alloc |-> speed, chans |-> channels, form |-> form]

\* What NewInterfaceConfigAll sets for a port; speed 0 is a t.Fatalf.
PortParameters(p, mode) ==
  CASE PMD(p) \in Pmd400 -> Rates(400, 8, "QSFP56_DD")
    [] PMD(p) \in Pmd800 /\ mode \in {1, 2, 8} -> Rates(800, 8, "OSFP")
    [] PMD(p) \in Pmd800 /\ mode \in {3, 4} -> Rates(400, 4, "OSFP")
    [] OTHER -> Rates(0, 0, "none")

SkipsSpeed(p) == D("port_speed_unsupported") \/ PMD(p) \in Pmd400

updateInterfaceConfig(p, par) ==
  [enabled |-> par.enabled, speed |-> IF SkipsSpeed(p) THEN 0 ELSE par.speed]

SkipsBreakout(p, speed) == (D("breakout_unsupported_800") /\ speed = 800) \/ PMD(p) \in Pmd400

\* Mutant: the breakout has the speed of the transceiver, not of the mode.
updateHWPortConfig_Full(p, par) == [speed |-> 800, chans |-> par.chans]

\* Component of the hardware port: the breakout group 1.
updateHWPortConfig(p, par) == [speed |-> par.speed, chans |-> par.chans]

\* The ports whose transceiver is configured as a digital coherent optic.
updateTransceiverConfig == IF D("explicit_dco") THEN Ids ELSE {}

updateOpticalChannelConfig(par) == [mode |-> par.mode, freq |-> par.freq, power |-> par.power]

updateOTNChannelConfig(p, par) ==
  [type |-> "OTN", ingress |-> 0, rate |-> 0,
   trib |-> IF D("otn_to_eth") THEN 0 ELSE par.trib,
   admin |-> ~D("admin_state_unsupported") /\ ~D("otn_to_eth"),
   assign |-> LET first == IF D("otn_cisco_numbering") THEN 1 ELSE 0 IN
     {[idx |-> first, och |-> p, chan |-> 0, alloc |-> par.alloc]} \cup
     (IF D("otn_to_eth") THEN {[idx |-> first + 1, och |-> 0, chan |-> AssignETHIndexes(p), alloc |-> par.alloc]} ELSE {})]

\* Mutant: the tributary protocol is left out with the ingress parameters.
updateETHChannelConfig_NoTrib(p, par) ==
  [type |-> "ETH",
   ingress |-> IF D("eth_ingress_unsupported") THEN 0 ELSE p,
   rate |-> IF D("rate_class_unsupported") THEN 0 ELSE par.rate,
   trib |-> IF D("otn_trib_unsupported") \/ D("eth_ingress_unsupported") THEN 0 ELSE par.trib,
   admin |-> ~D("admin_state_unsupported"),
   assign |-> {[idx |-> 0, och |-> 0, chan |-> AssignOTNIndexes(p), alloc |-> par.alloc]}]

updateETHChannelConfig(p, par) ==
  [type |-> "ETH",
   ingress |-> IF D("eth_ingress_unsupported") THEN 0 ELSE p,
   rate |-> IF D("rate_class_unsupported") THEN 0 ELSE par.rate,
   trib |-> IF D("otn_trib_unsupported") THEN 0 ELSE par.trib,
   admin |-> ~D("admin_state_unsupported"),
   assign |-> {[idx |-> IF D("eth_cisco_numbering") THEN 1 ELSE 0, och |-> 0,
                chan |-> AssignOTNIndexes(p), alloc |-> par.alloc]}]

\* assignment[0] is dereferenced though the only key is then 1.
ETHChannelPanics == D("eth_cisco_numbering")

-----------------------------------------------------------------------------
\* Within one loop the batch is new, every port is added to it, and params ends
\* with the values of the last port.  A port that cannot be configured ends the
\* test before anything is sent.
NewInterfaceConfigAll ==
  LET base == RoundParameters(round)
      par(p) == PortParameters(p, base.mode) @@ base
      last == plan.ports[Len(plan.ports)].id
      breakouts == {p \in Ids : ~SkipsBreakout(p, par(p).speed)}
      fatal(i) == par(plan.ports[i].id).speed = 0
  IN IF fatal(1) \/ (~ETHChannelPanics /\ \E i \in DOMAIN plan.ports : fatal(i))
     THEN status' = "failed" /\ UNCHANGED <<params, batch>>
     ELSE IF ETHChannelPanics
     THEN status' = "panicked" /\ UNCHANGED <<params, batch>>
     ELSE /\ params' = par(last)
          /\ batch' =
               [intf |-> [p \in Ids |-> updateInterfaceConfig(p, par(p))],
                sub  |-> [p \in IF D("explicit_breakout_interface") THEN breakouts ELSE {} |-> base.enabled],
                hw   |-> [p \in breakouts |-> updateHWPortConfig(p, par(p))],
                dco  |-> [p \in updateTransceiverConfig |-> TRUE],
                och  |-> [p \in Ids |-> updateOpticalChannelConfig(par(p))],
                chan |-> [c \in {AssignOTNIndexes(p) : p \in Ids} |->
                            LET p == CHOOSE q \in Ids : AssignOTNIndexes(q) = c IN updateOTNChannelConfig(p, par(p))]
                      @@ [c \in {AssignETHIndexes(p) : p \in Ids} |->
                            LET p == CHOOSE q \in Ids : AssignETHIndexes(q) = c IN updateETHChannelConfig(p, par(p))]]
          /\ UNCHANGED status

\* What a device with the planned fault makes of a configuration.
Faulty(d) ==
  CASE plan.fault = "halved" ->
         [d EXCEPT !.chan = [c \in DOMAIN @ |-> [@[c] EXCEPT !.assign = {[a EXCEPT !.alloc = @ \div 2] : a \in @}]]]
    [] plan.fault = "crossed" ->
         [d EXCEPT !.chan = [c \in DOMAIN @ |-> [@[c] EXCEPT !.assign = {[a EXCEPT !.och = IF @ = 0 THEN 0 ELSE 3 - @] : a \in @}]]]
    [] plan.fault = "mode" -> [d EXCEPT !.och = [p \in DOMAIN @ |-> [@[p] EXCEPT !.mode = 0]]]
    [] plan.fault = "breakout" -> [d EXCEPT !.hw = [p \in DOMAIN @ |-> [@[p] EXCEPT !.chans = 1]]]
    [] plan.fault = "stuck" -> [d EXCEPT !.intf = [p \in DOMAIN @ |-> [@[p] EXCEPT !.enabled = FALSE]]]
    [] OTHER -> d

\* Replaces of a SetBatch: paths it does not name stay as they are.
SetBatch == device' = Faulty([k \in DOMAIN device |-> batch[k] @@ device[k]])

ToggleInterfaceState(p) ==
  device' = Faulty([device EXCEPT !.intf = [@ EXCEPT ![p] =
              [enabled |-> params'.enabled, speed |-> IF SkipsSpeed(p) THEN 0 ELSE params'.speed]]])

-----------------------------------------------------------------------------
GetAssignment(c, i) ==
  IF \E a \in device.chan[c].assign : a.idx = i
    THEN CHOOSE a \in device.chan[c].assign : a.idx = i
    ELSE [idx |-> -1, och |-> 0, chan |-> 0, alloc |-> 0]

\* The validators: the leaves whose value differs from the wanted one.
Differing(checks) == {leaf \in DOMAIN checks : checks[leaf][1] # checks[leaf][2]}

validateInterfaceTelemetry(p, up) ==
  (IF device.intf[p].enabled # up THEN {"enabled"} ELSE {}) \cup
  (IF ~SkipsSpeed(p) /\ device.intf[p].speed # params.speed THEN {"port-speed"} ELSE {})

validateHWPortTelemetry(p) ==
  IF SkipsBreakout(p, params.speed) THEN {}
  ELSE Differing([bspeed |-> <<device.hw[p].speed, params.speed>>, chans |-> <<device.hw[p].chans, params.chans>>])

validateEthernetChannelTelemetry(p) ==
  LET c == AssignETHIndexes(p)
      i == IF D("eth_cisco_numbering") THEN 1 ELSE 0
      a == GetAssignment(c, i)
      v == device.chan[c]
  IN Differing([index |-> <<a.idx, i>>, chan |-> <<a.chan, AssignOTNIndexes(p)>>, alloc |-> <<a.alloc, params.alloc>>])
     \cup (IF ~D("rate_class_unsupported") /\ v.rate # params.rate THEN {"rate"} ELSE {})
     \cup (IF ~D("otn_trib_unsupported") /\ (v.trib # params.trib \/ ~v.admin) THEN {"trib"} ELSE {})
     \cup (IF ~D("eth_ingress_unsupported") /\ v.ingress # p THEN {"ingress"} ELSE {})

validateOTNChannelTelemetry(p) ==
  LET c == AssignOTNIndexes(p)
      first == IF D("otn_cisco_numbering") THEN 1 ELSE 0
      a == GetAssignment(c, first)
      b == GetAssignment(c, first + 1)
      v == device.chan[c]
  IN Differing([index |-> <<a.idx, first>>, och |-> <<a.och, p>>, alloc |-> <<a.alloc, params.alloc>>])
     \cup (IF D("otn_to_eth")
             THEN Differing([index |-> <<b.idx, first + 1>>, chan |-> <<b.chan, AssignETHIndexes(p)>>,
                             alloc |-> <<b.alloc, params.alloc>>]) ELSE {})
     \cup (IF ~D("otn_trib_unsupported") /\ (v.trib # params.trib \/ ~v.admin) THEN {"trib"} ELSE {})

\* Mutant: only the power is compared.
validateOpticalChannelTelemetry_Power(p) == Differing([power |-> <<device.och[p].power, params.power>>])

validateOpticalChannelTelemetry(p) ==
  Differing([mode |-> <<device.och[p].mode, params.mode>>, power |-> <<device.och[p].power, params.power>>])

-----------------------------------------------------------------------------
\* Mutant: the ports are validated before they are brought up.
Phases_Early == <<"config", "set", "DOWN", "UP", "enable", "disable", "DOWN", "enable", "UP">>

\* The steps of one round.
Phases == <<"config", "set", "DOWN", "enable", "UP", "disable", "DOWN", "enable", "UP">>
Phase == IF pos \in DOMAIN Phases THEN Phases[pos] ELSE "none"
Advance ==
  IF pos < Len(Phases) THEN pos' = pos + 1 /\ UNCHANGED <<round, status>>
  ELSE IF round < Rounds THEN pos' = 1 /\ round' = round + 1 /\ UNCHANGED status
  ELSE pos' = pos + 1 /\ status' = "done" /\ UNCHANGED round

Config ==
  /\ status = "running" /\ Phase = "config"
  /\ NewInterfaceConfigAll
  /\ pos' = IF status' = "running" THEN pos + 1 ELSE pos
  /\ UNCHANGED <<plan, lists, round, at, device, oper, errors>>

Set ==
  /\ status = "running" /\ Phase = "set"
  /\ SetBatch /\ Advance
  /\ UNCHANGED <<plan, lists, at, params, batch, oper, errors>>

\* The loops over dut.Ports(): one port per step.
NextPort ==
  IF at < Len(plan.ports) THEN at' = at + 1 /\ UNCHANGED <<pos, round, status>> ELSE at' = 1 /\ Advance

Toggle ==
  /\ status = "running" /\ Phase \in {"enable", "disable"}
  /\ params' = [params EXCEPT !.enabled = Phase = "enable"]
  /\ ToggleInterfaceState(plan.ports[at].id)
  /\ NextPort
  /\ UNCHANGED <<plan, lists, batch, oper, errors>>

\* The validation waits until the interface has the wanted oper-status.
Validate ==
  LET p == plan.ports[at].id
      up == Phase = "UP"
  IN /\ status = "running" /\ Phase \in {"UP", "DOWN"} /\ oper[p] = up
     /\ errors' = errors \cup validateInterfaceTelemetry(p, up) \cup
          (IF plan.test = "terminal"
             THEN validateOTNChannelTelemetry(p) \cup validateEthernetChannelTelemetry(p)
             ELSE validateOpticalChannelTelemetry(p) \cup validateHWPortTelemetry(p))
     /\ NextPort
     /\ UNCHANGED <<plan, lists, params, batch, device, oper>>

\* Ten minutes are over; the device takes less unless it has a fault.
AwaitTimesOut ==
  /\ status = "running" /\ Phase \in {"UP", "DOWN"} /\ oper[plan.ports[at].id] # (Phase = "UP")
  /\ plan.fault # "none"
  /\ status' = "failed"
  /\ UNCHANGED <<plan, lists, round, pos, at, params, batch, device, oper, errors>>

\* The device: a link is up when all ports on it are enabled.
LinkFollows ==
  LET up == \A p \in Ids : p \in DOMAIN device.intf /\ device.intf[p].enabled IN
  \E p \in Ids :
    /\ oper[p] # up
    /\ oper' = [oper EXCEPT ![p] = up]
    /\ UNCHANGED <<plan, lists, round, pos, at, params, batch, device, errors, status>>

Nothing == [intf |-> Empty, sub |-> Empty, hw |-> Empty, dco |-> Empty, och |-> Empty, chan |-> Empty]

Init ==
  /\ plan \in Plans
  /\ lists = [modes |-> <<>>, freqs |-> <<>>, powers |-> <<>>]
  /\ round = 1 /\ pos = 0 /\ at = 1 /\ params = [enabled |-> FALSE]
  /\ batch = Nothing /\ device = Nothing
  /\ oper = [p \in Ids |-> FALSE] /\ errors = {} /\ status = "running"

Next == setToDefaults \/ Config \/ Set \/ Toggle \/ Validate \/ AwaitTimesOut \/ LinkFollows
Spec == Init /\ [][Next]_vars
Fairness == WF_vars(Next) /\ WF_vars(LinkFollows)

-----------------------------------------------------------------------------
Configured == status = "running" /\ pos > 2
ETHOf(p) == device.chan[AssignETHIndexes(p)]
OTNOf(p) == device.chan[AssignOTNIndexes(p)]

\* A device that does what it is told passes: in every round the validators want
\* what NewInterfaceConfigAll and ToggleInterfaceState wrote, whatever the
\* vendor's deviations leave out.
HealthyDevicePasses == plan.fault = "none" => errors = {} /\ status # "failed"

\* The configuration chains each port's own Ethernet channel, OTN channel and
\* optical channel, and all of them carry the rate of the round.
ChainsMeet ==
  Configured /\ plan.fault = "none" =>
    \A p \in Ids :
      LET rate == PortParameters(p, params.mode).speed IN
      /\ \E e \in ETHOf(p).assign : \E o \in OTNOf(p).assign :
           /\ e.chan = AssignOTNIndexes(p) /\ o.och = p
           /\ e.alloc = rate /\ o.alloc = rate
      /\ \A o \in OTNOf(p).assign : o.chan # 0 => device.chan[o.chan] = ETHOf(p)
      /\ ETHOf(p).type = "ETH" /\ OTNOf(p).type = "OTN"
      /\ device.och[p].mode = params.mode

\* A hardware port that has a breakout configuration has the one of the port's
\* present rate, also after rounds with other operational modes.
BreakoutAgrees ==
  Configured => \A p \in DOMAIN device.hw : device.hw[p].speed = PortParameters(p, params.mode).speed

\* A device that halves the allocations, joins an OTN channel to the other
\* port's optical channel, ignores the mode or the channels of the breakout, or
\* never enables a port, does not pass a test that looks at that part.
FaultsAreReported ==
  /\ status = "done" /\ plan.test = "terminal" /\ plan.fault \in {"halved", "crossed"} => errors # {}
  /\ status = "done" /\ plan.test = "platform" /\ plan.fault = "mode" => errors # {}
  /\ status = "done" /\ plan.test = "platform" /\ plan.fault = "breakout" /\ DOMAIN device.hw # {} => errors # {}
  /\ plan.fault = "stuck" => status # "done"
=============================================================================
