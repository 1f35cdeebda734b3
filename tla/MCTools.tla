------------------------------ MODULE MCTools -------------------------------
(*****************************************************************************)
(* The libraries and tools that are called once and must leave things right, *)
(* for model checking: the parts of Tools, the core file check, the          *)
(* validation of captures, the accessors of deviations, the address          *)
(* generators, the TestTracker listing of the rundata tool, accounting and   *)
(* the generator of the RPC tables.  A behaviour is about one of them; the   *)
(* others stand still.                                                       *)
(*****************************************************************************)
EXTENDS CoreValidator, PacketValidation, Deviations, Acctz, Tools, TLC

Seqs == INSTANCE SequencesExt

\* Accounting: the deviations of the tests' metadata per vendor.  A Juniper
\* device has no gRIBI records, and no test looks for them there.
Deviated(v) ==
  CASE v = "arista" -> {"gribi_open", "p4rt_open"}
    [] v = "juniper" -> {"no_fail_grpc"}
    [] v = "cisco" -> {"role_leaf", "no_deny_status"}
    [] OTHER -> {}
AcctzPlan(v, role, c) == [vendor |-> v, deviations |-> Deviated(v), role |-> role, calls |-> c]
Vendors == {"arista", "juniper", "cisco", "nokia"}
MCAcctzPlans ==
  {AcctzPlan(v, v = "arista", p) : v \in Vendors, p \in Seqs!SetToAllKPermutations({"gnmi", "gnoi", "gnsi", "p4rt"})}
  \cup {AcctzPlan(v, v = "arista", <<"gnmi", "gribi", "gnoi">>) : v \in Vendors \ {"juniper"}}
  \cup {AcctzPlan(v, TRUE, <<"cli", "failcli", "shell">>) : v \in Vendors \ {"juniper"}}
  \cup {AcctzPlan("juniper", TRUE, <<"cli", "shell">>), AcctzPlan("arista", TRUE, <<"escalate", "cli">>)}

\* The generator of the RPC tables: files as it lists them, with stand-ins for
\* the methods.
File(name, services) == [name |-> name, services |-> services]
ProtoService(fqn, methods) == [fqn |-> fqn, methods |-> methods]
OneService(name, fqn) == File(name, <<ProtoService(fqn, <<"get", "set", "probe">>)>>)
Listed ==
  {OneService(<<"gnmi">>, <<"gnmi", "gnmi">>), OneService(<<"gribi">>, <<"gribi", "gribi">>),
   OneService(<<"gnsi", "authz">>, <<"gnsi", "authz", "v1", "authz">>),
   OneService(<<"gnsi", "pathz">>, <<"gnsi", "pathz", "v1", "pathz">>),
   OneService(<<"gnoi", "otdr">>, <<"gnoi", "optical", "otdr">>),
   OneService(<<"gnoi", "wpb">>, <<"gnoi", "optical", "wavelengthrouter">>),
   OneService(<<"gnoi", "system">>, <<"gnoi", "system", "system">>),
   OneService(<<"p4rt">>, <<"p4", "v1", "p4runtime">>),
   File(<<"gnsi", "acc">>,
        <<ProtoService(<<"gnsi", "acctz", "v1", "acctz">>, <<"subscribe">>),
          ProtoService(<<"gnsi", "acctz", "v1", "acctzstream">>, <<"subscribe">>)>>)}
ProtoFiles == {s \in SUBSET Listed : Cardinality(s) \in 1..3}

\* Credentials: a directory with everything, one with keys of an algorithm the
\* helpers do not know and no host files, and one without files.
Key(id, algo) == [id |-> id, algo |-> algo]
NoKey == Key("none", "none")
MCAuthTypes == {{"pubkey"}, {"password", "pubkey"}}
MCKeyDirs ==
  {[user |-> Key("k1", "ssh-ed25519"), ca |-> Key("c1", "ssh-rsa"), cert |-> "c1", host |-> "h1", hostcert |-> "hc1"],
   [user |-> Key("k2", "sk-ssh"), ca |-> Key("c2", "sk-ssh"), cert |-> "c2", host |-> "none", hostcert |-> "none"],
   [user |-> NoKey, ca |-> NoKey, cert |-> "none", host |-> "none", hostcert |-> "hc2"]}

\* Rundata: an ATE test, its OTG version and a third test, with every combination
\* of files and one test plan or two.
ateX == [kind |-> "ate_tests", test |-> "x"]
otgX == [kind |-> "otg_tests", test |-> "x"]
testY == [kind |-> "tests", test |-> "y"]
NoMeta == [st |-> "nil"]
Meta(p, u, f, bed) == [st |-> "ok", plan |-> p, desc |-> "d", uuid |-> [n |-> <<0, u>>, form |-> f], testbed |-> bed]
Metas(d) ==
  {Meta("P1", d, f, "DUT") : f \in {"norm", "raw", "bad", "none"}}
  \cup {NoMeta, Meta("P1", ateX, "norm", "ATE"), Meta("P2", testY, "norm", "ATE")}
Heading(p) == [st |-> "ok", plan |-> p, desc |-> "d"]
TestDir(r, m, pkgs, path) == [path |-> path, readme |-> r, meta |-> m, pkgs |-> pkgs, old |-> TRUE]
Package(base, suffix) == [base |-> base, suffix |-> suffix]
External == Package("x", "_test")
MCTestTrees ==
  {[d \in {ateX, otgX, testY} |->
      TestDir(Heading(IF d = testY THEN q ELSE "P1"), CASE d = ateX -> a [] d = otgX -> o [] OTHER -> y, {External}, "ok")] :
     a \in Metas(ateX), o \in Metas(otgX), y \in Metas(testY), q \in {"P1", "P2"}}
  \cup
  {[d \in {ateX, testY} |->
      IF d = ateX THEN TestDir(Heading("P1"), a, pkgs, "ok") ELSE TestDir(h, y, {External}, path)] :
     a \in Metas(ateX), y \in {NoMeta, [st |-> "garbled"]},
     pkgs \in {{}, {External}, {External, Package("x", "")}, {Package("", "")}},
     h \in {Heading("P2"), [st |-> "bad"], [st |-> "none"]}, path \in {"ok", "bad", "exempt"}}

\* The TestTracker plan: tests of the sections RT-2, RT-10 and TE-1, and plans
\* that people have edited.
Sec(w, ds) == <<[word |-> w, digit |-> ds]>>
PlanId(w, ds, n) == Sec(w, ds) \o <<[word |-> 1, digit |-> <<n>>]>>
RT2(n) == PlanId(2, <<2>>, n)
RT10 == PlanId(2, <<1, 0>>, 1)
TE1 == PlanId(3, <<1>>, 1)
Data(u, p, dsc) == [uuid |-> u, plan |-> p, desc |-> dsc]
Suites ==
  {(ateX :> Data("u1", p, "d1")) @@ (otgX :> o) @@ (testY :> Data("u2", q, "d2"))
     @@ ([kind |-> "tests", test |-> "z"] :> c) :
     p \in {RT2(1), RT2(2)}, q \in {RT2(1), RT2(2), RT10},
     o \in {Data("u1", RT2(1), "d1"), Data("u1", RT2(2), "d1"), Data("u1", RT2(1), "d2")},
     c \in {Data("u3", TE1, "d3"), Data("u3", RT2(2), "d3"), Data("u2", RT10, "d2")}}
Kid(u, p, x) == [wf |-> TRUE, uuid |-> u, plan |-> p, desc |-> "old", dirs |-> <<>>, extra |-> x]
Section(w, ds, kids) == [wf |-> TRUE, sec |-> Sec(w, ds), kids |-> kids]
EditedPlans ==
  {<<>>,
   <<Section(2, <<2>>, <<Kid("u1", RT2(1), "p1"), [wf |-> FALSE, extra |-> "note"]>>)>>,
   <<[wf |-> FALSE], Section(2, <<2>>, <<Kid("u2", RT2(2), "p2"), Kid("u9", <<>>, "p9")>>)>>,
   <<Section(3, <<9>>, <<Kid("u9", <<>>, "p9")>>),
     Section(2, <<2>>, <<Kid("u2", <<>>, "p2"), Kid("u1", RT10, "p1")>>)>>}

\* PacketValidation: packets of the expected flow, of another flow, and with one wrong header.
P(v, i, g, b, m) == [vlan |-> v, ip4 |-> i, gre |-> g, bgp |-> b, macsec |-> m]
MCPackets ==
  { P("good", "good", "good", {"type", "code", "subcode"}, TRUE),
    P("none", "good", "skip", {}, FALSE),
    P("good", "bad", "good", {}, FALSE),
    P("bad", "skip", "none", {"type"}, FALSE),
    P("none", "none", "bad", {}, TRUE) }

\* Deviations: metadata of up to three entries.
NoRegex == [kind |-> "unset", matches |-> {}]
BadRegex == [kind |-> "bad", matches |-> {}]
Some(S) == [kind |-> "some", matches |-> S]
E1(vendor, model, version, deviations) ==
  [vendor |-> vendor, model |-> model, version |-> version, deviations |-> deviations]
Exceptions ==
  { E1("ARISTA", NoRegex, NoRegex, "default_network_instance" :> 3)
  , E1("ARISTA", Some({"m1"}), NoRegex, "hierarchical_weight_resolution_tolerance" :> 4)
  , E1("ARISTA", Some({"m1", "m2"}), Some({"v1"}), "max_out_fib_route_count" :> 9)
  , E1("ARISTA", Some({"m2"}), BadRegex, << >>)
  , E1("ARISTA", BadRegex, NoRegex, << >>)
  , E1("ARISTA", NoRegex, Some({"v2"}), "interface_policy_forwarding_unsupported" :> 1)
  , E1("ARISTA", NoRegex, Some({"v1"}), "cpu_missing_ancestor" :> 1)
  , E1("IXIA", NoRegex, NoRegex, "ate_ipv6_flow_label_unsupported" :> 1)
  , E1("IXIA", BadRegex, NoRegex, << >>) }
MetadataFiles == UNION {[1..n -> Exceptions] : n \in 0..3}
Reserved(model, version) ==
  [dut |-> [vendor |-> "ARISTA", model |-> model, version |-> version],
   ate |-> [vendor |-> "IXIA", model |-> "ix", version |-> "v1"]]
MCStarts ==
  [file : MetadataFiles, flags : {<< >>, "CPUMissingAncestor" :> 0, "ATEIPv6FlowLabelUnsupported" :> 1},
   devices : {Reserved("m1", "v1"), Reserved("m2", "v2")}]
MCAccessors == {"DefaultNetworkInstance", "HierarchicalWeightResolutionTolerance", "MaxOutFIBRouteCount",
                "InterfacePolicyForwardingOCUnsupported", "CPUMissingAncestor", "ATEIPv6FlowLabelUnsupported"}

CONSTANT Error

VARIABLES
  input, out,
  trackerTs, json, ttp, trackerPc, trackerOutcome, trackerRun, before, listed,
  rpcgenFiles, rpcgenTodo, file, i, j, serviceName, rpcMap

-----------------------------------------------------------------------------
Address == INSTANCE AddressGen WITH
  Base <- 3, Digits <- 3, MaxCount <- 8
Tracker == INSTANCE TestTracker WITH
  Plans <- EditedPlans, MaxRuns <- 2, ts <- trackerTs, pc <- trackerPc,
  outcome <- trackerOutcome, run <- trackerRun
Generator == INSTANCE RpcGen WITH
  Inputs <- ProtoFiles, files <- rpcgenFiles, todo <- rpcgenTodo

addressVars == <<input, out>>
trackerVars == <<trackerTs, json, ttp, trackerPc, trackerOutcome, trackerRun,
                 before, listed>>
rpcgenVars == <<rpcgenFiles, rpcgenTodo, file, i, j, serviceName, rpcMap>>

CoreValidatorIdle == files = Idle /\ phase = Idle /\ todo = Idle /\ duts = Idle /\
                     job = Idle /\ listing = Idle /\ prevCores = Idle /\
                     delta = Idle /\ checkOK = Idle /\ old = Idle /\
                     appeared = Idle /\ verdict = "none"
CapturesIdle == capture = Idle /\ validations = Idle /\ rest = Idle /\
                idx = Idle /\ captureVerdict = Idle
LookupsIdle == start = Idle /\ lookupCall = Idle /\ lookupPc = Idle /\
               lookupAt = Idle /\ matched = Idle /\ answer = Idle
AddressIdle == input = Idle /\ out = Idle
TrackerIdle == trackerTs = Idle /\ json = Idle /\ ttp = Idle /\ trackerPc = Idle /\
               trackerOutcome = Idle /\ trackerRun = Idle /\ before = Idle /\
               listed = Idle
AccountingIdle == plan = [calls |-> <<>>] /\ users = Idle /\ log = Idle /\
                  records = Idle /\ next = 0 /\ errors = {} /\ fatal = FALSE /\
                  reached = Idle
GeneratorIdle == rpcgenFiles = Idle /\ rpcgenTodo = Idle /\ file = Idle /\
                 i = Idle /\ j = Idle /\ serviceName = Idle /\ rpcMap = Idle

MCInit ==
  /\ part \in {"core", "gribi", "address", "rundata", "tracker", "acctz", "rpcgen",
               "credz", "packets", "deviations"}
  /\ ToolsInit
  /\ IF part = "core" THEN Init ELSE CoreValidatorIdle
  /\ IF part = "packets" THEN CaptureInit ELSE CapturesIdle
  /\ IF part = "deviations" THEN LookupInit ELSE LookupsIdle
  /\ IF part = "address" THEN Address!Init ELSE AddressIdle
  /\ IF part = "tracker" THEN Tracker!Init ELSE TrackerIdle
  /\ IF part = "acctz" THEN AcctzInit ELSE AccountingIdle
  /\ IF part = "rpcgen" THEN Generator!Init ELSE GeneratorIdle

MCNext ==
  \/ /\ ToolsNext
     /\ UNCHANGED <<vars, captureVars, lookupVars, addressVars, trackerVars,
                    acctzVars, rpcgenVars>>
  \/ /\ part = "core" /\ Next
     /\ UNCHANGED <<toolsVars, captureVars, lookupVars, addressVars, trackerVars,
                    acctzVars, rpcgenVars>>
  \/ /\ part = "packets" /\ CaptureNext
     /\ UNCHANGED <<toolsVars, vars, lookupVars, addressVars, trackerVars,
                    acctzVars, rpcgenVars>>
  \/ /\ part = "deviations" /\ LookupNext
     /\ UNCHANGED <<toolsVars, vars, captureVars, addressVars, trackerVars,
                    acctzVars, rpcgenVars>>
  \/ /\ part = "address" /\ Address!Next
     /\ UNCHANGED <<toolsVars, vars, captureVars, lookupVars, trackerVars,
                    acctzVars, rpcgenVars>>
  \/ /\ part = "tracker" /\ Tracker!Next
     /\ UNCHANGED <<toolsVars, vars, captureVars, lookupVars, addressVars,
                    acctzVars, rpcgenVars>>
  \/ /\ part = "acctz" /\ AcctzNext
     /\ UNCHANGED <<toolsVars, vars, captureVars, lookupVars, addressVars,
                    trackerVars, rpcgenVars>>
  \/ /\ part = "rpcgen" /\ Generator!Next
     /\ UNCHANGED <<toolsVars, vars, captureVars, lookupVars, addressVars,
                    trackerVars, acctzVars>>

mcVars == <<toolsVars, vars, captureVars, lookupVars, addressVars, trackerVars,
            acctzVars, rpcgenVars>>
MCSpec == MCInit /\ [][MCNext]_mcVars

-----------------------------------------------------------------------------
\* What is computed or generated is right.  The address generators in machine
\* words and in big integers agree, fill the block without repetition and never
\* wrap, and the byte-wise increment is addition with its carries.  Every RPC and
\* service is in the generated tables whatever the order of the files, and path,
\* field and variable lead to the same RPC.  The plan that the TestTracker listing
\* writes has every test in its section with its present ID and description and
\* the directories of all its kinds, keeps what people added, and never merges
\* tests that share a UUID and differ.
GeneratedRight ==
  CASE part = "address" -> Address!StepsNeverWrap /\ Address!BlockIsFilled /\ Address!NextIsAddition
    [] part = "rpcgen" -> Generator!AllRpcsListed /\ Generator!TablesAgree /\ Generator!AllEntries
    [] part = "tracker" -> /\ Tracker!EveryTestListed /\ Tracker!VersionsCollated /\ Tracker!EditsKept
                           /\ Tracker!AddedInOrder /\ Tracker!SharedUuidRefused
    [] OTHER -> TRUE

\* A listing merged into the plan that it wrote changes nothing.
ListingStable == [][part = "tracker" => Tracker!StableStep]_trackerVars
=============================================================================
