----------------------------- MODULE Deviations -----------------------------
(***************************************************************************)
(* internal/deviations: how a test learns what a device deviates in.       *)
(* Every accessor walks the platform_exceptions of the test's              *)
(* metadata.textproto anew, keeps the only entry that matches the device,  *)
(* and reads one field of it; some accessors have a command line flag that *)
(* comes first, some give the zero value a meaning of their own.           *)
(*                                                                         *)
(* An entry is [vendor, model, version, deviations].  A regular expression *)
(* is [kind, matches]: unset, bad (it does not compile), or the strings it *)
(* matches.  Field values are numbers: 0 is false, "" and 0 alike, 1 is    *)
(* true, tolerances are in tenths.                                         *)
(***************************************************************************)
EXTENDS Naturals, Sequences

CONSTANTS Starts      \* [file, flags, devices] a test may run with
        , Accessors   \* the accessors the test calls

\* The metadata is a list of platform exceptions, each for a vendor.
ASSUME StartsAssumption ==
  \A s \in Starts :
    /\ Len(s.file) \in Nat /\ DOMAIN s.file = 1 .. Len(s.file)
    /\ \A k \in DOMAIN s.file : s.file[k].vendor # ""

VARIABLES start       \* the metadata, the flags given and the devices reserved
        , lookupCall  \* the accessor being called
        , lookupPc    \* "idle", "lookup", "answered" or "exited"
        , lookupAt    \* index of the entry the loop looks at
        , matched     \* matchedPlatformException: its index, 0 for nil
        , answer

lookupVars == <<start, lookupCall, lookupPc, lookupAt, matched, answer>>

DEFAULT == 7        \* the name "DEFAULT"

\* The field of Metadata_Deviations that each accessor reads.
Field(accessor) ==
  CASE accessor = "URPFConfigOCUnsupported" -> "interface_policy_forwarding_unsupported"
    [] accessor = "InterfacePolicyForwardingOCUnsupported" -> "interface_policy_forwarding_unsupported"
    [] accessor = "DefaultNetworkInstance" -> "default_network_instance"
    [] accessor = "HierarchicalWeightResolutionTolerance" -> "hierarchical_weight_resolution_tolerance"
    [] accessor = "MaxOutFIBRouteCount" -> "max_out_fib_route_count"
    [] accessor = "CPUMissingAncestor" -> "cpu_missing_ancestor"
    [] accessor = "ATEIPv6FlowLabelUnsupported" -> "ate_ipv6_flow_label_unsupported"

DefaultNetworkInstance(value) == IF value # 0 THEN value ELSE DEFAULT
HierarchicalWeightResolutionTolerance(value) == IF value < 2 THEN 2 ELSE value
MaxOutFIBRouteCount(value) == IF value # 0 THEN value ELSE 2500000

\* What an accessor makes of the field it read.
Refined(accessor, value) ==
  CASE accessor = "DefaultNetworkInstance" -> DefaultNetworkInstance(value)
    [] accessor = "HierarchicalWeightResolutionTolerance" -> HierarchicalWeightResolutionTolerance(value)
    [] accessor = "MaxOutFIBRouteCount" -> MaxOutFIBRouteCount(value)
    [] OTHER -> value

lookupATEDeviations(accessor) == accessor = "ATEIPv6FlowLabelUnsupported"

\* The device an accessor is given.
Device(accessor) ==
  start.devices[IF lookupATEDeviations(accessor) THEN "ate" ELSE "dut"]

\* A protobuf getter: an unset field reads as the zero value.
Get(deviations, field) == IF field \in DOMAIN deviations THEN deviations[field] ELSE 0

isFlagSet_Value(accessor) == accessor \in DOMAIN start.flags /\ start.flags[accessor] = 1
-----------------------------------------------------------------------------
LookupInit ==
  /\ start \in Starts
  /\ lookupCall \in Accessors
  /\ lookupPc = "idle"
  /\ lookupAt = 1
  /\ matched = 0
  /\ answer = 0

isFlagSet(accessor) == accessor \in DOMAIN start.flags
\* The test calls an accessor; a flag given on the command line answers it.
Call(accessor) ==
  /\ lookupPc \in {"idle", "answered"}
  /\ lookupCall' = accessor
  /\ lookupAt' = 1
  /\ matched' = 0
  /\ IF isFlagSet(accessor)
     THEN lookupPc' = "answered" /\ answer' = start.flags[accessor]
     ELSE lookupPc' = "lookup" /\ UNCHANGED answer
  /\ UNCHANGED start

\* regexp.MatchString, where the expression is given at all.
Bad(regex) == regex.kind = "bad"
MatchString(regex, text) == regex.kind = "unset" \/ text \in regex.matches

Verdict_LastWins(entry, device, found) ==
  IF device.vendor # entry.vendor THEN "continue"
  ELSE IF Bad(entry.model) THEN "error"
  ELSE IF ~MatchString(entry.model, device.model) THEN "continue"
  ELSE IF Bad(entry.version) THEN "error"
  ELSE IF ~MatchString(entry.version, device.version) THEN "continue"
  ELSE "match"

Verdict_CompileFirst(entry, device, found) ==
  IF Bad(entry.model) \/ Bad(entry.version) THEN "error"
  ELSE IF device.vendor # entry.vendor THEN "continue"
  ELSE IF ~MatchString(entry.model, device.model) THEN "continue"
  ELSE IF ~MatchString(entry.version, device.version) THEN "continue"
  ELSE IF found # 0 THEN "error"
  ELSE "match"

\* lookupDeviations: what one round of the loop decides of an entry.
Verdict(entry, device, found) ==
  IF entry.vendor = "" THEN "error"
  ELSE IF device.vendor # entry.vendor THEN "continue"
  ELSE IF Bad(entry.model) THEN "error"
  ELSE IF ~MatchString(entry.model, device.model) THEN "continue"
  ELSE IF Bad(entry.version) THEN "error"
  ELSE IF ~MatchString(entry.version, device.version) THEN "continue"
  ELSE IF found # 0 THEN "error"
  ELSE "match"

lookupDeviations ==
  /\ lookupPc = "lookup" /\ lookupAt <= Len(start.file)
  /\ LET verdict == Verdict(start.file[lookupAt], Device(lookupCall), matched)
     IN /\ lookupPc' = IF verdict = "error" THEN "exited" ELSE "lookup"
        /\ matched' = IF verdict = "match" THEN lookupAt ELSE matched
        /\ lookupAt' = lookupAt + 1
  /\ UNCHANGED <<start, lookupCall, answer>>

\* mustLookupDeviations after the loop, and the accessor's own return.
mustLookupDeviations ==
  /\ lookupPc = "lookup" /\ lookupAt > Len(start.file)
  /\ lookupPc' = "answered"
  /\ answer' = LET deviations == IF matched = 0 THEN << >> ELSE start.file[matched].deviations
               IN Refined(lookupCall, Get(deviations, Field(lookupCall)))
  /\ UNCHANGED <<start, lookupCall, lookupAt, matched>>

LookupNext == (\E accessor \in Accessors : Call(accessor)) \/ lookupDeviations \/ mustLookupDeviations

LookupSpec == LookupInit /\ [][LookupNext]_lookupVars
-----------------------------------------------------------------------------
Flagged == lookupCall \in DOMAIN start.flags

\* The entries that apply to the device, and the ones whose expression the
\* lookup has to compile and cannot, told without the loop.
Mine == {k \in DOMAIN start.file : start.file[k].vendor = Device(lookupCall).vendor}
Applying == {k \in Mine : /\ MatchString(start.file[k].model, Device(lookupCall).model)
                          /\ MatchString(start.file[k].version, Device(lookupCall).version)}
Broken == {k \in Mine : \/ Bad(start.file[k].model)
                        \/ /\ MatchString(start.file[k].model, Device(lookupCall).model)
                           /\ Bad(start.file[k].version)}

\* The answer is the field of the one entry that applies to the device the
\* accessor is given, or what the accessor says of a device without entry: it
\* never comes from one of several entries, from an entry of the other device,
\* or from the lookup of the call before.
AnswersTheOnlyMatch ==
  lookupPc = "answered" /\ ~Flagged =>
    /\ Broken = {} /\ \A j, k \in Applying : j = k
    /\ answer = Refined(lookupCall, IF Applying = {} THEN 0
                              ELSE Get(start.file[CHOOSE k \in Applying : TRUE].deviations, Field(lookupCall)))

\* A test is ended by a lookup only over its own device's entries, and whatever
\* their order: some expression of them does not compile or two of them apply.
\* What is written for another vendor never ends it.
ExitsOverItsOwnEntries ==
  lookupPc = "exited" => Broken # {} \/ \E j, k \in Applying : j # k

\* byexceptions.go: "If a flag value is set, that will take precedence over the
\* metadata value" -- also one set to false, and also where the metadata would
\* end the test.
FlagTakesPrecedence ==
  lookupPc # "idle" /\ Flagged => lookupPc = "answered" /\ answer = start.flags[lookupCall]

\* An accessor answers from the one entry of the metadata that applies to its
\* device, or its flag, and ends the test only over entries of that device.
DeviationsTold == AnswersTheOnlyMatch /\ ExitsOverItsOwnEntries /\ FlagTakesPrecedence
=============================================================================
