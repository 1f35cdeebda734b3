------------------------------ MODULE ScaleTables ------------------------------
(***************************************************************************)
(* RunFullScaleTest of internal/cfgplugins/gribifullscale.go: the gRIBI    *)
(* entries of the default, static, repair, transit, encap and decap        *)
(* tables, built in order and pushed in batches, and the traffic tests     *)
(* that follow, in which the subinterfaces of the primary next hops are    *)
(* shut down and packets have to take the repair path.                     *)
(***************************************************************************)
EXTENDS Integers, Sequences, FiniteSetsExt

CONSTANTS
  VLANs, DefaultNHs, DefaultNHGs, DefaultIPs, TransitNHs, TransitNHGs, TransitIPs,
  RepairIPs, RepairNHGs, EncapVRFs, EncapNHs, EncapNHGs, Widths,  \* sets of values of ScaleParams
  Multi,      \* whether a repair group may have two tunnels (every vendor but one)
  BatchSize   \* GRIBIBatchSize

\* validateScaleParams
validateScaleParams(p) ==
  /\ p.vrfs > 0 /\ p.enhg >= p.vrfs /\ p.vlans > 0
  /\ ~(p.enh > 0 /\ p.tip = 0)

Params ==
  {p \in [vlans : VLANs, nh : DefaultNHs, nhg : DefaultNHGs, ip : DefaultIPs,
          tnh : TransitNHs, tnhg : TransitNHGs, tip : TransitIPs,
          rip : RepairIPs, rnhg : RepairNHGs,
          vrfs : EncapVRFs, enh : EncapNHs, enhg : EncapNHGs, width : Widths] :
     validateScaleParams(p)}

VARIABLES
  p,        \* the parameters of the test
  stage,    \* what RunFullScaleTest is doing
  todo,     \* entries of the current builder that are not pushed yet
  failed,   \* the programming subtest was stopped or the binary panicked
  nh, nhg, route,   \* what the device has
  down      \* subinterfaces that are shut down
vars == <<p, stage, todo, failed, nh, nhg, route, down>>

None == <<"none", 0>>
S1 == <<"s", 1>>
S2 == <<"s", 2>>
Fallback == <<"f", 0>>
Decap == <<"x", 0>>
Half(n) == Max({n \div 2, 1})
Tabulate(n, F(_)) == [i \in 1 .. n |-> F(i - 1)]
NH(id, to) == [t |-> "nh", id |-> id, to |-> to]
NHG(id, nhs, backup) == [t |-> "nhg", id |-> id, nhs |-> nhs, backup |-> backup]
Route(vrf, v, dst, group) ==   \* v is the number of an encap VRF, dst -1 its default route
  [t |-> "route", id |-> <<vrf, v, dst>>, nhg |-> group]

\* The next hops of the i-th of the groups over n next hops: nhOffset moves on by
\* the size of each group, which the bucket iterator bounds by n.
Members(i, n) == LET w == Min({p.width, n}) IN {((i * w) + j) % n : j \in 0 .. w - 1}

-----------------------------------------------------------------------------
Primary == Max({(p.vlans * 50) \div 100, 1})
Backup == p.vlans - Primary
\* prefixHosts: the last part wraps around when there are too few prefixes.
BackupPrefix(i) == IF Half(p.ip) + i >= p.ip THEN i % p.ip ELSE Half(p.ip) + i

\* Mutant: groups are pushed before their next hops.
BuildDefaultVRF_GroupsFirst ==
  LET n == Half(p.nh) g == Half(p.nhg) k == Half(p.ip) IN
  Tabulate(g, LAMBDA i : NHG(<<"d", i>>, {<<"d", m>> : m \in Members(i, n)}, None))
  \o Tabulate(n, LAMBDA i : NH(<<"d", i>>, [kind |-> "vlan", vlan |-> 1 + (i % Primary)]))

\* BuildDefaultVRF: the first half of next hops, groups and prefixes leads to the
\* first VLANs, the second half to the others.
BuildDefaultVRF ==
  LET n == Half(p.nh) g == Half(p.nhg) k == Half(p.ip)
      Second(i) == IF Backup > 0 THEN Primary + (i % Backup) ELSE i % Primary
  IN Tabulate(n, LAMBDA i : NH(<<"d", i>>, [kind |-> "vlan", vlan |-> 1 + (i % Primary)]))
     \o Tabulate(n, LAMBDA i : NH(<<"d", n + i>>, [kind |-> "vlan", vlan |-> 1 + Second(i)]))
     \o Tabulate(g, LAMBDA i : NHG(<<"d", i>>, {<<"d", m>> : m \in Members(i, n)}, None))
     \o Tabulate(g, LAMBDA i : NHG(<<"d", g + i>>, {<<"d", n + m>> : m \in Members(i, n)}, None))
     \o Tabulate(k, LAMBDA i : Route("DEFAULT", 0, i, <<"d", i % g>>))
     \o Tabulate(k, LAMBDA i : Route("DEFAULT", 0, BackupPrefix(i), <<"d", g + (i % g)>>))

\* BuildStaticGroups
BuildStaticGroups ==
  << NH(S1, [kind |-> "vrf", vrf |-> "REPAIR_VRF"]), NHG(S1, {S1}, None),
     NH(S2, [kind |-> "decap", vrf |-> "DEFAULT"]), NHG(S2, {S2}, None) >>

\* Mutant: the tunnels of the repair path are those of the failed one.
BuildRepairVRF_SameTunnels ==
  LET One(i) == << NH(<<"r", i>>, [kind |-> "tunnel", src |-> "222", vrf |-> "TE_VRF_111", dst |-> i]),
                   NHG(<<"r", i>>, {<<"r", i>>}, S2) >>
      B[i \in 0 .. p.rnhg] == IF i = 0 THEN <<>> ELSE B[i - 1] \o One(i - 1)
  IN B[p.rnhg] \o Tabulate(p.rip, LAMBDA i : Route("REPAIR_VRF", 0, i, <<"r", i % p.rnhg>>))

\* BuildRepairVRF: the groups of the first half have one tunnel, the others two.
BuildRepairVRF ==
  LET two(i) == Multi /\ i >= p.rnhg \div 2
      first(i) == i + Cardinality({j \in 0 .. i - 1 : two(j)})   \* nhIdx
      Tunnel(i) == NH(<<"r", i>>, [kind |-> "tunnel", src |-> "222", vrf |-> "TE_VRF_222", dst |-> i])
      Group(i) ==
        IF two(i)
        THEN << Tunnel(first(i)), Tunnel(first(i) + 1),
                NHG(<<"r", i>>, {<<"r", first(i)>>, <<"r", first(i) + 1>>}, S2) >>
        ELSE << Tunnel(first(i)), NHG(<<"r", i>>, {<<"r", first(i)>>}, S2) >>
      B[i \in 0 .. p.rnhg] == IF i = 0 THEN <<>> ELSE B[i - 1] \o Group(i - 1)
  IN B[p.rnhg] \o Tabulate(p.rip, LAMBDA i : Route("REPAIR_VRF", 0, i, <<"r", i % p.rnhg>>))

\* buildTransitVRF
TransitVRF(vrf, prefix, firstNH, nhCount, firstNHG, nhgCount, backup) ==
  IF nhCount = 0 \/ nhgCount = 0 THEN <<>>
  ELSE Tabulate(nhCount, LAMBDA k : NH(<<"t", firstNH + k>>, [kind |-> "ip", dst |-> prefix[k % Half(p.ip)]]))
       \o Tabulate(nhgCount, LAMBDA i : NHG(<<"t", firstNHG + i>>,
            {<<"t", firstNH + m>> : m \in Members(i, nhCount)}, backup))
       \o Tabulate(p.tip, LAMBDA i : Route(vrf, 0, i, <<"t", firstNHG + (i % nhgCount)>>))

\* BuildTransitVRFs
BuildTransitVRFs ==
  LET n == Half(p.tnh) g == Half(p.tnhg) ks == 0 .. Half(p.ip) IN
  TransitVRF("TE_VRF_111", [k \in ks |-> k], 0, n, 0, g, S1)
  \o TransitVRF("TE_VRF_222", [k \in ks |-> BackupPrefix(k)], n, Max({p.tnh - n, 0}), g, Max({p.tnhg - g, 0}), S2)

\* BuildEncapDecapVRFs: the last VRF gets the groups that division leaves over.
\* One entry stands for the IPv4 and IPv6 entries of a VRF that share a group.
BuildEncapDecapVRFs ==
  LET tunnels == Min({p.enh, p.tip})
      per == p.enhg \div p.vrfs
      size(v) == IF v = p.vrfs - 1 THEN p.enhg - v * per ELSE per
      VRF(v) ==
        Tabulate(size(v), LAMBDA i : NHG(<<"e", (v * per) + i>>,
          IF p.enh = 0 THEN {} ELSE {<<"e", m>> : m \in Members((v * per) + i, p.enh)}, None))
        \o Tabulate(size(v), LAMBDA i : Route("ENCAP", v, i, <<"e", (v * per) + i>>))
        \o << Route("ENCAP", v, -1, Fallback) >>
      B[v \in 0 .. p.vrfs] == IF v = 0 THEN <<>> ELSE B[v - 1] \o VRF(v - 1)
  IN << NH(Fallback, [kind |-> "vrf", vrf |-> "DEFAULT"]) >>
     \o Tabulate(p.enh, LAMBDA i :
          NH(<<"e", i>>, [kind |-> "tunnel", src |-> "111", vrf |-> "TE_VRF_111", dst |-> i % tunnels]))
     \o << NHG(Fallback, {Fallback}, None) >> \o B[p.vrfs]
     \o << NH(Decap, [kind |-> "decap", vrf |-> "DEFAULT"]), NHG(Decap, {Decap}, None),
           Route("DECAP_TE_VRF", 0, 0, Decap) >>

\* An index out of range or a division by zero in a builder.
Panics(s) ==
  CASE s = "default" -> p.ip = 0
    [] s = "repair" -> p.rip = 0 \/ p.rnhg = 0
    [] s = "transit" -> p.tip = 0
    [] OTHER -> FALSE

Stages == <<"default", "static", "repair", "transit", "encap">>
Entries(s) ==
  CASE s = "default" -> BuildDefaultVRF
    [] s = "static" -> BuildStaticGroups
    [] s = "repair" -> BuildRepairVRF
    [] s = "transit" -> BuildTransitVRFs
    [] s = "encap" -> BuildEncapDecapVRFs

-----------------------------------------------------------------------------
Init ==
  /\ p \in Params
  /\ stage = <<"build", 1>> /\ todo = <<>> /\ failed = FALSE
  /\ nh = <<>> /\ nhg = <<>> /\ route = <<>> /\ down = {}

\* A builder computes its entries.
Build ==
  /\ stage[1] = "build"
  /\ LET s == Stages[stage[2]] IN
     IF Panics(s)
     THEN /\ stage' = <<"cleanup", 0>> /\ failed' = TRUE /\ UNCHANGED todo
     ELSE /\ todo' = Entries(s) /\ stage' = <<"push", stage[2]>> /\ UNCHANGED failed
  /\ UNCHANGED <<p, nh, nhg, route, down>>

\* The device installs a sequence of entries, in order.
Of(es, kind) == {i \in 1 .. Len(es) : es[i].t = kind}
Last(es, kind, id) == es[Max({i \in Of(es, kind) : es[i].id = id})]
Install(es) ==
  LET Put(f, kind) ==
        LET new == {es[i].id : i \in Of(es, kind)} IN
        [id \in DOMAIN f \cup new |-> IF id \in new THEN Last(es, kind, id) ELSE f[id]]
  IN nh' = Put(nh, "nh") /\ nhg' = Put(nhg, "nhg") /\ route' = Put(route, "route")

\* BatchModify: one batch is added and acknowledged; after the last one the
\* builder returns.
BatchModify ==
  /\ stage[1] = "push"
  /\ LET k == Min({BatchSize, Len(todo)}) IN
     /\ Install(SubSeq(todo, 1, k))
     /\ todo' = SubSeq(todo, k + 1, Len(todo))
  /\ stage' = IF todo' # <<>> THEN stage
              ELSE IF stage[2] < Len(Stages) THEN <<"build", stage[2] + 1>> ELSE <<"traffic", 1>>
  /\ UNCHANGED <<p, failed, down>>

\* AwaitTimeout: the device acknowledged only a part of the batch, and the subtest
\* stops.  The traffic tests run all the same.
BatchTimeout ==
  /\ stage[1] = "push"
  /\ \E k \in 0 .. Min({BatchSize, Len(todo)}) - 1 : Install(SubSeq(todo, 1, k))
  /\ todo' = <<>> /\ failed' = TRUE /\ stage' = <<"traffic", 1>>
  /\ UNCHANGED <<p, down>>

\* RunEndToEndTrafficValidation: test cases 3 and 4 shut the first subinterfaces.
Traffic ==
  /\ stage[1] = "traffic"
  /\ stage' = <<"running", stage[2]>>
  /\ down' = IF stage[2] > 2 THEN 1 .. Primary ELSE {}
  /\ UNCHANGED <<p, todo, failed, nh, nhg, route>>

\* Mutant: the subinterfaces are enabled only by a test that ran to its end.
TrafficEnd_NoDefer ==
  /\ stage[1] = "running"
  /\ down' \in {{}, down}
  /\ stage' = IF stage[2] < 4 THEN <<"traffic", stage[2] + 1>> ELSE <<"cleanup", 0>>
  /\ UNCHANGED <<p, todo, failed, nh, nhg, route>>

\* The deferred call enables them, whether the test ended or was stopped.
TrafficEnd ==
  /\ stage[1] = "running"
  /\ down' = {}
  /\ stage' = IF stage[2] < 4 THEN <<"traffic", stage[2] + 1>> ELSE <<"cleanup", 0>>
  /\ UNCHANGED <<p, todo, failed, nh, nhg, route>>

\* t.Cleanup: FlushAll, after a panic too.
Cleanup ==
  /\ stage[1] = "cleanup"
  /\ nh' = <<>> /\ nhg' = <<>> /\ route' = <<>>
  /\ stage' = <<"done", 0>> /\ UNCHANGED <<p, todo, failed, down>>

Next == Build \/ BatchModify \/ BatchTimeout \/ Traffic \/ TrafficEnd \/ Cleanup
Spec == Init /\ [][Next]_vars

-----------------------------------------------------------------------------
\* Forwarding, as the device does it: a group carries packets while one of its
\* next hops resolves, and otherwise its backup does.
Up(n) == nh[n].to.vlan \notin down
VlansOf(dst) ==   \* subinterfaces of a prefix of the default instance
  IF <<"DEFAULT", 0, dst>> \notin DOMAIN route THEN {}
  ELSE {nh[n].to.vlan : n \in {m \in nhg[route[<<"DEFAULT", 0, dst>>].nhg].nhs : Up(m)}}
MembersOf(vrf, dst) ==
  IF <<vrf, 0, dst>> \notin DOMAIN route THEN {} ELSE nhg[route[<<vrf, 0, dst>>].nhg].nhs
Resolves(vrf, dst) == \E n \in MembersOf(vrf, dst) : VlansOf(nh[n].to.dst) # {}
AllResolve(vrf, dst) ==
  /\ MembersOf(vrf, dst) # {}
  /\ \A n \in MembersOf(vrf, dst) : VlansOf(nh[n].to.dst) # {}
\* The outer sources with which packets for a prefix of TE_VRF_111 may leave, and
\* "lost" when a member of the group that carries them leads nowhere.
Outcome(dst) ==
  IF Resolves("TE_VRF_111", dst) THEN {"111"}
  ELSE LET S == MembersOf("REPAIR_VRF", dst) IN
       IF S = {} THEN {"lost"}
       ELSE {IF AllResolve(nh[n].to.vrf, nh[n].to.dst) THEN nh[n].to.src ELSE "lost" : n \in S}

\* What the parameters of the tests have in common.
Usual ==
  /\ p.vlans >= 2 /\ p.ip >= 2 /\ p.nh >= 2 /\ p.nhg >= 2 /\ p.tnh >= 2 /\ p.tnhg >= 2
  /\ p.rip = p.tip
Tunnels == {nh[n].to.dst : n \in {m \in DOMAIN nh : nh[m].to.kind = "tunnel" /\ nh[m].to.src = "222"}}

\* Whatever was pushed when, and wherever the programming stopped, no entry refers
\* to a next hop or a group that the device does not have.
ReferencesExist ==
  /\ \A g \in DOMAIN nhg : nhg[g].nhs \subseteq DOMAIN nh /\ nhg[g].backup \in DOMAIN nhg \cup {None}
  /\ \A r \in DOMAIN route : route[r].nhg \in DOMAIN nhg

\* The flows of the traffic tests: transit packets leave with the outer source the
\* test expects, 111 while the primary subinterfaces are up and 222 when they are
\* shut down, and none is lost; encapsulated packets reach a tunnel that resolves.
\* Asked of parameters with enough tunnel destinations in TE_VRF_222.
ForwardedAsExpected ==
  stage[1] = "running" /\ ~failed /\ Usual /\ (\A d \in Tunnels : d < p.tip) =>
    /\ \A d \in 0 .. p.tip - 1 : Outcome(d) = {IF stage[2] > 2 THEN "222" ELSE "111"}
    /\ \A r \in DOMAIN route : r[1] = "ENCAP" /\ r[3] >= 0 =>
         \A n \in nhg[route[r].nhg].nhs : Outcome(nh[n].to.dst) # {"lost"}

\* When the test is over the device has no entry and every subinterface is
\* enabled, whichever step was stopped or panicked.
LeftAsFound == stage[1] = "done" => down = {} /\ nh = <<>> /\ nhg = <<>> /\ route = <<>>

-----------------------------------------------------------------------------
(***************************************************************************)
(* NHGBucketIterator: the number of next hops and the weights of each      *)
(* next-hop group, in the order in which the groups are created.           *)
(***************************************************************************)
CONSTANTS
  MaxNHG,          \* most groups of a VRF
  Pcts,            \* percentages of a bucket
  NextHops,        \* next hops of a load-balancing bucket
  Granularities,   \* weight granularities; 0 stands for ECMP
  MaxNHs           \* next hops there are

Lists(S) == UNION {[1 .. k -> [pct : Pcts, val : S]] : k \in 0 .. 3}
Total(s) == LET T[i \in 0 .. Len(s)] == IF i = 0 THEN 0 ELSE T[i - 1] + s[i] IN T[Len(s)]
Percentages(c) == [i \in DOMAIN c |-> c[i].pct]

\* What RunFullScaleTest lets through.
validateNHGLoadBalance(c) ==
  /\ c # <<>> /\ \A i \in DOMAIN c : c[i].pct >= 0 /\ c[i].val > 0
  /\ Total(Percentages(c)) = 100

\* A granularity of 0 is refused for WCMP, and stands for ECMP.
validateNHGWeight(c) ==
  /\ c # <<>> /\ \A i \in DOMAIN c : c[i].pct >= 0
  /\ Total(Percentages(c)) = 100

VARIABLES
  numNHG, lb, weight, maxNHs,    \* the arguments of NewNHGBucketIterator
  lbIdx, lbCreated, weightIdx, weightCreated,
  groups                         \* what Next returned so far
args == <<numNHG, lb, weight, maxNHs>>

\* Mutant: the groups that rounding leaves over are not handed out.
partitionNHG_NoRemainder(n, req) == [i \in 1 .. Len(req) |-> (n * req[i].pct) \div 100]

\* partitionNHG: what rounding leaves over goes to the last bucket.
partitionNHG(n, req) ==
  LET count == [i \in 1 .. Len(req) |-> (n * req[i].pct) \div 100]
  IN [count EXCEPT ![Len(req)] = @ + (n - Total(count))]

\* Mutant: the shifted unit is taken and not given.
computeNHGWeights_Lost(g, n) ==
  LET base == IF n = 0 THEN 0 ELSE g \div n
      even == [i \in 1 .. n |-> IF i = n THEN base + (g % n) ELSE base]
  IN IF n > 1 /\ base > 1 /\ g % n = 0 THEN [even EXCEPT ![n - 1] = @ - 1] ELSE even

\* Mutant: no unit is shifted.
computeNHGWeights_Even(g, n) ==
  LET base == IF n = 0 THEN 0 ELSE g \div n
  IN [i \in 1 .. n |-> IF i = n THEN base + (g % n) ELSE base]

\* computeNHGWeights: the remainder goes to the last next hop; when all weights
\* are equal, and above 1, one unit moves from the one before it to the last.
computeNHGWeights(g, n) ==
  LET base == IF n = 0 THEN 0 ELSE g \div n
      even == [i \in 1 .. n |-> IF i = n THEN base + (g % n) ELSE base]
  IN IF n > 1 /\ base > 1 /\ g % n = 0
     THEN [even EXCEPT ![n - 1] = @ - 1, ![n] = @ + 1] ELSE even

NewNHGBucketIterator ==
  /\ numNHG \in 1 .. MaxNHG
  /\ lb \in {c \in Lists(NextHops) : validateNHGLoadBalance(c)}
  /\ weight \in {c \in Lists(Granularities) : validateNHGWeight(c)}
  /\ maxNHs \in MaxNHs
  /\ lbIdx = 1 /\ lbCreated = 0 /\ weightIdx = 1 /\ weightCreated = 0
  /\ groups = <<>>

\* Mutant: the next hops there are do not limit the group.
actualNHCount_Target(target, available) == target
actualNHCount(target, available) == Min({target, available})

\* At most one bucket is left behind per call.
NextBucket(buckets, i, created) == i < Len(buckets) /\ created >= buckets[i]

NextGroup ==
  /\ Len(groups) < numNHG
  /\ LET l == NextBucket(partitionNHG(numNHG, lb), lbIdx, lbCreated)
         w == NextBucket(partitionNHG(numNHG, weight), weightIdx, weightCreated)
     IN /\ lbIdx' = IF l THEN lbIdx + 1 ELSE lbIdx
        /\ lbCreated' = IF l THEN 1 ELSE lbCreated + 1
        /\ weightIdx' = IF w THEN weightIdx + 1 ELSE weightIdx
        /\ weightCreated' = IF w THEN 1 ELSE weightCreated + 1
  /\ LET actual == actualNHCount(lb[lbIdx'].val, maxNHs)
         g == weight[weightIdx'].val
     IN groups' = Append(groups,
          IF g = 0 THEN [i \in 1 .. actual |-> 1] ELSE computeNHGWeights(g, actual))
  /\ UNCHANGED args

-----------------------------------------------------------------------------
\* The bucket of the i-th group when the buckets are filled one after the other.
BucketOf(counts, i) == Min({b \in 1 .. Len(counts) : Total(SubSeq(counts, 1, b)) >= i})
Granularity(i) == weight[BucketOf(partitionNHG(numNHG, weight), i)].val
Width(i) == Min({lb[BucketOf(partitionNHG(numNHG, lb), i)].val, maxNHs})

NoEmptyBucket ==
  \A c \in {partitionNHG(numNHG, lb), partitionNHG(numNHG, weight)} :
    \A b \in 1 .. Len(c) : c[b] > 0

\* Every group has the number of next hops that its percentage asks for, at most
\* what there is, and the percentages cover all groups; asked of parameters that
\* leave no bucket empty.
FollowsBuckets ==
  NoEmptyBucket => \A i \in 1 .. Len(groups) : Len(groups[i]) = Width(i)

\* The weights of a group add up to the granularity of its weight bucket, however
\* the division leaves over.
WeightsAddUp ==
  NoEmptyBucket =>
    \A i \in 1 .. Len(groups) :
      Granularity(i) > 0 /\ Len(groups[i]) > 0 => Total(groups[i]) = Granularity(i)

\* A weighted group whose weights could all be equal, and above 1, has two weights
\* that differ, so that the device cannot program it as ECMP.
WcmpIsUneven ==
  NoEmptyBucket =>
    \A i \in 1 .. Len(groups) :
      LET n == Len(groups[i]) IN
      Granularity(i) > 0 /\ n > 1 /\ Granularity(i) >= 2 * n =>
        \E j, k \in 1 .. n : groups[i][j] # groups[i][k]
=============================================================================
