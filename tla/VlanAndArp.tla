----------------------------- MODULE VlanAndArp -----------------------------
(***************************************************************************)
(* The interface builders of internal/cfgplugins/interface.go that come    *)
(* after a port is set up: VLANs, access ports, SVIs and VLAN interfaces,  *)
(* static ARP with a magic or a secondary address, the MTU and TCP MSS of  *)
(* bgp.go, uRPF and LACP fallback.  A test makes each call at most once,   *)
(* in any order, on ports of which some have an address already.           *)
(***************************************************************************)
EXTENDS Integers, Sequences, FiniteSets, TLC, SequencesExt

CONSTANTS
  Ports,     \* a sequence of port names
  Devices,   \* [vendor, dev]: vendors and their deviations
  Addressed, \* the ports that have an address when the test starts
  MagicIPs,  \* the magic address of each port, as a sequence
  Tests      \* sets of calls a test makes

VARIABLES kind, test, device, done, failed

vars == <<kind, test, device, done, failed>>
D(deviation) == deviation \in kind.dev
Port == Range(Ports)
Primary == "primary"
Vlans == {10}
NoMtu == [l2 |-> 0, ip4 |-> 0, ip6 |-> 0]

Calling(call) == ~failed /\ call \in test \ done /\ done' = done \union {call} /\ UNCHANGED <<kind, test>>
Fatal == failed' = TRUE /\ UNCHANGED device
Gives(d) == device' = d /\ UNCHANGED failed

-----------------------------------------------------------------------------
\* Mutant: the global VLAN model is never used.
ConfigureVlan_Native(v) ==
  /\ Calling(<<"vlan", v>>)
  /\ Gives([device EXCEPT !.vlans = IF kind.vendor = "ARISTA" THEN @ \union {v} ELSE @])

\* Without deprecated_vlan_id only Arista gets the VLAN; others get a log line.
ConfigureVlan(v) ==
  /\ Calling(<<"vlan", v>>)
  /\ Gives([device EXCEPT !.vlans = IF D("deprecated_vlan_id") \/ kind.vendor = "ARISTA" THEN @ \union {v} ELSE @])

CreateVlanFromOC(v) ==
  /\ Calling(<<"vlanOC", v>>)
  /\ Gives([device EXCEPT !.vlans = @ \union {v}])

\* The subinterfaces are dropped from the object; the tests send it as an
\* update, which adds to what the port has.
ConfigureAccessVlan(p, v) ==
  /\ Calling(<<"access", p>>)
  /\ Gives([device EXCEPT !.access[p] = v])

ConfigureSVI(v) ==
  /\ Calling(<<"svi", v>>)
  /\ Gives([device EXCEPT !.svi = @ \union {v}])

ConfigureVlanInterfaceFromCLI(v) ==
  /\ D("vlan_subinterface_oc_unsupported") /\ Calling(<<"vlanIntf", v>>)
  /\ IF kind.vendor = "ARISTA" THEN Gives([device EXCEPT !.svi = @ \union {v}]) ELSE Fatal

ConfigureVlanInterfaceFromOC(v) ==
  /\ ~D("vlan_subinterface_oc_unsupported") /\ Calling(<<"vlanIntf", v>>)
  /\ Gives([device EXCEPT !.svi = @ \union {v}])

ConfigureLACPFallbackCLI ==
  /\ Calling(<<"fallback", 0>>)
  /\ IF kind.vendor = "ARISTA" THEN Gives([device EXCEPT !.fallback = TRUE]) ELSE Fatal

-----------------------------------------------------------------------------
\* A static ARP entry of subinterface 0, sent as an update of the interface.
configStaticArp(d, p, ip) == [d EXCEPT !.arp[p] = @ \union {ip}]

\* Mutant: the entries are not grouped; each is next hop 0 of its route.
StaticARPWithMagicUniversalIP_Ungrouped ==
  /\ Calling(<<"magic", 0>>)
  /\ Gives(FoldLeft(LAMBDA d, k : [configStaticArp(d, Ports[k], MagicIPs[k])
                      EXCEPT !.routes = (MagicIPs[k] :> (0 :> Ports[k])) @@ @], device, [k \in DOMAIN Ports |-> k]))

\* One static route per magic address, its next hops numbered from 0 in the
\* order of the entries; the groups are visited in any order.
StaticARPWithMagicUniversalIP ==
  LET hops(ip) == SelectSeq([k \in DOMAIN Ports |-> k], LAMBDA k : MagicIPs[k] = ip)
      routes == [ip \in Range(MagicIPs) |-> [i \in 0..(Len(hops(ip)) - 1) |-> Ports[hops(ip)[i + 1]]]]
  IN /\ Calling(<<"magic", 0>>)
     /\ Gives([FoldLeft(LAMBDA d, k : configStaticArp(d, Ports[k], MagicIPs[k]), device, [k \in DOMAIN Ports |-> k])
                 EXCEPT !.routes = routes @@ @])

\* Mutant: the port is replaced by its dummy attributes.
StaticARPWithSecondaryIP_Replace(p) ==
  /\ Calling(<<"secondary", p>>)
  /\ Gives(configStaticArp([device EXCEPT !.addrs[p] = {"dummy"}], p, "otg-dummy"))

\* The dummy address is an update of the port, and so is the ARP entry.
StaticARPWithSecondaryIP(p) ==
  /\ Calling(<<"secondary", p>>)
  /\ Gives(configStaticArp([device EXCEPT !.addrs[p] = @ \union {"dummy"}], p, "otg-dummy"))

-----------------------------------------------------------------------------
\* Mutant: the delete takes the other branch.
AddInterfaceMTUOps_Delete(m, mtu, isDelete) ==
  LET value == IF isDelete THEN 0 ELSE mtu
  IN IF D("omit_l2_mtu") /\ ~isDelete THEN [m EXCEPT !.ip4 = value, !.ip6 = value] ELSE [m EXCEPT !.l2 = value]

AddInterfaceMTUOps(m, mtu, isDelete) ==
  LET value == IF isDelete THEN 0 ELSE mtu
  IN IF D("omit_l2_mtu") THEN [m EXCEPT !.ip4 = value, !.ip6 = value] ELSE [m EXCEPT !.l2 = value]

addBGPNeighborTCPMSSOps(mss, isDelete) ==
  IF kind.vendor = "ARISTA" THEN device.mss ELSE IF isDelete THEN 0 ELSE mss

BGPMaxSegmentSize(d, p, isDelete) ==
  [d EXCEPT !.mtu[p] = AddInterfaceMTUOps(@, 5040, isDelete), !.mss = addBGPNeighborTCPMSSOps(4096, isDelete)]

ConfigureDUTBGPMaxSegmentSize(p) ==
  /\ Calling(<<"mss", p>>)
  /\ Gives(BGPMaxSegmentSize(device, p, FALSE))

DeleteDUTBGPMaxSegmentSize(p) ==
  /\ <<"mss", p>> \in done /\ Calling(<<"nomss", p>>)
  /\ Gives(BGPMaxSegmentSize(device, p, TRUE))

\* URPFConfigOCUnsupported reads this deviation. Arista's command accepts a source
\* that is reachable by any interface.
ConfigureURPFonDutInt(p) ==
  /\ Calling(<<"urpf", p>>)
  /\ IF ~D("interface_policy_forwarding_unsupported") THEN Gives([device EXCEPT !.urpf[p] = "STRICT"])
     ELSE IF kind.vendor = "ARISTA" THEN Gives([device EXCEPT !.urpf[p] = "LOOSE"])
     ELSE Fatal

Init ==
  /\ kind \in Devices /\ test \in Tests /\ done = {} /\ failed = FALSE
  /\ device = [vlans |-> {}, svi |-> {}, fallback |-> FALSE, routes |-> <<>>, mss |-> 0,
               access |-> [p \in Port |-> 0], addrs |-> [p \in Port |-> IF p \in Addressed THEN {Primary} ELSE {}], arp |-> [p \in Port |-> {}],
               mtu |-> [p \in Port |-> NoMtu], urpf |-> [p \in Port |-> "off"]]

Next ==
  \/ \E v \in Vlans : \/ ConfigureVlan(v) \/ CreateVlanFromOC(v) \/ ConfigureSVI(v)
                      \/ ConfigureVlanInterfaceFromCLI(v) \/ ConfigureVlanInterfaceFromOC(v)
                      \/ \E p \in Port : ConfigureAccessVlan(p, v)
  \/ ConfigureLACPFallbackCLI
  \/ StaticARPWithMagicUniversalIP
  \/ \E p \in Port : \/ StaticARPWithSecondaryIP(p) \/ ConfigureURPFonDutInt(p)
                     \/ ConfigureDUTBGPMaxSegmentSize(p) \/ DeleteDUTBGPMaxSegmentSize(p)

Spec == Init /\ [][Next]_vars

-----------------------------------------------------------------------------
Complete == ~failed /\ done = test

\* A test that ends has its access ports in a VLAN that exists and is routed by
\* an interface with addresses.
AccessPortsConnected ==
  Complete => \A p \in Port : device.access[p] # 0 =>
    device.access[p] \in device.vlans /\ device.access[p] \in device.svi

\* A next hop given by gRIBI through the magic address resolves: the route for
\* the address leads out of every port that was listed for it, and each of these
\* ports has the ARP entry.
MagicHopsResolve ==
  <<"magic", 0>> \in done => \A k \in DOMAIN Ports : LET ip == MagicIPs[k] IN
    /\ \E i \in DOMAIN device.routes[ip] : device.routes[ip][i] = Ports[k]
    /\ ip \in device.arp[Ports[k]]
    /\ \A i \in DOMAIN device.routes[ip] : ip \in device.arp[device.routes[ip][i]]

\* The addresses a port already had survive the secondary address.
AddressStep == \A p \in Port : device.addrs[p] \subseteq device'.addrs[p]

\* DeleteDUTBGPMaxSegmentSize leaves nothing of what
\* ConfigureDUTBGPMaxSegmentSize set, whichever leaves the device takes.
MaxSegmentSizeUndone ==
  Complete => \A p \in Port : <<"nomss", p>> \in done => device.mtu[p] = NoMtu /\ device.mss = 0
=============================================================================
