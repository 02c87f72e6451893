---------------------------- MODULE RtlSwconfig ----------------------------
(***************************************************************************)
(* The two users of the switch's VLAN tables in the kernel module: at      *)
(* probe, rtl8367s_vlan_config (rtl8367s_mdio.c) partitions a board whose  *)
(* device tree has a port map into LAN and WAN; on the other boards the    *)
(* swconfig handlers of rtl8367s.c let user space do it.  Both make their  *)
(* API calls one by one on the tables of RtkVlan, and both ignore what the *)
(* API returns: its error codes are positive, the handlers test for        *)
(* negative ones, and the probe tests nothing.                             *)
(***************************************************************************)
EXTENDS RtkVlan, Sequences, Functions

CONSTANTS
    Ext0, Ext1,     \* EXT_PORT0 and EXT_PORT1, the two CPU ports
    Utp0, Utp4,     \* UTP_PORT0 and UTP_PORT4: one of them is the WAN port
    LanPorts,       \* UTP_PORT1 to UTP_PORT3, in order
    UserPorts,      \* the ports user space configures
    PortLists       \* the lists of them it gives a VLAN

ASSUME SwAssumption ==
    /\ VIDMAX >= 2
    /\ {Ext0, Ext1, Utp0, Utp4} \subseteq Ports /\ LanPorts \in Seq(Ports)
    /\ UserPorts \subseteq Ports /\ PortLists \subseteq Seq(UserPorts)

VARIABLES
    todo,           \* the API calls the probe or the handler has yet to make
    wan,            \* the WAN ports of the port map; {} under swconfig
    job             \* history: the VLAN and the ports of the last handler, the
                    \* PVIDs it found, and the ports whose PVID call failed

swVars == <<vlan4k, mc, usage, mcVid, pvid, group, ppb, want, raw, todo, wan, job>>

Set(v, m) == [op |-> "set", vid |-> v, mbr |-> m]
Pvid(p, v) == [op |-> "pvid", vid |-> v, port |-> p]
PvidIfNone(p, v) == [op |-> "pvid_if_none", vid |-> v, port |-> p]

WanPorts(want_at_p0) == {Ext1, IF want_at_p0 THEN Utp0 ELSE Utp4}

(* Mutant: the whole board stays in VLAN 1, the WAN ports join VLAN 2. *)
VlanConfigOverlaps(want_at_p0) ==
    LET w == WanPorts(want_at_p0) IN
    <<Set(1, Ports), Set(2, w), Pvid(Ext0, 1)>>
    \o [i \in DOMAIN LanPorts |-> Pvid(LanPorts[i], 1)]
    \o <<Pvid(Ext1, 2),
         Pvid(Utp0, IF want_at_p0 THEN 2 ELSE 1),
         Pvid(Utp4, IF want_at_p0 THEN 1 ELSE 2)>>

(* rtl8367s_vlan_config *)
VlanConfig(want_at_p0) ==
    LET w == WanPorts(want_at_p0) IN
    <<Set(1, Ports \ w), Set(2, w), Pvid(Ext0, 1)>>
    \o [i \in DOMAIN LanPorts |-> Pvid(LanPorts[i], 1)]
    \o <<Pvid(Ext1, 2),
         Pvid(Utp0, IF want_at_p0 THEN 2 ELSE 1),
         Pvid(Utp4, IF want_at_p0 THEN 1 ELSE 2)>>

-----------------------------------------------------------------------------
(* The calls, one step each. *)
CallSet ==
    /\ todo # <<>> /\ Head(todo).op = "set"
    /\ VlanSet(Head(todo).vid, Head(todo).mbr)
    /\ todo' = Tail(todo) /\ UNCHANGED <<wan, job>>

(* rtl8367c_get_pvid: the id in the slot the port points at. *)
GetPvid(p) == mc[pvid[p]].evid

(* Mutant: the handler gives its VLAN to every port it lists. *)
NeededAlways(call) == TRUE

(* rtl8367_sw_set_vlan_ports gives the VLAN as PVID to a port whose PVID   *)
(* reads as 0; the probe gives it unasked.                                 *)
Needed(call) ==
    \/ call.op = "pvid"
    \/ call.op = "pvid_if_none" /\ GetPvid(call.port) = 0

CallPvid ==
    /\ todo # <<>> /\ Head(todo).op # "set" /\ Needed(Head(todo))
    /\ PvidSet(Head(todo).port, Head(todo).vid)
    /\ todo' = Tail(todo) /\ UNCHANGED <<wan, job>>

CallPvidSkipped ==
    /\ todo # <<>> /\ Head(todo).op # "set" /\ ~Needed(Head(todo))
    /\ todo' = Tail(todo) /\ UNCHANGED <<vars, wan, job>>

(* The table is full, or the read of the 4k entry timed out. *)
CallPvidFails ==
    /\ todo # <<>> /\ Head(todo).op # "set" /\ Needed(Head(todo))
    /\ PvidFull(Head(todo).vid) \/ UNCHANGED vars
    /\ job' = [job EXCEPT !.failed = @ \cup {Head(todo).port}]
    /\ todo' = Tail(todo) /\ wan' = wan

-----------------------------------------------------------------------------
(* The swconfig handlers; swconfig's lock keeps one out while another      *)
(* still has calls to make.                                                *)
NoJob == [vid |-> 0, ports |-> {}, failed |-> {}, old |-> [p \in Ports |-> 0]]

Swconfig == wan = {} /\ todo = <<>> /\ wan' = wan

SetVlanPorts(v, ports) ==
    /\ Swconfig
    /\ todo' = [i \in DOMAIN ports |-> PvidIfNone(ports[i], v)]
               \o <<Set(v, Range(ports))>>
    /\ job' = [vid |-> v, ports |-> Range(ports), failed |-> {},
               old |-> [p \in Ports |-> GetPvid(p)]]
    /\ UNCHANGED vars

SetPortPvid(p, v) ==
    /\ Swconfig
    /\ PvidSet(p, v) \/ PvidFull(v)
    /\ job' = NoJob /\ todo' = todo

(* init_gsw *)
ResetSwitch(pin) ==
    /\ Swconfig
    /\ VlanInit(TRUE, pin)
    /\ job' = NoJob /\ todo' = todo

(* rtk_gsw_probe, after init_gsw. *)
SwInit ==
    /\ Init
    /\ job = NoJob
    /\ \/ wan = {} /\ todo = <<>>
       \/ \E want_at_p0 \in BOOLEAN :
             wan = WanPorts(want_at_p0) /\ todo = VlanConfig(want_at_p0)

SwNext ==
    \/ CallSet \/ CallPvid \/ CallPvidSkipped \/ CallPvidFails
    \/ \E v \in Vids \ {0}, ports \in PortLists : SetVlanPorts(v, ports)
    \/ \E p \in UserPorts, v \in EVids : SetPortPvid(p, v)
    \/ \E pin \in BOOLEAN : ResetSwitch(pin)

SwSpec == SwInit /\ [][SwNext]_swVars

-----------------------------------------------------------------------------
(* A port-mapped board keeps LAN and WAN apart once it is configured: the  *)
(* slot a port's untagged frames are classified to either has no port of   *)
(* the other side, or does not have the port itself, whose frames the      *)
(* ingress filter then drops.  So it is even when PVID calls have timed    *)
(* out unnoticed (rtl8367s_mdio.c 89-148).                                 *)
LanWanApart ==
    wan # {} /\ todo = <<>> =>
        \A p \in Ports :
            LET m == mc[pvid[p]].mbr
            IN  p \in m => \A q \in m : q \in wan <=> p \in wan

(* What rtl8367_sw_set_vlan_ports (rtl8367s.c 397-434) makes of untagged   *)
(* frames when all its calls are made, whichever of its PVID calls failed: *)
(* ports of another VLAN stay where they were and ports of this one, which *)
(* it has not emptied, stay in it; a listed port without a PVID now has    *)
(* this one, unless its call failed; no port without a PVID is in some     *)
(* third VLAN.  A VLAN whose ports have PVIDs thus gets no slot, although  *)
(* the comment at 417-420 means "to ensure that we have a valid MC entry   *)
(* for this VLAN".                                                         *)
HandlerClassifies ==
    todo = <<>> /\ job.vid # 0 =>
        \A p \in Ports :
            /\ job.old[p] \notin {0, job.vid} => GetPvid(p) = job.old[p]
            /\ job.old[p] = job.vid /\ job.ports # {} => GetPvid(p) = job.vid
            /\ job.old[p] = 0 => GetPvid(p) \in {0, job.vid}
            /\ p \in job.ports \ job.failed => GetPvid(p) # 0
=============================================================================
