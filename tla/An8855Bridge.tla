---------------------------- MODULE An8855Bridge ----------------------------
(***************************************************************************)
(* The DSA driver of the AN8855 switch (an8855.c): the operations the DSA  *)
(* core calls under the rtnl lock to bridge ports, filter VLANs, mirror    *)
(* ports and set the ageing time.  One action is one call of the core.     *)
(*                                                                         *)
(* Of the registers the model keeps the user bits of the port matrix, the  *)
(* VLAN table, and of each port the forwarding mode, the accepted frames   *)
(* and the PVID.  The egress tag mode and the VLAN attribute of a port are *)
(* written together with its mode and left out.  A command of the VLAN     *)
(* table may time out; other register accesses succeed.                    *)
(***************************************************************************)
EXTENDS Naturals

CONSTANTS
    Ports,          \* the user ports
    Cpu,            \* AN8855_CPU_PORT
    Bridges,        \* the bridge devices
    NoBridge,       \* no bridge device
    Vids,           \* the VLANs of the bridges
    DefaultVid,     \* AN8855_PORT_VID_DEFAULT
    Ages,           \* the ageing times asked for, in AN8855_L2_AGING_MS_CONSTANT
    AgeCntMax,      \* FIELD_MAX(AN8855_AGE_CNT)
    AgeUnitMax      \* FIELD_MAX(AN8855_AGE_UNIT)

ASSUME BridgeAssumption ==
    /\ Ports # {} /\ Cpu \notin Ports
    /\ NoBridge \notin Bridges /\ DefaultVid \notin Vids
    /\ AgeCntMax \in Nat \ {0} /\ AgeUnitMax \in Nat /\ AgeCntMax < AgeUnitMax
    /\ Ages \subseteq 1..(AgeCntMax * AgeUnitMax)

VARIABLES
    bridge,         \* the bridge each port is in (dp->bridge)
    filtering,      \* dp->vlan_filtering
    isolated,       \* priv->port_isolated_map
    matrix,         \* AN8855_PORTMATRIX: the user ports a port forwards to
    mode,           \* AN8855_PORT_VLAN of the ports and the CPU port
    acc,            \* AN8855_ACC_FRM
    pvid,           \* AN8855_G0_PORT_VID
    vtable,         \* the VLAN table
    mirrored,       \* priv->mirror_rx, priv->mirror_tx
    mirBits,        \* AN8855_PORT_RX_MIR, AN8855_PORT_TX_MIR
    mir,            \* AN8855_MIR
    aac,            \* AN8855_AAC
    left,           \* history: the ports that have left a bridge for none
    asked,          \* history: the members the core has given each VLAN
    doubt,          \* history: memberships whose last command timed out
    target,         \* history: where each mirror rule sends its frames
    age             \* history: the ageing time asked for last

portVars == <<bridge, isolated, matrix, left>>
filterVars == <<filtering, mode, acc, pvid>>
vlanVars == <<vtable, asked, doubt>>
mirrorVars == <<mirrored, mirBits, mir, target>>
ageVars == <<aac, age>>
brVars == <<portVars, filterVars, vlanVars, mirrorVars, ageVars>>

AllPorts == Ports \cup {Cpu}
Modes == {"matrix", "fallback", "security"}
Tags == {"untag", "tag", "stack"}
Directions == {"rx", "tx"}
Entry == [valid : BOOLEAN, members : SUBSET AllPorts, etag : [AllPorts -> Tags]]
NoEntry == [valid |-> FALSE, members |-> {}, etag |-> [p \in AllPorts |-> "untag"]]

-----------------------------------------------------------------------------
(* Bridging *)

(* The other user ports that offload the bridge b. *)
Others(p, b) == {q \in Ports \ {p} : bridge[q] = b}

(* Mutant: a leaving port stays in the masks of the others. *)
UpdatePortMemberKeeps(p, b, join, iso) ==
    [q \in Ports |->
        IF q = p THEN IF join THEN Others(p, b) ELSE Ports \ Others(p, b)
        ELSE IF q \notin Others(p, b) \/ ~join THEN matrix[q]
        ELSE IF ~(p \in iso /\ q \in iso) THEN matrix[q] \cup {p}
        ELSE matrix[q] \ {p}]

(* The port matrix after p has joined or left the bridge b.  The mask of p *)
(* itself does not depend on isolation, and a port that leaves is given    *)
(* every user port that is not in the bridge it left (~port_mask).         *)
UpdatePortMember(p, b, join, iso) ==
    [q \in Ports |->
        IF q = p THEN IF join THEN Others(p, b) ELSE Ports \ Others(p, b)
        ELSE IF q \notin Others(p, b) THEN matrix[q]
        ELSE IF join /\ ~(p \in iso /\ q \in iso) THEN matrix[q] \cup {p}
        ELSE matrix[q] \ {p}]

(* The core turns the filtering of a port off after it has left a bridge   *)
(* (see VlanFilteringOff), and so before the port joins another.           *)
BridgeJoin(p, b) ==
    /\ bridge[p] = NoBridge /\ ~filtering[p]
    /\ bridge' = [bridge EXCEPT ![p] = b]
    /\ matrix' = UpdatePortMember(p, b, TRUE, isolated)
    /\ mode' = [mode EXCEPT ![p] = "fallback"]
    /\ left' = left \ {p}
    /\ UNCHANGED <<isolated, filtering, acc, pvid, vlanVars, mirrorVars, ageVars>>

BridgeLeave(p) ==
    /\ bridge[p] # NoBridge
    /\ bridge' = [bridge EXCEPT ![p] = NoBridge]
    /\ matrix' = UpdatePortMember(p, bridge[p], FALSE, isolated)
    /\ mode' = [mode EXCEPT ![p] = "matrix"]
    /\ left' = left \cup {p}
    /\ UNCHANGED <<isolated, filtering, acc, pvid, vlanVars, mirrorVars, ageVars>>

(* The BR_ISOLATED flag; the map outlives the membership of the bridge. *)
BridgeFlags(p, on) ==
    /\ bridge[p] # NoBridge
    /\ isolated' = IF on THEN isolated \cup {p} ELSE isolated \ {p}
    /\ matrix' = UpdatePortMember(p, bridge[p], TRUE, isolated')
    /\ UNCHANGED <<bridge, left, filterVars, vlanVars, mirrorVars, ageVars>>

-----------------------------------------------------------------------------
(* VLAN filtering *)

(* With a PVID a port that starts to filter takes tagged frames only. *)
VlanFilteringOn(p) ==
    /\ bridge[p] # NoBridge /\ ~filtering[p]
    /\ filtering' = [filtering EXCEPT ![p] = TRUE]
    /\ mode' = [mode EXCEPT ![Cpu] = "fallback", ![p] = "security"]
    /\ acc' = [acc EXCEPT ![p] = IF pvid[p] # DefaultVid THEN "tagged" ELSE "all"]
    /\ UNCHANGED <<pvid, portVars, vlanVars, mirrorVars, ageVars>>

(* The mode of the CPU port once p no longer filters: back to the matrix   *)
(* unless a port filters.  Whether p itself still counts as filtering is   *)
(* up to the core, which sets dp->vlan_filtering around this call.         *)
CpuModes(p) ==
    IF \E q \in Ports \ {p} : filtering[q] THEN {mode[Cpu]}
                                           ELSE {mode[Cpu], "matrix"}

(* Mutant: the mode does not depend on the bridge. *)
UnawareModeFallback(p) == "fallback"

UnawareMode(p) == IF bridge[p] # NoBridge THEN "fallback" ELSE "matrix"

(* Mutant: the PVID is not restored. *)
RestorePvidKeeps(p) == pvid

RestorePvid(p) == [pvid EXCEPT ![p] = DefaultVid]

VlanFilteringOff(p) ==
    /\ filtering[p]
    /\ filtering' = [filtering EXCEPT ![p] = FALSE]
    /\ \E m \in CpuModes(p) :
          mode' = [mode EXCEPT ![p] = UnawareMode(p), ![Cpu] = m]
    /\ acc' = [acc EXCEPT ![p] = "all"]
    /\ pvid' = RestorePvid(p)
    /\ UNCHANGED <<portVars, vlanVars, mirrorVars, ageVars>>

-----------------------------------------------------------------------------
(* VLANs *)

EgressTag(p, untagged) ==
    IF p = Cpu THEN "stack" ELSE IF untagged THEN "untag" ELSE "tag"

(* Mutant: the other ports' egress tags are written anew. *)
VlanAddedAlone(p, v, untagged) ==
    [valid |-> TRUE, members |-> vtable[v].members \cup {p},
     etag |-> [NoEntry.etag EXCEPT ![p] = EgressTag(p, untagged)]]

(* The entry of v with the port p added or removed; the egress tag of a    *)
(* removed port stays behind until the entry is blanked.                   *)
VlanAdded(p, v, untagged) ==
    [valid |-> TRUE, members |-> vtable[v].members \cup {p},
     etag |-> [vtable[v].etag EXCEPT ![p] = EgressTag(p, untagged)]]

VlanDeleted(p, v) ==
    IF vtable[v].members \subseteq {p} THEN NoEntry
    ELSE [vtable[v] EXCEPT !.members = @ \ {p}]

Ask(p, v, t) == asked' = [asked EXCEPT ![v] = [@ EXCEPT ![p] = t]]

(* What an8855_port_vlan_add does about the PVID once the VLAN is written. *)
AddPvid(p, v, flag) ==
    IF flag THEN /\ acc' = [acc EXCEPT ![p] = "all"]
                 /\ pvid' = IF filtering[p] THEN [pvid EXCEPT ![p] = v] ELSE pvid
    ELSE IF pvid[p] = v
         THEN /\ acc' = IF filtering[p] THEN [acc EXCEPT ![p] = "tagged"] ELSE acc
              /\ pvid' = RestorePvid(p)
         ELSE UNCHANGED <<acc, pvid>>

(* The core gives the PVID flag to user ports only. *)
VlanAdd(p, v, untagged, flag) ==
    /\ flag => p # Cpu
    /\ vtable' = [vtable EXCEPT ![v] = VlanAdded(p, v, untagged)]
    /\ Ask(p, v, EgressTag(p, untagged))
    /\ doubt' = doubt \ {<<p, v>>}
    /\ AddPvid(p, v, flag)
    /\ UNCHANGED <<filtering, mode, portVars, mirrorVars, ageVars>>

(* The poll of the write ran out: the chip may or may not have taken the   *)
(* entry, and the call returns before it looks at the PVID.                *)
VlanAddFails(p, v, untagged) ==
    /\ \/ vtable' = [vtable EXCEPT ![v] = VlanAdded(p, v, untagged)]
       \/ UNCHANGED vtable
    /\ doubt' = doubt \cup {<<p, v>>}
    /\ UNCHANGED <<asked, filterVars, portVars, mirrorVars, ageVars>>

DelPvid(p, v) ==
    IF pvid[p] = v
    THEN /\ acc' = IF filtering[p] THEN [acc EXCEPT ![p] = "tagged"] ELSE acc
         /\ pvid' = RestorePvid(p)
    ELSE UNCHANGED <<acc, pvid>>

VlanDel(p, v) ==
    /\ asked[v][p] # "none" /\ vtable[v].valid
    /\ vtable' = [vtable EXCEPT ![v] = VlanDeleted(p, v)]
    /\ Ask(p, v, "none")
    /\ doubt' = doubt \ {<<p, v>>}
    /\ DelPvid(p, v)
    /\ UNCHANGED <<filtering, mode, portVars, mirrorVars, ageVars>>

(* A command timed out, or the entry was found invalid: the core drops the *)
(* VLAN all the same, and the PVID stays.                                  *)
VlanDelFails(p, v) ==
    /\ asked[v][p] # "none"
    /\ \/ vtable[v].valid /\ vtable' = [vtable EXCEPT ![v] = VlanDeleted(p, v)]
       \/ UNCHANGED vtable
    /\ Ask(p, v, "none")
    /\ doubt' = doubt \cup {<<p, v>>}
    /\ UNCHANGED <<filterVars, portVars, mirrorVars, ageVars>>

-----------------------------------------------------------------------------
(* Mirroring *)

(* Mutant: a second monitor port takes over. *)
MonitorFreeAlways(to) == TRUE

(* There is one monitor port for all mirrored ports. *)
MonitorFree(to) == mir.en => mir.port = to

MirrorAdd(p, to, d) ==
    /\ p \notin mirrored[d] /\ MonitorFree(to)
    /\ mir' = [en |-> TRUE, port |-> to]
    /\ mirBits' = [mirBits EXCEPT ![d] = @ \cup {p}]
    /\ mirrored' = [mirrored EXCEPT ![d] = @ \cup {p}]
    /\ target' = [target EXCEPT ![d] = [@ EXCEPT ![p] = to]]
    /\ UNCHANGED <<portVars, filterVars, vlanVars, ageVars>>

MirrorDel(p, d) ==
    /\ target[d][p] # Cpu
    /\ mirrored' = [mirrored EXCEPT ![d] = @ \ {p}]
    /\ mirBits' = [mirBits EXCEPT ![d] = @ \ {p}]
    /\ mir' = IF \A e \in Directions : mirrored'[e] = {}
              THEN [mir EXCEPT !.en = FALSE] ELSE mir
    /\ target' = [target EXCEPT ![d] = [@ EXCEPT ![p] = Cpu]]
    /\ UNCHANGED <<portVars, filterVars, vlanVars, ageVars>>

-----------------------------------------------------------------------------
(* Ageing *)

(* The registers for val; FIELD_PREP cuts the count to its field. *)
AgeUnit(val) == val \div AgeUnitMax

(* Mutant: the count is rounded up. *)
AgeCountRoundsUp(val) == (val \div (AgeUnit(val) + 1) + 1) % (AgeCntMax + 1)

AgeCount(val) == (val \div (AgeUnit(val) + 1)) % (AgeCntMax + 1)

SetAgeingTime(val) ==
    /\ aac' = [cnt |-> AgeCount(val), unit |-> AgeUnit(val)]
    /\ age' = val
    /\ UNCHANGED <<portVars, filterVars, vlanVars, mirrorVars>>

-----------------------------------------------------------------------------
(* What an8855_setup leaves behind; the chip's own ageing time is its      *)
(* reset value.                                                            *)
BrInit ==
    /\ bridge = [p \in Ports |-> NoBridge]
    /\ filtering = [p \in Ports |-> FALSE]
    /\ isolated = {}
    /\ matrix = [p \in Ports |-> {}]
    /\ mode = [p \in AllPorts |-> IF p = Cpu THEN "fallback" ELSE "matrix"]
    /\ acc = [p \in AllPorts |-> "all"]
    /\ pvid = [p \in AllPorts |-> DefaultVid]
    /\ vtable = [v \in Vids |-> NoEntry]
    /\ mirrored = [d \in Directions |-> {}]
    /\ mirBits = [d \in Directions |-> {}]
    /\ mir = [en |-> FALSE, port |-> CHOOSE p \in Ports : TRUE]
    /\ aac = [cnt |-> 0, unit |-> 0]
    /\ left = {}
    /\ asked = [v \in Vids |-> [p \in AllPorts |-> "none"]]
    /\ doubt = {}
    /\ target = [d \in Directions |-> [p \in Ports |-> Cpu]]
    /\ age = 0

-----------------------------------------------------------------------------
(* Properties *)

BrTypeOK ==
    /\ bridge \in [Ports -> Bridges \cup {NoBridge}]
    /\ filtering \in [Ports -> BOOLEAN]
    /\ isolated \subseteq Ports
    /\ matrix \in [Ports -> SUBSET Ports]
    /\ mode \in [AllPorts -> Modes]
    /\ acc \in [AllPorts -> {"all", "tagged"}]
    /\ pvid \in [AllPorts -> Vids \cup {DefaultVid}]
    /\ vtable \in [Vids -> Entry]
    /\ mirrored \in [Directions -> SUBSET Ports]
    /\ mirBits \in [Directions -> SUBSET Ports]
    /\ mir \in [en : BOOLEAN, port : Ports]
    /\ aac \in [cnt : 0..AgeCntMax, unit : 0..AgeUnitMax]
    /\ left \subseteq Ports
    /\ asked \in [Vids -> [AllPorts -> Tags \cup {"none"}]]
    /\ doubt \subseteq AllPorts \X Vids
    /\ target \in [Directions -> [Ports -> AllPorts]]
    /\ age \in Nat

SameBridge(p, q) == p # q /\ bridge[p] = bridge[q] /\ bridge[p] # NoBridge

(* Whatever joins, leaves and flags came before: two ports of a bridge     *)
(* reach each other unless both are isolated, ports of different bridges   *)
(* and ports that never left one do not, since update_port_member keeps    *)
(* the masks of both sides of every pair.  A port that has left a bridge   *)
(* is exempt: its own mask then holds every port outside that bridge.      *)
BridgesSeparate ==
    \A p, q \in Ports :
        /\ SameBridge(p, q) /\ ~(p \in isolated /\ q \in isolated) => q \in matrix[p]
        /\ p # q /\ ~SameBridge(p, q) /\ q \in matrix[p] => p \in left

(* Two isolated ports of one bridge never hold a conversation: whichever   *)
(* of them update_port_member served last is missing in the other's mask,  *)
(* although its own mask still names the other.                            *)
IsolatedApart ==
    \A p, q \in isolated :
        SameBridge(p, q) => ~(p \in matrix[q] /\ q \in matrix[p])

(* The port modes follow bridging and filtering through every order of     *)
(* joins, leaves and switches of the filter: a port outside bridges goes   *)
(* by the matrix, a filtering one inside drops what its VLANs do not       *)
(* allow, and while one port filters the CPU port stays in fallback mode.  *)
ModesFollow ==
    /\ \A p \in Ports :
          mode[p] = IF bridge[p] = NoBridge THEN "matrix"
                    ELSE IF filtering[p] THEN "security" ELSE "fallback"
    /\ (\E p \in Ports : filtering[p]) => mode[Cpu] = "fallback"

(* The VLAN table holds exactly the members the core has asked for, each   *)
(* with its own egress tag, although every call reads and writes the whole *)
(* entry; only a membership whose last command timed out may differ.       *)
VlansTrue ==
    \A v \in Vids, p \in AllPorts : <<p, v>> \notin doubt =>
        /\ p \in vtable[v].members <=> asked[v][p] # "none"
        /\ p \in vtable[v].members => vtable[v].etag[p] = asked[v][p]

(* A port that has a PVID filters, is a member of that VLAN and takes      *)
(* untagged frames: whichever way the VLAN or the filter went away, the    *)
(* PVID went with it, unless the removal timed out.                        *)
PvidSound ==
    \A p \in Ports : pvid[p] # DefaultVid =>
        /\ filtering[p] /\ acc[p] = "all"
        /\ <<p, pvid[p]>> \notin doubt => p \in vtable[pvid[p]].members

(* Every mirrored port sends its copies where its own rule says, the maps  *)
(* of the driver are the bits of the chip, and the mirror is on exactly    *)
(* while there is a rule: the one monitor port is shared by all rules.     *)
MirrorsTrue ==
    /\ mirBits = mirrored
    /\ \A d \in Directions, p \in Ports :
          /\ p \in mirrored[d] <=> target[d][p] # Cpu
          /\ p \in mirrored[d] => mir.port = target[d][p]
    /\ mir.en <=> \E d \in Directions : mirrored[d] # {}

(* The registers never keep an address longer than one unit beyond the     *)
(* time asked for, and not shorter either if that time fits into the       *)
(* count: the chip counts (AGE_CNT + 1) * (AGE_UNIT + 1).  Longer times    *)
(* are cut short, since the unit is derived from the width of AGE_UNIT and *)
(* not from that of AGE_CNT.                                               *)
AgesInTime ==
    LET kept == (aac.cnt + 1) * (aac.unit + 1)
    IN  age # 0 => /\ kept <= age + aac.unit + 1
                   /\ age <= AgeCntMax => age <= kept
=============================================================================
