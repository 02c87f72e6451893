------------------------------ MODULE RtkVlan ------------------------------
(***************************************************************************)
(* The VLAN tables of the RTL8367S switch driver (rtl8367c/vlan.c).        *)
(*                                                                         *)
(* The chip knows every VLAN id up to VIDMAX in its 4k table.  A port's    *)
(* PVID and a port-and-protocol rule do not name a VLAN id but a slot of   *)
(* the short member configuration table (MC), whose entry holds the id     *)
(* (which may exceed VIDMAX, an "enhanced" id) and a copy of the members.  *)
(* The driver keeps a shadow of who uses which slot: vlan_mbrCfgUsage and  *)
(* vlan_mbrCfgVid.  One action is one API call; calls are serialised by    *)
(* the swconfig lock.  The only register access of this build that can     *)
(* fail is the read of a 4k entry, whose busy wait may time out: a call    *)
(* that then returns before it wrote anything is a stuttering step.        *)
(***************************************************************************)
EXTENDS Naturals, FiniteSets

CONSTANTS
    Ports,      \* the physical ports
    Lists,      \* the port lists callers give a VLAN
    VIDMAX,     \* RTL8367C_VIDMAX, the last id of the 4k table
    EVIDMAX,    \* RTL8367C_EVIDMAX, the last enhanced id
    CVIDXMAX,   \* RTL8367C_CVIDXMAX, the last MC slot
    GIDXMAX,    \* RTL8367C_PROTOVLAN_GIDX_MAX, the last protocol group
    Protos,     \* the (ether type, frame type) pairs callers use
    NoProto     \* the pair (0, 0), which marks an empty group

ASSUME VlanAssumption ==
    /\ VIDMAX \in Nat \ {0} /\ EVIDMAX \in Nat /\ VIDMAX <= EVIDMAX
    /\ CVIDXMAX \in Nat /\ GIDXMAX \in Nat
    /\ NoProto \notin Protos /\ Lists \subseteq SUBSET Ports

Vids == 0..VIDMAX
EVids == 0..EVIDMAX
Slots == 0..CVIDXMAX
Groups == 0..GIDXMAX

VARIABLES
    vlan4k,     \* the 4k table: the members of each VLAN
    mc,         \* the MC table
    usage,      \* vlan_mbrCfgUsage = MBRCFG_USED_BY_VLAN
    mcVid,      \* vlan_mbrCfgVid
    pvid,       \* the slot that classifies a port's untagged frames
    group,      \* the protocol groups
    ppb,        \* the port-and-protocol rules
    want,       \* history: the PVID each port was given, while it stands
    raw         \* history: somebody wrote a slot himself

vars == <<vlan4k, mc, usage, mcVid, pvid, group, ppb, want, raw>>

Entry == [evid : EVids, mbr : SUBSET Ports]
NoEntry == [evid |-> 0, mbr |-> {}]
Rule == [valid : BOOLEAN, idx : Slots]
NoRule == [valid |-> FALSE, idx |-> 0]
NoVid == EVIDMAX + 1

Lowest(S) == CHOOSE i \in S : \A j \in S : i <= j
Highest(S) == CHOOSE i \in S : \A j \in S : j <= i
OneOf(S) == IF S = {} THEN {} ELSE {Lowest(S)}

-----------------------------------------------------------------------------
(* The slots the shadow gives to v, and the ones it holds free. *)
SlotsOf(v) == {i \in Slots : usage[i] /\ mcVid[i] = v}
FreeSlots == {i \in Slots : ~usage[i]}

(* Mutant: the shadow is not told that a slot was blanked. *)
WriteSlotsKeepsUsage(W, v, m) ==
    /\ mc' = [i \in Slots |->
                 IF i \in W THEN IF m = {} THEN NoEntry
                                           ELSE [evid |-> v, mbr |-> m]
                            ELSE mc[i]]
    /\ UNCHANGED <<usage, mcVid>>

(* Write v with the members m into the slots W, or blank them when the     *)
(* VLAN has lost its last member, and bring the shadow along.              *)
WriteSlots(W, v, m) ==
    /\ mc' = [i \in Slots |->
                 IF i \in W THEN IF m = {} THEN NoEntry
                                           ELSE [evid |-> v, mbr |-> m]
                            ELSE mc[i]]
    /\ usage' = [i \in Slots |-> IF i \in W THEN m # {} ELSE usage[i]]
    /\ mcVid' = [i \in Slots |-> IF i \in W THEN IF m = {} THEN 0 ELSE v
                                            ELSE mcVid[i]]

(* Who empties the VLAN takes the PVID of its ports back. *)
Emptied(v, m) ==
    want' = [p \in Ports |-> IF m = {} /\ want[p] = v THEN NoVid ELSE want[p]]

(* rtk_vlan_set for an enhanced id.  The scan stops at the first slot of   *)
(* the id before it notes that it found one, so the first free slot it has *)
(* passed by then is written as well; a full table is not reported.        *)
ScanEnd(v) == IF SlotsOf(v) = {} THEN CVIDXMAX + 1 ELSE Lowest(SlotsOf(v))

EvidSlots(v, m) ==
    IF m = {} THEN SlotsOf(v)
    ELSE OneOf(SlotsOf(v)) \cup OneOf({i \in FreeSlots : i < ScanEnd(v)})

(* rtk_vlan_set for an id of the 4k table: the first slot of the VLAN      *)
(* follows it.                                                             *)
VlanSet(v, m) ==
    /\ Emptied(v, m)
    /\ vlan4k' = [vlan4k EXCEPT ![v] = m]
    /\ WriteSlots(OneOf(SlotsOf(v)), v, m)
    /\ UNCHANGED <<pvid, group, ppb, raw>>

EvidSet(v, m) ==
    /\ Emptied(v, m)
    /\ WriteSlots(EvidSlots(v, m), v, m)
    /\ UNCHANGED <<vlan4k, pvid, group, ppb, raw>>

(* rtk_vlan_mbrCfg_set writes a slot as it is told. *)
MbrCfgSet(i, e) ==
    /\ mc' = [mc EXCEPT ![i] = e]
    /\ usage' = [usage EXCEPT ![i] = (e # NoEntry)]
    /\ mcVid' = [mcVid EXCEPT ![i] = e.evid]
    /\ want' = [p \in Ports |-> IF pvid[p] = i THEN NoVid ELSE want[p]]
    /\ raw' = TRUE
    /\ UNCHANGED <<vlan4k, pvid, group, ppb>>

(* Mutant: an entry without members counts as free. *)
HwUsageMembers == [i \in Slots |-> mc[i].mbr # {}]

-----------------------------------------------------------------------------
(* rtk_vlan_checkAndCreateMbr: the slot of v by the shadow; failing that,  *)
(* the shadow is read back from the chip and searched again; failing that, *)
(* the first free slot becomes a copy of the 4k entry.                     *)
HwUsage == [i \in Slots |-> mc[i] # NoEntry]
HwVid == [i \in Slots |-> mc[i].evid]
HwSlotsOf(v) == {i \in Slots : HwUsage[i] /\ HwVid[i] = v}
HwFree == {i \in Slots : ~HwUsage[i]}

Members(v) == IF v \in Vids THEN vlan4k[v] ELSE {}

FoundMbr(v, i) ==
    /\ SlotsOf(v) # {}
    /\ i = Lowest(SlotsOf(v))
    /\ UNCHANGED <<mc, usage, mcVid>>

(* Mutant: the new slot is not filled from the 4k table. *)
CreateMbrEmpty(v, i) ==
    /\ SlotsOf(v) = {} /\ HwFree # {}
    /\ i = Lowest(HwFree)
    /\ mc' = [mc EXCEPT ![i] = [evid |-> v, mbr |-> {}]]
    /\ usage' = [HwUsage EXCEPT ![i] = TRUE]
    /\ mcVid' = [HwVid EXCEPT ![i] = v]

CreateMbr(v, i) ==
    LET hit == HwSlotsOf(v) IN
    /\ SlotsOf(v) = {} /\ hit \cup HwFree # {}
    /\ i = IF hit # {} THEN Lowest(hit) ELSE Lowest(HwFree)
    /\ mc' = IF hit # {} THEN mc
             ELSE [mc EXCEPT ![i] = [evid |-> v, mbr |-> Members(v)]]
    /\ usage' = [HwUsage EXCEPT ![i] = TRUE]
    /\ mcVid' = [HwVid EXCEPT ![i] = v]

CheckAndCreateMbr(v, i) == FoundMbr(v, i) \/ CreateMbr(v, i)

(* RT_ERR_TBL_FULL, after the shadow has been read back. *)
TableFull(v) ==
    /\ SlotsOf(v) = {} /\ HwSlotsOf(v) = {} /\ HwFree = {}
    /\ usage' = HwUsage /\ mcVid' = HwVid /\ mc' = mc

(* The read of the 4k entry timed out. *)
Busy(v) == v \in Vids /\ UNCHANGED <<mc, usage, mcVid>>

-----------------------------------------------------------------------------
(* rtk_vlan_portPvid_set.  VLAN 0 without members makes a slot that looks  *)
(* free to the next read back: that PVID is not to be relied on.           *)
PvidSet(p, v) ==
    /\ \E i \in Slots :
          /\ CheckAndCreateMbr(v, i)
          /\ pvid' = [pvid EXCEPT ![p] = i]
          /\ want' = [want EXCEPT ![p] = IF mc'[i] = NoEntry THEN NoVid ELSE v]
    /\ UNCHANGED <<vlan4k, group, ppb, raw>>

PvidFull(v) ==
    /\ TableFull(v)
    /\ UNCHANGED <<vlan4k, pvid, group, ppb, want, raw>>

(* The group rtk_vlan_protoAndPortBasedVlan_add takes, scanning downwards: *)
(* the one of the protocol, or the lowest empty one.                       *)
GroupsOf(t) == {g \in Groups : group[g] = t}
GroupFor(t) == IF GroupsOf(t) # {} THEN Highest(GroupsOf(t)) ELSE Lowest(GroupsOf(NoProto))
HasGroup(t) == GroupsOf(t) # {} \/ GroupsOf(NoProto) # {}

ProtoAdd(p, t, v) ==
    /\ HasGroup(t)
    /\ group' = [group EXCEPT ![GroupFor(t)] = t]
    /\ \E i \in Slots :
          /\ CheckAndCreateMbr(v, i)
          /\ ppb' = [ppb EXCEPT ![p] = [@ EXCEPT ![GroupFor(t)] = [valid |-> TRUE, idx |-> i]]]
    /\ UNCHANGED <<vlan4k, pvid, want, raw>>

(* No slot can be had: the group stays taken although no rule uses it. *)
ProtoAddFails(t, v) ==
    /\ HasGroup(t)
    /\ group' = [group EXCEPT ![GroupFor(t)] = t]
    /\ TableFull(v) \/ Busy(v)
    /\ UNCHANGED <<vlan4k, pvid, ppb, want, raw>>

(* Mutant: one port without a rule empties the group. *)
ClearedEarly(rules) ==
    [g \in Groups |-> IF \E p \in Ports : ~rules[p][g].valid THEN NoProto ELSE group[g]]

(* rtk_vlan_protoAndPortBasedVlan_del drops the port's rule for t and      *)
(* empties the group no port uses any more.  Given a protocol nobody       *)
(* registered it looks at group 0 instead.                                 *)
DelGroup(t) == IF GroupsOf(t) # {} THEN Highest(GroupsOf(t)) ELSE 0

Cleared(rules) ==
    [g \in Groups |-> IF \A p \in Ports : ~rules[p][g].valid THEN NoProto ELSE group[g]]

ProtoDel(p, t) ==
    LET g == DelGroup(t) IN
    /\ ppb' = [ppb EXCEPT ![p] = [h \in Groups |-> IF group[h] = t THEN NoRule ELSE @[h]]]
    /\ group' = [group EXCEPT ![g] = Cleared(ppb')[g]]
    /\ UNCHANGED <<vlan4k, mc, usage, mcVid, pvid, want, raw>>

(* rtk_vlan_protoAndPortBasedVlan_delAll *)
ProtoDelAll(p) ==
    /\ ppb' = [ppb EXCEPT ![p] = [g \in Groups |-> NoRule]]
    /\ group' = Cleared(ppb')
    /\ UNCHANGED <<vlan4k, mc, usage, mcVid, pvid, want, raw>>

-----------------------------------------------------------------------------
(* rtk_vlan_init: VLAN 1 holds every port and is every port's PVID, in     *)
(* slot 0; the other slots are blank.  init_gsw calls it after             *)
(* rtk_vlan_reset, which flushes the 4k table; the reset pin, on boards    *)
(* that have one, also clears the protocol rules.                          *)
InitSlots ==
    /\ mc' = [i \in Slots |-> IF i = 0 THEN [evid |-> 1, mbr |-> Ports] ELSE NoEntry]
    /\ usage' = [i \in Slots |-> i = 0]
    /\ mcVid' = [i \in Slots |-> IF i = 0 THEN 1 ELSE 0]

VlanInit(flush, pin) ==
    /\ vlan4k' = [v \in Vids |-> IF v = 1 THEN Ports ELSE IF flush THEN {} ELSE vlan4k[v]]
    /\ InitSlots
    /\ pvid' = [p \in Ports |-> 0]
    /\ want' = [p \in Ports |-> 1] /\ raw' = FALSE
    /\ IF pin THEN /\ group' = [g \in Groups |-> NoProto]
                   /\ ppb' = [p \in Ports |-> [g \in Groups |-> NoRule]]
              ELSE UNCHANGED <<group, ppb>>

Init ==
    /\ vlan4k = [v \in Vids |-> IF v = 1 THEN Ports ELSE {}]
    /\ mc = [i \in Slots |-> IF i = 0 THEN [evid |-> 1, mbr |-> Ports] ELSE NoEntry]
    /\ usage = [i \in Slots |-> i = 0]
    /\ mcVid = [i \in Slots |-> IF i = 0 THEN 1 ELSE 0]
    /\ pvid = [p \in Ports |-> 0]
    /\ want = [p \in Ports |-> 1] /\ raw = FALSE
    /\ group = [g \in Groups |-> NoProto]
    /\ ppb = [p \in Ports |-> [g \in Groups |-> NoRule]]

Next ==
    \/ \E flush, pin \in BOOLEAN : VlanInit(flush, pin)
    \/ \E v \in Vids, m \in Lists : VlanSet(v, m)
    \/ \E v \in EVids \ Vids, m \in Lists : EvidSet(v, m)
    \/ \E i \in Slots, v \in EVids, m \in Lists : MbrCfgSet(i, [evid |-> v, mbr |-> m])
    \/ \E p \in Ports, v \in EVids : PvidSet(p, v)
    \/ \E v \in EVids : PvidFull(v)
    \/ \E p \in Ports, t \in Protos, v \in Vids : ProtoAdd(p, t, v)
    \/ \E t \in Protos, v \in Vids : ProtoAddFails(t, v)
    \/ \E p \in Ports, t \in Protos : ProtoDel(p, t)
    \/ \E p \in Ports : ProtoDelAll(p)

Spec == Init /\ [][Next]_vars

-----------------------------------------------------------------------------
(* The type invariant: slots and groups stay within their tables. *)
TypeOK ==
    /\ vlan4k \in [Vids -> SUBSET Ports]
    /\ mc \in [Slots -> Entry]
    /\ usage \in [Slots -> BOOLEAN]
    /\ mcVid \in [Slots -> EVids]
    /\ pvid \in [Ports -> Slots]
    /\ want \in [Ports -> EVids \cup {NoVid}] /\ raw \in BOOLEAN
    /\ group \in [Groups -> Protos \cup {NoProto}]
    /\ ppb \in [Ports -> [Groups -> Rule]]

(* The shadow the searches trust agrees with the chip: a slot it counts as *)
(* used holds the id it says, a slot it counts as free is blank there, so  *)
(* handing it out overwrites nobody (vlan.c 229-263, 1866-1920).           *)
ShadowTrue ==
    \A i \in Slots : IF usage[i] THEN mc[i].evid = mcVid[i]
                                 ELSE mc[i] = NoEntry /\ mcVid[i] = 0

(* Unless somebody wrote slots himself, no VLAN of the 4k table owns two   *)
(* slots: rtk_vlan_set refreshes only the first it finds, so the copy in a *)
(* second one would go stale (vlan.c 229-263).  (An enhanced id can own    *)
(* two, see EvidSlots.)                                                    *)
OneSlotPerVlan ==
    ~raw => \A i, j \in Slots :
        usage[i] /\ usage[j] /\ mcVid[i] = mcVid[j] /\ mcVid[i] \in Vids => i = j

(* Likewise, the copy of the members in a slot is the 4k table's, whatever *)
(* was called in between: frames classified by PVID and tagged frames meet *)
(* the same members (vlan.c 247-258, 1938-1951).                           *)
MembersTracked ==
    ~raw => \A i \in Slots :
        usage[i] /\ mcVid[i] \in Vids => mc[i].mbr = vlan4k[mcVid[i]]

(* "The untagged frame received from the port will be classified to the    *)
(* specified VLAN" (vlan.c:648-649): until the VLAN is emptied or the slot *)
(* overwritten, the slot a port points at holds the PVID the port was      *)
(* given; no other VLAN takes the slot over.                               *)
PvidRespected == \A p \in Ports : want[p] # NoVid => mc[pvid[p]].evid = want[p]

(* No protocol has two groups, and no rule sits in a group that was        *)
(* emptied and would be applied to the next protocol that takes the group  *)
(* (vlan.c 947-986, 1136-1155, 1200-1229).                                 *)
GroupsSound ==
    /\ \A g, h \in Groups : group[g] = group[h] /\ group[g] # NoProto => g = h
    /\ \A p \in Ports, g \in Groups : ppb[p][g].valid => group[g] # NoProto
=============================================================================
