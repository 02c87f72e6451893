---------------------------- MODULE RtkVlanProof ----------------------------
(***************************************************************************)
(* Proofs about RtkVlan for every number of ports, VLANs, slots and        *)
(* groups.  ShadowTrue and GroupsSound are inductive with TypeOK.          *)
(* OneSlotPerVlan needs ShadowTrue (the read back of the shadow must not   *)
(* bring a second slot to light) and MembersTracked needs both.            *)
(* PvidRespected is not inductive: it is strengthened to Held, which says  *)
(* that the slot of a port whose PVID stands is not blank on the chip, so  *)
(* that no read back takes it for a free one.                              *)
(* The last part is about RtlSwconfig, which makes the calls of the probe  *)
(* and the handlers on the same tables.                                    *)
(***************************************************************************)
EXTENDS RtlSwconfig, WellFoundedInduction, SequenceTheorems, TLAPS

(* A non-empty set of naturals has a least element. *)
LEMMA Least ==
    ASSUME NEW S \in SUBSET Nat, S # {}
    PROVE  \E i \in S : \A j \in S : i <= j
<1> DEFINE R == {ss \in Nat \X Nat : ss[1] < ss[2]}
<1>1. IsWellFoundedOn(R, Nat)
  BY NatLessThanWellFounded, Zenon DEF OpToRel
<1>2. PICK x \in S : \A y \in S : ~(<<y, x>> \in R)
  <2> HIDE DEF R
  <2> QED BY <1>1, WFMin
<1>3. \A y \in S : ~(y < x)
  <2> TAKE y \in S
  <2>1. ~(<<y, x>> \in R)
    BY <1>2
  <2>2. y \in Nat /\ x \in Nat
    OBVIOUS
  <2> QED BY <2>1, <2>2
<1> QED BY <1>3

(* The first of some slots or groups is one of them. *)
LEMMA FirstIn ==
    ASSUME NEW S \in SUBSET Nat, S # {}
    PROVE  Lowest(S) \in S
BY Least DEF Lowest

(* So is the last of some groups. *)
LEMMA LastIn ==
    ASSUME NEW S \in SUBSET Groups, S # {}
    PROVE  Highest(S) \in S
<1> DEFINE T == {GIDXMAX - i : i \in S}
<1>0. \A i \in S : GIDXMAX - i \in Nat
  BY VlanAssumption DEF Groups
<1>1. T \in SUBSET Nat /\ T # {}
  BY <1>0
<1>2. PICK t \in T : \A u \in T : t <= u
  <2> HIDE DEF T
  <2> QED BY <1>1, Least
<1>3. PICK i \in S : t = GIDXMAX - i
  OBVIOUS
<1>4. \A j \in S : j <= i
  <2> TAKE j \in S
  <2>1. GIDXMAX - j \in T
    OBVIOUS
  <2>2. GIDXMAX - i <= GIDXMAX - j
    BY <1>2, <1>3, <2>1
  <2> QED BY <2>2, VlanAssumption DEF Groups
<1> QED BY <1>4 DEF Highest

(* What a search of the table returns is a slot. *)
LEMMA FirstSlot ==
    ASSUME NEW S \in SUBSET Slots
    PROVE  /\ S # {} => Lowest(S) \in S
           /\ OneOf(S) \in SUBSET S
BY FirstIn, VlanAssumption DEF Slots, OneOf

(* The groups rtk_vlan_protoAndPortBasedVlan_add and _del work on. *)
LEMMA GroupForIn ==
    ASSUME NEW t
    PROVE  /\ HasGroup(t) => GroupFor(t) \in Groups /\ group[GroupFor(t)] \in {t, NoProto}
           /\ HasGroup(t) /\ GroupsOf(t) # {} => group[GroupFor(t)] = t
           /\ DelGroup(t) \in Groups
<1>1. GroupsOf(t) \in SUBSET Groups /\ GroupsOf(NoProto) \in SUBSET Groups /\ 0 \in Groups
  BY VlanAssumption DEF GroupsOf, Groups
<1>2. Groups \in SUBSET Nat
  BY VlanAssumption DEF Groups
<1>3. GroupsOf(t) # {} => Highest(GroupsOf(t)) \in GroupsOf(t)
  BY <1>1, LastIn
<1>4. GroupsOf(NoProto) # {} => Lowest(GroupsOf(NoProto)) \in GroupsOf(NoProto)
  BY <1>1, <1>2, FirstIn
<1> QED BY <1>1, <1>3, <1>4 DEF GroupFor, DelGroup, HasGroup, GroupsOf

-----------------------------------------------------------------------------
(* The three writes of the slots, on types and on the shadow. *)
SlotType ==
    /\ mc \in [Slots -> Entry]
    /\ usage \in [Slots -> BOOLEAN]
    /\ mcVid \in [Slots -> EVids]

LEMMA ZeroTypes == /\ 0 \in Vids /\ 1 \in Vids /\ 0 \in EVids /\ 1 \in EVids
                   /\ 0 \in Slots /\ Vids \subseteq EVids
                   /\ NoEntry \in Entry /\ NoRule \in Rule
BY VlanAssumption DEF Vids, EVids, Slots, NoEntry, Entry, NoRule, Rule

LEMMA WriteTypes ==
    ASSUME SlotType, ShadowTrue, NEW W \in SUBSET Slots, NEW v \in EVids,
           NEW m \in SUBSET Ports, WriteSlots(W, v, m)
    PROVE  SlotType' /\ ShadowTrue'
<1>1. [evid |-> v, mbr |-> m] \in Entry /\ NoEntry \in Entry
  BY ZeroTypes DEF Entry
<1>2. SlotType'
  BY <1>1, ZeroTypes DEF SlotType, WriteSlots
<1>3. ShadowTrue'
  <2> SUFFICES ASSUME NEW i \in Slots
               PROVE  IF usage'[i] THEN mc'[i].evid = mcVid'[i]
                                   ELSE mc'[i] = NoEntry /\ mcVid'[i] = 0
    BY DEF ShadowTrue
  <2>1. CASE i \in W
    BY <2>1 DEF WriteSlots, SlotType
  <2>2. CASE i \notin W
    BY <2>2 DEF WriteSlots, SlotType, ShadowTrue
  <2> QED BY <2>1, <2>2
<1> QED BY <1>2, <1>3

LEMMA HwTypes ==
    ASSUME SlotType
    PROVE  /\ HwUsage \in [Slots -> BOOLEAN]
           /\ HwVid \in [Slots -> EVids]
           /\ HwFree \in SUBSET Slots
           /\ \A v : SlotsOf(v) \in SUBSET Slots /\ HwSlotsOf(v) \in SUBSET Slots
BY DEF SlotType, HwUsage, HwVid, HwFree, HwSlotsOf, SlotsOf, Entry

(* A read back finds no slot of v that the shadow did not know. *)
LEMMA ReadBackFindsNone ==
    ASSUME SlotType, ShadowTrue, NEW v \in EVids, SlotsOf(v) = {}
    PROVE  HwSlotsOf(v) = {}
<1> SUFFICES ASSUME NEW i \in Slots, HwUsage[i], HwVid[i] = v
             PROVE  FALSE
  BY DEF HwSlotsOf
<1>1. mc[i] # NoEntry /\ mc[i].evid = v
  BY DEF HwUsage, HwVid
<1>2. usage[i] /\ mcVid[i] = v
  BY <1>1 DEF ShadowTrue, SlotType
<1> QED BY <1>2 DEF SlotsOf

(* What rtk_vlan_checkAndCreateMbr does when it creates a slot. *)
LEMMA CreateEffect ==
    ASSUME SlotType, ShadowTrue, vlan4k \in [Vids -> SUBSET Ports],
           NEW v \in EVids, NEW i, CreateMbr(v, i)
    PROVE  /\ i \in Slots /\ mc[i] = NoEntry /\ SlotsOf(v) = {}
           /\ mc' = [mc EXCEPT ![i] = [evid |-> v, mbr |-> Members(v)]]
           /\ usage' = [HwUsage EXCEPT ![i] = TRUE]
           /\ mcVid' = [HwVid EXCEPT ![i] = v]
           /\ SlotType' /\ ShadowTrue'
<1>1. SlotsOf(v) = {} /\ HwSlotsOf(v) = {}
  BY ReadBackFindsNone DEF CreateMbr
<1>2. HwFree # {} /\ i = Lowest(HwFree)
  BY <1>1 DEF CreateMbr
<1>3. i \in HwFree
  BY <1>2, HwTypes, FirstSlot
<1>4. i \in Slots /\ mc[i] = NoEntry
  BY <1>3 DEF HwFree, HwUsage
<1>5. /\ mc' = [mc EXCEPT ![i] = [evid |-> v, mbr |-> Members(v)]]
      /\ usage' = [HwUsage EXCEPT ![i] = TRUE]
      /\ mcVid' = [HwVid EXCEPT ![i] = v]
  BY <1>1 DEF CreateMbr
<1>6. [evid |-> v, mbr |-> Members(v)] \in Entry
  BY DEF Entry, Members
<1>7. SlotType'
  BY <1>4, <1>5, <1>6, HwTypes DEF SlotType
<1>8. ShadowTrue'
  <2> SUFFICES ASSUME NEW j \in Slots
               PROVE  IF usage'[j] THEN mc'[j].evid = mcVid'[j]
                                   ELSE mc'[j] = NoEntry /\ mcVid'[j] = 0
    BY DEF ShadowTrue
  <2>1. CASE j = i
    BY <2>1, <1>4, <1>5, HwTypes DEF SlotType
  <2>2. CASE j # i
    <3>1. usage'[j] = (mc[j] # NoEntry) /\ mcVid'[j] = mc[j].evid /\ mc'[j] = mc[j]
      BY <2>2, <1>4, <1>5, HwTypes DEF SlotType, HwUsage, HwVid
    <3>2. mc[j] = NoEntry => mc[j].evid = 0
      BY DEF NoEntry
    <3>3. CASE mc[j] = NoEntry
      BY <3>1, <3>2, <3>3
    <3>4. CASE mc[j] # NoEntry
      BY <3>1, <3>4
    <3> QED BY <3>3, <3>4
  <2> QED BY <2>1, <2>2
<1> QED BY <1>1, <1>4, <1>5, <1>7, <1>8

LEMMA MbrTypes ==
    ASSUME SlotType, ShadowTrue, vlan4k \in [Vids -> SUBSET Ports],
           NEW v \in EVids, NEW i, CheckAndCreateMbr(v, i)
    PROVE  i \in Slots /\ SlotType' /\ ShadowTrue'
<1>1. CASE FoundMbr(v, i)
  <2>1. i \in Slots
    BY <1>1, HwTypes, FirstSlot DEF FoundMbr
  <2> QED BY <1>1, <2>1 DEF FoundMbr, SlotType, ShadowTrue
<1>2. CASE CreateMbr(v, i)
  BY <1>2, CreateEffect
<1> QED BY <1>1, <1>2 DEF CheckAndCreateMbr

LEMMA FullTypes ==
    ASSUME SlotType, NEW v, TableFull(v)
    PROVE  SlotType' /\ ShadowTrue'
<1>1. usage' = HwUsage /\ mcVid' = HwVid /\ mc' = mc
  BY DEF TableFull
<1>2. SlotType'
  BY <1>1, HwTypes DEF SlotType
<1>3. \A j \in Slots : usage'[j] = (mc[j] # NoEntry) /\ mcVid'[j] = mc[j].evid /\ mc'[j] = mc[j]
  BY <1>1 DEF HwUsage, HwVid
<1>4. \A j \in Slots : mc[j] = NoEntry => mc[j].evid = 0
  BY DEF NoEntry
<1>5. ShadowTrue'
  <2> SUFFICES ASSUME NEW j \in Slots
               PROVE  IF usage'[j] THEN mc'[j].evid = mcVid'[j]
                                   ELSE mc'[j] = NoEntry /\ mcVid'[j] = 0
    BY DEF ShadowTrue
  <2>1. CASE mc[j] = NoEntry
    BY <1>3, <1>4, <2>1
  <2>2. CASE mc[j] # NoEntry
    BY <1>3, <2>2
  <2> QED BY <2>1, <2>2
<1> QED BY <1>2, <1>5
-----------------------------------------------------------------------------
(* The type invariant and the shadow. *)
IInv == TypeOK /\ ShadowTrue

LEMMA InitInv == Init => IInv
<1> SUFFICES ASSUME Init PROVE IInv
  OBVIOUS
<1>1. [evid |-> 1, mbr |-> Ports] \in Entry
  BY ZeroTypes DEF Entry
<1>2. TypeOK
  BY <1>1, ZeroTypes DEF Init, TypeOK
<1>3. ShadowTrue
  BY ZeroTypes DEF Init, ShadowTrue
<1> QED BY <1>2, <1>3 DEF IInv

LEMMA SlotTypeOK == TypeOK => SlotType
BY DEF TypeOK, SlotType

(* What is left to show once a step has kept the slots in order. *)
LEMMA Assemble ==
    ASSUME SlotType', ShadowTrue',
           vlan4k' \in [Vids -> SUBSET Ports], pvid' \in [Ports -> Slots],
           want' \in [Ports -> EVids \cup {NoVid}], raw' \in BOOLEAN, group' \in [Groups -> Protos \cup {NoProto}],
           ppb' \in [Ports -> [Groups -> Rule]]
    PROVE  IInv'
BY DEF IInv, TypeOK, SlotType

LEMMA ClearedType ==
    ASSUME TypeOK, NEW rules
    PROVE  Cleared(rules) \in [Groups -> Protos \cup {NoProto}]
BY DEF Cleared, TypeOK

(* The calls that the handlers of RtlSwconfig make as well. *)
LEMMA InitCallInv ==
    ASSUME IInv, NEW flush \in BOOLEAN, NEW pin \in BOOLEAN, VlanInit(flush, pin)
    PROVE  IInv'
<1> USE DEF IInv
<1>1. SlotType' /\ ShadowTrue'
  <2>1. [evid |-> 1, mbr |-> Ports] \in Entry /\ NoEntry \in Entry
    BY ZeroTypes DEF Entry
  <2>2. SlotType'
    BY <2>1, ZeroTypes DEF VlanInit, InitSlots, SlotType
  <2>3. ShadowTrue'
    BY ZeroTypes DEF VlanInit, InitSlots, ShadowTrue
  <2> QED BY <2>2, <2>3
<1>2. vlan4k' \in [Vids -> SUBSET Ports]
  BY DEF VlanInit, TypeOK
<1>3. pvid' \in [Ports -> Slots] /\ want' \in [Ports -> EVids \cup {NoVid}] /\ raw' \in BOOLEAN
  BY ZeroTypes DEF VlanInit
<1>4. group' \in [Groups -> Protos \cup {NoProto}] /\ ppb' \in [Ports -> [Groups -> Rule]]
  BY ZeroTypes DEF VlanInit, TypeOK
<1> QED BY <1>1, <1>2, <1>3, <1>4, Assemble

LEMMA SetCallInv ==
    ASSUME IInv, NEW v \in Vids, NEW m \in SUBSET Ports, VlanSet(v, m)
    PROVE  IInv'
<1> USE DEF IInv
<1>0. SlotType /\ Vids \subseteq EVids
  BY SlotTypeOK, ZeroTypes
<1>1. SlotType' /\ ShadowTrue'
  BY <1>0, HwTypes, FirstSlot, WriteTypes DEF VlanSet
<1>2. want' \in [Ports -> EVids \cup {NoVid}]
  BY DEF VlanSet, Emptied, TypeOK
<1>3. vlan4k' \in [Vids -> SUBSET Ports]
  BY DEF VlanSet, TypeOK
<1> QED BY <1>1, <1>2, <1>3, Assemble DEF VlanSet, TypeOK

LEMMA PvidCallInv ==
    ASSUME IInv, NEW p \in Ports, NEW v \in EVids, PvidSet(p, v)
    PROVE  IInv'
<1> USE DEF IInv
<1>0. SlotType /\ Vids \subseteq EVids
  BY SlotTypeOK, ZeroTypes
<1>1. PICK i \in Slots : CheckAndCreateMbr(v, i) /\ pvid' = [pvid EXCEPT ![p] = i]
  BY DEF PvidSet
<1>2. SlotType' /\ ShadowTrue'
  BY <1>0, <1>1, MbrTypes DEF TypeOK
<1>3. want' \in [Ports -> EVids \cup {NoVid}]
  BY DEF PvidSet, TypeOK
<1> QED BY <1>1, <1>2, <1>3, Assemble DEF PvidSet, TypeOK

LEMMA PvidFullInv ==
    ASSUME IInv, NEW v \in EVids, PvidFull(v)
    PROVE  IInv'
<1> USE DEF IInv
<1>0. SlotType /\ Vids \subseteq EVids
  BY SlotTypeOK, ZeroTypes
<1>1. SlotType' /\ ShadowTrue'
  BY <1>0, FullTypes DEF PvidFull
<1> QED BY <1>1, Assemble DEF PvidFull, TypeOK

LEMMA StepInv == IInv /\ [Next]_vars => IInv'
<1> SUFFICES ASSUME IInv, [Next]_vars PROVE IInv'
  OBVIOUS
<1> USE DEF IInv
<1>0. SlotType /\ Vids \subseteq EVids
  BY SlotTypeOK, ZeroTypes
<1>1. ASSUME NEW flush \in BOOLEAN, NEW pin \in BOOLEAN, VlanInit(flush, pin) PROVE IInv'
  BY <1>1, InitCallInv
<1>2. ASSUME NEW v \in Vids, NEW m \in Lists, VlanSet(v, m) PROVE IInv'
  BY <1>2, SetCallInv, VlanAssumption
<1>3. ASSUME NEW v \in EVids \ Vids, NEW m \in Lists, EvidSet(v, m) PROVE IInv'
  <2>1. EvidSlots(v, m) \in SUBSET Slots
    <3>1. {i \in FreeSlots : i < ScanEnd(v)} \in SUBSET Slots
      BY DEF FreeSlots
    <3> QED BY <1>0, <3>1, HwTypes, FirstSlot DEF EvidSlots
  <2>2. SlotType' /\ ShadowTrue'
    BY <1>0, <1>3, <2>1, WriteTypes, VlanAssumption DEF EvidSet
  <2>3. want' \in [Ports -> EVids \cup {NoVid}]
    BY <1>3 DEF EvidSet, Emptied, TypeOK
  <2> QED BY <1>3, <2>2, <2>3, Assemble DEF EvidSet, TypeOK
<1>4. ASSUME NEW i \in Slots, NEW e \in Entry, MbrCfgSet(i, e) PROVE IInv'
  <2>1. e.evid \in EVids /\ (e = NoEntry => e.evid = 0)
    BY DEF Entry, NoEntry
  <2>2. SlotType'
    BY <1>0, <1>4, <2>1 DEF MbrCfgSet, SlotType
  <2>3. ShadowTrue'
    BY <1>0, <1>4, <2>1 DEF MbrCfgSet, SlotType, ShadowTrue
  <2>4. want' \in [Ports -> EVids \cup {NoVid}] /\ raw' \in BOOLEAN
    BY <1>4 DEF MbrCfgSet, TypeOK
  <2> QED BY <1>4, <2>2, <2>3, <2>4, Assemble DEF MbrCfgSet, TypeOK
<1>5. ASSUME NEW p \in Ports, NEW v \in EVids, PvidSet(p, v) PROVE IInv'
  BY <1>5, PvidCallInv
<1>6. ASSUME NEW v \in EVids, PvidFull(v) PROVE IInv'
  BY <1>6, PvidFullInv
<1>7. ASSUME NEW p \in Ports, NEW t \in Protos, NEW v \in Vids, ProtoAdd(p, t, v) PROVE IInv'
  <2>1. PICK i \in Slots :
          /\ CheckAndCreateMbr(v, i)
          /\ ppb' = [ppb EXCEPT ![p] = [@ EXCEPT ![GroupFor(t)] = [valid |-> TRUE, idx |-> i]]]
    BY <1>7 DEF ProtoAdd
  <2>2. SlotType' /\ ShadowTrue'
    BY <1>0, <2>1, MbrTypes DEF TypeOK
  <2>3. GroupFor(t) \in Groups
    BY <1>7, GroupForIn DEF ProtoAdd
  <2>4. [valid |-> TRUE, idx |-> i] \in Rule
    BY DEF Rule
  <2>5. ppb' \in [Ports -> [Groups -> Rule]]
    BY <2>1, <2>3, <2>4 DEF TypeOK
  <2> QED BY <1>7, <2>2, <2>3, <2>5, Assemble DEF ProtoAdd, TypeOK
<1>8. ASSUME NEW t \in Protos, NEW v \in Vids, ProtoAddFails(t, v) PROVE IInv'
  <2>1. SlotType' /\ ShadowTrue'
    <3>1. CASE TableFull(v)
      BY <1>0, <3>1, FullTypes
    <3>2. CASE Busy(v)
      BY <1>0, <3>2 DEF Busy, SlotType, ShadowTrue
    <3> QED BY <1>8, <3>1, <3>2 DEF ProtoAddFails
  <2>2. GroupFor(t) \in Groups
    BY <1>8, GroupForIn DEF ProtoAddFails
  <2> QED BY <1>8, <2>1, <2>2, Assemble DEF ProtoAddFails, TypeOK
<1>9. ASSUME NEW p \in Ports, NEW t \in Protos, ProtoDel(p, t) PROVE IInv'
  <2>1. SlotType' /\ ShadowTrue'
    BY <1>0, <1>9 DEF ProtoDel, SlotType, ShadowTrue
  <2>2. ppb' \in [Ports -> [Groups -> Rule]]
    BY <1>9, ZeroTypes DEF ProtoDel, TypeOK
  <2>3. group' \in [Groups -> Protos \cup {NoProto}]
    BY <1>9, ClearedType, GroupForIn DEF ProtoDel, TypeOK
  <2> QED BY <1>9, <2>1, <2>2, <2>3, Assemble DEF ProtoDel, TypeOK
<1>10. ASSUME NEW p \in Ports, ProtoDelAll(p) PROVE IInv'
  <2>1. SlotType' /\ ShadowTrue'
    BY <1>0, <1>10 DEF ProtoDelAll, SlotType, ShadowTrue
  <2>2. ppb' \in [Ports -> [Groups -> Rule]]
    BY <1>10, ZeroTypes DEF ProtoDelAll, TypeOK
  <2>3. group' \in [Groups -> Protos \cup {NoProto}]
    BY <1>10, ClearedType DEF ProtoDelAll
  <2> QED BY <1>10, <2>1, <2>2, <2>3, Assemble DEF ProtoDelAll, TypeOK
<1>11. CASE UNCHANGED vars
  BY <1>11 DEF vars, TypeOK, ShadowTrue
<1>12. \A v \in EVids, m \in Lists : [evid |-> v, mbr |-> m] \in Entry
  BY VlanAssumption DEF Entry
<1> QED BY <1>1, <1>2, <1>3, <1>4, <1>5, <1>6, <1>7, <1>8, <1>9, <1>10, <1>11, <1>12 DEF Next

LEMMA Invariance == Spec => []IInv
BY InitInv, StepInv, PTL DEF Spec

(* Every variable keeps its type whatever is called in whatever order. *)
THEOREM TypeCorrect == Spec => []TypeOK
BY Invariance, PTL DEF IInv

(* The shadow never disagrees with the chip, raw writes included. *)
THEOREM ShadowSafe == Spec => []ShadowTrue
BY Invariance, PTL DEF IInv

-----------------------------------------------------------------------------
(* The protocol groups. *)
LEMMA GroupsStep == IInv /\ GroupsSound /\ [Next]_vars => GroupsSound'
<1> SUFFICES ASSUME IInv, GroupsSound, [Next]_vars PROVE GroupsSound'
  OBVIOUS
<1>0. TypeOK
  BY DEF IInv
<1>1. ASSUME UNCHANGED <<group, ppb>> PROVE GroupsSound'
  BY <1>1 DEF GroupsSound
<1>2. ASSUME NEW flush \in BOOLEAN, NEW pin \in BOOLEAN, VlanInit(flush, pin) PROVE GroupsSound'
  <2>1. CASE pin
    BY <1>2, <2>1 DEF VlanInit, GroupsSound, NoRule
  <2>2. CASE ~pin
    BY <1>1, <1>2, <2>2 DEF VlanInit
  <2> QED BY <2>1, <2>2
<1>3. ASSUME NEW t \in Protos, HasGroup(t), group' = [group EXCEPT ![GroupFor(t)] = t]
      PROVE  /\ \A g, h \in Groups : group'[g] = group'[h] /\ group'[g] # NoProto => g = h
             /\ \A g \in Groups : group[g] # NoProto => group'[g] # NoProto
             /\ GroupFor(t) \in Groups /\ group'[GroupFor(t)] # NoProto
  <2>1. t # NoProto
    BY VlanAssumption
  <2>2. GroupFor(t) \in Groups
    BY <1>3, GroupForIn
  <2>3. \A g \in Groups : group[g] = t => g = GroupFor(t)
    <3>1. CASE GroupsOf(t) # {}
      BY <1>3, <2>1, <2>2, <3>1, GroupForIn DEF GroupsSound
    <3>2. CASE GroupsOf(t) = {}
      BY <3>2 DEF GroupsOf
    <3> QED BY <3>1, <3>2
  <2>4. group \in [Groups -> Protos \cup {NoProto}]
    BY <1>0 DEF TypeOK
  <2>5. \A g \in Groups : group'[g] = IF g = GroupFor(t) THEN t ELSE group[g]
    BY <1>3, <2>2, <2>4
  <2> HIDE <1>3
  <2> QED BY <2>1, <2>2, <2>3, <2>5 DEF GroupsSound
<1>4. ASSUME NEW p \in Ports, NEW t \in Protos, NEW v \in Vids, ProtoAdd(p, t, v) PROVE GroupsSound'
  <2>1. PICK i \in Slots :
          ppb' = [ppb EXCEPT ![p] = [@ EXCEPT ![GroupFor(t)] = [valid |-> TRUE, idx |-> i]]]
    BY <1>4 DEF ProtoAdd
  <2>2. HasGroup(t) /\ group' = [group EXCEPT ![GroupFor(t)] = t]
    BY <1>4 DEF ProtoAdd
  <2>3. \A q \in Ports, g \in Groups :
          ppb'[q][g].valid => ppb[q][g].valid \/ g = GroupFor(t)
    BY <1>0, <2>1 DEF TypeOK
  <2> QED BY <1>3, <2>2, <2>3 DEF GroupsSound
<1>5. ASSUME NEW t \in Protos, NEW v \in Vids, ProtoAddFails(t, v) PROVE GroupsSound'
  BY <1>3, <1>5 DEF ProtoAddFails, GroupsSound
<1>6. ASSUME NEW p \in Ports,
             \A g \in Groups : group'[g] \in {group[g], Cleared(ppb')[g]},
             \A q \in Ports, g \in Groups : ppb'[q][g].valid => ppb[q][g].valid
      PROVE  GroupsSound'
  <2>1. \A g \in Groups :
          \/ group'[g] = group[g]
          \/ group'[g] = NoProto /\ \A q \in Ports : ~ppb'[q][g].valid
    BY <1>6 DEF Cleared
  <2> QED BY <1>6, <2>1 DEF GroupsSound
<1>7. ASSUME NEW p \in Ports, NEW t \in Protos, ProtoDel(p, t) PROVE GroupsSound'
  <2>1. \A q \in Ports, g \in Groups : ppb'[q][g].valid => ppb[q][g].valid
    BY <1>0, <1>7 DEF ProtoDel, NoRule, TypeOK
  <2>2. DelGroup(t) \in Groups /\ group \in [Groups -> Protos \cup {NoProto}]
    BY <1>0, GroupForIn DEF TypeOK
  <2>3. \A g \in Groups : group'[g] \in {group[g], Cleared(ppb')[g]}
    BY <1>7, <2>2 DEF ProtoDel
  <2> QED BY <1>6, <2>1, <2>3
<1>8. ASSUME NEW p \in Ports, ProtoDelAll(p) PROVE GroupsSound'
  <2>1. \A q \in Ports, g \in Groups : ppb'[q][g].valid => ppb[q][g].valid
    BY <1>0, <1>8 DEF ProtoDelAll, NoRule, TypeOK
  <2>2. \A g \in Groups : group'[g] \in {group[g], Cleared(ppb')[g]}
    BY <1>8 DEF ProtoDelAll
  <2> QED BY <1>6, <2>1, <2>2
<1> QED BY <1>1, <1>2, <1>4, <1>5, <1>7, <1>8
      DEF Next, vars, VlanSet, EvidSet, MbrCfgSet, PvidSet, PvidFull

(* Protocol rules stay with the protocol they were made for. *)
THEOREM GroupsSafe == Spec => []GroupsSound
<1>1. Init => GroupsSound
  BY DEF Init, GroupsSound, NoRule
<1> QED BY <1>1, Invariance, GroupsStep, PTL DEF Spec

-----------------------------------------------------------------------------
(* The slots of the 4k VLANs, as long as nobody writes slots himself. *)
Unique ==
    \A i, j \in Slots :
        usage[i] /\ usage[j] /\ mcVid[i] = mcVid[j] /\ mcVid[i] \in Vids => i = j

Tracks ==
    \A i \in Slots : usage[i] /\ mcVid[i] \in Vids => mc[i].mbr = vlan4k[mcVid[i]]

Own == Unique /\ Tracks

LEMMA OwnSet ==
    ASSUME TypeOK, Own, NEW v \in Vids, NEW m \in SUBSET Ports, VlanSet(v, m)
    PROVE  Own'
<1> DEFINE W == OneOf(SlotsOf(v))
<1>1. /\ usage \in [Slots -> BOOLEAN] /\ mcVid \in [Slots -> EVids]
      /\ vlan4k \in [Vids -> SUBSET Ports]
  BY DEF TypeOK
<1>2. W = SlotsOf(v)
  <2>1. SlotsOf(v) \in SUBSET Slots
    BY DEF SlotsOf
  <2>2. CASE SlotsOf(v) = {}
    BY <2>2 DEF OneOf
  <2>3. CASE SlotsOf(v) # {}
    <3>1. Lowest(SlotsOf(v)) \in SlotsOf(v)
      BY <2>1, <2>3, FirstSlot
    <3>2. \A i \in SlotsOf(v) : i = Lowest(SlotsOf(v))
      BY <3>1 DEF SlotsOf, Own, Unique
    <3> QED BY <2>3, <3>1, <3>2 DEF OneOf
  <2> QED BY <2>2, <2>3
<1>3. \A i \in Slots : i \in W <=> usage[i] /\ mcVid[i] = v
  BY <1>2 DEF SlotsOf
<1>4. WriteSlots(W, v, m) /\ vlan4k' = [vlan4k EXCEPT ![v] = m]
  BY DEF VlanSet
<1> HIDE DEF W
<1>5. \A i \in Slots :
        /\ i \notin W => usage'[i] = usage[i] /\ mcVid'[i] = mcVid[i] /\ mc'[i] = mc[i]
        /\ i \in W /\ usage'[i] => mcVid'[i] = v /\ mc'[i].mbr = m /\ usage[i] /\ mcVid[i] = v
  BY <1>3, <1>4 DEF WriteSlots
<1>6. Unique'
  BY <1>3, <1>5 DEF Own, Unique
<1>7. Tracks'
  <2> SUFFICES ASSUME NEW i \in Slots, usage'[i], mcVid'[i] \in Vids
               PROVE  mc'[i].mbr = vlan4k'[mcVid'[i]]
    BY DEF Tracks
  <2>1. CASE i \in W
    BY <1>1, <1>4, <1>5, <2>1
  <2>2. CASE i \notin W
    <3>1. usage[i] /\ mcVid[i] # v /\ mcVid[i] \in Vids /\ mcVid'[i] = mcVid[i] /\ mc'[i] = mc[i]
      BY <1>3, <1>5, <2>2
    <3> QED BY <1>1, <1>4, <3>1 DEF Own, Tracks
  <2> QED BY <2>1, <2>2
<1> QED BY <1>6, <1>7 DEF Own

(* A read back forgets slots but brings none to light. *)
LEMMA ReadBack ==
    ASSUME IInv, NEW j \in Slots, HwUsage[j]
    PROVE  usage[j] /\ mcVid[j] = HwVid[j]
BY DEF IInv, ShadowTrue, HwUsage, HwVid, TypeOK

LEMMA OwnCreate ==
    ASSUME IInv, Own, NEW v \in EVids, NEW i, CreateMbr(v, i), vlan4k' = vlan4k
    PROVE  Own'
<1>0. SlotType /\ ShadowTrue /\ vlan4k \in [Vids -> SUBSET Ports]
  BY SlotTypeOK DEF IInv, TypeOK
<1>1. /\ i \in Slots /\ mc[i] = NoEntry /\ SlotsOf(v) = {}
      /\ mc' = [mc EXCEPT ![i] = [evid |-> v, mbr |-> Members(v)]]
      /\ usage' = [HwUsage EXCEPT ![i] = TRUE]
      /\ mcVid' = [HwVid EXCEPT ![i] = v]
  BY <1>0, CreateEffect
<1>2. \A j \in Slots : j # i /\ usage'[j] =>
        usage[j] /\ mcVid'[j] = mcVid[j] /\ mc'[j] = mc[j]
  BY <1>0, <1>1, HwTypes, ReadBack DEF SlotType
<1>3. mcVid'[i] = v /\ mc'[i] = [evid |-> v, mbr |-> Members(v)]
  BY <1>0, <1>1, HwTypes DEF SlotType
<1>4. \A j \in Slots : usage[j] => mcVid[j] # v
  BY <1>1 DEF SlotsOf
<1> HIDE <1>1
<1>5. Unique'
  BY <1>2, <1>3, <1>4 DEF Own, Unique
<1>6. Tracks'
  BY <1>2, <1>3 DEF Own, Tracks, Members
<1> QED BY <1>5, <1>6 DEF Own

LEMMA OwnForget ==
    ASSUME IInv, Own, NEW v, TableFull(v), vlan4k' = vlan4k
    PROVE  Own'
<1>1. usage' = HwUsage /\ mcVid' = HwVid /\ mc' = mc
  BY DEF TableFull
<1>2. \A j \in Slots : usage'[j] => usage[j] /\ mcVid'[j] = mcVid[j]
  BY <1>1, ReadBack
<1>3. Unique'
  BY <1>2 DEF Own, Unique
<1>4. Tracks'
  BY <1>1, <1>2 DEF Own, Tracks
<1> QED BY <1>3, <1>4 DEF Own

LEMMA OwnSame ==
    ASSUME Own, UNCHANGED <<vlan4k, mc, usage, mcVid>>
    PROVE  Own'
BY DEF Own, Unique, Tracks

LEMMA OwnMbr ==
    ASSUME IInv, Own, NEW v \in EVids, NEW i, CheckAndCreateMbr(v, i), vlan4k' = vlan4k
    PROVE  Own'
BY OwnCreate, OwnSame DEF CheckAndCreateMbr, FoundMbr

LEMMA OwnInit == Init => Own
<1> SUFFICES ASSUME Init PROVE Own
  OBVIOUS
<1>1. Unique
  BY DEF Init, Unique
<1>2. Tracks
  BY ZeroTypes DEF Init, Tracks
<1> QED BY <1>1, <1>2 DEF Own

(* A new or refreshed slot of an enhanced id is none of a 4k VLAN's. *)
LEMMA OwnEvid ==
    ASSUME TypeOK, Own, NEW v \in EVids \ Vids, NEW m \in SUBSET Ports, EvidSet(v, m)
    PROVE  Own'
<1> DEFINE W == EvidSlots(v, m)
<1>1. WriteSlots(W, v, m) /\ vlan4k' = vlan4k
  BY DEF EvidSet
<1>2. usage \in [Slots -> BOOLEAN] /\ mcVid \in [Slots -> EVids]
  BY DEF TypeOK
<1> HIDE DEF W
<1>3. \A i \in Slots : usage'[i] /\ mcVid'[i] \in Vids =>
        usage[i] /\ mcVid'[i] = mcVid[i] /\ mc'[i] = mc[i]
  BY <1>1, <1>2 DEF WriteSlots
<1>4. Unique'
  BY <1>3 DEF Own, Unique
<1>5. Tracks'
  BY <1>1, <1>3 DEF Own, Tracks
<1> QED BY <1>4, <1>5 DEF Own

LEMMA OwnReset ==
    ASSUME NEW flush \in BOOLEAN, NEW pin \in BOOLEAN, VlanInit(flush, pin)
    PROVE  Own'
<1>1. Unique'
  BY DEF VlanInit, InitSlots, Unique
<1>2. Tracks'
  BY ZeroTypes DEF VlanInit, InitSlots, Tracks
<1> QED BY <1>1, <1>2 DEF Own

LEMMA OwnStep == IInv /\ (~raw => Own) /\ [Next]_vars => (~raw' => Own')
<1> SUFFICES ASSUME IInv, ~raw => Own, [Next]_vars, ~raw' PROVE Own'
  OBVIOUS
<1>1. TypeOK /\ Vids \subseteq EVids /\ Lists \subseteq SUBSET Ports
  BY ZeroTypes, VlanAssumption DEF IInv
<1>2. ASSUME NEW flush \in BOOLEAN, NEW pin \in BOOLEAN, VlanInit(flush, pin) PROVE Own'
  BY <1>2, OwnReset
<1>3. ASSUME NEW p \in Ports, NEW v \in EVids, PvidSet(p, v) PROVE Own'
  BY <1>3, OwnMbr DEF PvidSet
<1>4. ASSUME NEW v \in EVids, PvidFull(v) PROVE Own'
  BY <1>4, OwnForget DEF PvidFull
<1>5. ASSUME NEW p \in Ports, NEW t \in Protos, NEW v \in Vids, ProtoAdd(p, t, v) PROVE Own'
  BY <1>1, <1>5, OwnMbr DEF ProtoAdd
<1>6. ASSUME NEW t \in Protos, NEW v \in Vids, ProtoAddFails(t, v) PROVE Own'
  BY <1>6, OwnForget, OwnSame DEF ProtoAddFails, Busy
<1>7. ASSUME NEW p \in Ports, NEW t \in Protos, ProtoDel(p, t) PROVE Own'
  BY <1>7, OwnSame DEF ProtoDel
<1>8. ASSUME NEW p \in Ports, ProtoDelAll(p) PROVE Own'
  BY <1>8, OwnSame DEF ProtoDelAll
<1>9. CASE UNCHANGED vars
  BY <1>9, OwnSame DEF vars
<1>10. ASSUME NEW v \in Vids, NEW m \in Lists, VlanSet(v, m) PROVE Own'
  BY <1>1, <1>10, OwnSet DEF VlanSet
<1>11. ASSUME NEW v \in EVids \ Vids, NEW m \in Lists, EvidSet(v, m) PROVE Own'
  BY <1>1, <1>11, OwnEvid DEF EvidSet
<1>12. ASSUME NEW i \in Slots, NEW e, MbrCfgSet(i, e) PROVE FALSE
  BY <1>12 DEF MbrCfgSet
<1> QED BY <1>2, <1>3, <1>4, <1>5, <1>6, <1>7, <1>8, <1>9, <1>10, <1>11, <1>12 DEF Next

LEMMA OwnInvariant == Spec => [](~raw => Own)
BY OwnInit, OwnStep, Invariance, PTL DEF Spec

(* Without raw writes no VLAN of the 4k table ever has two slots. *)
THEOREM OneSlot == Spec => []OneSlotPerVlan
<1>1. (~raw => Own) => OneSlotPerVlan
  BY DEF Own, Unique, OneSlotPerVlan
<1> QED BY <1>1, OwnInvariant, PTL

(* Nor does a slot's copy of the members go stale. *)
THEOREM Tracked == Spec => []MembersTracked
<1>1. (~raw => Own) => MembersTracked
  BY DEF Own, Tracks, MembersTracked
<1> QED BY <1>1, OwnInvariant, PTL

-----------------------------------------------------------------------------
(* The PVIDs of ports. *)
Held ==
    \A p \in Ports : want[p] # NoVid =>
        mc[pvid[p]] # NoEntry /\ mc[pvid[p]].evid = want[p]

(* The shadow counts the slot of a PVID that stands as used. *)
LEMMA HeldUsed ==
    ASSUME IInv, Held, NEW p \in Ports, want[p] # NoVid
    PROVE  pvid[p] \in Slots /\ usage[pvid[p]] /\ mcVid[pvid[p]] = want[p]
<1>1. pvid[p] \in Slots /\ mc[pvid[p]] # NoEntry /\ mc[pvid[p]].evid = want[p]
  BY DEF Held, IInv, TypeOK
<1> QED BY <1>1 DEF IInv, ShadowTrue

(* Writing the slots of v and free ones. *)
LEMMA HeldWrite ==
    ASSUME IInv, Held, NEW v \in EVids, NEW m \in SUBSET Ports,
           NEW W \in SUBSET Slots, \A i \in W : usage[i] => mcVid[i] = v,
           WriteSlots(W, v, m), Emptied(v, m), pvid' = pvid
    PROVE  Held'
<1> SUFFICES ASSUME NEW p \in Ports, want'[p] # NoVid
             PROVE  mc'[pvid[p]] # NoEntry /\ mc'[pvid[p]].evid = want'[p]
  BY DEF Held
<1>1. want'[p] = want[p] /\ want[p] # NoVid /\ (m = {} => want[p] # v)
  BY DEF Emptied
<1>2. pvid[p] \in Slots /\ usage[pvid[p]] /\ mcVid[pvid[p]] = want[p]
  BY <1>1, HeldUsed
<1>3. CASE pvid[p] \in W
  <2>1. want[p] = v /\ m # {}
    BY <1>1, <1>2, <1>3
  <2>2. mc'[pvid[p]] = [evid |-> v, mbr |-> m]
    BY <1>2, <1>3, <2>1 DEF WriteSlots
  <2> QED BY <1>1, <2>1, <2>2 DEF NoEntry
<1>4. CASE pvid[p] \notin W
  <2>1. mc'[pvid[p]] = mc[pvid[p]]
    BY <1>2, <1>4 DEF WriteSlots
  <2> QED BY <1>1, <2>1 DEF Held
<1> QED BY <1>3, <1>4

(* A slot that is created was nobody's. *)
LEMMA HeldMbr ==
    ASSUME IInv, Held, NEW v \in EVids, NEW i, CheckAndCreateMbr(v, i)
    PROVE  /\ \A p \in Ports : want[p] # NoVid =>
                 mc'[pvid[p]] # NoEntry /\ mc'[pvid[p]].evid = want[p]
           /\ i \in Slots /\ mc'[i].evid = v
<1>0. /\ SlotType /\ ShadowTrue /\ vlan4k \in [Vids -> SUBSET Ports]
      /\ pvid \in [Ports -> Slots]
  BY SlotTypeOK DEF IInv, TypeOK
<1>1. CASE FoundMbr(v, i)
  <2>1. i \in SlotsOf(v)
    BY <1>0, <1>1, HwTypes, FirstSlot DEF FoundMbr
  <2>2. i \in Slots /\ mc[i].evid = v
    BY <1>0, <2>1 DEF SlotsOf, ShadowTrue
  <2> QED BY <1>1, <2>2 DEF FoundMbr, Held
<1>2. CASE CreateMbr(v, i)
  <2>1. /\ i \in Slots /\ mc[i] = NoEntry
        /\ mc' = [mc EXCEPT ![i] = [evid |-> v, mbr |-> Members(v)]]
    BY <1>0, <1>2, CreateEffect
  <2>2. mc'[i].evid = v
    BY <1>0, <2>1 DEF SlotType
  <2>3. \A p \in Ports : want[p] # NoVid =>
          mc'[pvid[p]] # NoEntry /\ mc'[pvid[p]].evid = want[p]
    <3> SUFFICES ASSUME NEW p \in Ports, want[p] # NoVid
                 PROVE  mc'[pvid[p]] = mc[pvid[p]]
      BY DEF Held
    <3>1. pvid[p] # i /\ pvid[p] \in Slots
      BY <1>0, <2>1 DEF Held
    <3> QED BY <1>0, <2>1, <3>1 DEF SlotType
  <2> QED BY <2>1, <2>2, <2>3
<1> QED BY <1>1, <1>2 DEF CheckAndCreateMbr

LEMMA HeldSame ==
    ASSUME Held, UNCHANGED <<mc, pvid, want>>
    PROVE  Held'
BY DEF Held

LEMMA HeldStep == IInv /\ Held /\ [Next]_vars => Held'
<1> SUFFICES ASSUME IInv, Held, [Next]_vars PROVE Held'
  OBVIOUS
<1>1. /\ Vids \subseteq EVids /\ Lists \subseteq SUBSET Ports
      /\ pvid \in [Ports -> Slots] /\ want \in [Ports -> EVids \cup {NoVid}]
      /\ mc \in [Slots -> Entry]
  BY ZeroTypes, VlanAssumption DEF IInv, TypeOK
<1>2. ASSUME NEW flush \in BOOLEAN, NEW pin \in BOOLEAN, VlanInit(flush, pin) PROVE Held'
  <2>1. \A p \in Ports : pvid'[p] = 0 /\ want'[p] = 1
    BY <1>2 DEF VlanInit
  <2>2. mc'[0] = [evid |-> 1, mbr |-> Ports]
    BY <1>2, ZeroTypes DEF VlanInit, InitSlots
  <2> QED BY <2>1, <2>2 DEF Held, NoEntry
<1>3. ASSUME NEW p \in Ports, NEW v \in EVids, PvidSet(p, v) PROVE Held'
  <2>1. PICK i \in Slots :
          /\ CheckAndCreateMbr(v, i)
          /\ pvid' = [pvid EXCEPT ![p] = i]
          /\ want' = [want EXCEPT ![p] = IF mc'[i] = NoEntry THEN NoVid ELSE v]
    BY <1>3 DEF PvidSet
  <2>2. /\ \A q \in Ports : want[q] # NoVid =>
              mc'[pvid[q]] # NoEntry /\ mc'[pvid[q]].evid = want[q]
        /\ mc'[i].evid = v
    BY <2>1, HeldMbr
  <2> SUFFICES ASSUME NEW q \in Ports, want'[q] # NoVid
               PROVE  mc'[pvid'[q]] # NoEntry /\ mc'[pvid'[q]].evid = want'[q]
    BY DEF Held
  <2>3. CASE q = p
    <3>1. pvid'[q] = i /\ want'[q] = (IF mc'[i] = NoEntry THEN NoVid ELSE v)
      BY <1>1, <2>1, <2>3
    <3> QED BY <2>2, <3>1
  <2>4. CASE q # p
    <3>1. pvid'[q] = pvid[q] /\ want'[q] = want[q]
      BY <1>1, <2>1, <2>4
    <3> QED BY <2>2, <3>1
  <2> QED BY <2>3, <2>4
<1>4. ASSUME NEW v \in EVids, PvidFull(v) PROVE Held'
  BY <1>4, HeldSame DEF PvidFull, TableFull
<1>5. ASSUME NEW p \in Ports, NEW t \in Protos, NEW v \in Vids, ProtoAdd(p, t, v) PROVE Held'
  <2>1. PICK i \in Slots : CheckAndCreateMbr(v, i)
    BY <1>5 DEF ProtoAdd
  <2>2. pvid' = pvid /\ want' = want
    BY <1>5 DEF ProtoAdd
  <2> QED BY <1>1, <2>1, <2>2, HeldMbr DEF Held
<1>6. ASSUME NEW t \in Protos, NEW v \in Vids, ProtoAddFails(t, v) PROVE Held'
  BY <1>6, HeldSame DEF ProtoAddFails, Busy, TableFull
<1>7. ASSUME NEW p \in Ports, NEW t \in Protos, ProtoDel(p, t) PROVE Held'
  BY <1>7, HeldSame DEF ProtoDel
<1>8. ASSUME NEW p \in Ports, ProtoDelAll(p) PROVE Held'
  BY <1>8, HeldSame DEF ProtoDelAll
<1>9. CASE UNCHANGED vars
  BY <1>9, HeldSame DEF vars
<1>10. ASSUME NEW v \in Vids, NEW m \in Lists, VlanSet(v, m) PROVE Held'
  <2>1. OneOf(SlotsOf(v)) \in SUBSET SlotsOf(v) /\ SlotsOf(v) \in SUBSET Slots
    BY FirstSlot DEF SlotsOf
  <2>2. \A i \in OneOf(SlotsOf(v)) : usage[i] => mcVid[i] = v
    BY <2>1 DEF SlotsOf
  <2>3. OneOf(SlotsOf(v)) \in SUBSET Slots
    BY <2>1
  <2>4. WriteSlots(OneOf(SlotsOf(v)), v, m) /\ Emptied(v, m) /\ pvid' = pvid
    BY <1>10 DEF VlanSet
  <2> QED BY <1>1, <2>2, <2>3, <2>4, HeldWrite
<1>11. ASSUME NEW v \in EVids \ Vids, NEW m \in Lists, EvidSet(v, m) PROVE Held'
  <2>1. /\ SlotsOf(v) \in SUBSET Slots /\ OneOf(SlotsOf(v)) \in SUBSET SlotsOf(v)
        /\ {i \in FreeSlots : i < ScanEnd(v)} \in SUBSET FreeSlots
        /\ FreeSlots \in SUBSET Slots
    BY FirstSlot DEF SlotsOf, FreeSlots
  <2>2. OneOf({i \in FreeSlots : i < ScanEnd(v)}) \in SUBSET FreeSlots
    BY <2>1, FirstSlot
  <2>3. EvidSlots(v, m) \in SUBSET (SlotsOf(v) \cup FreeSlots)
    BY <2>1, <2>2 DEF EvidSlots
  <2>4. \A i \in EvidSlots(v, m) : usage[i] => mcVid[i] = v
    BY <2>3 DEF SlotsOf, FreeSlots
  <2>5. EvidSlots(v, m) \in SUBSET Slots
    BY <2>1, <2>3
  <2>6. WriteSlots(EvidSlots(v, m), v, m) /\ Emptied(v, m) /\ pvid' = pvid
    BY <1>11 DEF EvidSet
  <2> QED BY <1>1, <2>4, <2>5, <2>6, HeldWrite
<1>12. ASSUME NEW i \in Slots, NEW e, MbrCfgSet(i, e) PROVE Held'
  <2> SUFFICES ASSUME NEW p \in Ports, want'[p] # NoVid
               PROVE  mc'[pvid'[p]] # NoEntry /\ mc'[pvid'[p]].evid = want'[p]
    BY DEF Held
  <2>1. pvid[p] # i /\ want'[p] = want[p] /\ pvid' = pvid
    BY <1>12 DEF MbrCfgSet
  <2>2. mc'[pvid[p]] = mc[pvid[p]]
    BY <1>1, <1>12, <2>1 DEF MbrCfgSet
  <2> QED BY <2>1, <2>2 DEF Held
<1> QED BY <1>2, <1>3, <1>4, <1>5, <1>6, <1>7, <1>8, <1>9, <1>10, <1>11, <1>12 DEF Next

(* Until its VLAN is emptied or its slot overwritten, a port's untagged    *)
(* frames go to the VLAN the port was given, whatever else is called.      *)
THEOREM PvidsSafe == Spec => []PvidRespected
<1>1. Init => Held
  <2> SUFFICES ASSUME Init, NEW p \in Ports
               PROVE  mc[pvid[p]] # NoEntry /\ mc[pvid[p]].evid = want[p]
    BY DEF Held
  <2>1. pvid[p] = 0 /\ want[p] = 1 /\ mc[0] = [evid |-> 1, mbr |-> Ports]
    BY ZeroTypes DEF Init
  <2> QED BY <2>1 DEF NoEntry
<1>2. Held => PvidRespected
  BY DEF Held, PvidRespected
<1> QED BY <1>1, <1>2, HeldStep, Invariance, PTL DEF Spec

-----------------------------------------------------------------------------
(***************************************************************************)
(* The calls of the probe and of the swconfig handlers (RtlSwconfig).  No  *)
(* raw writes are among them, so the tables keep IInv and Own whatever is  *)
(* called; Own is what makes LanWanApart provable, since the members of a  *)
(* slot then are those of the 4k table.                                    *)
(***************************************************************************)
Call == [op : {"set"}, vid : Vids \ {0}, mbr : SUBSET Ports]
        \cup [op : {"pvid", "pvid_if_none"}, vid : Vids \ {0}, port : Ports]

Calls == Range(todo)

TablesInv == IInv /\ Own /\ raw = FALSE

(* On a board with a port map VLAN 1 is the LAN, or will be, and VLAN 2 is *)
(* empty or the WAN.                                                       *)
MapInv ==
    wan # {} =>
        /\ wan \subseteq Ports
        /\ \A v \in Vids \ {1, 2} : vlan4k[v] = {}
        /\ vlan4k[1] = Ports \ wan \/ Set(1, Ports \ wan) \in Calls
        /\ vlan4k[2] \in {{}, wan}
        /\ \A c \in Calls : c.op = "set" => c \in {Set(1, Ports \ wan), Set(2, wan)}
        /\ \A i \in Slots : mc[i].evid \in Vids

(* What the handler has done to a port so far, as HandlerClassifies has it *)
(* at the end: the calls are all for its own VLAN, and a port is given it  *)
(* only when its PVID reads as 0.                                          *)
Kept(p) ==
    /\ job.old[p] \notin {0, job.vid} => GetPvid(p) = job.old[p]
    /\ job.old[p] = job.vid /\ job.ports # {} => GetPvid(p) = job.vid
    /\ job.old[p] = 0 => GetPvid(p) \in {0, job.vid}

OwnCall(c) ==
    /\ c.vid = job.vid
    /\ c.op = "set" => c.mbr = job.ports
    /\ c.op # "set" => c.op = "pvid_if_none" /\ c.port \in job.ports

(* A listed port has a PVID or will be asked for it. *)
Served(p) ==
    GetPvid(p) # 0 \/ \E c \in Calls : c.op = "pvid_if_none" /\ c.port = p

JobInv ==
    /\ job.ports \subseteq Ports
    /\ job.vid # 0 =>
          /\ \A c \in Calls : OwnCall(c)
          /\ \A p \in Ports : Kept(p)
          /\ \A p \in job.ports \ job.failed : Served(p)

JobType ==
    job \in [vid : Vids, ports : SUBSET Ports, failed : SUBSET Ports, old : [Ports -> EVids]]

SwInv == todo \in Seq(Call) /\ TablesInv /\ MapInv /\ JobType /\ JobInv

LEMMA NoJobType ==
    NoJob \in [vid : Vids, ports : SUBSET Ports, failed : SUBSET Ports, old : [Ports -> EVids]]
BY ZeroTypes DEF NoJob

LEMMA SomeVids == {1, 2} \subseteq Vids \ {0}
BY VlanAssumption, SwAssumption DEF Vids

(* The calls that are left when the first one is made. *)
LEMMA CallsLeft ==
    ASSUME NEW S, NEW s \in Seq(S), s # <<>>
    PROVE  /\ Head(s) \in S /\ Tail(s) \in Seq(S)
           /\ Range(s) = {Head(s)} \cup Range(Tail(s))
<1> DEFINE n == Len(s)
<1>1. /\ Head(s) \in S /\ Tail(s) \in Seq(S) /\ Len(Tail(s)) = n - 1
      /\ \A i \in 1..(n - 1) : Tail(s)[i] = s[i + 1]
  BY HeadTailProperties
<1>2. n \in Nat /\ DOMAIN s = 1..n /\ DOMAIN Tail(s) = 1..(n - 1)
  BY <1>1, LenProperties
<1>3. n # 0 /\ Head(s) = s[1]
  BY EmptySeq
<1> HIDE DEF n
<1>4. ASSUME NEW i \in 1..n PROVE s[i] \in {Head(s)} \cup Range(Tail(s))
  <2>1. CASE i = 1
    BY <1>3, <2>1
  <2>2. CASE i # 1
    <3>1. i - 1 \in 1..(n - 1) /\ (i - 1) + 1 = i
      BY <1>2, <2>2
    <3>2. Tail(s)[i - 1] = s[i]
      BY <1>1, <3>1
    <3> QED BY <1>2, <3>1, <3>2 DEF Range
  <2> QED BY <2>1, <2>2
<1>5. ASSUME NEW i \in 1..(n - 1) PROVE Tail(s)[i] \in Range(s)
  <2>1. i + 1 \in 1..n
    BY <1>2
  <2> QED BY <1>1, <1>2, <2>1 DEF Range
<1>6. Head(s) \in Range(s)
  <2>1. 1 \in 1..n
    BY <1>2, <1>3
  <2> QED BY <1>2, <1>3, <2>1 DEF Range
<1> QED BY <1>1, <1>2, <1>4, <1>5, <1>6 DEF Range

LEMMA OneCall ==
    ASSUME NEW S, NEW a \in S
    PROVE  <<a>> \in Seq(S) /\ Range(<<a>>) = {a}
<1>1. <<a>> \in Seq(S) /\ Len(<<a>>) = 1 /\ <<a>>[1] = a
  OBVIOUS
<1>2. DOMAIN <<a>> = 1..1
  BY <1>1, LenProperties
<1> QED BY <1>1, <1>2 DEF Range

LEMMA ThreeCalls ==
    ASSUME NEW S, NEW a \in S, NEW b \in S, NEW c \in S
    PROVE  <<a, b, c>> \in Seq(S) /\ Range(<<a, b, c>>) = {a, b, c}
<1> DEFINE s == <<a, b, c>>
<1>1. s \in Seq(S) /\ Len(s) = 3 /\ s[1] = a /\ s[2] = b /\ s[3] = c
  OBVIOUS
<1> HIDE DEF s
<1>2. DOMAIN s = 1..3
  BY <1>1, LenProperties
<1>3. DOMAIN s = {1, 2, 3}
  BY <1>2
<1>4. Range(s) = {a, b, c}
  BY <1>1, <1>3 DEF Range
<1> QED BY <1>1, <1>4 DEF s

(* rtk_vlan_portPvid_set overwrites no slot in use. *)
LEMMA PvidEffect ==
    ASSUME IInv, NEW p \in Ports, NEW v \in EVids, PvidSet(p, v)
    PROVE  /\ \A i \in Slots : mc'[i] = mc[i] \/ mc'[i].evid = v
           /\ \A i \in Slots : mc[i].evid # 0 => mc'[i] = mc[i]
           /\ mc'[pvid'[p]].evid = v
           /\ \A q \in Ports : q # p => pvid'[q] = pvid[q]
<1>0. /\ SlotType /\ ShadowTrue /\ vlan4k \in [Vids -> SUBSET Ports]
      /\ pvid \in [Ports -> Slots]
  BY SlotTypeOK DEF IInv, TypeOK
<1>1. PICK i \in Slots : CheckAndCreateMbr(v, i) /\ pvid' = [pvid EXCEPT ![p] = i]
  BY DEF PvidSet
<1>2. pvid'[p] = i /\ \A q \in Ports : q # p => pvid'[q] = pvid[q]
  BY <1>0, <1>1
<1>3. CASE FoundMbr(v, i)
  <2>1. i \in SlotsOf(v)
    BY <1>0, <1>3, HwTypes, FirstSlot DEF FoundMbr
  <2>2. mc[i].evid = v
    BY <1>0, <2>1 DEF SlotsOf, ShadowTrue
  <2> QED BY <1>2, <1>3, <2>2 DEF FoundMbr
<1>4. CASE CreateMbr(v, i)
  <2>1. /\ mc[i] = NoEntry
        /\ mc' = [mc EXCEPT ![i] = [evid |-> v, mbr |-> Members(v)]]
    BY <1>0, <1>4, CreateEffect
  <2>2. mc[i].evid = 0
    BY <2>1 DEF NoEntry
  <2>3. mc'[i].evid = v /\ \A j \in Slots : j # i => mc'[j] = mc[j]
    BY <1>0, <2>1 DEF SlotType
  <2> QED BY <1>2, <2>2, <2>3
<1> QED BY <1>1, <1>3, <1>4 DEF CheckAndCreateMbr

(* rtk_vlan_set changes only slots of its VLAN. *)
LEMMA SetEffect ==
    ASSUME IInv, NEW v, NEW m, VlanSet(v, m), NEW i \in Slots
    PROVE  \/ mc'[i] = mc[i]
           \/ m # {} /\ mc[i].evid = v /\ mc'[i].evid = v
           \/ m = {} /\ mc[i].evid = v /\ mc'[i] = NoEntry
<1>1. SlotType /\ ShadowTrue
  BY SlotTypeOK DEF IInv
<1>2. OneOf(SlotsOf(v)) \subseteq SlotsOf(v)
  BY <1>1, HwTypes, FirstSlot
<1>3. i \in OneOf(SlotsOf(v)) => mc[i].evid = v
  BY <1>1, <1>2 DEF SlotsOf, ShadowTrue
<1> QED BY <1>3 DEF VlanSet, WriteSlots

(* The ports after a step of the handler that leaves its history alone.    *)
LEMMA JobPort ==
    ASSUME NEW p, Kept(p), job.vid # 0,
           job'.vid = job.vid, job'.ports = job.ports, job'.old = job.old,
           \/ GetPvid(p)' = GetPvid(p)
           \/ job.ports # {} /\ GetPvid(p) = 0 /\ GetPvid(p)' = job.vid
           \/ job.ports = {} /\ GetPvid(p) = job.vid /\ GetPvid(p)' = 0
    PROVE  Kept(p)'
BY DEF Kept

(* The tables. *)
LEMMA SetTables ==
    ASSUME TablesInv, NEW v \in Vids, NEW m \in SUBSET Ports, VlanSet(v, m)
    PROVE  TablesInv'
<1>1. IInv'
  BY SetCallInv DEF TablesInv
<1>2. Own'
  BY OwnSet DEF TablesInv, IInv
<1> QED BY <1>1, <1>2 DEF TablesInv, VlanSet

LEMMA PvidTables ==
    ASSUME TablesInv, NEW p \in Ports, NEW v \in EVids, PvidSet(p, v)
    PROVE  TablesInv'
<1>1. IInv'
  BY PvidCallInv DEF TablesInv
<1>2. Own'
  BY OwnMbr DEF TablesInv, PvidSet
<1> QED BY <1>1, <1>2 DEF TablesInv, PvidSet

LEMMA FullTables ==
    ASSUME TablesInv, NEW v \in EVids, PvidFull(v)
    PROVE  TablesInv'
<1>1. IInv'
  BY PvidFullInv DEF TablesInv
<1>2. Own'
  BY OwnForget DEF TablesInv, PvidFull
<1> QED BY <1>1, <1>2 DEF TablesInv, PvidFull

LEMMA ResetTables ==
    ASSUME TablesInv, NEW pin \in BOOLEAN, VlanInit(TRUE, pin)
    PROVE  TablesInv'
<1>1. IInv'
  BY InitCallInv DEF TablesInv
<1>2. Own'
  BY OwnReset
<1> QED BY <1>1, <1>2 DEF TablesInv, VlanInit

LEMMA SameTables ==
    ASSUME TablesInv, UNCHANGED vars
    PROVE  TablesInv'
<1>1. UNCHANGED <<vlan4k, mc, usage, mcVid, pvid, group, ppb, want, raw>>
  BY DEF vars
<1> QED BY <1>1 DEF TablesInv, IInv, TypeOK, ShadowTrue, Own, Unique, Tracks

(* The steps. *)
LEMMA CallSetInv == SwInv /\ CallSet => SwInv'
<1> SUFFICES ASSUME SwInv, CallSet PROVE SwInv'
  OBVIOUS
<1> USE DEF SwInv
<1> DEFINE c == Head(todo)
<1>1. /\ todo # <<>> /\ c.op = "set" /\ VlanSet(c.vid, c.mbr)
      /\ todo' = Tail(todo) /\ wan' = wan /\ job' = job
  BY DEF CallSet
<1>2. todo' \in Seq(Call) /\ c \in Call /\ Calls = {c} \cup Calls'
  BY <1>1, CallsLeft DEF Calls
<1> HIDE DEF c
<1>3. c.vid \in Vids \ {0} /\ c.mbr \in SUBSET Ports
  BY <1>1, <1>2 DEF Call
<1>4. TablesInv'
  BY <1>1, <1>3, SetTables
<1>5. vlan4k' = [vlan4k EXCEPT ![c.vid] = c.mbr] /\ pvid' = pvid
  BY <1>1 DEF VlanSet
<1>6. /\ vlan4k \in [Vids -> SUBSET Ports] /\ pvid \in [Ports -> Slots]
      /\ mc \in [Slots -> Entry]
  BY DEF TablesInv, IInv, TypeOK
<1>7. \A i \in Slots : \/ mc'[i] = mc[i]
                       \/ c.mbr # {} /\ mc[i].evid = c.vid /\ mc'[i].evid = c.vid
                       \/ c.mbr = {} /\ mc[i].evid = c.vid /\ mc'[i] = NoEntry
  BY <1>1, SetEffect DEF TablesInv
<1>8. MapInv'
  <2> SUFFICES ASSUME wan # {} PROVE MapInv'
    BY <1>1 DEF MapInv
  <2> DEFINE lan == Ports \ wan
  <2>1. /\ wan \subseteq Ports
        /\ \A v \in Vids \ {1, 2} : vlan4k[v] = {}
        /\ vlan4k[1] = lan \/ Set(1, lan) \in Calls
        /\ vlan4k[2] \in {{}, wan}
        /\ \A d \in Calls : d.op = "set" => d \in {Set(1, lan), Set(2, wan)}
        /\ \A i \in Slots : mc[i].evid \in Vids
    BY DEF MapInv
  <2>2. \A i \in Slots : mc'[i].evid \in Vids
    BY <1>3, <1>7, <2>1, ZeroTypes DEF NoEntry
  <2>3. c = Set(1, lan) \/ c = Set(2, wan)
    BY <1>1, <1>2, <2>1
  <2>4. 1 \in Vids /\ 2 \in Vids
    BY SomeVids
  <2> HIDE DEF lan
  <2>5. \A v \in Vids \ {1, 2} : vlan4k'[v] = {}
    BY <1>5, <1>6, <2>1, <2>3 DEF Set
  <2>6. vlan4k'[1] = lan \/ Set(1, lan) \in Calls'
    <3>1. CASE c = Set(1, lan)
      BY <1>5, <1>6, <2>4, <3>1 DEF Set
    <3>2. CASE c = Set(2, wan)
      <4>1. c # Set(1, lan) /\ vlan4k'[1] = vlan4k[1]
        BY <1>5, <1>6, <2>4, <3>2 DEF Set
      <4> QED BY <1>2, <2>1, <4>1
    <3> QED BY <2>3, <3>1, <3>2
  <2>7. vlan4k'[2] \in {{}, wan}
    BY <1>5, <1>6, <2>1, <2>3, <2>4 DEF Set
  <2>8. \A d \in Calls' : d.op = "set" => d \in {Set(1, lan), Set(2, wan)}
    BY <1>2, <2>1
  <2> QED BY <1>1, <2>1, <2>2, <2>5, <2>6, <2>7, <2>8 DEF MapInv, lan, Set
<1>9. JobInv'
  <2>1. job'.ports \subseteq Ports
    BY <1>1 DEF JobInv
  <2> SUFFICES ASSUME job.vid # 0
               PROVE  /\ \A d \in Calls' : OwnCall(d)'
                      /\ \A p \in Ports : Kept(p)'
                      /\ \A p \in job.ports \ job.failed : Served(p)'
    BY <1>1, <2>1 DEF JobInv
  <2>2. c.vid = job.vid /\ c.mbr = job.ports
    BY <1>1, <1>2 DEF JobInv, OwnCall
  <2>3. ASSUME NEW p \in Ports
        PROVE  \/ GetPvid(p)' = GetPvid(p)
               \/ job.ports = {} /\ GetPvid(p) = job.vid /\ GetPvid(p)' = 0
    <3>1. pvid[p] \in Slots /\ pvid'[p] = pvid[p]
      BY <1>5, <1>6
    <3> QED BY <1>7, <2>2, <3>1 DEF GetPvid, NoEntry
  <2>4. \A d \in Calls' : OwnCall(d)'
    BY <1>1, <1>2 DEF JobInv, OwnCall
  <2>5. ASSUME NEW p \in Ports PROVE Kept(p)'
    <3>1. Kept(p)
      BY DEF JobInv
    <3> QED BY <1>1, <2>3, <3>1, JobPort
  <2>6. ASSUME NEW p \in job.ports \ job.failed PROVE Served(p)'
    <3>1. p \in Ports /\ job.ports # {} /\ Served(p)
      BY DEF JobInv
    <3>2. GetPvid(p)' = GetPvid(p)
      BY <2>3, <3>1
    <3>3. ASSUME NEW d \in Calls, d.op = "pvid_if_none" PROVE d \in Calls'
      BY <1>1, <1>2, <3>3
    <3> QED BY <3>1, <3>2, <3>3 DEF Served
  <2> QED BY <2>4, <2>5, <2>6
<1>10. JobType'
  BY <1>1 DEF JobType
<1> QED BY <1>2, <1>4, <1>8, <1>9, <1>10

(* A PVID call, made, not needed or failed, leaves the 4k table alone. *)
LEMMA PvidMap ==
    ASSUME SwInv, NEW c \in Call, c.op # "set", Calls = {c} \cup Calls',
           UNCHANGED <<vlan4k, wan>>,
           \A i \in Slots : mc'[i] = mc[i] \/ mc'[i].evid = c.vid
    PROVE  MapInv'
<1> SUFFICES ASSUME wan # {} PROVE MapInv'
  BY DEF MapInv
<1> DEFINE lan == Ports \ wan
<1>1. /\ wan \subseteq Ports
      /\ \A v \in Vids \ {1, 2} : vlan4k[v] = {}
      /\ vlan4k[1] = lan \/ Set(1, lan) \in Calls
      /\ vlan4k[2] \in {{}, wan}
      /\ \A d \in Calls : d.op = "set" => d \in {Set(1, lan), Set(2, wan)}
      /\ \A i \in Slots : mc[i].evid \in Vids
  BY DEF SwInv, MapInv
<1>2. c.vid \in Vids
  BY DEF Call
<1>3. c # Set(1, lan)
  BY DEF Set
<1> HIDE DEF lan
<1>4. vlan4k[1] = lan \/ Set(1, lan) \in Calls'
  BY <1>1, <1>3
<1>5. \A i \in Slots : mc'[i].evid \in Vids
  BY <1>1, <1>2
<1>6. \A d \in Calls' : d.op = "set" => d \in {Set(1, lan), Set(2, wan)}
  BY <1>1
<1> QED BY <1>1, <1>4, <1>5, <1>6 DEF MapInv, lan, Set

LEMMA CallPvidInv == SwInv /\ CallPvid => SwInv'
<1> SUFFICES ASSUME SwInv, CallPvid PROVE SwInv'
  OBVIOUS
<1> USE DEF SwInv
<1> DEFINE c == Head(todo)
<1>1. /\ todo # <<>> /\ c.op # "set" /\ PvidSet(c.port, c.vid) /\ Needed(c)
      /\ todo' = Tail(todo) /\ wan' = wan /\ job' = job
  BY DEF CallPvid
<1>2. todo' \in Seq(Call) /\ c \in Call /\ Calls = {c} \cup Calls'
  BY <1>1, CallsLeft DEF Calls
<1> HIDE DEF c
<1>3. c.vid \in Vids \ {0} /\ c.vid \in EVids /\ c.port \in Ports
  BY <1>1, <1>2, ZeroTypes DEF Call
<1>4. TablesInv'
  BY <1>1, <1>3, PvidTables
<1>5. /\ \A i \in Slots : mc'[i] = mc[i] \/ mc'[i].evid = c.vid
      /\ \A i \in Slots : mc[i].evid # 0 => mc'[i] = mc[i]
      /\ mc'[pvid'[c.port]].evid = c.vid
      /\ \A q \in Ports : q # c.port => pvid'[q] = pvid[q]
  BY <1>1, <1>3, PvidEffect DEF TablesInv
<1>6. MapInv'
  <2>1. vlan4k' = vlan4k
    BY <1>1 DEF PvidSet
  <2> QED BY <1>1, <1>2, <1>5, <2>1, PvidMap
<1>7. JobInv'
  <2>1. job'.ports \subseteq Ports
    BY <1>1 DEF JobInv
  <2> SUFFICES ASSUME job.vid # 0
               PROVE  /\ \A d \in Calls' : OwnCall(d)'
                      /\ \A p \in Ports : Kept(p)'
                      /\ \A p \in job.ports \ job.failed : Served(p)'
    BY <1>1, <2>1 DEF JobInv
  <2>2. c.vid = job.vid /\ c.op = "pvid_if_none" /\ c.port \in job.ports
    BY <1>1, <1>2 DEF JobInv, OwnCall
  <2>3. job.ports # {} /\ GetPvid(c.port) = 0
    BY <1>1, <2>2 DEF Needed
  <2>4. ASSUME NEW p \in Ports
        PROVE  \/ GetPvid(p)' = GetPvid(p)
               \/ GetPvid(p) = 0 /\ GetPvid(p)' = job.vid
    <3>1. pvid[p] \in Slots
      BY DEF TablesInv, IInv, TypeOK
    <3>2. CASE p = c.port
      BY <1>5, <2>2, <2>3, <3>2 DEF GetPvid
    <3>3. CASE p # c.port
      <4>1. pvid'[p] = pvid[p]
        BY <1>5, <3>3
      <4>2. \/ mc'[pvid[p]] = mc[pvid[p]]
            \/ mc[pvid[p]].evid = 0 /\ mc'[pvid[p]].evid = c.vid
        BY <1>5, <3>1
      <4> QED BY <2>2, <4>1, <4>2 DEF GetPvid
    <3> QED BY <3>2, <3>3
  <2>5. \A d \in Calls' : OwnCall(d)'
    BY <1>1, <1>2 DEF JobInv, OwnCall
  <2>6. ASSUME NEW p \in Ports PROVE Kept(p)'
    <3>1. Kept(p)
      BY DEF JobInv
    <3> QED BY <1>1, <2>3, <2>4, <3>1, JobPort
  <2>7. ASSUME NEW p \in job.ports \ job.failed PROVE Served(p)'
    <3>1. p \in Ports /\ Served(p)
      BY DEF JobInv
    <3>2. CASE p = c.port
      BY <1>3, <1>5, <3>2 DEF Served, GetPvid
    <3>3. CASE p # c.port
      <4>1. CASE GetPvid(p) # 0
        BY <2>4, <3>1, <4>1 DEF Served
      <4>2. CASE \E d \in Calls : d.op = "pvid_if_none" /\ d.port = p
        BY <1>2, <3>3, <4>2 DEF Served
      <4> QED BY <3>1, <4>1, <4>2 DEF Served
    <3> QED BY <3>2, <3>3
  <2> QED BY <2>5, <2>6, <2>7
<1>8. JobType'
  BY <1>1 DEF JobType
<1> QED BY <1>2, <1>4, <1>6, <1>7, <1>8

(* A PVID call that is not needed, or whose failure goes unnoticed. *)
LEMMA CallNoPvidInv == SwInv /\ (CallPvidSkipped \/ CallPvidFails) => SwInv'
<1> SUFFICES ASSUME SwInv, CallPvidSkipped \/ CallPvidFails PROVE SwInv'
  OBVIOUS
<1> USE DEF SwInv
<1> DEFINE c == Head(todo)
<1>1. /\ todo # <<>> /\ c.op # "set" /\ todo' = Tail(todo) /\ wan' = wan
      /\ UNCHANGED vars \/ PvidFull(c.vid)
      /\ \/ job' = job /\ ~Needed(c)
         \/ job' = [job EXCEPT !.failed = @ \cup {c.port}]
  BY DEF CallPvidSkipped, CallPvidFails
<1>2. todo' \in Seq(Call) /\ c \in Call /\ Calls = {c} \cup Calls'
  BY <1>1, CallsLeft DEF Calls
<1> HIDE DEF c
<1>3. c.vid \in EVids /\ c.port \in Ports /\ c.op \in {"pvid", "pvid_if_none"}
  BY <1>1, <1>2, ZeroTypes DEF Call
<1>4. TablesInv'
  BY <1>1, <1>3, FullTables, SameTables
<1>5. mc' = mc /\ pvid' = pvid /\ vlan4k' = vlan4k
  BY <1>1 DEF vars, PvidFull, TableFull
<1>6. /\ job'.vid = job.vid /\ job'.ports = job.ports /\ job'.old = job.old
      /\ job.failed \subseteq job'.failed /\ (Needed(c) => c.port \in job'.failed)
  BY <1>1 DEF SwInv, JobType
<1>7. MapInv'
  BY <1>1, <1>2, <1>5, PvidMap
<1>8. JobInv'
  <2>1. job'.ports \subseteq Ports
    BY <1>6 DEF JobInv
  <2> SUFFICES ASSUME job.vid # 0
               PROVE  /\ \A d \in Calls' : OwnCall(d)'
                      /\ \A p \in Ports : Kept(p)'
                      /\ \A p \in job.ports \ job'.failed : Served(p)'
    BY <1>6, <2>1 DEF JobInv
  <2>2. \A p : GetPvid(p)' = GetPvid(p)
    BY <1>5 DEF GetPvid
  <2>3. \A d \in Calls' : OwnCall(d)'
    BY <1>2, <1>6 DEF JobInv, OwnCall
  <2>4. ASSUME NEW p \in Ports PROVE Kept(p)'
    <3>1. Kept(p)
      BY DEF JobInv
    <3> QED BY <1>6, <2>2, <3>1, JobPort
  <2>5. ASSUME NEW p \in job.ports \ job'.failed PROVE Served(p)'
    <3>1. Served(p)
      BY <1>6 DEF JobInv
    <3>2. CASE p = c.port
      <4>1. ~Needed(c) /\ c.op = "pvid_if_none"
        BY <1>1, <1>2, <1>6, <3>2 DEF JobInv, OwnCall
      <4> QED BY <2>2, <3>2, <4>1 DEF Needed, Served
    <3>3. CASE p # c.port
      BY <1>2, <2>2, <3>1, <3>3 DEF Served
    <3> QED BY <3>2, <3>3
  <2> QED BY <2>3, <2>4, <2>5
<1>9. JobType'
  BY <1>1, <1>3 DEF JobType
<1> QED BY <1>2, <1>4, <1>7, <1>8, <1>9

(* The handlers run on boards without a port map. *)
LEMMA SetVlanPortsInv ==
    ASSUME SwInv, NEW v \in Vids \ {0}, NEW ports \in PortLists, SetVlanPorts(v, ports)
    PROVE  SwInv'
<1> USE DEF SwInv
<1> DEFINE s == [i \in DOMAIN ports |-> PvidIfNone(ports[i], v)]
           t == <<Set(v, Range(ports))>>
<1>1. /\ wan' = {} /\ todo' = s \o t /\ UNCHANGED vars
      /\ job' = [vid |-> v, ports |-> Range(ports), failed |-> {},
                old |-> [p \in Ports |-> GetPvid(p)]]
  BY DEF SetVlanPorts, Swconfig
<1>2. ports \in Seq(Ports)
  <2>1. ports \in Seq(UserPorts) /\ UserPorts \subseteq Ports
    BY SwAssumption
  <2>2. DOMAIN ports = 1..Len(ports) /\ Len(ports) \in Nat /\ ports \in [1..Len(ports) -> UserPorts]
    BY <2>1, LenProperties
  <2>3. ports \in [1..Len(ports) -> Ports]
    BY <2>1, <2>2
  <2> QED BY <2>2, <2>3, SeqDef
<1>3. DOMAIN ports = 1..Len(ports) /\ Len(ports) \in Nat /\ \A i \in DOMAIN ports : ports[i] \in Ports
  BY <1>2, LenProperties, ElementOfSeq
<1>4. Range(ports) \in SUBSET Ports
  BY <1>2, RangeOfSeq
<1>5. \A p \in Ports : PvidIfNone(p, v) \in Call
  BY DEF PvidIfNone, Call
<1>6. Set(v, Range(ports)) \in Call
  BY <1>4 DEF Set, Call
<1>7. s \in Seq(Call)
  <2>1. s \in [1..Len(ports) -> Call]
    BY <1>3, <1>5
  <2> HIDE DEF s
  <2> QED BY <1>3, <2>1, SeqDef
<1>8. t \in Seq(Call) /\ Range(t) = {Set(v, Range(ports))}
  BY <1>6, OneCall
<1>9. Range(s) = {PvidIfNone(p, v) : p \in Range(ports)}
  BY DEF Range
<1> HIDE DEF s, t
<1>10. todo' \in Seq(Call) /\ Calls' = Range(s) \cup Range(t)
  BY <1>1, <1>7, <1>8, ConcatProperties, RangeConcatenation DEF Calls
<1>11. TablesInv'
  BY <1>1, SameTables
<1>12. MapInv'
  BY <1>1 DEF MapInv
<1>13. /\ job'.vid = v /\ job'.ports = Range(ports) /\ job'.failed = {}
       /\ \A p \in Ports : job'.old[p] = GetPvid(p) /\ GetPvid(p)' = GetPvid(p)
  BY <1>1 DEF vars, GetPvid
<1>14. JobInv'
  <2>1. ASSUME NEW d \in Calls' PROVE OwnCall(d)'
    <3>1. CASE d \in Range(s)
      BY <1>9, <1>13, <3>1 DEF OwnCall, PvidIfNone
    <3>2. CASE d \in Range(t)
      BY <1>8, <1>13, <3>2 DEF OwnCall, Set
    <3> QED BY <1>10, <3>1, <3>2
  <2>2. ASSUME NEW p \in Ports PROVE Kept(p)'
    BY <1>13 DEF Kept
  <2>3. ASSUME NEW p \in Range(ports) PROVE Served(p)'
    <3>1. PvidIfNone(p, v) \in Calls'
      BY <1>9, <1>10
    <3> QED BY <3>1 DEF PvidIfNone, Served
  <2> QED BY <1>4, <1>13, <2>1, <2>2, <2>3 DEF JobInv
<1>15. JobType'
  <2>1. \A p \in Ports : GetPvid(p) \in EVids
    BY DEF GetPvid, TablesInv, IInv, TypeOK, Entry
  <2> QED BY <1>1, <1>4, <2>1, ZeroTypes DEF JobType
<1> QED BY <1>10, <1>11, <1>12, <1>14, <1>15

LEMMA IdleInv ==
    ASSUME todo \in Seq(Call), todo = <<>>, todo' = todo, wan' = {}, job' = NoJob, TablesInv'
    PROVE  SwInv'
<1>1. DOMAIN todo = {}
  BY LenProperties, EmptySeq
<1>2. Calls' = {}
  BY <1>1 DEF Calls, Range
<1>3. JobType' /\ job'.vid = 0
  BY NoJobType DEF JobType, NoJob
<1> QED BY <1>2, <1>3 DEF SwInv, MapInv, JobInv, NoJob

LEMMA SwStep == SwInv /\ [SwNext]_swVars => SwInv'
<1> SUFFICES ASSUME SwInv, [SwNext]_swVars PROVE SwInv'
  OBVIOUS
<1>1. CASE CallSet \/ CallPvid \/ CallPvidSkipped \/ CallPvidFails
  BY <1>1, CallSetInv, CallPvidInv, CallNoPvidInv
<1>2. ASSUME NEW v \in Vids \ {0}, NEW ports \in PortLists, SetVlanPorts(v, ports) PROVE SwInv'
  BY <1>2, SetVlanPortsInv
<1>3. ASSUME NEW p \in UserPorts, NEW v \in EVids, SetPortPvid(p, v) PROVE SwInv'
  <2>1. TablesInv'
    BY <1>3, PvidTables, FullTables, SwAssumption DEF SwInv, SetPortPvid
  <2> QED BY <1>3, <2>1, IdleInv DEF SwInv, SetPortPvid, Swconfig
<1>4. ASSUME NEW pin \in BOOLEAN, ResetSwitch(pin) PROVE SwInv'
  <2>1. TablesInv'
    BY <1>4, ResetTables DEF SwInv, ResetSwitch
  <2> QED BY <1>4, <2>1, IdleInv DEF SwInv, ResetSwitch, Swconfig
<1>5. CASE UNCHANGED swVars
  <2>1. UNCHANGED <<vlan4k, mc, pvid, todo, wan, job>> /\ UNCHANGED vars
    BY <1>5 DEF swVars, vars
  <2>2. TablesInv'
    BY <2>1, SameTables DEF SwInv
  <2> QED BY <2>1, <2>2 DEF SwInv, MapInv, JobInv, JobType, OwnCall, Kept, Served, GetPvid, Calls
<1> QED BY <1>1, <1>2, <1>3, <1>4, <1>5 DEF SwNext

(* The calls of rtl8367s_vlan_config. *)
LEMMA VlanConfigCalls ==
    ASSUME NEW b \in BOOLEAN
    PROVE  LET w == WanPorts(b) IN
           /\ VlanConfig(b) \in Seq(Call)
           /\ w \subseteq Ports /\ w # {}
           /\ Set(1, Ports \ w) \in Range(VlanConfig(b))
           /\ \A c \in Range(VlanConfig(b)) :
                 c.op = "set" => c \in {Set(1, Ports \ w), Set(2, w)}
<1> DEFINE w == WanPorts(b)
           c1 == Set(1, Ports \ w)
           c2 == Set(2, w)
           s == <<c1, c2, Pvid(Ext0, 1)>>
           t == [i \in DOMAIN LanPorts |-> Pvid(LanPorts[i], 1)]
           u == <<Pvid(Ext1, 2), Pvid(Utp0, IF b THEN 2 ELSE 1), Pvid(Utp4, IF b THEN 1 ELSE 2)>>
<1>1. VlanConfig(b) = s \o t \o u
  BY DEF VlanConfig
<1>2. w \subseteq Ports /\ w # {}
  BY SwAssumption DEF WanPorts
<1>3. 1 \in Vids \ {0} /\ 2 \in Vids \ {0}
  BY SomeVids
<1>4. c1 \in Call /\ c2 \in Call
  BY <1>2, <1>3 DEF Set, Call
<1>5. \A p \in Ports : Pvid(p, 1) \in Call /\ Pvid(p, 2) \in Call
  BY <1>3 DEF Pvid, Call
<1>6. \A p, v : Pvid(p, v).op # "set"
  BY DEF Pvid
<1> HIDE DEF w, c1, c2
<1>7. /\ s \in Seq(Call) /\ c1 \in Range(s)
      /\ \A c \in Range(s) : c.op = "set" => c \in {c1, c2}
  <2>1. Pvid(Ext0, 1) \in Call
    BY <1>5, SwAssumption
  <2>2. s \in Seq(Call) /\ Range(s) = {c1, c2, Pvid(Ext0, 1)}
    BY <1>4, <2>1, ThreeCalls
  <2> QED BY <1>6, <2>2
<1>8. t \in Seq(Call) /\ \A c \in Range(t) : c.op # "set"
  <2>1. DOMAIN LanPorts = 1..Len(LanPorts) /\ Len(LanPorts) \in Nat
    BY SwAssumption, LenProperties
  <2>2. \A i \in DOMAIN LanPorts : LanPorts[i] \in Ports
    BY <2>1, SwAssumption, ElementOfSeq
  <2>3. t \in [1..Len(LanPorts) -> Call]
    BY <1>5, <2>1, <2>2
  <2>4. \A i \in DOMAIN t : t[i].op # "set"
    BY <1>6
  <2> HIDE DEF t
  <2> QED BY <2>1, <2>3, <2>4, SeqDef DEF Range
<1>9. u \in Seq(Call) /\ \A c \in Range(u) : c.op # "set"
  <2> DEFINE x == Pvid(Utp0, IF b THEN 2 ELSE 1)
             y == Pvid(Utp4, IF b THEN 1 ELSE 2)
  <2>1. Pvid(Ext1, 2) \in Call /\ x \in Call /\ y \in Call
    BY <1>5, SwAssumption
  <2>2. x.op # "set" /\ y.op # "set"
    BY <1>6
  <2> HIDE DEF x, y
  <2>3. <<Pvid(Ext1, 2), x, y>> \in Seq(Call)
        /\ Range(<<Pvid(Ext1, 2), x, y>>) = {Pvid(Ext1, 2), x, y}
    BY <2>1, ThreeCalls
  <2> QED BY <1>6, <2>2, <2>3 DEF x, y
<1> HIDE DEF s, t, u
<1>10. s \o t \in Seq(Call) /\ Range(s \o t) = Range(s) \cup Range(t)
  BY <1>7, <1>8, ConcatProperties, RangeConcatenation
<1>11. /\ s \o t \o u \in Seq(Call)
       /\ Range(s \o t \o u) = Range(s) \cup Range(t) \cup Range(u)
  <2> DEFINE r == s \o t
  <2> HIDE DEF r
  <2>1. r \in Seq(Call) /\ Range(r) = Range(s) \cup Range(t)
    BY <1>10 DEF r
  <2>2. r \o u \in Seq(Call) /\ Range(r \o u) = Range(r) \cup Range(u)
    BY <1>9, <2>1, ConcatProperties, RangeConcatenation
  <2> QED BY <2>1, <2>2 DEF r
<1> QED BY <1>1, <1>2, <1>7, <1>8, <1>9, <1>11 DEF w, c1, c2

LEMMA SwInitInv == SwInit => SwInv
<1> SUFFICES ASSUME SwInit PROVE SwInv
  OBVIOUS
<1>1. TablesInv
  BY InitInv, OwnInit DEF SwInit, Init, TablesInv
<1>2. job = NoJob /\ job.vid = 0 /\ job.ports = {} /\ JobType
  BY NoJobType DEF SwInit, NoJob, JobType
<1>3. CASE wan = {} /\ todo = <<>>
  <2>1. todo \in Seq(Call)
    BY <1>3, EmptySeq
  <2>2. DOMAIN todo = {}
    BY <1>3, <2>1, LenProperties, EmptySeq
  <2>3. Calls = {}
    BY <2>2 DEF Calls, Range
  <2> QED BY <1>1, <1>2, <1>3, <2>1, <2>3 DEF SwInv, MapInv, JobInv
<1>4. ASSUME NEW b \in BOOLEAN, wan = WanPorts(b), todo = VlanConfig(b) PROVE SwInv
  <2>1. /\ todo \in Seq(Call) /\ wan \subseteq Ports
        /\ Set(1, Ports \ wan) \in Calls
        /\ \A c \in Calls : c.op = "set" => c \in {Set(1, Ports \ wan), Set(2, wan)}
    BY <1>4, VlanConfigCalls DEF Calls
  <2>2. /\ \A v \in Vids \ {1, 2} : vlan4k[v] = {}
        /\ vlan4k[2] = {}
    BY SomeVids DEF SwInit, Init
  <2>3. \A i \in Slots : mc[i].evid \in Vids
    BY ZeroTypes DEF SwInit, Init, NoEntry
  <2>4. MapInv
    BY <2>1, <2>2, <2>3 DEF MapInv
  <2>5. JobInv
    BY <1>2 DEF JobInv
  <2> QED BY <1>1, <1>2, <2>1, <2>4, <2>5 DEF SwInv
<1> QED BY <1>3, <1>4 DEF SwInit

LEMMA SwInductive == SwSpec => []SwInv
BY SwInitInv, SwStep, PTL DEF SwSpec

(* Through the handlers and the probe the tables stay as sound as RtkVlan  *)
(* promises, without a proviso, since nobody writes slots himself, and for *)
(* any list of ports.                                                      *)
THEOREM SwTablesSound == SwSpec => [](TypeOK /\ ShadowTrue /\ OneSlotPerVlan /\ MembersTracked)
<1>1. SwInv => TypeOK /\ ShadowTrue /\ OneSlotPerVlan /\ MembersTracked
  BY DEF SwInv, TablesInv, IInv, Own, Unique, Tracks, OneSlotPerVlan, MembersTracked
<1> QED BY <1>1, SwInductive, PTL

(* Once rtl8367s_vlan_config has made its calls, whichever of its PVID     *)
(* calls have failed, no port is classified to a slot that holds it and a  *)
(* port of the other side.                                                 *)
THEOREM LanWanSafe == SwSpec => []LanWanApart
<1>1. SwInv => LanWanApart
  <2> SUFFICES ASSUME SwInv, wan # {}, todo = <<>>, NEW p \in Ports,
                      p \in mc[pvid[p]].mbr, NEW q \in mc[pvid[p]].mbr
               PROVE  q \in wan <=> p \in wan
    BY DEF LanWanApart
  <2> DEFINE i == pvid[p]
  <2>1. i \in Slots
    BY DEF SwInv, TablesInv, IInv, TypeOK
  <2>2. usage[i] /\ mcVid[i] = mc[i].evid
    BY <2>1 DEF SwInv, TablesInv, IInv, ShadowTrue, NoEntry
  <2>3. mcVid[i] \in Vids /\ mc[i].mbr = vlan4k[mcVid[i]]
    BY <2>1, <2>2 DEF SwInv, MapInv, TablesInv, Own, Tracks
  <2>4. DOMAIN todo = {}
    BY LenProperties, EmptySeq DEF SwInv
  <2>5. Calls = {}
    BY <2>4 DEF Calls, Range
  <2>6. vlan4k[1] = Ports \ wan /\ vlan4k[2] \in {{}, wan}
    BY <2>5 DEF SwInv, MapInv
  <2>7. vlan4k[mcVid[i]] \in {{}, wan, Ports \ wan}
    BY <2>3, <2>6 DEF SwInv, MapInv
  <2> QED BY <2>3, <2>7
<1> QED BY <1>1, SwInductive, PTL

(* When rtl8367_sw_set_vlan_ports is done, whichever of its PVID calls     *)
(* failed, it has moved only ports without a PVID, and those only to its   *)
(* own VLAN; the ones it listed are there unless their own call failed.    *)
THEOREM HandlerSafe == SwSpec => []HandlerClassifies
<1>1. SwInv => HandlerClassifies
  <2> SUFFICES ASSUME SwInv, todo = <<>>, job.vid # 0, NEW p \in Ports
               PROVE  Kept(p) /\ (p \in job.ports \ job.failed => GetPvid(p) # 0)
    BY DEF HandlerClassifies, Kept
  <2>1. DOMAIN todo = {}
    BY LenProperties, EmptySeq DEF SwInv
  <2>2. Calls = {}
    BY <2>1 DEF Calls, Range
  <2> QED BY <2>2 DEF SwInv, JobInv, Served
<1> QED BY <1>1, SwInductive, PTL
=============================================================================
