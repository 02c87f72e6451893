---------------------------- MODULE An8855Proof ----------------------------
(***************************************************************************)
(* Proofs about the AN8855 driver, for any numbers of ports, bridges,      *)
(* VLANs and addresses and any mix of calls.                               *)
(***************************************************************************)
EXTENDS An8855, TLAPS

-----------------------------------------------------------------------------
(* The calls of a behaviour, one by one. *)

BrCall ==
    \/ \E p \in Ports, b \in Bridges : BridgeJoin(p, b)
    \/ \E p \in Ports : BridgeLeave(p)
    \/ \E p \in Ports, on \in BOOLEAN : BridgeFlags(p, on)
    \/ \E p \in Ports : VlanFilteringOn(p)
    \/ \E p \in Ports : VlanFilteringOff(p)
    \/ \E p \in AllPorts, v \in Vids, untagged, flag \in BOOLEAN : VlanAdd(p, v, untagged, flag)
    \/ \E p \in AllPorts, v \in Vids, untagged \in BOOLEAN : VlanAddFails(p, v, untagged)
    \/ \E p \in AllPorts, v \in Vids : VlanDel(p, v)
    \/ \E p \in AllPorts, v \in Vids : VlanDelFails(p, v)
    \/ \E p, to \in Ports, d \in Directions : MirrorAdd(p, to, d)
    \/ \E p \in Ports, d \in Directions : MirrorDel(p, d)
    \/ \E val \in Ages : SetAgeingTime(val)

(* The mix of a behaviour does not change. *)
LEMMA MixStep == mix \in Mixes /\ [Next]_vars => mix' \in Mixes
  BY DEF Next, vars

(* A step leaves the bridge part alone or is one of its calls. *)
LEMMA BrCases == mix \in Mixes /\ [Next]_vars => BrCall \/ UNCHANGED brVars
<1> SUFFICES ASSUME mix \in Mixes, [Next]_vars PROVE BrCall \/ UNCHANGED brVars
  OBVIOUS
<1>0. mix.ports \subseteq Ports
  BY MixAssumption
<1>1. CASE UNCHANGED vars
  BY <1>1 DEF vars
<1>2. CASE Next
  <2>1. CASE FdbNext /\ UNCHANGED brVars
    BY <2>1
  <2>2. ASSUME NEW k \in mix.kinds, Calls(k) PROVE BrCall
    <3>1. CASE BridgeCalls
      BY <1>0, <3>1 DEF BridgeCalls, BrCall
    <3>2. CASE FilterCalls
      BY <1>0, <3>2 DEF FilterCalls, BrCall
    <3>3. CASE VlanCalls
      BY <1>0, <3>3 DEF VlanCalls, BrCall, AllPorts
    <3>4. CASE MirrorCalls
      BY <1>0, <3>4 DEF MirrorCalls, BrCall
    <3>5. CASE \E val \in Ages : SetAgeingTime(val)
      BY <3>5 DEF BrCall
    <3> QED
      BY <2>2, <3>1, <3>2, <3>3, <3>4, <3>5 DEF Calls
  <2> QED
    BY <1>2, <2>1, <2>2 DEF Next
<1> QED
  BY <1>1, <1>2

-----------------------------------------------------------------------------
(* Bridging *)

(* The parts of the state the matrix depends on keep their types. *)
PortsType ==
    /\ bridge \in [Ports -> Bridges \cup {NoBridge}]
    /\ isolated \subseteq Ports
    /\ matrix \in [Ports -> SUBSET Ports]
    /\ left \subseteq Ports

PortsInv == PortsType /\ BridgesSeparate /\ IsolatedApart

LEMMA MemberType ==
    ASSUME PortsType, NEW p \in Ports, NEW b, NEW join, NEW iso
    PROVE  UpdatePortMember(p, b, join, iso) \in [Ports -> SUBSET Ports]
  BY DEF PortsType, UpdatePortMember, Others

LEMMA JoinKeeps ==
    ASSUME PortsInv, NEW p \in Ports, NEW b \in Bridges, BridgeJoin(p, b)
    PROVE  PortsInv'
<1>1. PortsType'
  BY MemberType DEF PortsInv, PortsType, BridgeJoin
<1>2. BridgesSeparate'
  BY BridgeAssumption DEF PortsInv, PortsType, BridgeJoin, BridgesSeparate, SameBridge,
     UpdatePortMember, Others
<1>3. IsolatedApart'
  BY BridgeAssumption DEF PortsInv, PortsType, BridgeJoin, IsolatedApart, SameBridge,
     UpdatePortMember, Others
<1> QED
  BY <1>1, <1>2, <1>3 DEF PortsInv

LEMMA LeaveKeeps ==
    ASSUME PortsInv, NEW p \in Ports, BridgeLeave(p)
    PROVE  PortsInv'
<1>1. PortsType'
  BY MemberType DEF PortsInv, PortsType, BridgeLeave
<1>2. BridgesSeparate'
  BY BridgeAssumption DEF PortsInv, PortsType, BridgeLeave, BridgesSeparate, SameBridge,
     UpdatePortMember, Others
<1>3. IsolatedApart'
  BY BridgeAssumption DEF PortsInv, PortsType, BridgeLeave, IsolatedApart, SameBridge,
     UpdatePortMember, Others
<1> QED
  BY <1>1, <1>2, <1>3 DEF PortsInv

LEMMA FlagsKeep ==
    ASSUME PortsInv, NEW p \in Ports, NEW on \in BOOLEAN, BridgeFlags(p, on)
    PROVE  PortsInv'
<1>1. PortsType'
  BY MemberType DEF PortsInv, PortsType, BridgeFlags
<1>2. BridgesSeparate'
  BY BridgeAssumption DEF PortsInv, PortsType, BridgeFlags, BridgesSeparate, SameBridge,
     UpdatePortMember, Others
<1>3. IsolatedApart'
  BY BridgeAssumption DEF PortsInv, PortsType, BridgeFlags, IsolatedApart, SameBridge,
     UpdatePortMember, Others
<1> QED
  BY <1>1, <1>2, <1>3 DEF PortsInv

(* What leaves the port variables alone keeps what is said about them. *)
LEMMA PortsSame == PortsInv /\ UNCHANGED portVars => PortsInv'
  BY DEF PortsInv, PortsType, BridgesSeparate, IsolatedApart, SameBridge, portVars

LEMMA PortsStep ==
    ASSUME mix \in Mixes, PortsInv, [Next]_vars
    PROVE  PortsInv'
<1>1. ASSUME UNCHANGED portVars PROVE PortsInv'
  BY <1>1, PortsSame
<1>2. CASE UNCHANGED brVars
  BY <1>1, <1>2 DEF brVars
<1>3. CASE BrCall
  <2>1. CASE \E p \in Ports : VlanFilteringOn(p) \/ VlanFilteringOff(p)
    BY <1>1, <2>1 DEF VlanFilteringOn, VlanFilteringOff
  <2>2. CASE \E p \in AllPorts, v \in Vids : VlanDel(p, v) \/ VlanDelFails(p, v)
    BY <1>1, <2>2 DEF VlanDel, VlanDelFails
  <2>3. CASE \E p \in AllPorts, v \in Vids, untagged, flag \in BOOLEAN :
                VlanAdd(p, v, untagged, flag) \/ VlanAddFails(p, v, untagged)
    BY <1>1, <2>3 DEF VlanAdd, VlanAddFails
  <2>4. CASE \E p, to \in Ports, d \in Directions : MirrorAdd(p, to, d) \/ MirrorDel(p, d)
    BY <1>1, <2>4 DEF MirrorAdd, MirrorDel
  <2>5. CASE \E val \in Ages : SetAgeingTime(val)
    BY <1>1, <2>5 DEF SetAgeingTime
  <2> QED
    BY <1>3, <2>1, <2>2, <2>3, <2>4, <2>5, JoinKeeps, LeaveKeeps, FlagsKeep DEF BrCall
<1> QED
  BY <1>2, <1>3, BrCases

-----------------------------------------------------------------------------
(* VLANs and modes *)

(* The rest of the bridge part keeps its type. *)
RestType ==
    /\ filtering \in [Ports -> BOOLEAN]
    /\ mode \in [AllPorts -> Modes]
    /\ acc \in [AllPorts -> {"all", "tagged"}]
    /\ pvid \in [AllPorts -> Vids \cup {DefaultVid}]
    /\ vtable \in [Vids -> Entry]
    /\ asked \in [Vids -> [AllPorts -> Tags \cup {"none"}]]
    /\ doubt \subseteq AllPorts \X Vids

VlanInv == RestType /\ ModesFollow /\ VlansTrue /\ PvidSound

(* The entries the driver writes, field by field. *)
LEMMA EntryAdded ==
    ASSUME vtable \in [Vids -> Entry], NEW p \in AllPorts, NEW v \in Vids,
           NEW untagged \in BOOLEAN
    PROVE  /\ VlanAdded(p, v, untagged) \in Entry
           /\ VlanAdded(p, v, untagged).members = vtable[v].members \cup {p}
           /\ VlanAdded(p, v, untagged).etag[p] = EgressTag(p, untagged)
           /\ \A q \in AllPorts \ {p} :
                 VlanAdded(p, v, untagged).etag[q] = vtable[v].etag[q]
           /\ EgressTag(p, untagged) \in Tags
  BY DEF VlanAdded, EgressTag, Entry, Tags, AllPorts

LEMMA EntryDeleted ==
    ASSUME vtable \in [Vids -> Entry], NEW p \in AllPorts, NEW v \in Vids
    PROVE  /\ VlanDeleted(p, v) \in Entry
           /\ VlanDeleted(p, v).members = vtable[v].members \ {p}
           /\ VlanDeleted(p, v).members # {} => VlanDeleted(p, v).etag = vtable[v].etag
  BY DEF VlanDeleted, NoEntry, Entry, Tags, AllPorts

(* Calls that do not write the VLAN table. *)
LEMMA JoinModes ==
    ASSUME PortsInv, VlanInv, NEW p \in Ports, NEW b \in Bridges, BridgeJoin(p, b)
    PROVE  VlanInv'
<1>1. RestType'
  BY DEF VlanInv, RestType, BridgeJoin, Modes, vlanVars
<1>2. ModesFollow'
  BY BridgeAssumption DEF VlanInv, RestType, BridgeJoin, ModesFollow, PortsInv, PortsType, AllPorts
<1>3. VlansTrue' /\ PvidSound'
  BY DEF VlanInv, BridgeJoin, VlansTrue, PvidSound, vlanVars
<1> QED
  BY <1>1, <1>2, <1>3 DEF VlanInv

LEMMA LeaveModes ==
    ASSUME PortsInv, VlanInv, NEW p \in Ports, BridgeLeave(p)
    PROVE  VlanInv'
<1>1. RestType'
  BY DEF VlanInv, RestType, BridgeLeave, Modes, vlanVars
<1>2. ModesFollow'
  BY BridgeAssumption DEF VlanInv, RestType, BridgeLeave, ModesFollow, PortsInv, PortsType, AllPorts
<1>3. VlansTrue' /\ PvidSound'
  BY DEF VlanInv, BridgeLeave, VlansTrue, PvidSound, vlanVars
<1> QED
  BY <1>1, <1>2, <1>3 DEF VlanInv

LEMMA FilteringOnModes ==
    ASSUME PortsInv, VlanInv, NEW p \in Ports, VlanFilteringOn(p)
    PROVE  VlanInv'
<1>1. RestType'
  BY DEF VlanInv, RestType, VlanFilteringOn, Modes, vlanVars, AllPorts
<1>2. ModesFollow'
  BY BridgeAssumption DEF VlanInv, RestType, VlanFilteringOn, ModesFollow, portVars, AllPorts
<1>3. VlansTrue'
  BY DEF VlanInv, VlanFilteringOn, VlansTrue, vlanVars
<1>4. PvidSound'
  BY DEF VlanInv, RestType, VlanFilteringOn, PvidSound, vlanVars, AllPorts
<1> QED
  BY <1>1, <1>2, <1>3, <1>4 DEF VlanInv

LEMMA FilteringOffModes ==
    ASSUME PortsInv, VlanInv, NEW p \in Ports, VlanFilteringOff(p)
    PROVE  VlanInv'
<1>0. PICK m \in CpuModes(p) : mode' = [mode EXCEPT ![p] = UnawareMode(p), ![Cpu] = m]
  BY DEF VlanFilteringOff
<1>1. RestType'
  BY <1>0 DEF VlanInv, RestType, VlanFilteringOff, CpuModes, UnawareMode, RestorePvid, Modes,
     vlanVars, AllPorts
<1>2. ModesFollow'
  BY <1>0, BridgeAssumption DEF VlanInv, RestType, VlanFilteringOff, CpuModes, UnawareMode,
     ModesFollow, portVars, AllPorts
<1>3. VlansTrue'
  BY DEF VlanInv, VlanFilteringOff, VlansTrue, vlanVars
<1>4. PvidSound'
  BY DEF VlanInv, RestType, VlanFilteringOff, PvidSound, RestorePvid, vlanVars, AllPorts
<1> QED
  BY <1>1, <1>2, <1>3, <1>4 DEF VlanInv

(* Calls that write it. *)
LEMMA AddModes ==
    ASSUME VlanInv, NEW p \in AllPorts, NEW v \in Vids, NEW untagged \in BOOLEAN,
           NEW flag \in BOOLEAN, VlanAdd(p, v, untagged, flag)
    PROVE  VlanInv'
<1> USE EntryAdded
<1>1. RestType'
  <2>1. /\ vtable' \in [Vids -> Entry]
        /\ asked' \in [Vids -> [AllPorts -> Tags \cup {"none"}]]
        /\ doubt' \subseteq AllPorts \X Vids
    BY DEF VlanInv, RestType, VlanAdd, Ask
  <2>2. /\ acc' \in [AllPorts -> {"all", "tagged"}]
        /\ pvid' \in [AllPorts -> Vids \cup {DefaultVid}]
    BY ZenonT(60) DEF VlanInv, RestType, VlanAdd, AddPvid, RestorePvid, AllPorts
  <2> QED
    BY <2>1, <2>2 DEF VlanInv, RestType, VlanAdd
<1>2. ModesFollow'
  BY DEF VlanInv, VlanAdd, ModesFollow, portVars
<1>3. VlansTrue'
  <2>1. /\ vtable'[v].members = vtable[v].members \cup {p}
        /\ vtable'[v].etag[p] = EgressTag(p, untagged)
        /\ \A q \in AllPorts \ {p} : vtable'[v].etag[q] = vtable[v].etag[q]
        /\ \A w \in Vids \ {v} : vtable'[w] = vtable[w]
    BY DEF VlanInv, RestType, VlanAdd
  <2>2. /\ asked'[v][p] = EgressTag(p, untagged) /\ asked'[v][p] # "none"
        /\ \A q \in AllPorts \ {p} : asked'[v][q] = asked[v][q]
        /\ \A w \in Vids \ {v} : asked'[w] = asked[w]
    BY DEF VlanInv, RestType, VlanAdd, Ask, Tags
  <2>3. doubt' = doubt \ {<<p, v>>}
    BY DEF VlanAdd
  <2>4. ASSUME NEW w \in Vids, NEW q \in AllPorts, <<q, w>> \notin doubt'
        PROVE  /\ q \in vtable'[w].members <=> asked'[w][q] # "none"
               /\ q \in vtable'[w].members => vtable'[w].etag[q] = asked'[w][q]
    <3>1. CASE q = p /\ w = v
      BY <2>1, <2>2, <3>1
    <3>2. CASE ~(q = p /\ w = v)
      <4>1. <<q, w>> \notin doubt
        BY <2>3, <2>4, <3>2
      <4> QED
        BY <2>1, <2>2, <3>2, <4>1 DEF VlanInv, VlansTrue
    <3> QED
      BY <3>1, <3>2
  <2> QED
    BY <2>4 DEF VlansTrue
<1>4. PvidSound'
  <2>1. \A q \in Ports : pvid'[q] # DefaultVid => filtering'[q] /\ acc'[q] = "all"
    BY ZenonT(60) DEF VlanInv, RestType, VlanAdd, AddPvid, RestorePvid, PvidSound, AllPorts
  <2>2. \A q \in Ports : pvid'[q] # pvid[q] => q = p /\ pvid'[q] \in {v, DefaultVid}
    BY DEF VlanInv, RestType, VlanAdd, AddPvid, RestorePvid, PvidSound, AllPorts
  <2>3. \A w \in Vids : vtable[w].members \subseteq vtable'[w].members
    BY DEF VlanInv, RestType, VlanAdd
  <2>4. p \in vtable'[v].members /\ doubt' = doubt \ {<<p, v>>}
    BY DEF VlanInv, RestType, VlanAdd
  <2>5. ASSUME NEW q \in Ports, pvid'[q] # DefaultVid, <<q, pvid'[q]>> \notin doubt'
        PROVE  q \in vtable'[pvid'[q]].members
    <3>1. CASE q = p /\ pvid'[q] = v
      BY <3>1, <2>4
    <3>2. CASE ~(q = p /\ pvid'[q] = v)
      <4>1. pvid'[q] = pvid[q] /\ pvid[q] \in Vids
        BY <2>2, <2>5, <3>2 DEF VlanInv, RestType, AllPorts
      <4>2. <<q, pvid[q]>> \notin doubt
        BY <4>1, <2>4, <2>5, <3>2
      <4> QED
        BY <4>1, <4>2, <2>3, <2>5 DEF VlanInv, PvidSound
    <3> QED
      BY <3>1, <3>2
  <2> QED
    BY <2>1, <2>5 DEF PvidSound
<1> QED
  BY <1>1, <1>2, <1>3, <1>4 DEF VlanInv

LEMMA AddFailsModes ==
    ASSUME VlanInv, NEW p \in AllPorts, NEW v \in Vids, NEW untagged \in BOOLEAN,
           VlanAddFails(p, v, untagged)
    PROVE  VlanInv'
<1>0. /\ doubt' = doubt \cup {<<p, v>>} /\ asked' = asked
      /\ pvid' = pvid /\ acc' = acc /\ filtering' = filtering
  BY DEF VlanAddFails, filterVars
<1>a. vtable \in [Vids -> Entry]
  BY DEF VlanInv, RestType
<1>b. vtable' = vtable \/ vtable' = [vtable EXCEPT ![v] = VlanAdded(p, v, untagged)]
  BY DEF VlanAddFails
<1>c. /\ VlanAdded(p, v, untagged) \in Entry
      /\ VlanAdded(p, v, untagged).members = vtable[v].members \cup {p}
      /\ \A q \in AllPorts \ {p} :
            VlanAdded(p, v, untagged).etag[q] = vtable[v].etag[q]
  BY <1>a, EntryAdded
<1>d. /\ vtable' \in [Vids -> Entry]
      /\ \A w \in Vids : vtable[w].members \subseteq vtable'[w].members
  BY <1>c, <1>b, <1>a
<1>1. RestType'
  BY <1>0, <1>d DEF VlanInv, RestType, VlanAddFails, filterVars
<1>2. ModesFollow'
  BY DEF VlanInv, VlanAddFails, ModesFollow, portVars, filterVars
<1>3. VlansTrue'
  <2>1. ASSUME NEW w \in Vids, NEW q \in AllPorts, <<q, w>> \notin doubt'
        PROVE  /\ <<q, w>> \notin doubt
               /\ q \in vtable'[w].members <=> q \in vtable[w].members
               /\ vtable'[w].etag[q] = vtable[w].etag[q]
    BY <2>1, <1>0, <1>c, <1>b, <1>a
  <2> QED
    BY <2>1, <1>0 DEF VlanInv, VlansTrue
<1>4. PvidSound'
  <2>2. ASSUME NEW q \in Ports, pvid[q] # DefaultVid, <<q, pvid[q]>> \notin doubt'
        PROVE  q \in vtable'[pvid[q]].members
    <3>1. pvid[q] \in Vids /\ <<q, pvid[q]>> \notin doubt
      BY <1>0, <2>2 DEF VlanInv, RestType, AllPorts
    <3> QED
      BY <1>d, <2>2, <3>1 DEF VlanInv, PvidSound
  <2> QED
    BY <1>0, <2>2 DEF VlanInv, PvidSound
<1> QED
  BY <1>1, <1>2, <1>3, <1>4 DEF VlanInv

LEMMA DelModes ==
    ASSUME VlanInv, NEW p \in AllPorts, NEW v \in Vids, VlanDel(p, v)
    PROVE  VlanInv'
<1> USE EntryDeleted
<1>1. RestType'
  <2>1. /\ vtable' \in [Vids -> Entry]
        /\ asked' \in [Vids -> [AllPorts -> Tags \cup {"none"}]]
        /\ doubt' \subseteq AllPorts \X Vids
    BY DEF VlanInv, RestType, VlanDel, Ask
  <2>2. /\ acc' \in [AllPorts -> {"all", "tagged"}]
        /\ pvid' \in [AllPorts -> Vids \cup {DefaultVid}]
    BY DEF VlanInv, RestType, VlanDel, DelPvid, RestorePvid, AllPorts
  <2> QED
    BY <2>1, <2>2 DEF VlanInv, RestType, VlanDel
<1>2. ModesFollow'
  BY DEF VlanInv, VlanDel, ModesFollow, portVars
<1>3. VlansTrue'
  BY SMTT(30) DEF VlanInv, RestType, VlanDel, VlansTrue, Ask
<1>4. PvidSound'
  <2>1. \A q \in Ports : pvid'[q] # DefaultVid =>
            /\ filtering'[q] /\ acc'[q] = "all" /\ pvid'[q] = pvid[q]
            /\ ~(q = p /\ pvid[q] = v)
    BY DEF VlanInv, RestType, VlanDel, DelPvid, RestorePvid, PvidSound, AllPorts
  <2>2. \A w \in Vids, q \in Ports :
            ~(q = p /\ w = v) /\ q \in vtable[w].members => q \in vtable'[w].members
    BY DEF VlanInv, RestType, VlanDel
  <2>3. doubt' = doubt \ {<<p, v>>}
    BY DEF VlanDel
  <2>4. ASSUME NEW q \in Ports, pvid'[q] # DefaultVid, <<q, pvid'[q]>> \notin doubt'
        PROVE  q \in vtable'[pvid'[q]].members
    <3>1. pvid'[q] = pvid[q] /\ ~(q = p /\ pvid[q] = v) /\ pvid[q] \in Vids
      BY <2>1, <2>4 DEF VlanInv, RestType, AllPorts
    <3>2. <<q, pvid[q]>> \notin doubt
      BY <3>1, <2>3, <2>4
    <3> QED
      BY <3>1, <3>2, <2>2, <2>4 DEF VlanInv, PvidSound
  <2> QED
    BY <2>1, <2>4 DEF PvidSound
<1> QED
  BY <1>1, <1>2, <1>3, <1>4 DEF VlanInv

LEMMA DelFailsModes ==
    ASSUME VlanInv, NEW p \in AllPorts, NEW v \in Vids, VlanDelFails(p, v)
    PROVE  VlanInv'
<1> USE EntryDeleted
<1>1. RestType'
  <2>1. vtable' \in [Vids -> Entry]
    BY DEF VlanInv, RestType, VlanDelFails
  <2>2. asked' \in [Vids -> [AllPorts -> Tags \cup {"none"}]]
    BY DEF VlanInv, RestType, VlanDelFails, Ask
  <2>3. doubt' \subseteq AllPorts \X Vids
    BY DEF VlanInv, RestType, VlanDelFails
  <2> QED
    BY <2>1, <2>2, <2>3 DEF VlanInv, RestType, VlanDelFails, filterVars
<1>2. ModesFollow'
  BY DEF VlanInv, VlanDelFails, ModesFollow, portVars, filterVars
<1>3. VlansTrue'
  <2> SUFFICES ASSUME NEW w \in Vids, NEW q \in AllPorts, <<q, w>> \notin doubt'
               PROVE  /\ q \in vtable'[w].members <=> asked'[w][q] # "none"
                      /\ q \in vtable'[w].members => vtable'[w].etag[q] = asked'[w][q]
    BY DEF VlansTrue
  <2>1. <<q, w>> \notin doubt /\ ~(q = p /\ w = v)
    BY DEF VlanDelFails
  <2>2. asked'[w][q] = asked[w][q]
    BY <2>1 DEF VlanInv, RestType, VlanDelFails, Ask
  <2>3. /\ q \in vtable'[w].members <=> q \in vtable[w].members
        /\ q \in vtable'[w].members => vtable'[w].etag[q] = vtable[w].etag[q]
    BY <2>1 DEF VlanInv, RestType, VlanDelFails
  <2> QED
    BY <2>1, <2>2, <2>3 DEF VlanInv, VlansTrue
<1>4. PvidSound'
  <2>1. \A w \in Vids, q \in Ports :
            ~(q = p /\ w = v) /\ q \in vtable[w].members => q \in vtable'[w].members
    BY DEF VlanInv, RestType, VlanDelFails
  <2>2. doubt' = doubt \cup {<<p, v>>} /\ pvid' = pvid
    BY DEF VlanDelFails, filterVars
  <2>3. ASSUME NEW q \in Ports, pvid[q] # DefaultVid, <<q, pvid[q]>> \notin doubt'
        PROVE  q \in vtable'[pvid[q]].members
    <3>1. pvid[q] \in Vids /\ ~(q = p /\ pvid[q] = v) /\ <<q, pvid[q]>> \notin doubt
      BY <2>2, <2>3 DEF VlanInv, RestType, AllPorts
    <3> QED
      BY <3>1, <2>1, <2>3 DEF VlanInv, PvidSound
  <2> QED
    BY <2>2, <2>3 DEF VlanInv, PvidSound, VlanDelFails, filterVars
<1> QED
  BY <1>1, <1>2, <1>3, <1>4 DEF VlanInv

LEMMA VlanSame ==
    VlanInv /\ UNCHANGED <<bridge, filterVars, vlanVars>> => VlanInv'
  BY DEF VlanInv, RestType, ModesFollow, VlansTrue, PvidSound, filterVars, vlanVars

LEMMA VlanStep ==
    ASSUME mix \in Mixes, PortsInv, VlanInv, [Next]_vars
    PROVE  VlanInv'
<1>1. ASSUME UNCHANGED <<bridge, filterVars, vlanVars>> PROVE VlanInv'
  BY <1>1, VlanSame
<1>2. CASE UNCHANGED brVars
  BY <1>1, <1>2 DEF brVars, portVars
<1>3. CASE BrCall
  <2>1. CASE \E p \in Ports, on \in BOOLEAN : BridgeFlags(p, on)
    BY <1>1, <2>1 DEF BridgeFlags
  <2>2. CASE \E p, to \in Ports, d \in Directions : MirrorAdd(p, to, d) \/ MirrorDel(p, d)
    BY <1>1, <2>2 DEF MirrorAdd, MirrorDel, portVars
  <2>3. CASE \E val \in Ages : SetAgeingTime(val)
    BY <1>1, <2>3 DEF SetAgeingTime, portVars
  <2> QED
    BY <1>3, <2>1, <2>2, <2>3, JoinModes, LeaveModes, FilteringOnModes, FilteringOffModes,
       AddModes, AddFailsModes, DelModes, DelFailsModes DEF BrCall
<1> QED
  BY <1>2, <1>3, BrCases

-----------------------------------------------------------------------------
(* Mirroring and ageing *)

MirrorType ==
    /\ mirrored \in [Directions -> SUBSET Ports]
    /\ mirBits \in [Directions -> SUBSET Ports]
    /\ mir \in [en : BOOLEAN, port : Ports]
    /\ target \in [Directions -> [Ports -> AllPorts]]

MirrorInv == MirrorType /\ MirrorsTrue

LEMMA MirrorAddKeeps ==
    ASSUME MirrorInv, NEW p \in Ports, NEW to \in Ports, NEW d \in Directions,
           MirrorAdd(p, to, d)
    PROVE  MirrorInv'
<1>1. MirrorType'
  BY DEF MirrorInv, MirrorType, MirrorAdd, AllPorts
<1>2. mirBits' = mirrored'
  BY DEF MirrorInv, MirrorsTrue, MirrorAdd
<1>3. mir'.en /\ mir'.port = to /\ p \in mirrored'[d]
  BY DEF MirrorInv, MirrorType, MirrorAdd
<1>4. ASSUME NEW e \in Directions, NEW q \in Ports
      PROVE  /\ q \in mirrored'[e] <=> target'[e][q] # Cpu
             /\ q \in mirrored'[e] => mir'.port = target'[e][q]
  <2>1. CASE e = d /\ q = p
    BY <2>1, BridgeAssumption DEF MirrorInv, MirrorType, MirrorAdd
  <2>2. CASE ~(e = d /\ q = p)
    <3>1. (q \in mirrored'[e] <=> q \in mirrored[e]) /\ target'[e][q] = target[e][q]
      BY <2>2 DEF MirrorInv, MirrorType, MirrorAdd
    <3>2. q \in mirrored[e] => mir.en /\ mir.port = to
      BY DEF MirrorInv, MirrorsTrue, MirrorAdd, MonitorFree
    <3> QED
      BY <1>3, <3>1, <3>2 DEF MirrorInv, MirrorsTrue
  <2> QED
    BY <2>1, <2>2
<1> QED
  BY <1>1, <1>2, <1>3, <1>4 DEF MirrorInv, MirrorsTrue

LEMMA MirrorDelKeeps ==
    ASSUME MirrorInv, NEW p \in Ports, NEW d \in Directions, MirrorDel(p, d)
    PROVE  MirrorInv'
<1>1. MirrorType'
  BY DEF MirrorInv, MirrorType, MirrorDel, AllPorts
<1>2. mirBits' = mirrored'
  BY DEF MirrorInv, MirrorsTrue, MirrorDel
<1>3. mir'.port = mir.port
  BY DEF MirrorInv, MirrorType, MirrorDel
<1>4. ASSUME NEW e \in Directions, NEW q \in Ports
      PROVE  /\ q \in mirrored'[e] <=> target'[e][q] # Cpu
             /\ q \in mirrored'[e] => mir'.port = target'[e][q]
  BY <1>3 DEF MirrorInv, MirrorType, MirrorsTrue, MirrorDel
<1>5. mir'.en <=> \E e \in Directions : mirrored'[e] # {}
  BY DEF MirrorInv, MirrorType, MirrorsTrue, MirrorDel
<1> QED
  BY <1>1, <1>2, <1>4, <1>5 DEF MirrorInv, MirrorsTrue

LEMMA MirrorStep ==
    ASSUME mix \in Mixes, MirrorInv, [Next]_vars
    PROVE  MirrorInv'
<1>1. ASSUME UNCHANGED mirrorVars PROVE MirrorInv'
  BY <1>1 DEF MirrorInv, MirrorType, MirrorsTrue, mirrorVars
<1>2. CASE UNCHANGED brVars
  BY <1>1, <1>2 DEF brVars
<1>3. CASE BrCall
  <2>1. CASE \E p \in Ports, b \in Bridges, on \in BOOLEAN :
                BridgeJoin(p, b) \/ BridgeLeave(p) \/ BridgeFlags(p, on)
    BY <1>1, <2>1 DEF BridgeJoin, BridgeLeave, BridgeFlags
  <2>2. CASE \E p \in Ports : BridgeLeave(p) \/ VlanFilteringOn(p) \/ VlanFilteringOff(p)
    BY <1>1, <2>2 DEF BridgeLeave, VlanFilteringOn, VlanFilteringOff
  <2>3. CASE \E p \in AllPorts, v \in Vids : VlanDel(p, v) \/ VlanDelFails(p, v)
    BY <1>1, <2>3 DEF VlanDel, VlanDelFails
  <2>4. CASE \E p \in AllPorts, v \in Vids, untagged, flag \in BOOLEAN :
                VlanAdd(p, v, untagged, flag) \/ VlanAddFails(p, v, untagged)
    BY <1>1, <2>4 DEF VlanAdd, VlanAddFails
  <2>5. CASE \E val \in Ages : SetAgeingTime(val)
    BY <1>1, <2>5 DEF SetAgeingTime
  <2>6. CASE \E p \in Ports, on \in BOOLEAN : BridgeFlags(p, on)
    BY <1>1, <2>6 DEF BridgeFlags
  <2> QED
    BY <1>3, <2>1, <2>2, <2>3, <2>4, <2>5, <2>6, MirrorAddKeeps, MirrorDelKeeps DEF BrCall
<1> QED
  BY <1>2, <1>3, BrCases

-----------------------------------------------------------------------------
(* The address table *)

Critical == {"key", "keydata", "fetch", "ata", "data", "store", "search", "next", "exit"}

(* Exactly the thread inside a critical section holds the mutex. *)
HeldBy == \A t \in Threads : pc[t] \in Critical <=> mutex = t

(* Undisturbed, fast ageing has the registers for itself. *)
AgeApart == ~disturbed /\ FastAging => mutex = Nobody

(* What the threads are about: hosts on the work queue, groups under rtnl. *)
OpsSound ==
    /\ pc["wq"] # "idle" =>
          /\ op["wq"].kind \in {"fdb_add", "fdb_del"}
          /\ op["wq"].addr \in Hosts /\ op["wq"].port # {}
    /\ pc["wq"] \in {"idle", "lock", "ata", "data", "store"}
    /\ pc["rtnl"] \in {"key", "keydata", "fetch", "ata", "data", "store"} =>
          op["rtnl"].kind \in {"mdb_add", "mdb_del"}
    /\ pc["rtnl"] = "lock" => op["rtnl"].kind \in {"mdb_add", "mdb_del", "dump"}
    /\ op["rtnl"].kind \in {"mdb_add", "mdb_del"} => op["rtnl"].addr \in Groups

(* The registers hold what the thread in the critical section wrote. *)
RegsOwn ==
    /\ pc["rtnl"] = "next" => atwd.ports = op["rtnl"].port
    /\ ~disturbed =>
          /\ \A t \in Threads : pc[t] \in {"keydata", "fetch", "data", "store"} =>
                ata.addr = op[t].addr /\ ata.dyn = FALSE
          /\ \A t \in Threads : pc[t] = "store" =>
                /\ atwd.ports = mask[t]
                /\ atwd.vld = (op[t].kind # "fdb_del" /\ mask[t] # {})
          /\ pc["rtnl"] \in {"atwd2", "flush"} => ata.dyn = TRUE

(* The ports a call is about to write are the ones it should. *)
MasksOwn ==
    /\ pc["wq"] \in {"ata", "data", "store"} => mask["wq"] = op["wq"].port
    /\ ~disturbed /\ pc["rtnl"] \in {"ata", "data", "store"} /\ op["rtnl"].addr \notin unsure
          => mask["rtnl"] = Changed("rtnl", wanted[op["rtnl"].addr])

(* The chip does not learn the addresses of groups. *)
GroupsStatic == ~disturbed => \A a \in Groups : table[a].dyn = FALSE

(* The inductive invariant of the address table. *)
FdbInv ==
    FdbTypeOK /\ HeldBy /\ AgeApart /\ OpsSound /\ RegsOwn /\ MasksOwn
        /\ GroupsStatic /\ EntriesKept

(* Types of what the actions write. *)
LEMMA CallType ==
    ASSUME FdbTypeOK, NEW t \in Threads, NEW a \in Addrs, NEW P \in SUBSET FdbPorts,
           NEW k \in {"fdb_add", "fdb_del", "mdb_add", "mdb_del", "dump", "fast_age"},
           NEW at \in {"lock", "ata2"}, Call(t, k, a, P, at)
    PROVE  FdbTypeOK'
<1>1. pc' = [pc EXCEPT ![t] = at]
  BY DEF Call
<1>2. op' = [op EXCEPT ![t] = [kind |-> k, addr |-> a, port |-> P]]
  BY DEF Call
<1>3. disturbed' \in BOOLEAN
  BY DEF Call, Note, FdbTypeOK
<1>4. UNCHANGED <<table, ata, atwd, mutex, mask, dump, wanted, unsure>>
  BY DEF Call, regVars
<1> QED
  BY <1>1, <1>2, <1>3, <1>4 DEF FdbTypeOK

(* What a call leaves behind, thread by thread. *)
LEMMA CallState ==
    ASSUME FdbTypeOK, NEW t \in Threads, NEW k, NEW a, NEW P, NEW at, Call(t, k, a, P, at)
    PROVE  /\ pc'[t] = at /\ pc[t] = "idle"
           /\ op'[t].kind = k /\ op'[t].addr = a /\ op'[t].port = P
           /\ \A s \in Threads \ {t} : pc'[s] = pc[s] /\ op'[s] = op[s]
           /\ UNCHANGED <<table, ata, atwd, mutex, mask, dump, wanted, unsure>>
  BY DEF FdbTypeOK, Call, regVars

LEMMA WrittenType ==
    ASSUME FdbTypeOK
    PROVE  /\ Written \in [Addrs -> [ports : SUBSET FdbPorts, dyn : BOOLEAN]]
           /\ \A a \in Addrs \ {ata.addr} : Written[a] = table[a]
           /\ atwd.vld => Written[ata.addr] = EntryOf(atwd.ports, ata.dyn)
           /\ ~atwd.vld => Written[ata.addr] = Absent
  BY DEF FdbTypeOK, Written, EntryOf, Absent

LEMMA AbsentNotStatic == ASSUME NEW a, table'[a] = Absent PROVE ~Static(a)'
  BY DEF Static, Absent

LEMMA FlushedType ==
    ASSUME FdbTypeOK
    PROVE  Flushed \in [Addrs -> [ports : SUBSET FdbPorts, dyn : BOOLEAN]]
  BY DEF FdbTypeOK, Flushed, Absent

LEMMA UnlockedType ==
    ASSUME FdbTypeOK, NEW t \in Threads, Unlocked(t), Note,
           table' \in [Addrs -> [ports : SUBSET FdbPorts, dyn : BOOLEAN]],
           UNCHANGED <<ata, atwd>>, dump' \in DumpState,
           wanted' \in [Addrs -> SUBSET FdbPorts], unsure' \subseteq Addrs
    PROVE  FdbTypeOK'
<1>1. NoOp \in [kind : {"none", "fdb_add", "fdb_del", "mdb_add", "mdb_del",
                        "dump", "fast_age"},
                addr : Addrs, port : SUBSET FdbPorts]
  BY DEF NoOp, Addrs
<1>2. mutex' \in Threads \cup {Nobody} /\ disturbed' \in BOOLEAN
  BY DEF FdbTypeOK, Unlocked, Note
<1>3. /\ pc' = [pc EXCEPT ![t] = "idle"] /\ op' = [op EXCEPT ![t] = NoOp]
      /\ mask' = [mask EXCEPT ![t] = {}]
  BY DEF Unlocked
<1> QED
  BY <1>1, <1>2, <1>3 DEF FdbTypeOK

(* Every step keeps each part of the invariant. *)
LEMMA LearnFdb ==
    ASSUME FdbInv, NEW a \in Hosts, NEW p \in FdbPorts, Learn(a, p)
    PROVE  FdbInv'
<1> USE FdbAssumption DEF FdbInv
<1>1. FdbTypeOK'
  BY DEF FdbTypeOK, Learn, regVars, callVars, Addrs, EntryOf, Threads
<1>2. HeldBy'
  BY DEF HeldBy, Learn, regVars, callVars
<1>3. AgeApart'
  BY DEF AgeApart, Learn, regVars, callVars, FastAging
<1>4. OpsSound'
  BY DEF OpsSound, Learn, regVars, callVars
<1>5. RegsOwn'
  BY DEF RegsOwn, Learn, regVars, callVars
<1>6. MasksOwn'
  BY DEF MasksOwn, Learn, regVars, callVars, Changed
<1>7. GroupsStatic'
  BY DEF GroupsStatic, FdbTypeOK, OpsSound, RegsOwn, Learn, regVars, callVars, Addrs,
     EntryOf, Static
<1>8. EntriesKept'
  BY DEF EntriesKept, FdbTypeOK, HeldBy, OpsSound, RegsOwn, MasksOwn, Learn, regVars,
     callVars, Critical, Threads, Addrs, EntryOf, Static, Changed
<1> QED
  BY <1>1, <1>2, <1>3, <1>4, <1>5, <1>6, <1>7, <1>8

LEMMA AgeFdb ==
    ASSUME FdbInv, NEW a \in Hosts, Age(a)
    PROVE  FdbInv'
<1> USE FdbAssumption DEF FdbInv
<1>1. FdbTypeOK'
  BY DEF FdbTypeOK, Age, regVars, callVars, Addrs, Absent, Threads
<1>2. HeldBy'
  BY DEF HeldBy, Age, regVars, callVars
<1>3. AgeApart'
  BY DEF AgeApart, Age, regVars, callVars, FastAging
<1>4. OpsSound'
  BY DEF OpsSound, Age, regVars, callVars
<1>5. RegsOwn'
  BY DEF RegsOwn, Age, regVars, callVars
<1>6. MasksOwn'
  BY DEF MasksOwn, Age, regVars, callVars, Changed
<1>7. GroupsStatic'
  BY DEF GroupsStatic, FdbTypeOK, OpsSound, RegsOwn, Age, regVars, callVars, Addrs, Absent
<1>8. EntriesKept'
  BY DEF EntriesKept, FdbTypeOK, HeldBy, OpsSound, RegsOwn, MasksOwn, Age, regVars,
     callVars, Critical, Threads, Addrs, Absent, EntryOf, Static, Changed
<1> QED
  BY <1>1, <1>2, <1>3, <1>4, <1>5, <1>6, <1>7, <1>8

LEMMA WqCalls ==
    ASSUME FdbInv, NEW a \in Hosts, NEW p \in FdbPorts, FdbAdd(a, p) \/ FdbDel(a, p)
    PROVE  FdbInv'
<1> USE FdbAssumption DEF FdbInv
<1>0. PICK k \in {"fdb_add", "fdb_del"} : Call("wq", k, a, {p}, "lock")
  BY DEF FdbAdd, FdbDel
<1>a. /\ pc'["wq"] = "lock" /\ pc["wq"] = "idle"
      /\ op'["wq"].kind = k /\ op'["wq"].addr = a /\ op'["wq"].port = {p}
      /\ pc'["rtnl"] = pc["rtnl"] /\ op'["rtnl"] = op["rtnl"]
      /\ UNCHANGED <<table, ata, atwd, mutex, mask, dump, wanted, unsure>>
  BY <1>0, CallState DEF Threads
<1>1. FdbTypeOK'
  BY <1>0, CallType DEF Threads, Addrs
<1>2. HeldBy'
  BY DEF HeldBy, FdbTypeOK, FdbAdd, FdbDel, Call, regVars, Critical, Threads, Nobody
<1>3. AgeApart'
  BY DEF AgeApart, FdbTypeOK, HeldBy, FdbAdd, FdbDel, Call, regVars, Critical, Threads,
     Nobody, Note, FastAging
<1>4. OpsSound'
  BY <1>a DEF OpsSound
<1>5. RegsOwn'
  BY DEF RegsOwn, FdbTypeOK, HeldBy, AgeApart, OpsSound, FdbAdd, FdbDel, Call, regVars,
     Critical, Threads, Nobody, Note, FastAging
<1>6. MasksOwn'
  BY <1>0, <1>a DEF MasksOwn, Changed, Call, Note
<1>7. GroupsStatic'
  BY DEF GroupsStatic, FdbAdd, FdbDel, Call, regVars, Note
<1>8. EntriesKept'
  BY DEF EntriesKept, FdbAdd, FdbDel, Call, regVars, Note, Static
<1> QED
  BY <1>1, <1>2, <1>3, <1>4, <1>5, <1>6, <1>7, <1>8

LEMMA RtnlCalls ==
    ASSUME FdbInv, NEW a \in Groups, NEW p \in FdbPorts, MdbAdd(a, p) \/ MdbDel(a, p)
    PROVE  FdbInv'
<1> USE FdbAssumption DEF FdbInv
<1>1. FdbTypeOK'
  <2>1. a \in Addrs /\ "rtnl" \in Threads /\ {p} \in SUBSET FdbPorts
    BY DEF Addrs, Threads
  <2> QED
    BY <2>1, CallType DEF MdbAdd, MdbDel
<1>2. HeldBy'
  BY DEF HeldBy, FdbTypeOK, MdbAdd, MdbDel, Call, regVars, Critical, Threads, Nobody
<1>3. AgeApart'
  BY DEF AgeApart, FdbTypeOK, HeldBy, MdbAdd, MdbDel, Call, regVars, Critical, Threads,
     Nobody, Note, FastAging
<1>4. OpsSound'
  BY DEF OpsSound, FdbTypeOK, HeldBy, MdbAdd, MdbDel, Call, regVars, Critical, Threads
<1>5. RegsOwn'
  BY DEF RegsOwn, FdbTypeOK, HeldBy, AgeApart, OpsSound, MdbAdd, MdbDel, Call, regVars,
     Critical, Threads, Nobody, Note, FastAging
<1>6. MasksOwn'
  BY DEF MasksOwn, FdbTypeOK, HeldBy, OpsSound, RegsOwn, GroupsStatic, EntriesKept, MdbAdd,
     MdbDel, Call, regVars, Critical, Threads, Note, Changed, Static, EntryOf, Addrs
<1>7. GroupsStatic'
  BY DEF GroupsStatic, MdbAdd, MdbDel, Call, regVars, Note
<1>8. EntriesKept'
  BY DEF EntriesKept, MdbAdd, MdbDel, Call, regVars, Note, Static
<1> QED
  BY <1>1, <1>2, <1>3, <1>4, <1>5, <1>6, <1>7, <1>8

LEMMA OtherCalls ==
    ASSUME FdbInv, NEW p \in FdbPorts, FdbDump(p) \/ FastAge(p)
    PROVE  FdbInv'
<1> USE FdbAssumption DEF FdbInv
<1>1. FdbTypeOK'
  <2>1. Garbled \in Addrs /\ "rtnl" \in Threads /\ {p} \in SUBSET FdbPorts
    BY DEF Addrs, Threads
  <2> QED
    BY <2>1, CallType DEF FdbDump, FastAge
<1>2. HeldBy'
  BY DEF HeldBy, FdbTypeOK, FdbDump, FastAge, Call, regVars, Critical, Threads, Nobody
<1>3. AgeApart'
  BY DEF AgeApart, FdbTypeOK, HeldBy, FdbDump, FastAge, Call, regVars, Critical, Threads,
     Nobody, Note, FastAging
<1>4. OpsSound'
  BY DEF OpsSound, FdbTypeOK, HeldBy, FdbDump, FastAge, Call, regVars, Critical, Threads
<1>5. RegsOwn'
  BY DEF RegsOwn, FdbTypeOK, HeldBy, AgeApart, OpsSound, FdbDump, FastAge, Call, regVars,
     Critical, Threads, Nobody, Note, FastAging
<1>6. MasksOwn'
  BY DEF MasksOwn, FdbTypeOK, HeldBy, OpsSound, RegsOwn, GroupsStatic, EntriesKept, FdbDump,
     FastAge, Call, regVars, Critical, Threads, Note, Changed, Static, EntryOf, Addrs
<1>7. GroupsStatic'
  BY DEF GroupsStatic, FdbDump, FastAge, Call, regVars, Note
<1>8. EntriesKept'
  BY DEF EntriesKept, FdbDump, FastAge, Call, regVars, Note, Static
<1> QED
  BY <1>1, <1>2, <1>3, <1>4, <1>5, <1>6, <1>7, <1>8

LEMMA LockFdb ==
    ASSUME FdbInv, NEW t \in Threads, Lock(t)
    PROVE  FdbInv'
<1> USE FdbAssumption DEF FdbInv
<1>1. FdbTypeOK'
  BY DEF FdbTypeOK, Lock, LockFree, regVars, Note, Addrs, Threads
<1>2. HeldBy'
  BY DEF HeldBy, FdbTypeOK, Lock, LockFree, regVars, Critical, Threads, Nobody
<1>3. AgeApart'
  BY DEF AgeApart, FdbTypeOK, HeldBy, Lock, LockFree, regVars, Critical, Threads, Nobody,
     Note, FastAging
<1>4. OpsSound'
  BY DEF OpsSound, FdbTypeOK, HeldBy, Lock, LockFree, regVars, Critical, Threads
<1>5. RegsOwn'
  BY DEF RegsOwn, FdbTypeOK, HeldBy, AgeApart, OpsSound, Lock, LockFree, regVars, Critical,
     Threads, Nobody, Note, FastAging
<1>6. MasksOwn'
  BY ZenonT(60) DEF MasksOwn, FdbTypeOK, HeldBy, OpsSound, RegsOwn, GroupsStatic, EntriesKept, Lock,
     LockFree, regVars, Critical, Threads, Note, Changed, Static, EntryOf, Addrs
<1>7. GroupsStatic'
  BY DEF GroupsStatic, Lock, LockFree, regVars, Note
<1>8. EntriesKept'
  BY DEF EntriesKept, Lock, LockFree, regVars, Note, Static
<1> QED
  BY <1>1, <1>2, <1>3, <1>4, <1>5, <1>6, <1>7, <1>8

LEMMA WriteAtaFdb ==
    ASSUME FdbInv, NEW t \in Threads, WriteAta(t)
    PROVE  FdbInv'
<1> USE FdbAssumption DEF FdbInv
<1>1. FdbTypeOK'
  BY DEF FdbTypeOK, WriteAta, Note, Addrs, Threads
<1>2. HeldBy'
  BY DEF HeldBy, FdbTypeOK, WriteAta, Critical, Threads, Nobody
<1>3. AgeApart'
  BY DEF AgeApart, FdbTypeOK, HeldBy, WriteAta, Critical, Threads, Nobody, Note, FastAging
<1>4. OpsSound'
  BY DEF OpsSound, FdbTypeOK, HeldBy, WriteAta, Critical, Threads
<1>5. RegsOwn'
  BY DEF RegsOwn, FdbTypeOK, HeldBy, AgeApart, OpsSound, WriteAta, Critical, Threads,
     Nobody, Note, FastAging
<1>6. MasksOwn'
  BY DEF MasksOwn, FdbTypeOK, HeldBy, OpsSound, RegsOwn, GroupsStatic, EntriesKept,
     WriteAta, Critical, Threads, Note, Changed, Static, EntryOf, Addrs
<1>7. GroupsStatic'
  BY DEF GroupsStatic, WriteAta, Note
<1>8. EntriesKept'
  BY DEF EntriesKept, WriteAta, Note, Static
<1> QED
  BY <1>1, <1>2, <1>3, <1>4, <1>5, <1>6, <1>7, <1>8

LEMMA WriteDataFdb ==
    ASSUME FdbInv, NEW t \in Threads, WriteData(t)
    PROVE  FdbInv'
<1> USE FdbAssumption DEF FdbInv
<1>1. FdbTypeOK'
  BY DEF FdbTypeOK, WriteData, Note, Addrs, Threads
<1>2. HeldBy'
  BY DEF HeldBy, FdbTypeOK, WriteData, Critical, Threads, Nobody
<1>3. AgeApart'
  BY DEF AgeApart, FdbTypeOK, HeldBy, WriteData, Critical, Threads, Nobody, Note, FastAging
<1>4. OpsSound'
  BY DEF OpsSound, FdbTypeOK, HeldBy, WriteData, Critical, Threads
<1>5. RegsOwn'
  BY ZenonT(60) DEF RegsOwn, FdbTypeOK, HeldBy, AgeApart, OpsSound, WriteData, Critical, Threads,
     Nobody, Note, FastAging
<1>6. MasksOwn'
  BY DEF MasksOwn, FdbTypeOK, HeldBy, OpsSound, RegsOwn, GroupsStatic, EntriesKept,
     WriteData, Critical, Threads, Note, Changed, Static, EntryOf, Addrs
<1>7. GroupsStatic'
  BY DEF GroupsStatic, WriteData, Note
<1>8. EntriesKept'
  BY DEF EntriesKept, WriteData, Note, Static
<1> QED
  BY <1>1, <1>2, <1>3, <1>4, <1>5, <1>6, <1>7, <1>8

LEMMA FetchFdb ==
    ASSUME FdbInv, NEW t \in Threads, Fetch(t)
    PROVE  FdbInv'
<1> USE FdbAssumption DEF FdbInv
<1>1. FdbTypeOK'
  BY DEF FdbTypeOK, Fetch, regVars, Note, Addrs, Changed, Threads
<1>2. HeldBy'
  BY DEF HeldBy, FdbTypeOK, Fetch, regVars, Critical, Threads, Nobody
<1>3. AgeApart'
  BY DEF AgeApart, FdbTypeOK, HeldBy, Fetch, regVars, Critical, Threads, Nobody, Note,
     FastAging
<1>4. OpsSound'
  BY DEF OpsSound, FdbTypeOK, HeldBy, Fetch, regVars, Critical, Threads
<1>5. RegsOwn'
  BY DEF RegsOwn, FdbTypeOK, HeldBy, AgeApart, OpsSound, Fetch, regVars, Critical, Threads,
     Nobody, Note, FastAging
<1>6. MasksOwn'
  <2>1. t = "rtnl" /\ pc'["wq"] = pc["wq"] /\ mask'["wq"] = mask["wq"] /\ op' = op
    BY DEF Fetch, FdbTypeOK, OpsSound, Threads
  <2>2. op["rtnl"].addr \in Groups /\ op["rtnl"].addr \in Addrs /\ wanted' = wanted
    BY <2>1 DEF Fetch, OpsSound, Addrs
  <2>3. CASE op["rtnl"].addr \in unsure'
    BY <2>1, <2>3 DEF MasksOwn
  <2>4. CASE op["rtnl"].addr \notin unsure' /\ ~disturbed'
    <3>1. ~disturbed /\ op["rtnl"].addr \notin unsure
      BY <2>1, <2>4 DEF Fetch, Note
    <3>2. mask' = [mask EXCEPT ![t] = Changed(t, table[ata.addr].ports)]
      BY <2>1, <2>4 DEF Fetch
    <3>3. ata.addr = op["rtnl"].addr
      BY <2>1, <3>1 DEF RegsOwn, Fetch, Threads
    <3>4. table[op["rtnl"].addr].ports = wanted[op["rtnl"].addr]
      <4> DEFINE g == op["rtnl"].addr
      <4>1. g \in Addrs \ unsure /\ table[g].dyn = FALSE
        BY <2>2, <3>1 DEF GroupsStatic
      <4>2. IF wanted[g] # {} THEN table[g] = EntryOf(wanted[g], FALSE) ELSE ~Static(g)
        BY <3>1, <4>1 DEF EntriesKept
      <4>3. EntryOf(wanted[g], FALSE).ports = wanted[g]
        BY DEF EntryOf
      <4>4. CASE wanted[g] # {}
        BY <4>2, <4>3, <4>4
      <4>5. CASE wanted[g] = {}
        BY <4>1, <4>2, <4>5 DEF Static
      <4> QED
        BY <4>4, <4>5
    <3>5. mask'["rtnl"] = Changed("rtnl", wanted[op["rtnl"].addr])
      BY <2>1, <3>2, <3>3, <3>4 DEF FdbTypeOK
    <3> QED
      BY <2>1, <2>2, <3>5 DEF MasksOwn, Changed
  <2>5. CASE disturbed'
    BY <2>1, <2>5 DEF MasksOwn
  <2> QED
    BY <2>3, <2>4, <2>5
<1>7. GroupsStatic'
  BY DEF GroupsStatic, Fetch, regVars, Note
<1>8. EntriesKept'
  BY DEF EntriesKept, Fetch, regVars, Note, Static
<1> QED
  BY <1>1, <1>2, <1>3, <1>4, <1>5, <1>6, <1>7, <1>8

LEMMA StoreFdb ==
    ASSUME FdbInv, NEW t \in Threads, Store(t)
    PROVE  FdbInv'
<1> USE FdbAssumption DEF FdbInv
<1>0. /\ op[t].addr \in Addrs /\ WantedBy(t) \in SUBSET FdbPorts
      /\ wanted' = [wanted EXCEPT ![op[t].addr] = WantedBy(t)]
      /\ table' = Written /\ Unlocked(t) /\ Note /\ UNCHANGED <<ata, atwd, dump>>
  BY DEF FdbTypeOK, Store, regVars, WantedBy, Changed
<1>1. FdbTypeOK'
  <2>1. unsure' \subseteq Addrs /\ wanted' \in [Addrs -> SUBSET FdbPorts] /\ dump' \in DumpState
    BY <1>0 DEF FdbTypeOK, Store
  <2> QED
    BY <1>0, <2>1, WrittenType, UnlockedType
<1>2. HeldBy'
  BY DEF HeldBy, FdbTypeOK, Store, Unlocked, regVars, Critical, Threads, Nobody
<1>3. AgeApart'
  BY DEF AgeApart, FdbTypeOK, HeldBy, Store, Unlocked, regVars, Critical, Threads, Nobody,
     Note, FastAging
<1>4. OpsSound'
  BY DEF OpsSound, FdbTypeOK, HeldBy, Store, Unlocked, regVars, Critical, Threads, NoOp
<1>5. RegsOwn'
  BY DEF RegsOwn, FdbTypeOK, HeldBy, AgeApart, OpsSound, Store, Unlocked, regVars, Critical,
     Threads, Nobody, Note, FastAging, NoOp
<1>6. MasksOwn'
  BY DEF MasksOwn, FdbTypeOK, HeldBy, OpsSound, RegsOwn, GroupsStatic, EntriesKept, Store,
     Unlocked, regVars, Critical, Threads, Note, Changed, Static, EntryOf, Addrs, NoOp
<1>7. GroupsStatic'
  <2> SUFFICES ASSUME ~disturbed', NEW a \in Groups PROVE table'[a].dyn = FALSE
    BY DEF GroupsStatic
  <2>1. ~disturbed /\ a \in Addrs /\ table[a].dyn = FALSE
    BY <1>0 DEF Note, Addrs, GroupsStatic
  <2>2. ata.dyn = FALSE
    BY <2>1 DEF Store, RegsOwn
  <2>3. Absent.dyn = FALSE /\ EntryOf(atwd.ports, ata.dyn).dyn = FALSE
    BY <2>2 DEF Absent, EntryOf
  <2> QED
    BY <1>0, <2>1, <2>3, WrittenType DEF FdbTypeOK
<1>8. EntriesKept'
  <2> SUFFICES ASSUME ~disturbed', NEW a \in Addrs \ unsure'
               PROVE  IF wanted'[a] # {} THEN table'[a] = EntryOf(wanted'[a], FALSE)
                      ELSE ~Static(a)'
    BY DEF EntriesKept
  <2>1. ~disturbed
    BY <1>0 DEF Note
  <2>2. /\ ata.addr = op[t].addr /\ ata.dyn = FALSE /\ atwd.ports = mask[t]
        /\ atwd.vld = (op[t].kind # "fdb_del" /\ mask[t] # {})
    BY <2>1 DEF Store, RegsOwn
  <2>3. CASE a # op[t].addr
    <3>1. a \notin unsure /\ wanted'[a] = wanted[a] /\ table'[a] = table[a]
      BY <1>0, <2>2, <2>3, WrittenType DEF Store, FdbTypeOK
    <3> QED
      BY <2>1, <3>1 DEF EntriesKept, Static
  <2>4. CASE a = op[t].addr
    <3>1. wanted'[a] = WantedBy(t)
      BY <1>0, <2>4 DEF FdbTypeOK
    <3>2. atwd.vld <=> WantedBy(t) # {}
      <4>1. CASE t = "wq"
        BY <2>2, <4>1 DEF Store, OpsSound, MasksOwn, WantedBy
      <4>2. CASE t = "rtnl"
        <5>1. op[t].kind \in {"mdb_add", "mdb_del"}
          BY <4>2 DEF Store, OpsSound
        <5>2. op[t].addr \notin unsure
          BY <2>4, <5>1 DEF Store
        <5>3. mask[t] = Changed(t, wanted[op[t].addr])
          BY <2>1, <4>2, <5>2 DEF Store, MasksOwn
        <5> QED
          BY <2>2, <5>1, <5>3 DEF WantedBy
      <4> QED
        BY <4>1, <4>2 DEF Threads
    <3>3. atwd.vld => atwd.ports = WantedBy(t)
      <4>1. CASE t = "wq"
        BY <2>2, <4>1 DEF Store, OpsSound, MasksOwn, WantedBy
      <4>2. CASE t = "rtnl"
        <5>1. op[t].kind \in {"mdb_add", "mdb_del"}
          BY <4>2 DEF Store, OpsSound
        <5>2. op[t].addr \notin unsure
          BY <2>4, <5>1 DEF Store
        <5>3. mask[t] = Changed(t, wanted[op[t].addr])
          BY <2>1, <4>2, <5>2 DEF Store, MasksOwn
        <5> QED
          BY <2>2, <5>1, <5>3 DEF WantedBy
      <4> QED
        BY <4>1, <4>2 DEF Threads
    <3>4. CASE atwd.vld
      <4>1. table'[a] = EntryOf(WantedBy(t), FALSE)
        BY <1>0, <2>2, <2>4, <3>3, <3>4, WrittenType
      <4> QED
        BY <3>1, <3>2, <3>4, <4>1
    <3>5. CASE ~atwd.vld
      <4>1. table'[a] = Absent
        BY <1>0, <2>2, <2>4, <3>5, WrittenType
      <4> QED
        BY <3>1, <3>2, <3>5, <4>1, AbsentNotStatic
    <3> QED
      BY <3>4, <3>5
  <2> QED
    BY <2>3, <2>4
<1> QED
  BY <1>1, <1>2, <1>3, <1>4, <1>5, <1>6, <1>7, <1>8

LEMMA StoreFailsFdb ==
    ASSUME FdbInv, NEW t \in Threads, StoreFails(t)
    PROVE  FdbInv'
<1> USE FdbAssumption DEF FdbInv
<1>1. FdbTypeOK'
  <2>1. table' \in [Addrs -> [ports : SUBSET FdbPorts, dyn : BOOLEAN]]
    BY WrittenType DEF FdbTypeOK, StoreFails
  <2>2. unsure' \subseteq Addrs /\ wanted' \in [Addrs -> SUBSET FdbPorts] /\ dump' \in DumpState
    BY DEF FdbTypeOK, StoreFails
  <2> QED
    BY <2>1, <2>2, UnlockedType DEF StoreFails, regVars
<1>2. HeldBy'
  BY DEF HeldBy, FdbTypeOK, StoreFails, Unlocked, Written, regVars, Critical, Threads,
     Nobody
<1>3. AgeApart'
  BY DEF AgeApart, FdbTypeOK, HeldBy, StoreFails, Unlocked, Written, regVars, Critical,
     Threads, Nobody, Note, FastAging
<1>4. OpsSound'
  BY DEF OpsSound, FdbTypeOK, HeldBy, StoreFails, Unlocked, Written, regVars, Critical,
     Threads, NoOp
<1>5. RegsOwn'
  BY DEF RegsOwn, FdbTypeOK, HeldBy, AgeApart, OpsSound, StoreFails, Unlocked, Written,
     regVars, Critical, Threads, Nobody, Note, FastAging, NoOp
<1>6. MasksOwn'
  BY DEF MasksOwn, FdbTypeOK, HeldBy, OpsSound, RegsOwn, GroupsStatic, EntriesKept,
     StoreFails, Unlocked, Written, regVars, Critical, Threads, Note, Changed, Static, EntryOf,
     Addrs, NoOp
<1>7. GroupsStatic'
  BY DEF GroupsStatic, FdbTypeOK, OpsSound, RegsOwn, StoreFails, Unlocked, Written, regVars,
     Note, Addrs, Absent, EntryOf
<1>8. EntriesKept'
  BY DEF EntriesKept, FdbTypeOK, HeldBy, OpsSound, RegsOwn, MasksOwn, StoreFails, Unlocked,
     Written, regVars, Critical, Threads, Note, Addrs, Absent, EntryOf, Static, Changed
<1> QED
  BY <1>1, <1>2, <1>3, <1>4, <1>5, <1>6, <1>7, <1>8

(* What the answer to one command makes of a dump. *)
LEMMA PassedType ==
    ASSUME FdbTypeOK, NEW r \in HitRows, NEW S \in SUBSET Hits(r), NEW n \in 1..4,
           NEW F \in SUBSET {r}, Passed(r, S, n, F)
    PROVE  /\ dump' \in DumpState
           /\ dump'.row = r + 1 /\ dump'.count = dump.count + n
           /\ dump'.seen = dump.seen \cup S /\ dump'.refused = dump.refused \cup F
           /\ r \in Nat /\ dump.row <= r /\ r < Rows
<1>1. r \in Nat /\ dump.row <= r /\ r < Rows
  BY FdbAssumption DEF FdbTypeOK, DumpState, HitRows
<1>2. S \subseteq Addrs
  BY DEF Hits
<1>3. /\ dump.row \in Nat /\ dump.count \in Nat
      /\ dump.seen \subseteq Addrs /\ dump.refused \subseteq Nat
  BY DEF FdbTypeOK, DumpState
<1>4. /\ r + 1 \in Nat /\ dump.count + n \in Nat
      /\ dump.seen \cup S \in SUBSET Addrs /\ dump.refused \cup F \in SUBSET Nat
  <2>1. n \in Nat
    OBVIOUS
  <2>2. r + 1 \in Nat /\ dump.count + n \in Nat
    BY <1>1, <1>3, <2>1
  <2>3. dump.seen \cup S \in SUBSET Addrs
    BY <1>2, <1>3
  <2>4. dump.refused \cup F \in SUBSET Nat
    BY <1>1, <1>3
  <2> QED
    BY <2>2, <2>3, <2>4
<1>5. dump' = [row |-> r + 1, count |-> dump.count + n,
               seen |-> dump.seen \cup S, refused |-> dump.refused \cup F]
  BY DEF Passed
<1> QED
  BY <1>1, <1>4, <1>5 DEF DumpState

(* The callback took every match of the row, or the row counts as refused. *)
LEMMA NextPassed ==
    ASSUME SearchNext
    PROVE  \E r \in HitRows :
              /\ \A s \in HitRows : r <= s
              /\ \E n \in 1..4, S \in SUBSET Hits(r), F \in SUBSET {r} :
                    Passed(r, S, n, F) /\ (S = Hits(r) \/ F = {r})
<1>1. PICK r \in HitRows :
         /\ \A s \in HitRows : r <= s
         /\ \/ Passed(r, Hits(r), 4, {})
            \/ \E n \in 1..4, S \in SUBSET Hits(r) : S # Hits(r) /\ Passed(r, S, n, {r})
  BY DEF SearchNext
<1>2. ASSUME Passed(r, Hits(r), 4, {})
      PROVE  \E n \in 1..4, S \in SUBSET Hits(r), F \in SUBSET {r} :
                Passed(r, S, n, F) /\ (S = Hits(r) \/ F = {r})
  <2>1. 4 \in 1..4 /\ Hits(r) \in SUBSET Hits(r) /\ {} \in SUBSET {r}
    OBVIOUS
  <2> QED BY <1>2, <2>1, Zenon
<1>3. ASSUME NEW n \in 1..4, NEW S \in SUBSET Hits(r), Passed(r, S, n, {r})
      PROVE  \E m \in 1..4, T \in SUBSET Hits(r), F \in SUBSET {r} :
                Passed(r, T, m, F) /\ (T = Hits(r) \/ F = {r})
  <2>1. {r} \in SUBSET {r}
    OBVIOUS
  <2> QED BY <1>3, <2>1, Zenon
<1> QED BY <1>1, <1>2, <1>3, Zenon

LEMMA SearchFdb ==
    ASSUME FdbInv, SearchPort \/ SearchNext
    PROVE  FdbInv'
<1> USE FdbAssumption DEF FdbInv
<1>1. FdbTypeOK'
  <2>1. "rtnl" \in Threads /\ op["rtnl"].port \in SUBSET FdbPorts
    BY DEF FdbTypeOK, Threads
  <2>2. CASE SearchPort
    <3>1. atwd' \in [vld : BOOLEAN, ports : SUBSET FdbPorts]
      BY <2>1, <2>2 DEF FdbTypeOK, SearchPort
    <3>2. /\ pc' = [pc EXCEPT !["rtnl"] = "next"] /\ disturbed' \in BOOLEAN
          /\ UNCHANGED <<table, ata, mutex, op, mask, dump, wanted, unsure>>
      BY <2>2 DEF FdbTypeOK, SearchPort, Note
    <3> QED
      BY <2>1, <3>1, <3>2 DEF FdbTypeOK
  <2>3. CASE SearchNext
    <3>1. dump' \in DumpState /\ disturbed' \in BOOLEAN
      <4>1. PICK r \in HitRows : \E n \in 1..4, S \in SUBSET Hits(r), F \in SUBSET {r} :
                                    Passed(r, S, n, F)
        BY <2>3, NextPassed, Zenon
      <4>2. PICK n \in 1..4, S \in SUBSET Hits(r), F \in SUBSET {r} : Passed(r, S, n, F)
        BY <4>1
      <4>3. dump' \in DumpState
        BY <4>2, PassedType
      <4> QED BY <2>3, <4>3 DEF FdbTypeOK, SearchNext, Note
    <3>2. UNCHANGED <<table, ata, atwd, mutex, pc, op, mask, wanted, unsure>>
      BY <2>3 DEF SearchNext, regVars, callVars
    <3> QED
      BY <3>1, <3>2 DEF FdbTypeOK
  <2> QED
    BY <2>2, <2>3
<1>2. HeldBy'
  BY DEF HeldBy, FdbTypeOK, SearchPort, SearchNext, regVars, callVars, Critical,
     Threads, Nobody
<1>3. AgeApart'
  BY DEF AgeApart, FdbTypeOK, HeldBy, SearchPort, SearchNext, regVars, callVars,
     Critical, Threads, Nobody, Note, FastAging
<1>4. OpsSound'
  BY DEF OpsSound, FdbTypeOK, HeldBy, SearchPort, SearchNext, regVars, callVars,
     Critical, Threads
<1>5. RegsOwn'
  BY DEF RegsOwn, FdbTypeOK, HeldBy, AgeApart, OpsSound, SearchPort, SearchNext,
     regVars, callVars, Critical, Threads, Nobody, Note, FastAging
<1>6. MasksOwn'
  BY DEF MasksOwn, FdbTypeOK, HeldBy, OpsSound, RegsOwn, GroupsStatic, EntriesKept,
     SearchPort, SearchNext, regVars, callVars, Critical, Threads, Note, Changed,
     Static, EntryOf, Addrs
<1>7. GroupsStatic'
  BY DEF GroupsStatic, SearchPort, SearchNext, regVars, callVars, Note
<1>8. EntriesKept'
  BY DEF EntriesKept, SearchPort, SearchNext, regVars, callVars, Note, Static
<1> QED
  BY <1>1, <1>2, <1>3, <1>4, <1>5, <1>6, <1>7, <1>8

LEMMA NoDumpType == NoDump \in DumpState
  BY DEF NoDump, DumpState

LEMMA SearchEndFdb ==
    ASSUME FdbInv, SearchEnds \/ SearchFails \/ SearchExit
    PROVE  FdbInv'
<1> USE FdbAssumption DEF FdbInv
<1>1. FdbTypeOK'
  <2>1. "rtnl" \in Threads /\ dump' \in DumpState /\ disturbed' \in BOOLEAN
    BY NoDumpType DEF FdbTypeOK, Threads, SearchEnds, SearchFails, SearchExit, Note
  <2>2. CASE SearchEnds \/ SearchExit
    <3>1. /\ Unlocked("rtnl") /\ Note
          /\ UNCHANGED <<table, ata, atwd, wanted, unsure>>
      BY <2>2 DEF SearchEnds, SearchExit, regVars
    <3>2. /\ table' \in [Addrs -> [ports : SUBSET FdbPorts, dyn : BOOLEAN]]
          /\ wanted' \in [Addrs -> SUBSET FdbPorts] /\ unsure' \subseteq Addrs
      BY <3>1 DEF FdbTypeOK
    <3> QED
      BY <2>1, <3>1, <3>2, UnlockedType
  <2>3. CASE SearchFails
    <3>1. /\ pc' = [pc EXCEPT !["rtnl"] = "exit"]
          /\ UNCHANGED <<table, ata, atwd, mutex, op, mask, wanted, unsure>>
      BY <2>3 DEF SearchFails, regVars
    <3> QED
      BY <2>1, <3>1 DEF FdbTypeOK
  <2> QED
    BY <2>2, <2>3
<1>2. HeldBy'
  BY DEF HeldBy, FdbTypeOK, SearchEnds, SearchFails, SearchExit, Unlocked, regVars,
     Critical, Threads, Nobody
<1>3. AgeApart'
  BY DEF AgeApart, FdbTypeOK, HeldBy, SearchEnds, SearchFails, SearchExit, Unlocked,
     regVars, Critical, Threads, Nobody, Note, FastAging
<1>4. OpsSound'
  BY DEF OpsSound, FdbTypeOK, HeldBy, SearchEnds, SearchFails, SearchExit, Unlocked,
     regVars, Critical, Threads, NoOp
<1>5. RegsOwn'
  BY DEF RegsOwn, FdbTypeOK, HeldBy, AgeApart, OpsSound, SearchEnds, SearchFails,
     SearchExit, Unlocked, regVars, Critical, Threads, Nobody, Note, FastAging, NoOp
<1>6. MasksOwn'
  BY DEF MasksOwn, FdbTypeOK, HeldBy, OpsSound, RegsOwn, GroupsStatic, EntriesKept,
     SearchEnds, SearchFails, SearchExit, Unlocked, regVars, Critical, Threads, Note, Changed,
     Static, EntryOf, Addrs, NoOp
<1>7. GroupsStatic'
  BY DEF GroupsStatic, SearchEnds, SearchFails, SearchExit, Unlocked, regVars, Note
<1>8. EntriesKept'
  BY DEF EntriesKept, SearchEnds, SearchFails, SearchExit, Unlocked, regVars, Note, Static
<1> QED
  BY <1>1, <1>2, <1>3, <1>4, <1>5, <1>6, <1>7, <1>8

LEMMA AgeRegsFdb ==
    ASSUME FdbInv, AgeAta2 \/ AgeAtwd2
    PROVE  FdbInv'
<1> USE FdbAssumption DEF FdbInv
<1>1. FdbTypeOK'
  <2>1. "rtnl" \in Threads /\ Garbled \in Addrs /\ op["rtnl"].port \in SUBSET FdbPorts
    BY DEF FdbTypeOK, Addrs, Threads
  <2>2. ata' \in [addr : Addrs, dyn : BOOLEAN]
    <3>1. [addr |-> Garbled, dyn |-> TRUE] \in [addr : Addrs, dyn : BOOLEAN]
      BY <2>1
    <3>2. ata' = ata \/ ata' = [addr |-> Garbled, dyn |-> TRUE]
      BY DEF AgeAta2, AgeAtwd2
    <3> QED
      BY <3>1, <3>2 DEF FdbTypeOK
  <2>3. atwd' \in [vld : BOOLEAN, ports : SUBSET FdbPorts]
    BY <2>1 DEF FdbTypeOK, AgeAta2, AgeAtwd2
  <2>4. pc' = [pc EXCEPT !["rtnl"] = "atwd2"] \/ pc' = [pc EXCEPT !["rtnl"] = "flush"]
    BY DEF AgeAta2, AgeAtwd2
  <2>5. disturbed' \in BOOLEAN /\ UNCHANGED <<table, mutex, op, mask, dump, wanted, unsure>>
    BY DEF FdbTypeOK, AgeAta2, AgeAtwd2, Note
  <2> QED
    BY <2>1, <2>2, <2>3, <2>4, <2>5 DEF FdbTypeOK
<1>2. HeldBy'
  BY DEF HeldBy, FdbTypeOK, AgeAta2, AgeAtwd2, Critical, Threads, Nobody
<1>3. AgeApart'
  BY DEF AgeApart, FdbTypeOK, HeldBy, AgeAta2, AgeAtwd2, Critical, Threads, Nobody, Note,
     FastAging
<1>4. OpsSound'
  BY DEF OpsSound, FdbTypeOK, HeldBy, AgeAta2, AgeAtwd2, Critical, Threads
<1>5. RegsOwn'
  BY DEF RegsOwn, FdbTypeOK, HeldBy, AgeApart, OpsSound, AgeAta2, AgeAtwd2, Critical,
     Threads, Nobody, Note, FastAging
<1>6. MasksOwn'
  BY DEF MasksOwn, FdbTypeOK, HeldBy, OpsSound, RegsOwn, GroupsStatic, EntriesKept, AgeAta2,
     AgeAtwd2, Critical, Threads, Note, Changed, Static, EntryOf, Addrs
<1>7. GroupsStatic'
  BY DEF GroupsStatic, AgeAta2, AgeAtwd2, Note
<1>8. EntriesKept'
  BY DEF EntriesKept, AgeAta2, AgeAtwd2, Note, Static
<1> QED
  BY <1>1, <1>2, <1>3, <1>4, <1>5, <1>6, <1>7, <1>8

LEMMA AgeFlushFdb ==
    ASSUME FdbInv, AgeFlush
    PROVE  FdbInv'
<1> USE FdbAssumption DEF FdbInv
<1>1. FdbTypeOK'
  <2>1. table' \in [Addrs -> [ports : SUBSET FdbPorts, dyn : BOOLEAN]]
    BY FlushedType DEF FdbTypeOK, AgeFlush
  <2>2. "rtnl" \in Threads /\ NoOp \in [kind : {"none", "fdb_add", "fdb_del", "mdb_add",
                                               "mdb_del", "dump", "fast_age"},
                                       addr : Addrs, port : SUBSET FdbPorts]
    BY DEF NoOp, Addrs, Threads
  <2>3. /\ pc' = [pc EXCEPT !["rtnl"] = "idle"] /\ op' = [op EXCEPT !["rtnl"] = NoOp]
        /\ disturbed' \in BOOLEAN /\ UNCHANGED <<ata, atwd, mutex, mask, dump, wanted, unsure>>
    BY DEF FdbTypeOK, AgeFlush, Note, regVars
  <2> QED
    BY <2>1, <2>2, <2>3 DEF FdbTypeOK
<1>2. HeldBy'
  BY DEF HeldBy, FdbTypeOK, AgeFlush, Flushed, regVars, Critical, Threads, Nobody
<1>3. AgeApart'
  BY DEF AgeApart, FdbTypeOK, HeldBy, AgeFlush, Flushed, regVars, Critical, Threads, Nobody,
     Note, FastAging
<1>4. OpsSound'
  BY DEF OpsSound, FdbTypeOK, HeldBy, AgeFlush, Flushed, regVars, Critical, Threads, NoOp
<1>5. RegsOwn'
  BY DEF RegsOwn, FdbTypeOK, HeldBy, AgeApart, OpsSound, AgeFlush, Flushed, regVars,
     Critical, Threads, Nobody, Note, FastAging, NoOp
<1>6. MasksOwn'
  BY DEF MasksOwn, FdbTypeOK, HeldBy, OpsSound, RegsOwn, GroupsStatic, EntriesKept,
     AgeFlush, Flushed, regVars, Critical, Threads, Note, Changed, Static, EntryOf, Addrs, NoOp
<1>7. GroupsStatic'
  BY DEF GroupsStatic, FdbTypeOK, OpsSound, RegsOwn, AgeFlush, Flushed, regVars, Note,
     Addrs, Absent
<1>8. EntriesKept'
  BY DEF EntriesKept, FdbTypeOK, HeldBy, OpsSound, RegsOwn, MasksOwn, AgeFlush, Flushed,
     regVars, Critical, Threads, Note, Addrs, Absent, EntryOf, Static, Changed
<1> QED
  BY <1>1, <1>2, <1>3, <1>4, <1>5, <1>6, <1>7, <1>8

(* What leaves the address table alone keeps its invariant. *)
LEMMA FdbSame == FdbInv /\ UNCHANGED fdbVars => FdbInv'
<1> SUFFICES ASSUME FdbInv, UNCHANGED fdbVars PROVE FdbInv'
  OBVIOUS
<1>0. UNCHANGED <<table, ata, atwd, mutex, pc, op, mask, dump, wanted, unsure, disturbed>>
  BY DEF fdbVars, regVars, callVars
<1>1. FdbTypeOK'
  BY <1>0 DEF FdbInv, FdbTypeOK
<1>2. HeldBy' /\ AgeApart' /\ OpsSound'
  BY <1>0 DEF FdbInv, HeldBy, AgeApart, OpsSound, FastAging
<1>3. RegsOwn' /\ MasksOwn'
  BY <1>0 DEF FdbInv, RegsOwn, MasksOwn, Changed
<1>4. GroupsStatic' /\ EntriesKept'
  BY <1>0 DEF FdbInv, GroupsStatic, EntriesKept, Static
<1> QED
  BY <1>1, <1>2, <1>3, <1>4 DEF FdbInv

LEMMA FdbStep ==
    ASSUME FdbInv, [Next]_vars
    PROVE  FdbInv'
<1>1. CASE UNCHANGED fdbVars
  BY <1>1, FdbSame
<1>2. CASE FdbNext
  <2>1. CASE \E p \in FdbPorts, a \in Hosts : FdbAdd(a, p) \/ FdbDel(a, p)
    BY <2>1, WqCalls
  <2>2. CASE \E p \in FdbPorts, a \in Groups : MdbAdd(a, p) \/ MdbDel(a, p)
    BY <2>2, RtnlCalls
  <2>3. CASE \E p \in FdbPorts : FdbDump(p) \/ FastAge(p)
    BY <2>3, OtherCalls
  <2>4. CASE \E p \in FdbPorts, a \in Hosts : Learn(a, p)
    BY <2>4, LearnFdb
  <2>5. CASE \E a \in Hosts : Age(a)
    BY <2>5, AgeFdb
  <2>6. ASSUME NEW t \in Threads, Step(t) PROVE FdbInv'
    <3>1. CASE Lock(t) \/ WriteAta(t) \/ WriteData(t)
      BY <3>1, LockFdb, WriteAtaFdb, WriteDataFdb
    <3>2. CASE Fetch(t) \/ Store(t) \/ StoreFails(t)
      BY <3>2, FetchFdb, StoreFdb, StoreFailsFdb
    <3>3. CASE SearchPort \/ SearchNext \/ SearchEnds \/ SearchFails \/ SearchExit
      BY <3>3, SearchFdb, SearchEndFdb
    <3>4. CASE AgeAta2 \/ AgeAtwd2 \/ AgeFlush
      BY <3>4, AgeRegsFdb, AgeFlushFdb
    <3> QED
      BY <2>6, <3>1, <3>2, <3>3, <3>4 DEF Step
  <2> QED
    BY <1>2, <2>1, <2>2, <2>3, <2>4, <2>5, <2>6 DEF FdbNext
<1> QED
  BY <1>1, <1>2 DEF Next, vars

-----------------------------------------------------------------------------
(* The dump *)

(* What the dump has to have reported: static entries do not change while  *)
(* it holds the mutex.                                                     *)
Reported(a) ==
    Static(a) /\ table[a].ports \cap op["rtnl"].port # {} /\ hash[a] < dump.row
        => a \in dump.seen \/ hash[a] \in dump.refused

(* At most four records are counted for a row, and the rows the dump is    *)
(* past are done.                                                          *)
DumpInv ==
    /\ hash \in Hashes
    /\ dump.count <= 4 * dump.row
    /\ pc["rtnl"] = "next" => \A a \in Addrs : Reported(a)
    /\ pc["rtnl"] # "next" => dump = NoDump

(* Steps that leave the dump and the static entries alone. *)
LEMMA DumpKept ==
    ASSUME DumpInv, UNCHANGED <<hash, dump>>, pc'["rtnl"] = "next" <=> pc["rtnl"] = "next",
           pc["rtnl"] = "next" => op'["rtnl"] = op["rtnl"],
           pc["rtnl"] = "next" =>
               \A a \in Addrs : Static(a)' => Static(a) /\ table'[a] = table[a]
    PROVE  DumpInv'
<1>1. ASSUME pc'["rtnl"] = "next", NEW a \in Addrs PROVE Reported(a)'
  <2>1. Reported(a) /\ op'["rtnl"] = op["rtnl"] /\ (Static(a)' => Static(a) /\ table'[a] = table[a])
    BY <1>1 DEF DumpInv
  <2> QED BY <2>1 DEF Reported
<1> QED BY <1>1 DEF DumpInv, NoDump

(* One more row: nothing of the port is between it and the rows before. *)
LEMMA DumpNext ==
    ASSUME FdbTypeOK, RegsOwn, DumpInv, SearchNext, hash' = hash
    PROVE  DumpInv'
<1>0. PICK r \in HitRows :
         /\ \A s \in HitRows : r <= s
         /\ \E n \in 1..4, S \in SUBSET Hits(r), F \in SUBSET {r} :
               Passed(r, S, n, F) /\ (S = Hits(r) \/ F = {r})
  BY NextPassed, Zenon
<1>1. PICK n \in 1..4, S \in SUBSET Hits(r), F \in SUBSET {r} :
         Passed(r, S, n, F) /\ (S = Hits(r) \/ F = {r})
  BY <1>0
<1>2. /\ dump' \in DumpState
      /\ dump'.row = r + 1 /\ dump'.count = dump.count + n
      /\ dump'.seen = dump.seen \cup S /\ dump'.refused = dump.refused \cup F
      /\ r \in Nat /\ dump.row <= r /\ r < Rows
  <2>1. Passed(r, S, n, F)
    BY <1>1
  <2> HIDE <1>1
  <2> QED BY <2>1, PassedType
<1>3. dump.row \in Nat /\ dump.count \in Nat /\ dump.count <= 4 * dump.row
  BY DEF FdbTypeOK, DumpState, DumpInv
<1>4. dump'.count <= 4 * dump'.row
  BY <1>2, <1>3
<1>5. pc["rtnl"] = "next" /\ UNCHANGED <<pc, op, table, atwd>>
  BY DEF SearchNext, callVars, regVars
<1>6. ASSUME NEW a \in Addrs, Static(a), table[a].ports \cap op["rtnl"].port # {},
             hash[a] < r + 1
      PROVE  a \in dump'.seen \/ hash[a] \in dump'.refused
  <2>1. Reported(a) /\ hash[a] \in 0..(Rows - 1)
    BY <1>5, FdbAssumption DEF DumpInv
  <2>2. CASE hash[a] < dump.row
    BY <1>2, <1>6, <2>1, <2>2 DEF Reported
  <2>3. CASE ~(hash[a] < dump.row)
    <3>1. a \in Hits(hash[a])
      BY <1>5, <1>6 DEF Hits, RegsOwn
    <3>2. hash[a] \in HitRows
      BY <1>3, <2>1, <2>3, <3>1, FdbAssumption DEF HitRows
    <3>3. r <= hash[a]
      BY <1>0, <3>2
    <3>4. hash[a] = r
      BY <1>2, <1>6, <2>1, <3>3
    <3> QED BY <1>1, <1>2, <3>1, <3>4
  <2> QED BY <2>2, <2>3
<1>7. pc'["rtnl"] = "next" /\ \A a \in Addrs : Reported(a)'
  BY <1>2, <1>5, <1>6 DEF Reported, Static
<1> QED
  BY <1>4, <1>7 DEF DumpInv

LEMMA DumpStep ==
    ASSUME FdbInv, DumpInv, [Next]_vars
    PROVE  DumpInv'
<1>0. FdbTypeOK /\ HeldBy
  BY DEF FdbInv
<1>1. CASE UNCHANGED fdbVars
  <2>1. UNCHANGED <<hash, dump, pc, op, table>>
    BY <1>1 DEF fdbVars, callVars
  <2> QED BY <2>1, DumpKept DEF Static
<1>2. CASE FdbNext
  <2>0. hash' = hash
    BY <1>2 DEF FdbNext
  <2>1. ASSUME NEW t \in Threads, NEW k, NEW a, NEW P, NEW at, Call(t, k, a, P, at), at # "next"
        PROVE  DumpInv'
    <3>1. /\ pc'[t] = at /\ pc[t] = "idle" /\ UNCHANGED <<table, dump>>
          /\ \A s \in Threads \ {t} : pc'[s] = pc[s] /\ op'[s] = op[s]
      BY <1>0, <2>1, CallState
    <3>2. /\ pc'["rtnl"] = "next" <=> pc["rtnl"] = "next"
          /\ pc["rtnl"] = "next" => op'["rtnl"] = op["rtnl"]
      BY <2>1, <3>1 DEF Threads
    <3> QED BY <2>0, <3>1, <3>2, DumpKept DEF Static
  <2>2. ASSUME NEW p \in FdbPorts, NEW a \in Hosts, Learn(a, p) \/ Age(a) PROVE DumpInv'
    <3>1. UNCHANGED <<pc, op, dump>>
      BY <2>2 DEF Learn, Age, callVars
    <3>2. ASSUME NEW b \in Addrs, Static(b)' PROVE Static(b) /\ table'[b] = table[b]
      <4>1. table' = [table EXCEPT ![a] = EntryOf({p}, TRUE)] \/ table' = [table EXCEPT ![a] = Absent]
        BY <2>2 DEF Learn, Age
      <4>2. a # b
        BY <1>0, <3>2, <4>1 DEF Static, EntryOf, Absent, FdbTypeOK
      <4> QED BY <1>0, <3>2, <4>1, <4>2 DEF Static, FdbTypeOK
    <3> QED BY <2>0, <3>1, <3>2, DumpKept
  <2>3. ASSUME NEW a \in Hosts, Age(a) PROVE DumpInv'
    <3>1. UNCHANGED <<pc, op, dump>> /\ table' = [table EXCEPT ![a] = Absent]
      BY <2>3 DEF Age, callVars
    <3>2. ASSUME NEW b \in Addrs, Static(b)' PROVE Static(b) /\ table'[b] = table[b]
      <4>1. a # b
        BY <1>0, <3>1, <3>2 DEF Static, Absent, FdbTypeOK
      <4> QED BY <1>0, <3>1, <3>2, <4>1 DEF Static, FdbTypeOK
    <3> QED BY <2>0, <3>1, <3>2, DumpKept
  <2>4. ASSUME NEW t \in Threads, Lock(t) \/ WriteAta(t) \/ WriteData(t) \/ Fetch(t)
        PROVE  DumpInv'
    <3>1. UNCHANGED <<table, dump, op>> /\ pc[t] # "next" /\ pc'[t] # "next"
      BY <1>0, <2>4 DEF Lock, WriteAta, WriteData, Fetch, FdbTypeOK
    <3>2. \A s \in Threads \ {t} : pc'[s] = pc[s]
      BY <1>0, <2>4 DEF Lock, WriteAta, WriteData, Fetch, FdbTypeOK
    <3>3. pc'["rtnl"] = "next" <=> pc["rtnl"] = "next"
      BY <3>1, <3>2 DEF Threads
    <3> QED BY <2>0, <3>1, <3>3, DumpKept DEF Static
  <2>5. ASSUME NEW t \in Threads, Store(t) \/ StoreFails(t) PROVE DumpInv'
    <3>1. pc[t] = "store" /\ Unlocked(t) /\ dump' = dump
      BY <2>5 DEF Store, StoreFails
    <3>2. mutex = t /\ pc["rtnl"] # "next"
      BY <1>0, <3>1 DEF HeldBy, Critical, Threads
    <3>3. pc'["rtnl"] # "next"
      BY <1>0, <3>1, <3>2 DEF Unlocked, FdbTypeOK, Threads
    <3> QED BY <2>0, <3>1, <3>2, <3>3, DumpKept
  <2>6. CASE SearchPort
    <3>1. pc["rtnl"] = "search" /\ pc'["rtnl"] = "next" /\ dump' = dump
      BY <1>0, <2>6 DEF SearchPort, FdbTypeOK, Threads
    <3>2. dump = NoDump
      BY <3>1 DEF DumpInv
    <3>3. ASSUME NEW a \in Addrs PROVE ~(hash[a] < dump.row)
      BY <3>2, FdbAssumption DEF DumpInv, NoDump
    <3> QED BY <2>0, <3>1, <3>3 DEF DumpInv, Reported
  <2>7. CASE SearchNext
    BY <2>0, <2>7, DumpNext DEF FdbInv
  <2>8. CASE SearchEnds \/ SearchFails
    <3>1. dump' = NoDump /\ pc'["rtnl"] # "next"
      BY <1>0, <2>8 DEF SearchEnds, SearchFails, Unlocked, FdbTypeOK, Threads
    <3> QED BY <2>0, <3>1 DEF DumpInv, NoDump
  <2>9. CASE SearchExit \/ AgeAta2 \/ AgeAtwd2 \/ AgeFlush
    <3>1. dump' = dump /\ pc["rtnl"] # "next" /\ pc'["rtnl"] # "next"
      BY <1>0, <2>9 DEF SearchExit, AgeAta2, AgeAtwd2, AgeFlush, Unlocked, FdbTypeOK, Threads
    <3> QED BY <2>0, <3>1, DumpKept
  <2>10. ASSUME NEW t \in Threads, Step(t) PROVE DumpInv'
    BY <2>4, <2>5, <2>6, <2>7, <2>8, <2>9, <2>10 DEF Step
  <2>11. CASE \E p \in FdbPorts :
                 \/ \E a \in Hosts : FdbAdd(a, p) \/ FdbDel(a, p)
                 \/ \E a \in Groups : MdbAdd(a, p) \/ MdbDel(a, p)
                 \/ FdbDump(p) \/ FastAge(p)
    BY <2>1, <2>11 DEF FdbAdd, FdbDel, MdbAdd, MdbDel, FdbDump, FastAge, Threads
  <2> QED
    BY <1>2, <2>2, <2>3, <2>10, <2>11 DEF FdbNext
<1> QED
  BY <1>1, <1>2 DEF Next, vars

LEMMA DumpStart == Init => DumpInv
  BY FdbAssumption DEF Init, FdbInit, DumpInv, NoDump, Threads

-----------------------------------------------------------------------------
(* The theorems *)

LEMMA PortsInit == Init => mix \in Mixes /\ PortsInv
  BY DEF Init, BrInit, PortsInv, PortsType, BridgesSeparate, IsolatedApart, SameBridge

LEMMA VlanInit == Init => VlanInv
<1> SUFFICES ASSUME BrInit PROVE VlanInv
  BY DEF Init
<1>1. NoEntry \in Entry /\ NoEntry.members = {}
  BY DEF NoEntry, Entry, Tags
<1>2. RestType
  BY <1>1 DEF BrInit, RestType, Modes
<1>3. ModesFollow
  BY BridgeAssumption DEF BrInit, ModesFollow, AllPorts
<1>4. VlansTrue
  BY <1>1 DEF BrInit, VlansTrue
<1>5. PvidSound
  BY DEF BrInit, PvidSound, AllPorts
<1> QED
  BY <1>2, <1>3, <1>4, <1>5 DEF VlanInv

LEMMA MirrorInit == Init => MirrorInv
<1> SUFFICES ASSUME BrInit PROVE MirrorInv
  BY DEF Init
<1>1. (CHOOSE p \in Ports : TRUE) \in Ports
  BY BridgeAssumption
<1> QED
  BY <1>1, BridgeAssumption DEF BrInit, MirrorInv, MirrorType, MirrorsTrue, Directions, AllPorts

LEMMA FdbStart == Init => FdbInv
<1> SUFFICES ASSUME FdbInit PROVE FdbInv
  BY DEF Init
<1>1. FdbTypeOK
  BY NoDumpType DEF FdbInit, FdbTypeOK, Absent, NoOp, Addrs, Threads, Nobody
<1>2. HeldBy /\ AgeApart /\ OpsSound /\ RegsOwn /\ MasksOwn
  BY DEF FdbInit, HeldBy, AgeApart, OpsSound, RegsOwn, MasksOwn, FastAging, Critical, NoOp,
     Threads, Nobody
<1>3. GroupsStatic /\ EntriesKept
  BY DEF FdbInit, GroupsStatic, EntriesKept, Static, Absent, Addrs
<1> QED
  BY <1>1, <1>2, <1>3 DEF FdbInv

(* The ageing registers stay within their fields. *)
LEMMA AgeFields ==
    ASSUME NEW val \in Ages
    PROVE  [cnt |-> AgeCount(val), unit |-> AgeUnit(val)]
               \in [cnt : 0..AgeCntMax, unit : 0..AgeUnitMax]
<1>1. val \in Nat /\ val <= AgeCntMax * AgeUnitMax
  BY BridgeAssumption
<1>2. AgeUnitMax \in Nat /\ AgeUnitMax > 0 /\ AgeCntMax \in Nat /\ AgeCntMax <= AgeUnitMax
  BY BridgeAssumption
<1>3. \A n, k, d \in Nat : d > 0 /\ n <= k * d => n \div d <= k
  OBVIOUS
<1>4. \A n, d \in Nat : d > 0 => n \div d \in Nat /\ n % d \in 0..(d - 1)
  OBVIOUS
<1>5. AgeUnit(val) \in 0..AgeUnitMax
  BY <1>1, <1>2, <1>3, <1>4 DEF AgeUnit
<1>6. val \div (AgeUnit(val) + 1) \in Nat
  BY <1>1, <1>4, <1>5
<1>7. AgeCount(val) \in 0..AgeCntMax
  BY <1>2, <1>4, <1>6 DEF AgeCount
<1> QED
  BY <1>5, <1>7

(* Facts about the operators of the computation, whose divisor is not a    *)
(* constant of the code.                                                   *)
LEMMA TimesMonotonic ==
    ASSUME NEW n \in Nat, NEW k \in Nat, NEW d \in Nat, n <= k
    PROVE  n * d <= k * d
  OBVIOUS

LEMMA DivTimes ==
    ASSUME NEW n \in Nat, NEW d \in Nat \ {0}
    PROVE  n \div d \in Nat /\ (n \div d) * d <= n
  OBVIOUS

LEMMA ModBelow ==
    ASSUME NEW n \in Nat, NEW d \in Nat \ {0}
    PROVE  n % d \in Nat /\ n % d <= n
  OBVIOUS

LEMMA Small ==
    ASSUME NEW n \in Nat, NEW d \in Nat \ {0}, n < d
    PROVE  n \div d = 0 /\ n % d = n
  OBVIOUS

(* The time the chip keeps an address, from the registers it is given.     *)
(* Rounding down and the cut to the field only ever shorten the count, so  *)
(* the time is exceeded by the unit that is added internally and no more.  *)
LEMMA AgeKept ==
    ASSUME NEW val \in Ages
    PROVE  LET kept == (AgeCount(val) + 1) * (AgeUnit(val) + 1)
           IN  /\ kept <= val + AgeUnit(val) + 1
               /\ val <= AgeCntMax => val <= kept
<1> DEFINE d == AgeUnit(val) + 1
           x == val \div d
           c == AgeCount(val)
<1>1. val \in Nat /\ AgeCntMax \in Nat /\ AgeCntMax + 1 \in Nat \ {0}
      /\ AgeUnitMax \in Nat \ {0} /\ AgeCntMax < AgeUnitMax
  BY BridgeAssumption
<1>2. AgeUnit(val) \in Nat /\ d \in Nat \ {0}
  BY <1>1, DivTimes DEF AgeUnit
<1>3. x \in Nat /\ x * d <= val
  BY <1>1, <1>2, DivTimes
<1>4. c \in Nat /\ c <= x
  <2>1. c = x % (AgeCntMax + 1)
    BY DEF AgeCount
  <2> QED
    BY <1>1, <1>3, <2>1, ModBelow
<1>5. (c + 1) * d <= val + d
  <2>1. c * d <= x * d
    BY <1>2, <1>3, <1>4, TimesMonotonic
  <2>2. (c + 1) * d = c * d + d /\ c * d \in Nat /\ x * d \in Nat
    BY <1>2, <1>3, <1>4
  <2> QED
    BY <1>1, <1>2, <1>3, <2>1, <2>2
<1>6. ASSUME val <= AgeCntMax PROVE val <= (c + 1) * d
  <2>1. AgeUnit(val) = 0
    BY <1>1, <1>6, Small DEF AgeUnit
  <2>2. x = val
    BY <1>1, <2>1
  <2>3. c = val
    BY <1>1, <1>6, <2>2, Small DEF AgeCount
  <2> QED
    BY <1>1, <2>1, <2>3
<1> QED
  BY <1>1, <1>2, <1>5, <1>6

AgeType == aac \in [cnt : 0..AgeCntMax, unit : 0..AgeUnitMax] /\ age \in Nat

AgeInv == AgeType /\ AgesInTime

LEMMA AgeStep ==
    ASSUME mix \in Mixes, AgeInv, [Next]_vars
    PROVE  AgeInv'
<1>1. CASE UNCHANGED ageVars
  BY <1>1 DEF AgeInv, AgeType, AgesInTime, ageVars
<1>2. ASSUME NEW val \in Ages, SetAgeingTime(val) PROVE AgeInv'
  <2>1. val \in Nat
    BY BridgeAssumption
  <2>2. AgeType'
    BY <1>2, <2>1, AgeFields DEF AgeType, SetAgeingTime
  <2>3. aac'.cnt = AgeCount(val) /\ aac'.unit = AgeUnit(val) /\ age' = val
    BY <1>2 DEF SetAgeingTime
  <2> QED
    BY <2>2, <2>3, AgeKept DEF AgeInv, AgesInTime
<1>3. CASE BrCall
  <2>2. CASE \E p \in Ports : BridgeLeave(p) \/ VlanFilteringOn(p) \/ VlanFilteringOff(p)
    BY <1>1, <2>2 DEF BridgeLeave, VlanFilteringOn, VlanFilteringOff
  <2>3. CASE \E p \in AllPorts, v \in Vids : VlanDel(p, v) \/ VlanDelFails(p, v)
    BY <1>1, <2>3 DEF VlanDel, VlanDelFails
  <2>4. CASE \E p \in AllPorts, v \in Vids, untagged, flag \in BOOLEAN :
                VlanAdd(p, v, untagged, flag) \/ VlanAddFails(p, v, untagged)
    BY <1>1, <2>4 DEF VlanAdd, VlanAddFails
  <2>5. CASE \E p, to \in Ports, d \in Directions : MirrorAdd(p, to, d) \/ MirrorDel(p, d)
    BY <1>1, <2>5 DEF MirrorAdd, MirrorDel
  <2>6. CASE \E p \in Ports, on \in BOOLEAN : BridgeFlags(p, on)
    BY <1>1, <2>6 DEF BridgeFlags
  <2>7. CASE \E p \in Ports, b \in Bridges : BridgeJoin(p, b)
    BY <1>1, <2>7 DEF BridgeJoin
  <2> QED
    BY <1>2, <1>3, <2>2, <2>3, <2>4, <2>5, <2>6, <2>7 DEF BrCall
<1>4. CASE UNCHANGED brVars
  BY <1>1, <1>4 DEF brVars
<1> QED
  BY <1>3, <1>4, BrCases

LEMMA AgeInit == BrInit => AgeInv
  BY BridgeAssumption DEF BrInit, AgeInv, AgeType, AgesInTime

(* The registers and the driver's maps keep their types. *)
THEOREM TypeCorrect == Spec => []TypeOK
<1> DEFINE I == /\ mix \in Mixes /\ PortsInv /\ VlanInv /\ MirrorInv
               /\ FdbInv /\ DumpInv /\ AgeInv
<1>1. Init => I
  <2>1. BrInit => AgeInv
    BY AgeInit
  <2> QED
    BY <2>1, PortsInit, VlanInit, MirrorInit, FdbStart, DumpStart DEF Init
<1>2. I /\ [Next]_vars => I'
  BY MixStep, PortsStep, VlanStep, MirrorStep, FdbStep, DumpStep, AgeStep
<1>3. I => TypeOK
  BY DEF PortsInv, PortsType, VlanInv, RestType, MirrorInv, MirrorType, FdbInv, AgeInv,
     AgeType, TypeOK, BrTypeOK, DumpInv
<1> QED
  BY <1>1, <1>2, <1>3, PTL DEF Spec

(* Ports of different bridges never come to reach each other, and ports of *)
(* one bridge always do, whatever joins, leaves and isolation flags the    *)
(* driver is called with, and for any number of ports and bridges.         *)
THEOREM BridgesSafe == Spec => []BridgesSeparate
<1>1. mix \in Mixes /\ PortsInv /\ [Next]_vars => (mix \in Mixes /\ PortsInv)'
  BY MixStep, PortsStep
<1>2. PortsInv => BridgesSeparate
  BY DEF PortsInv
<1> QED
  BY <1>1, <1>2, PortsInit, PTL DEF Spec

(* Two isolated ports of one bridge never reach each other both ways,      *)
(* whichever of the flag and the join came first.                          *)
THEOREM IsolationSafe == Spec => []IsolatedApart
<1>1. mix \in Mixes /\ PortsInv /\ [Next]_vars => (mix \in Mixes /\ PortsInv)'
  BY MixStep, PortsStep
<1>2. PortsInv => IsolatedApart
  BY DEF PortsInv
<1> QED
  BY <1>1, <1>2, PortsInit, PTL DEF Spec

(* The inductive invariant of bridging, filtering and VLANs together. *)
LEMMA VlanSafe == Spec => []VlanInv
<1>1. mix \in Mixes /\ PortsInv /\ VlanInv /\ [Next]_vars
          => (mix \in Mixes /\ PortsInv /\ VlanInv)'
  BY MixStep, PortsStep, VlanStep
<1> QED
  BY <1>1, PortsInit, VlanInit, PTL DEF Spec

(* The port modes follow bridging and filtering in every order of joins,   *)
(* leaves and switches of the filter, and the CPU port stays in fallback   *)
(* mode while a port filters.                                              *)
THEOREM ModesSafe == Spec => []ModesFollow
<1>1. VlanInv => ModesFollow
  BY DEF VlanInv
<1> QED
  BY <1>1, VlanSafe, PTL

(* The VLAN table holds the members and egress tags the core asked for,    *)
(* except where the last command of a membership timed out.                *)
THEOREM VlansSafe == Spec => []VlansTrue
<1>1. VlanInv => VlansTrue
  BY DEF VlanInv
<1> QED
  BY <1>1, VlanSafe, PTL

(* A port with a PVID filters, takes untagged frames and is a member of    *)
(* the VLAN, whichever way the VLAN or the filter went away.               *)
THEOREM PvidsSafe == Spec => []PvidSound
<1>1. VlanInv => PvidSound
  BY DEF VlanInv
<1> QED
  BY <1>1, VlanSafe, PTL

(* All mirror rules share the one monitor port they asked for, and the     *)
(* mirror is on exactly while there is a rule.                             *)
THEOREM MirrorsSafe == Spec => []MirrorsTrue
<1>1. mix \in Mixes /\ MirrorInv /\ [Next]_vars => (mix \in Mixes /\ MirrorInv)'
  BY MixStep, MirrorStep
<1>2. MirrorInv => MirrorsTrue
  BY DEF MirrorInv
<1> QED
  BY <1>1, <1>2, PortsInit, MirrorInit, PTL DEF Spec

(* Whatever ageing time is asked for, an address is kept at most one unit  *)
(* longer, and not shorter if the time fits into the count.                *)
THEOREM AgesSafe == Spec => []AgesInTime
<1>1. mix \in Mixes /\ AgeInv /\ [Next]_vars => (mix \in Mixes /\ AgeInv)'
  BY MixStep, AgeStep
<1>2. AgeInv => AgesInTime
  BY DEF AgeInv
<1>3. Init => AgeInv
  BY AgeInit DEF Init
<1> QED
  BY <1>1, <1>2, <1>3, PortsInit, PTL DEF Spec

(* The chip holds exactly the static entries asked for, whatever the two   *)
(* threads, learning and ageing do, as long as fast ageing meets no other  *)
(* user of the registers and no command of the address timed out.          *)
THEOREM EntriesSafe == Spec => []EntriesKept
<1>1. FdbInv /\ [Next]_vars => FdbInv'
  BY FdbStep
<1>2. FdbInv => EntriesKept
  BY DEF FdbInv
<1> QED
  BY <1>1, <1>2, FdbStart, PTL DEF Spec

(* A dump whose commands did not time out has, when it returns, reported   *)
(* every static entry of its port except in rows where the callback has    *)
(* refused one, whatever the size of the table and however the chip        *)
(* spreads addresses over it.                                              *)
THEOREM DumpSafe == Spec => DumpComplete
<1>1. ASSUME FdbInv, DumpInv, [Next]_vars
      PROVE  [pc["rtnl"] = "next" /\ pc'["rtnl"] = "idle" =>
                \A a \in Addrs : Static(a) /\ table[a].ports \cap op["rtnl"].port # {}
                     => a \in dump.seen \/ hash[a] \in dump.refused]_fdbVars
  <2> SUFFICES ASSUME ~UNCHANGED fdbVars, pc["rtnl"] = "next", pc'["rtnl"] = "idle",
                      NEW a \in Addrs, Static(a), table[a].ports \cap op["rtnl"].port # {}
               PROVE  a \in dump.seen \/ hash[a] \in dump.refused
    OBVIOUS
  <2>1. atwd.ports = op["rtnl"].port
    BY <1>1 DEF FdbInv, RegsOwn
  <2>2. FdbTypeOK
    BY <1>1 DEF FdbInv
  <2>3. FdbNext
    BY <1>1 DEF Next, vars
  <2>4. SearchEnds
    <3>1. ASSUME NEW t \in Threads, NEW k, NEW b, NEW P, NEW at, Call(t, k, b, P, at), at # "idle"
          PROVE  FALSE
      BY <2>2, <3>1, CallState DEF Threads
    <3>2. ASSUME NEW p, NEW b, Learn(b, p) \/ Age(b) PROVE FALSE
      BY <3>2 DEF Learn, Age, callVars
    <3>3. PICK t \in Threads : Step(t)
      BY <2>3, <3>1, <3>2 DEF FdbNext, FdbAdd, FdbDel, MdbAdd, MdbDel, FdbDump, FastAge, Threads
    <3>4. ~(Lock(t) \/ WriteAta(t) \/ WriteData(t) \/ Fetch(t))
      BY <2>2 DEF FdbTypeOK, Lock, WriteAta, WriteData, Fetch, Threads
    <3>5. ~(Store(t) \/ StoreFails(t))
      BY <2>2 DEF FdbTypeOK, Store, StoreFails, Unlocked, Threads
    <3>6. ~(SearchPort \/ SearchNext \/ SearchFails \/ SearchExit)
      BY <2>2 DEF FdbTypeOK, SearchPort, SearchNext, SearchFails, SearchExit, callVars, Threads
    <3>7. ~(AgeAta2 \/ AgeAtwd2 \/ AgeFlush)
      BY DEF AgeAta2, AgeAtwd2, AgeFlush
    <3> QED
      BY <3>3, <3>4, <3>5, <3>6, <3>7 DEF Step
  <2>5. hash[a] \in 0..(Rows - 1) /\ Rows \in Nat
    BY <1>1, FdbAssumption DEF DumpInv
  <2>6. dump.row \in Nat /\ dump.count \in Nat /\ dump.count <= 4 * dump.row
    BY <1>1, <2>2 DEF DumpInv, FdbTypeOK, DumpState
  <2>7. hash[a] < dump.row
    <3>1. CASE HitRows = {}
      <4>1. a \in Hits(hash[a])
        BY <2>1 DEF Hits
      <4>2. hash[a] \notin dump.row..(Rows - 1)
        BY <3>1, <4>1 DEF HitRows
      <4> QED BY <2>5, <2>6, <4>2
    <3>2. CASE dump.count >= Records
      BY <2>5, <2>6, <3>2 DEF Records
    <3> QED BY <2>4, <3>1, <3>2 DEF SearchEnds
  <2> QED
    BY <1>1, <2>7 DEF DumpInv, Reported
<1>2. FdbInv /\ DumpInv /\ [Next]_vars => FdbInv' /\ DumpInv'
  BY FdbStep, DumpStep
<1> QED
  BY <1>1, <1>2, FdbStart, DumpStart, PTL DEF Spec, DumpComplete
=============================================================================
