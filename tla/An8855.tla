------------------------------ MODULE An8855 ------------------------------
(***************************************************************************)
(* The AN8855 driver under the DSA core: the address table and the bridge  *)
(* and VLAN operations together.  The two parts share no register, so a    *)
(* behaviour need not mix all kinds of calls: Mixes says which ones meet.  *)
(***************************************************************************)
EXTENDS An8855Bridge, An8855Fdb

CONSTANT Mixes      \* the calls that meet in one behaviour, and their ports (bound)

Kinds == {"bridge", "vlan", "filter", "mirror", "age", "fdb"}

ASSUME MixAssumption == Mixes \subseteq [kinds : SUBSET Kinds, ports : SUBSET Ports]

VARIABLE mix        \* the calls of this behaviour

vars == <<brVars, fdbVars, mix>>

Init == BrInit /\ FdbInit /\ mix \in Mixes

BridgeCalls ==
    \E p \in mix.ports :
        \/ \E b \in Bridges : BridgeJoin(p, b)
        \/ BridgeLeave(p)
        \/ \E on \in BOOLEAN : BridgeFlags(p, on)

FilterCalls == \E p \in mix.ports : VlanFilteringOn(p) \/ VlanFilteringOff(p)

VlanCalls ==
    \E p \in mix.ports \cup {Cpu}, v \in Vids :
        \/ \E untagged, flag \in BOOLEAN : VlanAdd(p, v, untagged, flag)
        \/ \E untagged \in BOOLEAN : VlanAddFails(p, v, untagged)
        \/ VlanDel(p, v) \/ VlanDelFails(p, v)

MirrorCalls ==
    \E p \in mix.ports, d \in Directions :
        (\E to \in Ports : MirrorAdd(p, to, d)) \/ MirrorDel(p, d)

Calls(k) ==
    \/ k = "bridge" /\ BridgeCalls
    \/ k = "filter" /\ FilterCalls
    \/ k = "vlan" /\ VlanCalls
    \/ k = "mirror" /\ MirrorCalls
    \/ k = "age" /\ \E val \in Ages : SetAgeingTime(val)

Next ==
    /\ UNCHANGED mix
    /\ \/ "fdb" \in mix.kinds /\ FdbNext /\ UNCHANGED brVars
       \/ (\E k \in mix.kinds : Calls(k)) /\ UNCHANGED fdbVars

Spec == Init /\ [][Next]_vars

-----------------------------------------------------------------------------
(* The registers and the driver's own maps keep their types. *)
TypeOK == BrTypeOK /\ FdbTypeOK /\ hash \in Hashes
=============================================================================
