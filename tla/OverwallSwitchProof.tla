------------------------ MODULE OverwallSwitchProof ------------------------
(***************************************************************************)
(* Proofs about OverwallSwitch, for every list of nodes and every sequence *)
(* of failures and recoveries.                                             *)
(***************************************************************************)
EXTENDS OverwallSwitch, TLAPS

(* The node whose probe is in progress is exempt, and added says whether   *)
(* the probe made it so.                                                   *)
ProbeOf(n) == acl = BaseAcl(active) \cup {n} /\ added = (n \notin BaseAcl(active))

AclInv ==
  /\ pc = "test" => ProbeOf(Main)
  /\ pc = "probed" => ProbeOf(i)
  /\ pc \notin {"test", "probed"} => acl = BaseAcl(active) /\ ~added

(* The scan starts at 0 or 1 and leaves no node behind that was up. *)
ScanInv ==
  /\ c \in 0..1
  /\ \A n \in good : up[n]
  /\ pc \in {"probe", "probed"} => \A n \in good \cap (Enabled \ {SERVER_B}) : n >= i
  /\ pc = "probed" => i \in Nodes
  /\ NoServerMeansNone

IInv == TypeOK /\ AclInv /\ ScanInv

LEMMA InitInv == Init => IInv
  <1> SUFFICES ASSUME Init PROVE IInv
    OBVIOUS
  <1> USE SwitchAssumption DEF Init, Nodes
  <1>1. TypeOK
    <2>1. acl \in SUBSET Nodes /\ up \in [Nodes -> BOOLEAN] /\ good \in SUBSET Nodes
      BY DEF BaseAcl
    <2>2. /\ pc = "loop" /\ SERVER_B \in Nodes /\ SERVER_C \in 0..N
          /\ c \in 0..N /\ i \in 0..(N + 1)
      OBVIOUS
    <2>3. added \in BOOLEAN /\ active \in Nodes /\ net \in BOOLEAN /\ changes \in Nat
      OBVIOUS
    <2> QED
      BY <2>1, <2>2, <2>3 DEF TypeOK
  <1>2. AclInv
    BY DEF AclInv
  <1>3. ScanInv
    BY DEF ScanInv, NoServerMeansNone
  <1> QED
    BY <1>1, <1>2, <1>3 DEF IInv

(* Every step keeps the types. *)
LEMMA StepType ==
  ASSUME IInv, [Next]_vars
  PROVE  TypeOK'
  <1> USE SwitchAssumption DEF IInv, TypeOK, Nodes
  <1>1. CASE Loop
    BY <1>1 DEF Loop, Exempt, world
  <1>2. CASE TestMain
    BY <1>2 DEF TestMain, Restore, world
  <1>3. CASE Check
    BY <1>3 DEF Check, world
  <1>4. CASE Select
    BY <1>4 DEF Select, ScanInv, world
  <1>5. CASE Skip
    BY <1>5 DEF Skip, world
  <1>6. CASE Probe
    BY <1>6 DEF Probe, Exempt, Candidate, ScanInv, world
  <1>7. CASE Probed
    <2>1. i \in Nodes
      BY <1>7 DEF Probed, ScanInv
    <2>2. SERVER_B' \in Nodes /\ SERVER_C' \in 0..N /\ c' \in 0..N /\ i' \in 0..(N + 1)
      BY <1>7, <2>1 DEF Probed
    <2>3. acl' \in SUBSET Nodes /\ added' \in BOOLEAN
      BY <1>7 DEF Probed, Restore
    <2> QED
      BY <1>7, <2>2, <2>3 DEF Probed, world
  <1>8. CASE NoServer
    BY <1>8 DEF NoServer, world
  <1>9. CASE SwitchProxy
    BY <1>9 DEF SwitchProxy, BaseAcl, world
  <1>10. CASE NodeChanges
    <2>1. up' \in [Nodes -> BOOLEAN] /\ changes' \in Nat
      BY <1>10 DEF NodeChanges
    <2>2. good' \in SUBSET Nodes
      BY <1>10 DEF NodeChanges
    <2> QED
      BY <1>10, <2>1, <2>2 DEF NodeChanges, daemon
  <1>11. CASE NetChanges
    BY <1>11 DEF NetChanges, daemon
  <1>12. CASE UNCHANGED vars
    BY <1>12 DEF vars
  <1> QED
    BY <1>1, <1>2, <1>3, <1>4, <1>5, <1>6, <1>7, <1>8, <1>9, <1>10, <1>11, <1>12 DEF Next, Daemon

(* Every step keeps the exemptions. *)
LEMMA StepAcl ==
  ASSUME IInv, [Next]_vars
  PROVE  AclInv'
  <1> USE DEF IInv, AclInv, ProbeOf
  <1>1. CASE Loop
    BY <1>1 DEF Loop, Exempt, world
  <1>2. CASE TestMain
    BY <1>2 DEF TestMain, Restore, world
  <1>3. CASE Check
    BY <1>3 DEF Check, world
  <1>4. CASE Select
    BY <1>4 DEF Select, world
  <1>5. CASE Skip
    BY <1>5 DEF Skip, world
  <1>6. CASE Probe
    BY <1>6 DEF Probe, Exempt, world
  <1>7. CASE Probed
    BY <1>7 DEF Probed, Restore, world
  <1>8. CASE NoServer
    BY <1>8 DEF NoServer, world
  <1>9. CASE SwitchProxy
    BY <1>9 DEF SwitchProxy, BaseAcl, world
  <1>10. CASE NodeChanges
    BY <1>10 DEF NodeChanges, daemon
  <1>11. CASE NetChanges
    BY <1>11 DEF NetChanges, daemon
  <1>12. CASE UNCHANGED vars
    BY <1>12 DEF vars, world
  <1> QED
    BY <1>1, <1>2, <1>3, <1>4, <1>5, <1>6, <1>7, <1>8, <1>9, <1>10, <1>11, <1>12 DEF Next, Daemon

(* Every step keeps what is known of the scan. *)
LEMMA StepScan ==
  ASSUME IInv, [Next]_vars
  PROVE  ScanInv'
  <1> USE SwitchAssumption DEF IInv, ScanInv, NoServerMeansNone
  <1>1. CASE Loop
    BY <1>1 DEF Loop, TypeOK, Nodes, world
  <1>2. CASE TestMain
    BY <1>2 DEF TestMain, TypeOK, Nodes, world
  <1>3. CASE Check
    BY <1>3 DEF Check, TypeOK, Nodes, world
  <1>4. CASE Select
    BY <1>4 DEF Select, TypeOK, Nodes, world
  <1>5. CASE Skip
    BY <1>5 DEF Skip, Candidate, TypeOK, Nodes, world
  <1>6. CASE Probe
    BY <1>6 DEF Probe, Candidate, TypeOK, Nodes, world
  <1>7. CASE Probed
    BY <1>7 DEF Probed, TypeOK, Nodes, world
  <1>8. CASE NoServer
    BY <1>8 DEF NoServer, TypeOK, Nodes, world
  <1>9. CASE SwitchProxy
    BY <1>9 DEF SwitchProxy, TypeOK, Nodes, world
  <1>10. CASE NodeChanges
    BY <1>10 DEF NodeChanges, TypeOK, Nodes, daemon
  <1>11. CASE NetChanges
    BY <1>11 DEF NetChanges, TypeOK, Nodes, daemon
  <1>12. CASE UNCHANGED vars
    BY <1>12 DEF vars
  <1> QED
    BY <1>1, <1>2, <1>3, <1>4, <1>5, <1>6, <1>7, <1>8, <1>9, <1>10, <1>11, <1>12 DEF Next, Daemon

-----------------------------------------------------------------------------
(* Every reachable state of the switch daemon satisfies the invariant. *)
THEOREM Invariant == Spec => []IInv
  <1>1. Init => IInv
    BY InitInv
  <1>2. IInv /\ [Next]_vars => IInv'
    BY StepType, StepAcl, StepScan DEF IInv
  <1> QED
    BY <1>1, <1>2, PTL DEF Spec

(* The scan of select_proxy never leaves the list of nodes. *)
THEOREM TypeCorrect == Spec => []TypeOK
  BY Invariant, PTL DEF IInv

(* Outside a probe the ipset holds what the rules of the active node put   *)
(* there, whichever probes were made.                                      *)
THEOREM AclAlwaysRestored == Spec => []AclRestored
  <1>1. IInv => AclRestored
    BY DEF IInv, AclInv, AclRestored
  <1> QED
    BY <1>1, Invariant, PTL

(* The daemon reports that no server is available only if no other enabled *)
(* node was up during the whole scan, for any number of nodes.             *)
THEOREM NoServerIsTrue == Spec => []NoServerMeansNone
  <1>1. IInv => NoServerMeansNone
    BY DEF IInv, ScanInv
  <1> QED
    BY <1>1, Invariant, PTL
=============================================================================
