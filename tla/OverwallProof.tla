--------------------------- MODULE OverwallProof ---------------------------
(***************************************************************************)
(* Proofs about Overwall, for every set of nodes, every setting of the     *)
(* configuration flags and every bound.                                    *)
(***************************************************************************)
EXTENDS Overwall, TLAPS

-----------------------------------------------------------------------------
(* The inductive invariant. *)

(* Without cron no update but --First runs. *)
NoCron == MaxCronUpdates = 0 => update["cron"] = "off"

(* The lock of update belongs to a running update, or a stop that has just *)
(* killed the update is about to remove it.                                *)
UpdateLockOwned ==
  MaxCronUpdates = 0 /\ updlock => \/ update["first"] \in {"download", "end"}
                                   \/ \E c \in Callers : call[c].pc = "flush"

(* overlap records every pair of invocations at work. *)
Serial == ~overlap => \A c, d \in Callers : Working(c) /\ Working(d) => c = d

(* What a lone invocation finds at each of its steps. *)
RedirectorPhase ==
  /\ tcp = {} \/ tcp = {fw}
  /\ \A c \in Callers : call[c].pc \in {"flush", "drop"} => tcp = {}
  /\ \A c \in Callers : call[c].pc = "tcp" => tcp = {} /\ fw = ServerOf(c)

DnsPhase ==
  /\ dns = "off" \/ dns = dnsconf
  /\ tcp # {} => dnsconf = "full" \/ \E c \in Callers : call[c].pc = "dns"
  /\ \A c \in Callers : call[c].pc \in {"flush", "drop"} => dns = "off" /\ monitor = "off"

Phase == ~overlap => RedirectorPhase /\ DnsPhase

Locks == NoCron /\ UpdateLockOwned /\ LockOwned

IInv == TypeOK /\ Locks /\ Serial /\ Phase

-----------------------------------------------------------------------------
(* Invocations. *)

(* A step of caller c's invocation changes that invocation alone. *)
LEMMA BecomeType ==
  ASSUME TypeOK, NEW c \in Callers, NEW i \in CallType, Become(c, i)
  PROVE  /\ call' \in [Callers -> CallType]
         /\ overlap' \in BOOLEAN
         /\ call'[c] = i
         /\ \A d \in Callers : d # c => call'[d] = call[d]
  BY DEF TypeOK, CallsOK, Become

LEMMA BecomeSerial ==
  ASSUME TypeOK, Serial, NEW c \in Callers, NEW i \in CallType, Become(c, i)
  PROVE  /\ Serial'
         /\ ~overlap' => ~overlap
         /\ ~overlap' /\ i.pc \in WorkSteps => \A d \in Callers : d # c => ~Working(d)
  <1>1. ~overlap' => ~overlap
    BY DEF Become
  <1>2. ~overlap' /\ i.pc \in WorkSteps => \A d \in Callers : d # c => ~Working(d)
    BY DEF Become
  <1>3. Serial'
    <2> SUFFICES ASSUME ~overlap', NEW d \in Callers, NEW e \in Callers,
                        Working(d)', Working(e)', d # e
                 PROVE  FALSE
      BY DEF Serial
    <2>1. \A f \in Callers : f # c => (Working(f)' <=> Working(f))
      BY BecomeType DEF Working
    <2>2. Working(c)' => i.pc \in WorkSteps
      BY BecomeType DEF Working
    <2>3. CASE d # c /\ e # c
      BY <2>1, <2>3, <1>1 DEF Serial
    <2>4. CASE d = c
      BY <2>1, <2>2, <2>4, <1>2
    <2>5. CASE e = c
      BY <2>1, <2>2, <2>5, <1>2
    <2> QED
      BY <2>3, <2>4, <2>5
  <1> QED
    BY <1>1, <1>2, <1>3

LEMMA ExitType ==
  ASSUME TypeOK, NEW c \in Callers, Exit(c)
  PROVE  CallsOK'
  <1>1. Idle \in CallType
    BY NodesAssumption DEF Idle, CallType
  <1> QED
    BY <1>1, BecomeType DEF Exit, CallsOK

LEMMA GotoType ==
  ASSUME TypeOK, NEW c \in Callers, NEW step \in WorkSteps \cup {"grab"}, Goto(c, step)
  PROVE  CallsOK'
  <1>1. [call[c] EXCEPT !.pc = step] \in CallType
    BY DEF TypeOK, CallsOK, CallType
  <1> QED
    BY <1>1, BecomeType DEF Goto, CallsOK

LEMMA InvokeType ==
  ASSUME TypeOK, NEW c \in Callers, NEW step \in WorkSteps \cup {"test"},
         NEW restart \in BOOLEAN, NEW arg \in Nodes \cup {None},
         Invoke(c, step, restart, arg)
  PROVE  CallsOK'
  <1>1. [pc |-> step, restart |-> restart, arg |-> arg, up |-> FALSE] \in CallType
    BY DEF CallType
  <1> QED
    BY <1>1, BecomeType DEF Invoke, CallsOK

(* Start, Stop and Restart, in the terms of InvokeType. *)
LEMMA CallTypes ==
  ASSUME TypeOK, NEW c \in Callers,
         \/ Start(c) \/ Stop(c) \/ \E n \in Nodes \cup {None} : Restart(c, n)
  PROVE  CallsOK'
  BY InvokeType DEF Start, Stop, Restart, WorkSteps

LEMMA HappensType ==
  ASSUME TypeOK, NEW e \in Events, Happens(e)
  PROVE  count' \in [Events -> Nat]
  BY DEF TypeOK, CountsOK, Happens

(* What a step leaves alone keeps its type. *)
LEMMA FrameType ==
  ASSUME TypeOK
  PROVE  /\ UNCHANGED calls => CallsOK'
         /\ UNCHANGED files => FilesOK'
         /\ UNCHANGED service => ServiceOK'
         /\ UNCHANGED helpers => HelpersOK'
         /\ UNCHANGED counts => CountsOK'
         /\ UNCHANGED net => (net \in BOOLEAN)'
  <1>1. UNCHANGED calls => CallsOK'
    BY DEF TypeOK, CallsOK, calls
  <1>2. UNCHANGED files => FilesOK'
    BY DEF TypeOK, FilesOK, files
  <1>3. UNCHANGED service => ServiceOK'
    BY DEF TypeOK, ServiceOK, service
  <1>4. UNCHANGED helpers => HelpersOK'
    BY DEF TypeOK, HelpersOK, helpers
  <1>5. UNCHANGED counts => CountsOK'
    BY DEF TypeOK, CountsOK, counts
  <1>6. UNCHANGED net => (net \in BOOLEAN)'
    BY DEF TypeOK
  <1> QED
    BY <1>1, <1>2, <1>3, <1>4, <1>5, <1>6

(* Every step keeps the types. *)
LEMMA StepType ==
  ASSUME TypeOK, [Next]_vars
  PROVE  TypeOK'
  <1>1. ASSUME NEW c \in Callers, RestartTest(c) PROVE TypeOK'
    BY <1>1, FrameType, ExitType, GotoType
    DEF RestartTest, TypeOK, WorkSteps
  <1>2. ASSUME NEW c \in Callers, RestartGrab(c) PROVE TypeOK'
    BY <1>2, FrameType, GotoType
    DEF RestartGrab, TypeOK, WorkSteps, FilesOK
  <1>3. ASSUME NEW c \in Callers, StopKill(c) PROVE TypeOK'
    BY <1>3, FrameType, GotoType
    DEF StopKill, TypeOK, WorkSteps, ServiceOK, HelpersOK, Updates
  <1>4. ASSUME NEW c \in Callers, StopFlush(c) PROVE TypeOK'
    BY <1>4, FrameType, GotoType
    DEF StopFlush, TypeOK, WorkSteps, FilesOK, ServiceOK
  <1>5. ASSUME NEW c \in Callers, StopDrop(c) PROVE TypeOK'
    BY <1>5, FrameType, ExitType
    DEF StopDrop, TypeOK, FilesOK, ServiceOK
  <1>6. ASSUME NEW c \in Callers, StartTouch(c) PROVE TypeOK'
    BY <1>6, FrameType, GotoType
    DEF StartTouch, TypeOK, WorkSteps, FilesOK
  <1>7. ASSUME NEW c \in Callers, RulesRunning(c) PROVE TypeOK'
    BY <1>7, FrameType, GotoType
    DEF RulesRunning, TypeOK, WorkSteps
  <1>8. ASSUME NEW c \in Callers, RulesNoNetwork(c) PROVE TypeOK'
    BY <1>8, FrameType, ExitType
    DEF RulesNoNetwork, TypeOK, HelpersOK, Updates, MaxChecks
  <1>9. ASSUME NEW c \in Callers, RulesNoLists(c) PROVE TypeOK'
    BY <1>9, FrameType, ExitType
    DEF RulesNoLists, TypeOK, HelpersOK, Updates
  <1>10. ASSUME NEW c \in Callers, RulesUnresolved(c) PROVE TypeOK'
    BY <1>10, FrameType, GotoType
    DEF RulesUnresolved, TypeOK, WorkSteps
  <1>11. ASSUME NEW c \in Callers, RulesOk(c) PROVE TypeOK'
    <2>1. ServerOf(c) \in Nodes
      BY NodesAssumption DEF TypeOK, CallsOK, CallType, ServerOf
    <2> QED
      BY <1>11, <2>1, GotoType, FrameType DEF RulesOk, TypeOK, ServiceOK, WorkSteps
  <1>12. ASSUME NEW c \in Callers, StartTcpFails(c) PROVE TypeOK'
    BY <1>12, FrameType, GotoType
    DEF StartTcpFails, TypeOK, WorkSteps
  <1>13. ASSUME NEW c \in Callers, StartTcp(c) PROVE TypeOK'
    <2>1. [call[c] EXCEPT !.pc = "dns", !.up = TRUE] \in CallType
      BY DEF TypeOK, CallsOK, CallType, WorkSteps
    <2>2. ServerOf(c) \in Nodes
      BY NodesAssumption DEF TypeOK, CallsOK, CallType, ServerOf
    <2>3. CallsOK'
      BY <1>13, <2>1, BecomeType DEF StartTcp, CallsOK
    <2> QED
      BY <1>13, <2>2, <2>3, FrameType DEF StartTcp, TypeOK, ServiceOK
  <1>14. ASSUME NEW c \in Callers, StartDns(c) PROVE TypeOK'
    BY <1>14, FrameType, GotoType
    DEF StartDns, TypeOK, WorkSteps, ServiceOK
  <1>15. ASSUME NEW c \in Callers, StartSwitch(c) PROVE TypeOK'
    BY <1>15, FrameType, GotoType
    DEF StartSwitch, TypeOK, WorkSteps, ServiceOK
  <1>16. ASSUME NEW c \in Callers, StartMonitor(c) PROVE TypeOK'
    BY <1>16, FrameType, GotoType
    DEF StartMonitor, TypeOK, WorkSteps, ServiceOK
  <1>17. ASSUME NEW c \in Callers, StartEnd(c) PROVE TypeOK'
    BY <1>17, FrameType, ExitType
    DEF StartEnd, TypeOK, FilesOK
  <1>18. ASSUME MonitorRestart PROVE TypeOK'
    BY <1>18, FrameType, CallTypes
    DEF MonitorRestart, TypeOK, Callers, ServiceOK
  <1>19. ASSUME MonitorResume PROVE TypeOK'
    BY <1>19, FrameType
    DEF MonitorResume, TypeOK, ServiceOK
  <1>20. ASSUME MonitorDns PROVE TypeOK'
    BY <1>20, FrameType
    DEF MonitorDns, TypeOK, ServiceOK
  <1>21. ASSUME SwitchRestart PROVE TypeOK'
    <2>1. CountsOK'
      <3>1. "switch" \in Events
        BY DEF Events, Bound
      <3> QED
        BY <1>21, <3>1, HappensType DEF SwitchRestart, TypeOK, CountsOK
    <2> QED
      BY <1>21, <2>1, FrameType, CallTypes DEF SwitchRestart, TypeOK, Callers
  <1>22. ASSUME CheckNetwork PROVE TypeOK'
    BY <1>22, FrameType, CallTypes
    DEF CheckNetwork, TypeOK, Callers, HelpersOK, Updates, MaxChecks
  <1>23. ASSUME CronStarts PROVE TypeOK'
    <2>1. CountsOK'
      <3>1. "cron" \in Events
        BY DEF Events, Bound
      <3> QED
        BY <1>23, <3>1, HappensType DEF CronStarts, TypeOK, CountsOK
    <2> QED
      BY <1>23, <2>1, FrameType DEF CronStarts, UpdateGoto, TypeOK, HelpersOK, Updates
  <1>24. ASSUME UpdateApply PROVE TypeOK'
    BY <1>24, FrameType, CallTypes
    DEF UpdateApply, TypeOK, Callers, HelpersOK, Updates, UpdateGoto
  <1>25. ASSUME UpdateResume PROVE TypeOK'
    BY <1>25, FrameType
    DEF UpdateResume, TypeOK, HelpersOK, Updates, UpdateGoto
  <1>26. ASSUME Command PROVE TypeOK'
    <2>1. CountsOK'
      <3>1. "command" \in Events
        BY DEF Events, Bound
      <3> QED
        BY <1>26, <3>1, HappensType DEF Command, CountsOK
    <2>2. CallsOK'
      BY <1>26, CallTypes DEF Command, Callers
    <2> QED
      BY <1>26, <2>1, <2>2, FrameType DEF Command, TypeOK
  <1>27. ASSUME NetDown PROVE TypeOK'
    <2>1. CountsOK'
      <3>1. "outage" \in Events
        BY DEF Events, Bound
      <3> QED
        BY <1>27, <3>1, HappensType DEF NetDown, TypeOK, CountsOK
    <2> QED
      BY <1>27, <2>1, FrameType DEF NetDown, TypeOK
  <1>28. ASSUME NetUp PROVE TypeOK'
    BY <1>28, FrameType
    DEF NetUp, TypeOK
  <1>29. ASSUME Crash PROVE TypeOK'
    <2>1. CountsOK'
      <3>1. "crash" \in Events
        BY DEF Events, Bound
      <3> QED
        BY <1>29, <3>1, HappensType DEF Crash, TypeOK, CountsOK
    <2> QED
      BY <1>29, <2>1, FrameType DEF Crash, TypeOK, ServiceOK
  <1>30. ASSUME NEW u \in Updates, UpdateTest(u) PROVE TypeOK'
    BY <1>30, FrameType
    DEF UpdateTest, TypeOK, HelpersOK, Updates, UpdateGoto
  <1>31. ASSUME NEW u \in Updates, UpdateTouch(u) PROVE TypeOK'
    BY <1>31, FrameType
    DEF UpdateTouch, TypeOK, FilesOK, HelpersOK, Updates, UpdateGoto
  <1>32. ASSUME NEW u \in Updates, UpdateFails(u) PROVE TypeOK'
    BY <1>32, FrameType
    DEF UpdateFails, TypeOK, FilesOK, HelpersOK, Updates, UpdateGoto
  <1>33. ASSUME NEW u \in Updates, UpdateFetched(u) PROVE TypeOK'
    BY <1>33, FrameType
    DEF UpdateFetched, TypeOK, FilesOK, HelpersOK, Updates, UpdateGoto
  <1>34. ASSUME NEW u \in Updates, UpdateEnd(u) PROVE TypeOK'
    <2>1. CallsOK'
      BY <1>34, CallTypes, FrameType DEF UpdateEnd, Callers
    <2>2. HelpersOK'
      BY <1>34 DEF UpdateEnd, UpdateGoto, TypeOK, HelpersOK, helpers
    <2> QED
      BY <1>34, <2>1, <2>2, FrameType DEF UpdateEnd, TypeOK, FilesOK
  <1>35. CASE UNCHANGED vars
    BY <1>35, FrameType DEF vars, calls, files, service, helpers, counts, TypeOK
  <1> QED
    BY <1>1, <1>2, <1>3, <1>4, <1>5, <1>6, <1>7, <1>8, <1>9, <1>10, <1>11, <1>12, <1>13,
        <1>14, <1>15, <1>16, <1>17, <1>18, <1>19, <1>20, <1>21, <1>22, <1>23, <1>24, <1>25,
            <1>26, <1>27, <1>28, <1>29, <1>30, <1>31, <1>32, <1>33, <1>34, <1>35
       DEF Next, Invocation, UpdateStep

-----------------------------------------------------------------------------
(* The locks. *)

(* The program counter after a step of an invocation. *)
LEMMA GotoPc ==
  ASSUME TypeOK, NEW c \in Callers, NEW step \in WorkSteps \cup {"grab"}, Goto(c, step)
  PROVE  /\ call'[c].pc = step
         /\ call'[c].arg = call[c].arg /\ call'[c].restart = call[c].restart
         /\ \A d \in Callers : d # c => call'[d] = call[d]
  <1>1. [call[c] EXCEPT !.pc = step] \in CallType
    BY DEF TypeOK, CallsOK, CallType
  <1>2. /\ call'[c] = [call[c] EXCEPT !.pc = step]
        /\ \A d \in Callers : d # c => call'[d] = call[d]
    BY <1>1, BecomeType DEF Goto
  <1> QED
    BY <1>2 DEF TypeOK, CallsOK, CallType

LEMMA ExitPc ==
  ASSUME TypeOK, NEW c \in Callers, Exit(c)
  PROVE  /\ call'[c] = Idle /\ call'[c].pc = "idle"
         /\ \A d \in Callers : d # c => call'[d] = call[d]
  <1>1. Idle \in CallType
    BY NodesAssumption DEF Idle, CallType
  <1> QED
    BY <1>1, BecomeType DEF Exit, Idle

LEMMA StartPc ==
  ASSUME TypeOK, NEW c \in Callers, Start(c)
  PROVE  /\ call[c].pc = "idle" /\ call'[c].pc = "touch"
         /\ \A d \in Callers : d # c => call'[d] = call[d]
  <1>1. [pc |-> "touch", restart |-> FALSE, arg |-> None, up |-> FALSE] \in CallType
    BY DEF CallType, WorkSteps
  <1> QED
    BY <1>1, BecomeType DEF Start, Invoke, Idle

LEMMA StopPc ==
  ASSUME TypeOK, NEW c \in Callers, Stop(c)
  PROVE  /\ call[c].pc = "idle" /\ call'[c].pc = "kill"
         /\ \A d \in Callers : d # c => call'[d] = call[d]
  <1>1. [pc |-> "kill", restart |-> FALSE, arg |-> None, up |-> FALSE] \in CallType
    BY DEF CallType, WorkSteps
  <1> QED
    BY <1>1, BecomeType DEF Stop, Invoke, Idle

LEMMA RestartPc ==
  ASSUME TypeOK, NEW c \in Callers, NEW n \in Nodes \cup {None}, Restart(c, n)
  PROVE  /\ call[c].pc = "idle" /\ call'[c].pc = "test"
         /\ \A d \in Callers : d # c => call'[d] = call[d]
  <1>1. [pc |-> "test", restart |-> TRUE, arg |-> n, up |-> FALSE] \in CallType
    BY DEF CallType, WorkSteps
  <1> QED
    BY <1>1, BecomeType DEF Restart, Invoke, Idle

(* An invocation that goes on with its work keeps the lock. *)
LEMMA WorkingKeepsLocks ==
  ASSUME Locks, NEW c \in Callers, call[c].pc # "flush", Working(c)',
         \A d \in Callers : d # c => call'[d] = call[d],
         UNCHANGED <<updlock, helpers>>
  PROVE  Locks'
  <1>1. NoCron'
    BY DEF Locks, NoCron, helpers
  <1>2. UpdateLockOwned'
    BY DEF Locks, UpdateLockOwned, helpers
  <1>3. LockOwned'
    BY DEF LockOwned
  <1> QED
    BY <1>1, <1>2, <1>3 DEF Locks

(* So does a call that is not at work yet, or the end of one that was not. *)
LEMMA BystanderKeepsLocks ==
  ASSUME Locks, NEW c \in Callers, ~Working(c),
         \A d \in Callers : d # c => call'[d] = call[d],
         UNCHANGED <<files, helpers>>
  PROVE  Locks'
  <1>1. \A d \in Callers : (Working(d) => Working(d)') /\ (call[d].pc = "flush" => call'[d].pc = "flush")
    BY DEF Working, WorkSteps
  <1>2. NoCron'
    BY DEF Locks, NoCron, helpers
  <1>3. UpdateLockOwned'
    BY <1>1 DEF Locks, UpdateLockOwned, files, helpers
  <1>4. LockOwned'
    BY <1>1 DEF Locks, LockOwned, files, helpers
  <1> QED
    BY <1>2, <1>3, <1>4 DEF Locks

(* The lock is handed over and never left behind. *)
LEMMA StepLock ==
  ASSUME TypeOK, Locks, [Next]_vars
  PROVE  Locks'
  <1> SUFFICES ASSUME MaxCronUpdates = 0 PROVE Locks'
    BY DEF Locks, NoCron, UpdateLockOwned, LockOwned
  <1>1. ASSUME NEW c \in Callers, RestartTest(c) PROVE Locks'
    BY <1>1, ExitPc, GotoPc, BystanderKeepsLocks DEF RestartTest, Working, WorkSteps
  <1>2. ASSUME NEW c \in Callers, RestartGrab(c) PROVE Locks'
    BY <1>2, GotoPc, WorkingKeepsLocks DEF RestartGrab, Working, WorkSteps, files
  <1>3. ASSUME NEW c \in Callers, StopKill(c) PROVE Locks'
    BY <1>3, GotoPc
    DEF StopKill, TypeOK, HelpersOK, Updates, WorkSteps, files, helpers, Locks, NoCron,
        UpdateLockOwned, LockOwned, Working
  <1>4. ASSUME NEW c \in Callers, StopFlush(c) PROVE Locks'
    BY <1>4, GotoPc
    DEF StopFlush, WorkSteps, files, helpers, Locks, NoCron, UpdateLockOwned, LockOwned, Working
  <1>5. ASSUME NEW c \in Callers, StopDrop(c) PROVE Locks'
    BY <1>5, ExitPc
    DEF StopDrop, WorkSteps, files, helpers, Locks, NoCron, UpdateLockOwned, LockOwned, Working
  <1>6. ASSUME NEW c \in Callers, StartTouch(c) PROVE Locks'
    BY <1>6, GotoPc, WorkingKeepsLocks DEF StartTouch, Working, WorkSteps, files
  <1>7. ASSUME NEW c \in Callers, RulesRunning(c) PROVE Locks'
    BY <1>7, GotoPc, WorkingKeepsLocks DEF RulesRunning, Working, WorkSteps, files
  <1>8. ASSUME NEW c \in Callers, RulesNoNetwork(c) PROVE Locks'
    BY <1>8, ExitPc
    DEF RulesNoNetwork, TypeOK, HelpersOK, Updates, WorkSteps, files, helpers, Locks, NoCron,
        UpdateLockOwned, LockOwned, Working
  <1>9. ASSUME NEW c \in Callers, RulesNoLists(c) PROVE Locks'
    BY <1>9, ExitPc
    DEF RulesNoLists, TypeOK, HelpersOK, Updates, WorkSteps, files, helpers, Locks, NoCron,
        UpdateLockOwned, LockOwned, Working
  <1>10. ASSUME NEW c \in Callers, RulesUnresolved(c) PROVE Locks'
    BY <1>10, GotoPc, WorkingKeepsLocks DEF RulesUnresolved, Working, WorkSteps, files
  <1>11. ASSUME NEW c \in Callers, RulesOk(c) PROVE Locks'
    BY <1>11, GotoPc, WorkingKeepsLocks DEF RulesOk, Working, WorkSteps, files
  <1>12. ASSUME NEW c \in Callers, StartTcpFails(c) PROVE Locks'
    BY <1>12, GotoPc, WorkingKeepsLocks DEF StartTcpFails, Working, WorkSteps, files
  <1>13. ASSUME NEW c \in Callers, StartTcp(c) PROVE Locks'
    <2>1. [call[c] EXCEPT !.pc = "dns", !.up = TRUE] \in CallType
      BY DEF TypeOK, CallsOK, CallType, WorkSteps
    <2>2. /\ call'[c] = [call[c] EXCEPT !.pc = "dns", !.up = TRUE]
          /\ \A d \in Callers : d # c => call'[d] = call[d]
      BY <1>13, <2>1, BecomeType DEF StartTcp
    <2>3. call'[c].pc = "dns"
      BY <2>2 DEF TypeOK, CallsOK, CallType
    <2> QED
      BY <1>13, <2>2, <2>3, WorkingKeepsLocks DEF StartTcp, Working, WorkSteps, files
  <1>14. ASSUME NEW c \in Callers, StartDns(c) PROVE Locks'
    BY <1>14, GotoPc, WorkingKeepsLocks DEF StartDns, Working, WorkSteps, files
  <1>15. ASSUME NEW c \in Callers, StartSwitch(c) PROVE Locks'
    BY <1>15, GotoPc, WorkingKeepsLocks DEF StartSwitch, Working, WorkSteps, files
  <1>16. ASSUME NEW c \in Callers, StartMonitor(c) PROVE Locks'
    BY <1>16, GotoPc, WorkingKeepsLocks DEF StartMonitor, Working, WorkSteps, files
  <1>17. ASSUME NEW c \in Callers, StartEnd(c) PROVE Locks'
    BY <1>17, ExitPc
    DEF StartEnd, WorkSteps, files, helpers, Locks, NoCron, UpdateLockOwned, LockOwned, Working
  <1>18. ASSUME MonitorRestart PROVE Locks'
    BY <1>18, RestartPc, BystanderKeepsLocks
    DEF MonitorRestart, Working, WorkSteps, Callers
  <1>19. ASSUME MonitorResume PROVE Locks'
    BY <1>19
    DEF MonitorResume, calls, files, helpers, Locks, NoCron, UpdateLockOwned, LockOwned, Working
  <1>20. ASSUME MonitorDns PROVE Locks'
    BY <1>20
    DEF MonitorDns, calls, files, helpers, Locks, NoCron, UpdateLockOwned, LockOwned, Working
  <1>21. ASSUME SwitchRestart PROVE Locks'
    BY <1>21, RestartPc, BystanderKeepsLocks
    DEF SwitchRestart, Working, WorkSteps, Callers
  <1>22. ASSUME CheckNetwork PROVE Locks'
    BY <1>22, StartPc
    DEF CheckNetwork, TypeOK, HelpersOK, Updates, Callers, MaxChecks, WorkSteps, calls,
        files, helpers, Locks, NoCron, UpdateLockOwned, LockOwned, Working
  <1>23. ASSUME CronStarts PROVE Locks'
    BY <1>23
    DEF CronStarts, UpdateGoto, Happens, Bound, Events, CountsOK, TypeOK, HelpersOK, Updates,
        calls, files, helpers, Locks, NoCron, UpdateLockOwned, LockOwned, Working
  <1>24. ASSUME UpdateApply PROVE Locks'
    BY <1>24, RestartPc
    DEF UpdateApply, UpdateGoto, TypeOK, HelpersOK, Updates, Callers, WorkSteps, files,
        helpers, Locks, NoCron, UpdateLockOwned, LockOwned, Working
  <1>25. ASSUME UpdateResume PROVE Locks'
    BY <1>25
    DEF UpdateResume, UpdateGoto, TypeOK, HelpersOK, Updates, calls, files, helpers, Locks,
        NoCron, UpdateLockOwned, LockOwned, Working
  <1>26. ASSUME Command PROVE Locks'
    BY <1>26, StartPc, StopPc, RestartPc, BystanderKeepsLocks
    DEF Command, Working, WorkSteps, Callers
  <1>27. ASSUME NetDown PROVE Locks'
    BY <1>27
    DEF NetDown, calls, files, helpers, Locks, NoCron, UpdateLockOwned, LockOwned, Working
  <1>28. ASSUME NetUp PROVE Locks'
    BY <1>28
    DEF NetUp, calls, files, helpers, Locks, NoCron, UpdateLockOwned, LockOwned, Working
  <1>29. ASSUME Crash PROVE Locks'
    BY <1>29
    DEF Crash, calls, files, helpers, Locks, NoCron, UpdateLockOwned, LockOwned, Working
  <1>30. ASSUME NEW u \in Updates, UpdateTest(u) PROVE Locks'
    BY <1>30
    DEF UpdateTest, UpdateGoto, TypeOK, HelpersOK, Updates, calls, WorkSteps, files, helpers,
        Locks, NoCron, UpdateLockOwned, LockOwned, Working
  <1>31. ASSUME NEW u \in Updates, UpdateTouch(u) PROVE Locks'
    BY <1>31
    DEF UpdateTouch, UpdateGoto, TypeOK, HelpersOK, Updates, calls, files, helpers, Locks,
        NoCron, UpdateLockOwned, LockOwned, Working
  <1>32. ASSUME NEW u \in Updates, UpdateFails(u) PROVE Locks'
    BY <1>32
    DEF UpdateFails, UpdateGoto, TypeOK, HelpersOK, Updates, calls, files, helpers, Locks,
        NoCron, UpdateLockOwned, LockOwned, Working
  <1>33. ASSUME NEW u \in Updates, UpdateFetched(u) PROVE Locks'
    BY <1>33
    DEF UpdateFetched, UpdateGoto, TypeOK, HelpersOK, Updates, calls, files, helpers, Locks,
        NoCron, UpdateLockOwned, LockOwned, Working
  <1>34. ASSUME NEW u \in Updates, UpdateEnd(u) PROVE Locks'
    BY <1>34, StartPc
    DEF UpdateEnd, UpdateGoto, TypeOK, HelpersOK, Updates, Callers, WorkSteps, calls, files,
        helpers, Locks, NoCron, UpdateLockOwned, LockOwned, Working
  <1>35. CASE UNCHANGED vars
    BY <1>35 DEF vars, Locks, NoCron, UpdateLockOwned, LockOwned, Working
  <1> QED
    BY <1>1, <1>2, <1>3, <1>4, <1>5, <1>6, <1>7, <1>8, <1>9, <1>10, <1>11, <1>12, <1>13,
        <1>14, <1>15, <1>16, <1>17, <1>18, <1>19, <1>20, <1>21, <1>22, <1>23, <1>24, <1>25,
            <1>26, <1>27, <1>28, <1>29, <1>30, <1>31, <1>32, <1>33, <1>34, <1>35
       DEF Next, Invocation, UpdateStep

-----------------------------------------------------------------------------
(* One invocation at a time. *)

LEMMA GotoSerial ==
  ASSUME TypeOK, Serial, NEW c \in Callers, NEW step \in WorkSteps \cup {"grab"},
         Goto(c, step)
  PROVE  /\ Serial'
         /\ ~overlap' => ~overlap
         /\ ~overlap' /\ step \in WorkSteps => \A d \in Callers : d # c => ~Working(d)
  <1>1. /\ [call[c] EXCEPT !.pc = step] \in CallType
        /\ [call[c] EXCEPT !.pc = step].pc = step
    BY DEF TypeOK, CallsOK, CallType
  <1> QED
    BY <1>1, BecomeSerial DEF Goto

LEMMA ExitSerial ==
  ASSUME TypeOK, Serial, NEW c \in Callers, Exit(c)
  PROVE  Serial' /\ (~overlap' => ~overlap)
  <1>1. Idle \in CallType
    BY NodesAssumption DEF Idle, CallType
  <1> QED
    BY <1>1, BecomeSerial DEF Exit

LEMMA InvokeSerial ==
  ASSUME TypeOK, Serial, NEW c \in Callers,
         \/ Start(c) \/ Stop(c) \/ \E n \in Nodes \cup {None} : Restart(c, n)
  PROVE  Serial' /\ (~overlap' => ~overlap)
  <1>1. CASE Start(c)
    <2>1. [pc |-> "touch", restart |-> FALSE, arg |-> None, up |-> FALSE] \in CallType
      BY DEF CallType, WorkSteps
    <2> QED
      BY <1>1, <2>1, BecomeSerial DEF Start, Invoke
  <1>2. CASE Stop(c)
    <2>1. [pc |-> "kill", restart |-> FALSE, arg |-> None, up |-> FALSE] \in CallType
      BY DEF CallType, WorkSteps
    <2> QED
      BY <1>2, <2>1, BecomeSerial DEF Stop, Invoke
  <1>3. ASSUME NEW n \in Nodes \cup {None}, Restart(c, n)
        PROVE  Serial' /\ (~overlap' => ~overlap)
    <2>1. [pc |-> "test", restart |-> TRUE, arg |-> n, up |-> FALSE] \in CallType
      BY DEF CallType, WorkSteps
    <2> QED
      BY <1>3, <2>1, BecomeSerial DEF Restart, Invoke
  <1> QED
    BY <1>1, <1>2, <1>3

(* A call or a return that leaves the service alone. *)
LEMMA CallKeepsPhase ==
  ASSUME Phase, ~overlap' => ~overlap, NEW c \in Callers,
         call[c].pc # "dns", call'[c].pc \in {"idle", "test", "grab", "kill", "touch"},
         \A d \in Callers : d # c => call'[d] = call[d],
         UNCHANGED service
  PROVE  Phase'
  <1> SUFFICES ASSUME ~overlap' PROVE RedirectorPhase' /\ DnsPhase'
    BY DEF Phase
  <1>1. RedirectorPhase'
    BY DEF Phase, RedirectorPhase, ServerOf, service
  <1>2. DnsPhase'
    BY DEF Phase, DnsPhase, service
  <1> QED
    BY <1>1, <1>2

(* A lone invocation finds what its earlier steps left. *)
LEMMA StepPhase ==
  ASSUME TypeOK, Serial, Phase, [Next]_vars
  PROVE  Serial' /\ Phase'
  <1>1. ASSUME NEW c \in Callers, RestartTest(c) PROVE Serial' /\ Phase'
    <2>1. Serial' /\ (~overlap' => ~overlap)
      BY <1>1, ExitSerial, GotoSerial DEF RestartTest
    <2>2. /\ call'[c].pc \in {"idle", "grab"}
          /\ \A d \in Callers : d # c => call'[d] = call[d]
      BY <1>1, ExitPc, GotoPc DEF RestartTest
    <2>3. ASSUME ~overlap' PROVE RedirectorPhase'
      BY <1>1, <2>1, <2>2, <2>3 DEF RestartTest, Phase, RedirectorPhase, ServerOf, service
    <2>4. ASSUME ~overlap' PROVE DnsPhase'
      BY <1>1, <2>1, <2>2, <2>4 DEF RestartTest, Phase, DnsPhase, service
    <2> QED
      BY <2>1, <2>3, <2>4 DEF Phase
  <1>2. ASSUME NEW c \in Callers, RestartGrab(c) PROVE Serial' /\ Phase'
    <2>1. Serial' /\ (~overlap' => ~overlap)
      BY <1>2, GotoSerial DEF RestartGrab, WorkSteps
    <2>2. /\ call'[c].pc = "kill"
          /\ call'[c].arg = call[c].arg
          /\ \A d \in Callers : d # c => call'[d] = call[d]
      BY <1>2, GotoPc DEF RestartGrab, WorkSteps
    <2>3. ASSUME ~overlap' PROVE \A d \in Callers : d # c => ~Working(d)
      BY <1>2, <2>3, GotoSerial DEF RestartGrab, WorkSteps
    <2>4. ASSUME ~overlap' PROVE RedirectorPhase'
      BY <1>2, <2>1, <2>2, <2>3, <2>4 DEF RestartGrab, Phase, RedirectorPhase, ServerOf,
          Working, WorkSteps, service
    <2>5. ASSUME ~overlap' PROVE DnsPhase'
      BY <1>2, <2>1, <2>2, <2>3, <2>5 DEF RestartGrab, Phase, RedirectorPhase, DnsPhase,
          Working, WorkSteps, service
    <2> QED
      BY <2>1, <2>4, <2>5 DEF Phase
  <1>3. ASSUME NEW c \in Callers, StopKill(c) PROVE Serial' /\ Phase'
    <2>1. Serial' /\ (~overlap' => ~overlap)
      BY <1>3, GotoSerial DEF StopKill, WorkSteps
    <2>2. /\ call'[c].pc = "flush"
          /\ call'[c].arg = call[c].arg
          /\ \A d \in Callers : d # c => call'[d] = call[d]
      BY <1>3, GotoPc DEF StopKill, WorkSteps
    <2>3. ASSUME ~overlap' PROVE \A d \in Callers : d # c => ~Working(d)
      BY <1>3, <2>3, GotoSerial DEF StopKill, WorkSteps
    <2>4. ASSUME ~overlap' PROVE RedirectorPhase'
      BY <1>3, <2>1, <2>2, <2>3, <2>4 DEF StopKill, Phase, RedirectorPhase, ServerOf,
          Working, WorkSteps, service
    <2>5. ASSUME ~overlap' PROVE DnsPhase'
      BY <1>3, <2>1, <2>2, <2>3, <2>5 DEF StopKill, Phase, RedirectorPhase, DnsPhase,
          Working, WorkSteps, service
    <2> QED
      BY <2>1, <2>4, <2>5 DEF Phase
  <1>4. ASSUME NEW c \in Callers, StopFlush(c) PROVE Serial' /\ Phase'
    <2>1. Serial' /\ (~overlap' => ~overlap)
      BY <1>4, GotoSerial DEF StopFlush, WorkSteps
    <2>2. /\ call'[c].pc \in {"touch", "drop"} /\ (call'[c].pc = "drop" => ~call[c].restart)
          /\ call'[c].arg = call[c].arg
          /\ \A d \in Callers : d # c => call'[d] = call[d]
      BY <1>4, GotoPc DEF StopFlush, WorkSteps
    <2>3. ASSUME ~overlap' PROVE \A d \in Callers : d # c => ~Working(d)
      BY <1>4, <2>3, GotoSerial DEF StopFlush, WorkSteps
    <2>4. ASSUME ~overlap' PROVE RedirectorPhase'
      BY <1>4, <2>1, <2>2, <2>3, <2>4 DEF StopFlush, Phase, RedirectorPhase, ServerOf,
          Working, WorkSteps, service
    <2>5. ASSUME ~overlap' PROVE DnsPhase'
      BY <1>4, <2>1, <2>2, <2>3, <2>5 DEF StopFlush, Phase, RedirectorPhase, DnsPhase,
          Working, WorkSteps, service
    <2> QED
      BY <2>1, <2>4, <2>5 DEF Phase
  <1>5. ASSUME NEW c \in Callers, StopDrop(c) PROVE Serial' /\ Phase'
    <2>1. Serial' /\ (~overlap' => ~overlap)
      BY <1>5, ExitSerial DEF StopDrop
    <2>2. call'[c].pc = "idle" /\ \A d \in Callers : d # c => call'[d] = call[d]
      BY <1>5, ExitPc DEF StopDrop
    <2>3. ASSUME ~overlap' PROVE \A d \in Callers : d # c => ~Working(d)
      BY <1>5, <2>1, <2>3 DEF StopDrop, Serial, Working, WorkSteps
    <2>4. ASSUME ~overlap' PROVE tcp = {}
      BY <1>5, <2>1, <2>4 DEF StopDrop, Phase, DnsPhase, RedirectorPhase
    <2>5. ASSUME ~overlap' PROVE RedirectorPhase'
      BY <1>5, <2>1, <2>2, <2>3, <2>5 DEF StopDrop, Phase, RedirectorPhase, ServerOf,
          Working, WorkSteps
    <2>6. ASSUME ~overlap' PROVE DnsPhase'
      BY <1>5, <2>1, <2>2, <2>3, <2>4, <2>6 DEF StopDrop, Phase, DnsPhase, Working, WorkSteps
    <2> QED
      BY <2>1, <2>5, <2>6 DEF Phase
  <1>6. ASSUME NEW c \in Callers, StartTouch(c) PROVE Serial' /\ Phase'
    <2>1. Serial' /\ (~overlap' => ~overlap)
      BY <1>6, GotoSerial DEF StartTouch, WorkSteps
    <2>2. /\ call'[c].pc = "rules"
          /\ call'[c].arg = call[c].arg
          /\ \A d \in Callers : d # c => call'[d] = call[d]
      BY <1>6, GotoPc DEF StartTouch, WorkSteps
    <2>3. ASSUME ~overlap' PROVE \A d \in Callers : d # c => ~Working(d)
      BY <1>6, <2>3, GotoSerial DEF StartTouch, WorkSteps
    <2>4. ASSUME ~overlap' PROVE RedirectorPhase'
      BY <1>6, <2>1, <2>2, <2>3, <2>4 DEF StartTouch, Phase, RedirectorPhase, ServerOf,
          Working, WorkSteps, service
    <2>5. ASSUME ~overlap' PROVE DnsPhase'
      BY <1>6, <2>1, <2>2, <2>3, <2>5 DEF StartTouch, Phase, RedirectorPhase, DnsPhase,
          Working, WorkSteps, service
    <2> QED
      BY <2>1, <2>4, <2>5 DEF Phase
  <1>7. ASSUME NEW c \in Callers, RulesRunning(c) PROVE Serial' /\ Phase'
    <2>1. Serial' /\ (~overlap' => ~overlap)
      BY <1>7, GotoSerial DEF RulesRunning, WorkSteps
    <2>2. /\ call'[c].pc = "monitor"
          /\ call'[c].arg = call[c].arg
          /\ \A d \in Callers : d # c => call'[d] = call[d]
      BY <1>7, GotoPc DEF RulesRunning, WorkSteps
    <2>3. ASSUME ~overlap' PROVE \A d \in Callers : d # c => ~Working(d)
      BY <1>7, <2>3, GotoSerial DEF RulesRunning, WorkSteps
    <2>4. ASSUME ~overlap' PROVE RedirectorPhase'
      BY <1>7, <2>1, <2>2, <2>3, <2>4 DEF RulesRunning, Phase, RedirectorPhase, ServerOf,
          Working, WorkSteps, service
    <2>5. ASSUME ~overlap' PROVE DnsPhase'
      BY <1>7, <2>1, <2>2, <2>3, <2>5 DEF RulesRunning, Phase, RedirectorPhase, DnsPhase,
          Working, WorkSteps, service
    <2> QED
      BY <2>1, <2>4, <2>5 DEF Phase
  <1>8. ASSUME NEW c \in Callers, RulesNoNetwork(c) PROVE Serial' /\ Phase'
    <2>1. Serial' /\ (~overlap' => ~overlap)
      BY <1>8, ExitSerial DEF RulesNoNetwork
    <2>2. Phase'
      BY <1>8, <2>1, ExitPc, CallKeepsPhase DEF RulesNoNetwork
    <2> QED
      BY <2>1, <2>2
  <1>9. ASSUME NEW c \in Callers, RulesNoLists(c) PROVE Serial' /\ Phase'
    <2>1. Serial' /\ (~overlap' => ~overlap)
      BY <1>9, ExitSerial DEF RulesNoLists
    <2>2. Phase'
      BY <1>9, <2>1, ExitPc, CallKeepsPhase DEF RulesNoLists
    <2> QED
      BY <2>1, <2>2
  <1>10. ASSUME NEW c \in Callers, RulesUnresolved(c) PROVE Serial' /\ Phase'
    <2>1. Serial' /\ (~overlap' => ~overlap)
      BY <1>10, GotoSerial DEF RulesUnresolved, WorkSteps
    <2>2. /\ call'[c].pc = "monitor"
          /\ call'[c].arg = call[c].arg
          /\ \A d \in Callers : d # c => call'[d] = call[d]
      BY <1>10, GotoPc DEF RulesUnresolved, WorkSteps
    <2>3. ASSUME ~overlap' PROVE \A d \in Callers : d # c => ~Working(d)
      BY <1>10, <2>3, GotoSerial DEF RulesUnresolved, WorkSteps
    <2>4. ASSUME ~overlap' PROVE RedirectorPhase'
      BY <1>10, <2>1, <2>2, <2>3, <2>4 DEF RulesUnresolved, Phase, RedirectorPhase, ServerOf,
          Working, WorkSteps, service
    <2>5. ASSUME ~overlap' PROVE DnsPhase'
      BY <1>10, <2>1, <2>2, <2>3, <2>5 DEF RulesUnresolved, Phase, RedirectorPhase, DnsPhase,
          Working, WorkSteps, service
    <2> QED
      BY <2>1, <2>4, <2>5 DEF Phase
  <1>11. ASSUME NEW c \in Callers, RulesOk(c) PROVE Serial' /\ Phase'
    <2>1. Serial' /\ (~overlap' => ~overlap)
      BY <1>11, GotoSerial DEF RulesOk, WorkSteps
    <2>2. /\ call'[c].pc = "tcp"
          /\ call'[c].arg = call[c].arg
          /\ \A d \in Callers : d # c => call'[d] = call[d]
      BY <1>11, GotoPc DEF RulesOk, WorkSteps
    <2>3. ASSUME ~overlap' PROVE \A d \in Callers : d # c => ~Working(d)
      BY <1>11, <2>3, GotoSerial DEF RulesOk, WorkSteps
    <2>4. ASSUME ~overlap' PROVE RedirectorPhase'
      BY <1>11, <2>1, <2>2, <2>3, <2>4 DEF RulesOk, Phase, RedirectorPhase, ServerOf,
          Working, WorkSteps, service
    <2>5. ASSUME ~overlap' PROVE DnsPhase'
      BY <1>11, <2>1, <2>2, <2>3, <2>5 DEF RulesOk, Phase, RedirectorPhase, DnsPhase,
          Working, WorkSteps, service
    <2> QED
      BY <2>1, <2>4, <2>5 DEF Phase
  <1>12. ASSUME NEW c \in Callers, StartTcpFails(c) PROVE Serial' /\ Phase'
    <2>1. Serial' /\ (~overlap' => ~overlap)
      BY <1>12, GotoSerial DEF StartTcpFails, WorkSteps
    <2>2. /\ call'[c].pc = "monitor"
          /\ call'[c].arg = call[c].arg
          /\ \A d \in Callers : d # c => call'[d] = call[d]
      BY <1>12, GotoPc DEF StartTcpFails, WorkSteps
    <2>3. ASSUME ~overlap' PROVE \A d \in Callers : d # c => ~Working(d)
      BY <1>12, <2>3, GotoSerial DEF StartTcpFails, WorkSteps
    <2>4. ASSUME ~overlap' PROVE RedirectorPhase'
      BY <1>12, <2>1, <2>2, <2>3, <2>4 DEF StartTcpFails, Phase, RedirectorPhase, ServerOf,
          Working, WorkSteps, service
    <2>5. ASSUME ~overlap' PROVE DnsPhase'
      BY <1>12, <2>1, <2>2, <2>3, <2>5 DEF StartTcpFails, Phase, RedirectorPhase, DnsPhase,
          Working, WorkSteps, service
    <2> QED
      BY <2>1, <2>4, <2>5 DEF Phase
  <1>13. ASSUME NEW c \in Callers, StartTcp(c) PROVE Serial' /\ Phase'
    <2>1. [call[c] EXCEPT !.pc = "dns", !.up = TRUE] \in CallType
      BY DEF TypeOK, CallsOK, CallType, WorkSteps
    <2>2. /\ call'[c] = [call[c] EXCEPT !.pc = "dns", !.up = TRUE]
          /\ \A d \in Callers : d # c => call'[d] = call[d]
      BY <1>13, <2>1, BecomeType DEF StartTcp
    <2>3. call'[c].pc = "dns"
      BY <2>2 DEF TypeOK, CallsOK, CallType
    <2>4. Serial' /\ (~overlap' => ~overlap)
      BY <1>13, <2>1, BecomeSerial DEF StartTcp
    <2>5. Phase'
      BY <1>13, <2>2, <2>3, <2>4 DEF StartTcp, Serial, Phase, RedirectorPhase, DnsPhase,
          ServerOf, Working, WorkSteps, calls, files, service
    <2> QED
      BY <2>4, <2>5
  <1>14. ASSUME NEW c \in Callers, StartDns(c) PROVE Serial' /\ Phase'
    <2>1. Serial' /\ (~overlap' => ~overlap)
      BY <1>14, GotoSerial DEF StartDns, WorkSteps
    <2>2. /\ call'[c].pc = "switch"
          /\ call'[c].arg = call[c].arg
          /\ \A d \in Callers : d # c => call'[d] = call[d]
      BY <1>14, GotoPc DEF StartDns, WorkSteps
    <2>3. ASSUME ~overlap' PROVE \A d \in Callers : d # c => ~Working(d)
      BY <1>14, <2>3, GotoSerial DEF StartDns, WorkSteps
    <2>4. ASSUME ~overlap' PROVE RedirectorPhase'
      BY <1>14, <2>1, <2>2, <2>3, <2>4 DEF StartDns, Phase, RedirectorPhase, ServerOf,
          Working, WorkSteps, service
    <2>5. ASSUME ~overlap' PROVE DnsPhase'
      BY <1>14, <2>1, <2>2, <2>3, <2>5 DEF StartDns, Phase, RedirectorPhase, DnsPhase,
          Working, WorkSteps, service
    <2> QED
      BY <2>1, <2>4, <2>5 DEF Phase
  <1>15. ASSUME NEW c \in Callers, StartSwitch(c) PROVE Serial' /\ Phase'
    <2>1. Serial' /\ (~overlap' => ~overlap)
      BY <1>15, GotoSerial DEF StartSwitch, WorkSteps
    <2>2. /\ call'[c].pc = "monitor"
          /\ call'[c].arg = call[c].arg
          /\ \A d \in Callers : d # c => call'[d] = call[d]
      BY <1>15, GotoPc DEF StartSwitch, WorkSteps
    <2>3. ASSUME ~overlap' PROVE \A d \in Callers : d # c => ~Working(d)
      BY <1>15, <2>3, GotoSerial DEF StartSwitch, WorkSteps
    <2>4. ASSUME ~overlap' PROVE RedirectorPhase'
      BY <1>15, <2>1, <2>2, <2>3, <2>4 DEF StartSwitch, Phase, RedirectorPhase, ServerOf,
          Working, WorkSteps, service
    <2>5. ASSUME ~overlap' PROVE DnsPhase'
      BY <1>15, <2>1, <2>2, <2>3, <2>5 DEF StartSwitch, Phase, RedirectorPhase, DnsPhase,
          Working, WorkSteps, service
    <2> QED
      BY <2>1, <2>4, <2>5 DEF Phase
  <1>16. ASSUME NEW c \in Callers, StartMonitor(c) PROVE Serial' /\ Phase'
    <2>1. Serial' /\ (~overlap' => ~overlap)
      BY <1>16, GotoSerial DEF StartMonitor, WorkSteps
    <2>2. /\ call'[c].pc = "end"
          /\ call'[c].arg = call[c].arg
          /\ \A d \in Callers : d # c => call'[d] = call[d]
      BY <1>16, GotoPc DEF StartMonitor, WorkSteps
    <2>3. ASSUME ~overlap' PROVE \A d \in Callers : d # c => ~Working(d)
      BY <1>16, <2>3, GotoSerial DEF StartMonitor, WorkSteps
    <2>4. ASSUME ~overlap' PROVE RedirectorPhase'
      BY <1>16, <2>1, <2>2, <2>3, <2>4 DEF StartMonitor, Phase, RedirectorPhase, ServerOf,
          Working, WorkSteps, service
    <2>5. ASSUME ~overlap' PROVE DnsPhase'
      BY <1>16, <2>1, <2>2, <2>3, <2>5 DEF StartMonitor, Phase, RedirectorPhase, DnsPhase,
          Working, WorkSteps, service
    <2> QED
      BY <2>1, <2>4, <2>5 DEF Phase
  <1>17. ASSUME NEW c \in Callers, StartEnd(c) PROVE Serial' /\ Phase'
    <2>1. Serial' /\ (~overlap' => ~overlap)
      BY <1>17, ExitSerial DEF StartEnd
    <2>2. Phase'
      BY <1>17, <2>1, ExitPc, CallKeepsPhase DEF StartEnd
    <2> QED
      BY <2>1, <2>2
  <1>18. ASSUME MonitorRestart PROVE Serial' /\ Phase'
    <2>1. Serial' /\ (~overlap' => ~overlap)
      BY <1>18, InvokeSerial DEF MonitorRestart, Callers
    <2>2. /\ call["monitor"].pc = "idle" /\ call'["monitor"].pc = "test"
          /\ \A d \in Callers : d # "monitor" => call'[d] = call[d]
      BY <1>18, RestartPc DEF MonitorRestart, Callers
    <2>3. ASSUME ~overlap' PROVE RedirectorPhase'
      BY <1>18, <2>1, <2>2, <2>3 DEF MonitorRestart, Phase, RedirectorPhase, ServerOf
    <2>4. ASSUME ~overlap' PROVE DnsPhase'
      BY <1>18, <2>1, <2>2, <2>4 DEF MonitorRestart, Phase, DnsPhase
    <2> QED
      BY <2>1, <2>3, <2>4 DEF Phase
  <1>19. ASSUME MonitorResume PROVE Serial' /\ Phase'
    BY <1>19 DEF MonitorResume, Serial, Working, Phase, RedirectorPhase, DnsPhase, ServerOf,
        calls, service
  <1>20. ASSUME MonitorDns PROVE Serial' /\ Phase'
    BY <1>20 DEF MonitorDns, Serial, Working, Phase, RedirectorPhase, DnsPhase, ServerOf,
        calls, service
  <1>21. ASSUME SwitchRestart PROVE Serial' /\ Phase'
    <2>1. Serial' /\ (~overlap' => ~overlap)
      BY <1>21, InvokeSerial DEF SwitchRestart, Callers
    <2>2. Phase'
      BY <1>21, <2>1, RestartPc, CallKeepsPhase DEF SwitchRestart, Callers
    <2> QED
      BY <2>1, <2>2
  <1>22. ASSUME CheckNetwork PROVE Serial' /\ Phase'
    <2>1. UNCHANGED service /\ (Start("check") \/ UNCHANGED calls)
      BY <1>22 DEF CheckNetwork
    <2>2. CASE Start("check")
      <3>1. Serial' /\ (~overlap' => ~overlap)
        BY <2>2, InvokeSerial DEF Callers
      <3>2. Phase'
        BY <2>1, <2>2, <3>1, StartPc, CallKeepsPhase DEF Callers
      <3> QED
        BY <3>1, <3>2
    <2>3. CASE UNCHANGED calls
      BY <2>1, <2>3 DEF Serial, Working, Phase, RedirectorPhase, DnsPhase, ServerOf, service,
          calls
    <2> QED
      BY <2>1, <2>2, <2>3
  <1>23. ASSUME CronStarts PROVE Serial' /\ Phase'
    BY <1>23 DEF CronStarts, Serial, Working, Phase, RedirectorPhase, DnsPhase, ServerOf,
        calls, service
  <1>24. ASSUME UpdateApply PROVE Serial' /\ Phase'
    <2>1. Serial' /\ (~overlap' => ~overlap)
      BY <1>24, InvokeSerial DEF UpdateApply, Callers
    <2>2. Phase'
      BY <1>24, <2>1, RestartPc, CallKeepsPhase DEF UpdateApply, Callers
    <2> QED
      BY <2>1, <2>2
  <1>25. ASSUME UpdateResume PROVE Serial' /\ Phase'
    BY <1>25 DEF UpdateResume, Serial, Working, Phase, RedirectorPhase, DnsPhase, ServerOf,
        calls, service
  <1>26. ASSUME Command PROVE Serial' /\ Phase'
    <2>1. Serial' /\ (~overlap' => ~overlap)
      BY <1>26, InvokeSerial DEF Command, Callers
    <2>2. Phase'
      BY <1>26, <2>1, StartPc, StopPc, RestartPc, CallKeepsPhase DEF Command, Callers
    <2> QED
      BY <2>1, <2>2
  <1>27. ASSUME NetDown PROVE Serial' /\ Phase'
    BY <1>27 DEF NetDown, Serial, Working, Phase, RedirectorPhase, DnsPhase, ServerOf, calls,
        service
  <1>28. ASSUME NetUp PROVE Serial' /\ Phase'
    BY <1>28 DEF NetUp, Serial, Working, Phase, RedirectorPhase, DnsPhase, ServerOf, calls,
        service
  <1>29. ASSUME Crash PROVE Serial' /\ Phase'
    BY <1>29 DEF Crash, Serial, Working, Phase, RedirectorPhase, DnsPhase, ServerOf, calls,
        service
  <1>30. ASSUME NEW u \in Updates, UpdateTest(u) PROVE Serial' /\ Phase'
    BY <1>30 DEF UpdateTest, Serial, Working, Phase, RedirectorPhase, DnsPhase, ServerOf,
        calls, service
  <1>31. ASSUME NEW u \in Updates, UpdateTouch(u) PROVE Serial' /\ Phase'
    BY <1>31 DEF UpdateTouch, Serial, Working, Phase, RedirectorPhase, DnsPhase, ServerOf,
        calls, service
  <1>32. ASSUME NEW u \in Updates, UpdateFails(u) PROVE Serial' /\ Phase'
    BY <1>32 DEF UpdateFails, Serial, Working, Phase, RedirectorPhase, DnsPhase, ServerOf,
        calls, service
  <1>33. ASSUME NEW u \in Updates, UpdateFetched(u) PROVE Serial' /\ Phase'
    BY <1>33 DEF UpdateFetched, Serial, Working, Phase, RedirectorPhase, DnsPhase, ServerOf,
        calls, service
  <1>34. ASSUME NEW u \in Updates, UpdateEnd(u) PROVE Serial' /\ Phase'
    <2>1. UNCHANGED service /\ (Start("first") \/ UNCHANGED calls)
      BY <1>34 DEF UpdateEnd
    <2>2. CASE Start("first")
      <3>1. Serial' /\ (~overlap' => ~overlap)
        BY <2>2, InvokeSerial DEF Callers
      <3>2. Phase'
        BY <2>1, <2>2, <3>1, StartPc, CallKeepsPhase DEF Callers
      <3> QED
        BY <3>1, <3>2
    <2>3. CASE UNCHANGED calls
      BY <2>1, <2>3 DEF Serial, Working, Phase, RedirectorPhase, DnsPhase, ServerOf, service,
          calls
    <2> QED
      BY <2>1, <2>2, <2>3
  <1>35. CASE UNCHANGED vars
    BY <1>35 DEF vars, Serial, Working, Phase, RedirectorPhase, DnsPhase, ServerOf
  <1> QED
    BY <1>1, <1>2, <1>3, <1>4, <1>5, <1>6, <1>7, <1>8, <1>9, <1>10, <1>11, <1>12, <1>13,
        <1>14, <1>15, <1>16, <1>17, <1>18, <1>19, <1>20, <1>21, <1>22, <1>23, <1>24, <1>25,
            <1>26, <1>27, <1>28, <1>29, <1>30, <1>31, <1>32, <1>33, <1>34, <1>35
       DEF Next, Invocation, UpdateStep

-----------------------------------------------------------------------------
(* Theorems. *)

LEMMA InitInv == Init => IInv
  <1> SUFFICES ASSUME Init PROVE IInv
    OBVIOUS
  <1>1. Idle \in CallType /\ Idle.pc = "idle"
    BY NodesAssumption DEF Idle, CallType
  <1>2. TypeOK
    <2>1. CallsOK
      BY <1>1 DEF Init, CallsOK
    <2>2. FilesOK /\ CountsOK
      BY DEF Init, FilesOK, CountsOK
    <2>3. ServiceOK
      BY DEF Init, ServiceOK
    <2>4. HelpersOK
      BY DEF Init, HelpersOK, MaxChecks
    <2> QED
      BY <2>1, <2>2, <2>3, <2>4 DEF Init, TypeOK
  <1>3. \A c \in Callers : call[c].pc = "idle"
    BY <1>1 DEF Init
  <1>4. Locks
    BY DEF Init, Locks, NoCron, UpdateLockOwned, LockOwned, Updates
  <1>5. Serial /\ Phase
    BY <1>3 DEF Init, Serial, Phase, RedirectorPhase, DnsPhase, Working, WorkSteps
  <1> QED
    BY <1>2, <1>4, <1>5 DEF IInv

(* Every reachable state of the control plane satisfies the inductive      *)
(* invariant: types, lock ownership and the phases of a lone invocation.   *)
THEOREM Invariant == Spec => []IInv
  <1>1. Init => IInv
    BY InitInv
  <1>2. IInv /\ [Next]_vars => IInv'
    BY StepType, StepLock, StepPhase DEF IInv
  <1> QED
    BY <1>1, <1>2, PTL DEF Spec

(* Redirectors and firewall rules only ever exist for configured nodes. *)
THEOREM TypeCorrect == Spec => []TypeOK
  BY Invariant, PTL DEF IInv

(* Without cron updates the lock that refuses restarts always has an owner *)
(* that will release it (start, firstdown, checknetwork, update).          *)
THEOREM LockAlwaysOwned == Spec => []LockOwned
  BY Invariant, PTL DEF IInv, Locks

(* As long as invocations have not overlapped, the firewall redirects to   *)
(* the one redirector that runs, and DNS is not left in its fallback.      *)
THEOREM AlwaysConsistent == Spec => []Consistent
  <1>1. IInv => Consistent
    <2> SUFFICES ASSUME IInv, ~overlap
                 PROVE  /\ tcp = {} \/ tcp = {fw}
                        /\ Quiet /\ tcp # {} => dns # "fallback"
      BY DEF Consistent
    <2>1. RedirectorPhase /\ DnsPhase
      BY DEF IInv, Phase
    <2>2. Quiet => \A c \in Callers : call[c].pc # "dns"
      BY DEF Quiet, Idle
    <2> QED
      BY <2>1, <2>2 DEF RedirectorPhase, DnsPhase
  <1> QED
    BY <1>1, Invariant, PTL
=============================================================================
