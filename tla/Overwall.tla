------------------------------ MODULE Overwall ------------------------------
(***************************************************************************)
(* The control plane of luci-app-overwall: the invocations of the init     *)
(* script /etc/init.d/overwall, the helpers that call it (monitor, switch, *)
(* update, checknetwork) and the lock files between them.                  *)
(*                                                                         *)
(* An invocation of the init script is a process.  Each caller has a slot  *)
(* in Calls for the invocation it made last; a caller that finds its slot  *)
(* busy makes its next invocation later.  The steps of an invocation are   *)
(* the parts between which other processes can see or undo its work.       *)
(*                                                                         *)
(* The configuration has a main node and rules are downloaded as a whole   *)
(* (lists).  What the redirector, the firewall and the DNS servers do with *)
(* traffic is not modelled: tcp, fw and dns say which of them run.         *)
(***************************************************************************)
EXTENDS Naturals, FiniteSets

CONSTANTS
  Nodes,          \* the configured proxy nodes
  Main,           \* global_server
  None,           \* no node
  MonitorEnabled, \* global.monitor_enable
  SwitchEnabled,  \* global.enable_switch and the main node's switch_enable
  Resolves,       \* FALSE if the address of a node may fail to resolve
  Installed,      \* FALSE if the program of a node may be missing
  Downloads,      \* FALSE if a download may fail
  MaxCommands,    \* bounds: start, stop and restart commands of the user,
  MaxOutages,     \* times the network goes down,
  MaxCrashes,     \* times the redirector or the DNS server dies,
  MaxSwitches,    \* restarts by the switch daemon,
  MaxCronUpdates  \* updates run by cron; 0 if auto_update is off

ASSUME NodesAssumption == Main \in Nodes /\ None \notin Nodes
ASSUME FlagsAssumption ==
  /\ {MonitorEnabled, SwitchEnabled, Resolves, Installed, Downloads} \subseteq BOOLEAN
  /\ {MaxCommands, MaxOutages, MaxCrashes, MaxSwitches, MaxCronUpdates} \subseteq Nat

VARIABLES
  call,      \* the init-script invocation of each caller
  loc,       \* /var/lock/overwall.lock exists
  updlock,   \* /var/lock/overwall-update.lock exists
  lists,     \* the rule lists are in /tmp/overwall
  tcp,       \* nodes for which an overwall-tcp redirector runs
  fw,        \* node the firewall redirects to, or None
  dns,       \* what smartdns serves: "off", "fallback" or "full"
  dnsconf,   \* content of smartdns.conf: "none", "fallback" or "full"
  monitor,   \* "off", "watch", "wait" for its restart, or "blind"
  switch,    \* the switch daemon runs
  update,    \* pc of the update processes: "first" (--First) and "cron"
  check,     \* number of checknetwork processes
  net,       \* the network is up
  count,     \* how often each of the Events has happened
  wanted,    \* history: the last command of the user was not stop
  overlap    \* history: two invocations have worked at the same time

calls == <<call, overlap>>
files == <<loc, updlock, lists>>
service == <<tcp, fw, dns, dnsconf, monitor, switch>>
helpers == <<update, check>>
counts == <<count, wanted>>
vars == <<call, loc, updlock, lists, tcp, fw, dns, dnsconf, monitor, switch,
          update, check, net, count, wanted, overlap>>

Callers == {"user", "monitor", "switch", "cron", "first", "check"}
Updates == {"first", "cron"}
MaxChecks == 2    \* bound on the checknetwork processes alive

(* What happens at most Bound[e] times. *)
Bound == [command |-> MaxCommands, outage |-> MaxOutages, crash |-> MaxCrashes,
          switch |-> MaxSwitches, cron |-> MaxCronUpdates]
Events == DOMAIN Bound

Idle == [pc |-> "idle", restart |-> FALSE, arg |-> None, up |-> FALSE]

(* The steps at which an invocation changes the service. *)
WorkSteps == {"kill", "flush", "drop", "touch", "rules", "tcp", "dns", "switch",
              "monitor", "end"}
CallType == [pc : {"idle", "test", "grab"} \cup WorkSteps, restart : BOOLEAN,
             arg : Nodes \cup {None}, up : BOOLEAN]
Working(c) == call[c].pc \in WorkSteps

Init ==
  /\ call = [c \in Callers |-> Idle]
  /\ loc = FALSE /\ updlock = FALSE /\ lists = FALSE
  /\ tcp = {} /\ fw = None /\ dns = "off" /\ dnsconf = "none"
  /\ monitor = "off" /\ switch = FALSE
  /\ update = [u \in Updates |-> "off"] /\ check = 0
  /\ net \in BOOLEAN
  /\ count = [e \in Events |-> 0]
  /\ wanted = FALSE /\ overlap = FALSE

Happens(e) == count[e] < Bound[e] /\ count' = [count EXCEPT ![e] = @ + 1]

-----------------------------------------------------------------------------
(* Invocations. *)

(* Caller c's invocation becomes i; overlap records a second one at work. *)
Become(c, i) ==
  /\ call' = [call EXCEPT ![c] = i]
  /\ overlap' = (overlap \/ (i.pc \in WorkSteps /\ \E d \in Callers \ {c} : Working(d)))

Goto(c, step) == Become(c, [call[c] EXCEPT !.pc = step])
Exit(c) == Become(c, Idle)

Invoke(c, step, restart, arg) ==
  /\ call[c] = Idle
  /\ Become(c, [pc |-> step, restart |-> restart, arg |-> arg, up |-> FALSE])

Start(c)        == Invoke(c, "touch", FALSE, None)
Stop(c)         == Invoke(c, "kill", FALSE, None)
Restart(c, arg) == Invoke(c, "test", TRUE, arg)

(* GLOBAL_SERVER of an invocation: the argument of a switch, or the main node. *)
ServerOf(c) == IF call[c].arg = None THEN Main ELSE call[c].arg

(* restart: refused while the lock file is there ... *)
RestartTest(c) ==
  /\ call[c].pc = "test"
  /\ IF loc THEN Exit(c) ELSE Goto(c, "grab")
  /\ UNCHANGED <<files, service, helpers, net, counts>>

(* ... which it creates in another step. *)
RestartGrab(c) ==
  /\ call[c].pc = "grab"
  /\ loc' = TRUE
  /\ Goto(c, "kill")
  /\ UNCHANGED <<updlock, lists, service, helpers, net, counts>>

(***************************************************************************)
(* stop kills by name.  The pattern "$BIN_DIR/[^switch]" is a character    *)
(* class: it spares every script whose name starts with one of s, w, i, t, *)
(* c, h, checknetwork among them, and it matches monitor and update.  The  *)
(* switch daemon is killed unless it is the caller.                        *)
(***************************************************************************)
StopKill(c) ==
  /\ call[c].pc = "kill"
  /\ monitor' = "off"
  /\ update' = [u \in Updates |-> "off"]
  /\ switch' = (switch /\ call[c].arg # None)
  /\ tcp' = {} /\ dns' = "off"
  /\ Goto(c, "flush")
  /\ UNCHANGED <<files, fw, dnsconf, check, net, counts>>

(***************************************************************************)
(* rules -f and the removal of the temporary files, update's lock          *)
(* included.  A restart leaves a smartdns that only forwards, so that      *)
(* names resolve until start writes the full configuration.                *)
(***************************************************************************)
StopFlush(c) ==
  /\ call[c].pc = "flush"
  /\ fw' = None /\ updlock' = FALSE
  /\ Goto(c, IF call[c].restart THEN "touch" ELSE "drop")
  /\ IF call[c].restart /\ dnsconf # "none"
       THEN dns' = "fallback" /\ dnsconf' = "fallback"
       ELSE UNCHANGED <<dns, dnsconf>>
  /\ UNCHANGED <<loc, lists, tcp, monitor, switch, helpers, net, counts>>

(* A plain stop forgets the lists and removes the lock, whoever made it. *)
StopDrop(c) ==
  /\ call[c].pc = "drop"
  /\ lists' = FALSE /\ dnsconf' = "none" /\ loc' = FALSE
  /\ Exit(c)
  /\ UNCHANGED <<updlock, tcp, fw, dns, monitor, switch, helpers, net, counts>>

StartTouch(c) ==
  /\ call[c].pc = "touch"
  /\ loc' = TRUE
  /\ Goto(c, "rules")
  /\ UNCHANGED <<updlock, lists, service, helpers, net, counts>>

(***************************************************************************)
(* rules.  Without a network, or without the lists, the invocation hands   *)
(* over to checknetwork or to update --First and exits; its lock stays     *)
(* behind for them.  An update --First that finds one at work exits on its *)
(* lock.                                                                   *)
(***************************************************************************)
RulesRunning(c) ==
  /\ call[c].pc = "rules" /\ tcp # {}
  /\ Goto(c, "monitor")
  /\ UNCHANGED <<files, service, helpers, net, counts>>

RulesNoNetwork(c) ==
  /\ call[c].pc = "rules" /\ tcp = {} /\ ~net
  /\ check < MaxChecks /\ check' = check + 1
  /\ Exit(c)
  /\ UNCHANGED <<files, service, update, net, counts>>

RulesNoLists(c) ==
  /\ call[c].pc = "rules" /\ tcp = {} /\ net /\ ~lists
  /\ update' = [update EXCEPT !["first"] = IF @ = "off" THEN "test" ELSE @]
  /\ Exit(c)
  /\ UNCHANGED <<files, service, check, net, counts>>

(* A node's address does not resolve: rules returns 1. *)
RulesUnresolved(c) ==
  /\ call[c].pc = "rules" /\ tcp = {} /\ net /\ lists /\ ~Resolves
  /\ Goto(c, "monitor")
  /\ UNCHANGED <<files, service, helpers, net, counts>>

RulesOk(c) ==
  /\ call[c].pc = "rules" /\ tcp = {} /\ net /\ lists
  /\ fw' = ServerOf(c)
  /\ Goto(c, "tcp")
  /\ UNCHANGED <<files, tcp, dns, dnsconf, monitor, switch, helpers, net, counts>>

(* start_tcp without the node's program: the firewall rules stay. *)
StartTcpFails(c) ==
  /\ call[c].pc = "tcp" /\ ~Installed
  /\ Goto(c, "monitor")
  /\ UNCHANGED <<files, service, helpers, net, counts>>

(* Mutant: start_tcp ignores the node that the switch daemon asked for. *)
StartTcpMain(c) ==
  /\ call[c].pc = "tcp"
  /\ tcp' = tcp \cup {Main}
  /\ Become(c, [call[c] EXCEPT !.pc = "dns", !.up = TRUE])
  /\ UNCHANGED <<files, fw, dns, dnsconf, monitor, switch, helpers, net, counts>>

(* start_tcp, and the redirectors of the shunt nodes that follow it. *)
StartTcp(c) ==
  /\ call[c].pc = "tcp"
  /\ tcp' = tcp \cup {ServerOf(c)}
  /\ Become(c, [call[c] EXCEPT !.pc = "dns", !.up = TRUE])
  /\ UNCHANGED <<files, fw, dns, dnsconf, monitor, switch, helpers, net, counts>>

StartDns(c) ==
  /\ call[c].pc = "dns"
  /\ dns' = "full" /\ dnsconf' = "full"
  /\ Goto(c, "switch")
  /\ UNCHANGED <<files, tcp, fw, monitor, switch, helpers, net, counts>>

(* start_switch: not when the switch daemon is the caller. *)
StartSwitch(c) ==
  /\ call[c].pc = "switch"
  /\ switch' = (switch \/ (SwitchEnabled /\ call[c].arg = None))
  /\ Goto(c, "monitor")
  /\ UNCHANGED <<files, tcp, fw, dns, dnsconf, monitor, helpers, net, counts>>

(* Mutant: a restart, which killed the monitor, does not start it again. *)
StartMonitorFirstOnly(c) ==
  /\ call[c].pc = "monitor"
  /\ monitor' = IF MonitorEnabled /\ call[c].up /\ ~call[c].restart THEN "watch" ELSE monitor
  /\ Goto(c, "end")
  /\ UNCHANGED <<files, tcp, fw, dns, dnsconf, switch, helpers, net, counts>>

(***************************************************************************)
(* start_monitor: only if this invocation started something, or was called *)
(* by the switch daemon; in the latter case the monitor may be told to     *)
(* watch nothing.                                                          *)
(***************************************************************************)
StartMonitor(c) ==
  /\ call[c].pc = "monitor"
  /\ monitor' = CASE MonitorEnabled /\ call[c].up -> "watch"
                  [] MonitorEnabled /\ ~call[c].up /\ call[c].arg # None
                       /\ monitor = "off" -> "blind"
                  [] OTHER -> monitor
  /\ Goto(c, "end")
  /\ UNCHANGED <<files, tcp, fw, dns, dnsconf, switch, helpers, net, counts>>

StartEnd(c) ==
  /\ call[c].pc = "end"
  /\ loc' = FALSE
  /\ Exit(c)
  /\ UNCHANGED <<updlock, lists, service, helpers, net, counts>>

Invocation(c) ==
  \/ RestartTest(c) \/ RestartGrab(c)
  \/ StopKill(c) \/ StopFlush(c) \/ StopDrop(c)
  \/ StartTouch(c) \/ RulesRunning(c) \/ RulesNoNetwork(c) \/ RulesNoLists(c)
  \/ RulesUnresolved(c) \/ RulesOk(c) \/ StartTcpFails(c) \/ StartTcp(c)
  \/ StartDns(c) \/ StartSwitch(c) \/ StartMonitor(c) \/ StartEnd(c)

-----------------------------------------------------------------------------
(* monitor: every 30 seconds, restart if the redirector is gone. *)
MonitorRestart ==
  /\ monitor = "watch" /\ tcp = {}
  /\ Restart("monitor", None)
  /\ monitor' = "wait"
  /\ UNCHANGED <<files, tcp, fw, dns, dnsconf, switch, helpers, net, counts>>

(* The restart was refused: it did not kill the monitor that called it. *)
MonitorResume ==
  /\ monitor = "wait" /\ call["monitor"] = Idle
  /\ monitor' = "watch"
  /\ UNCHANGED <<calls, files, tcp, fw, dns, dnsconf, switch, helpers, net, counts>>

(* A DNS server that is gone is started again without a restart. *)
MonitorDns ==
  /\ monitor = "watch" /\ dns = "off" /\ dnsconf # "none"
  /\ dns' = dnsconf
  /\ UNCHANGED <<calls, files, tcp, fw, dnsconf, monitor, switch, helpers, net, counts>>

(* switch: restart with another node, or the same. *)
SwitchRestart ==
  /\ switch /\ Happens("switch")
  /\ \E n \in Nodes : Restart("switch", n)
  /\ UNCHANGED <<files, service, helpers, net, wanted>>

(* Mutant: checknetwork leaves the download to the next start. *)
CheckNetworkNoDownload ==
  /\ check > 0 /\ net
  /\ check' = check - 1
  /\ IF lists THEN Start("check") ELSE UNCHANGED calls
  /\ UNCHANGED <<files, service, update, net, counts>>

(* checknetwork: when the network is back, update --First or start. *)
CheckNetwork ==
  /\ check > 0 /\ net
  /\ check' = check - 1
  /\ IF ~lists
       THEN /\ update' = [update EXCEPT !["first"] = IF @ = "off" THEN "test" ELSE @]
            /\ UNCHANGED calls
       ELSE Start("check") /\ UNCHANGED update
  /\ UNCHANGED <<files, service, net, counts>>

(***************************************************************************)
(* update.  The two tests and the touch are three steps.                   *)
(***************************************************************************)
UpdateGoto(u, step) == update' = [update EXCEPT ![u] = step]

CronStarts ==
  /\ update["cron"] = "off" /\ Happens("cron")
  /\ UpdateGoto("cron", "test")
  /\ UNCHANGED <<calls, files, service, check, net, wanted>>

UpdateTest(u) ==
  /\ update[u] = "test"
  /\ UpdateGoto(u, IF (u = "cron" /\ loc) \/ updlock THEN "off" ELSE "touch")
  /\ UNCHANGED <<calls, files, service, check, net, counts>>

UpdateTouch(u) ==
  /\ update[u] = "touch"
  /\ updlock' = TRUE
  /\ UpdateGoto(u, "download")
  /\ UNCHANGED <<calls, loc, lists, service, check, net, counts>>

(* clean: a failed download removes both locks. *)
UpdateFails(u) ==
  /\ update[u] = "download" /\ ~Downloads
  /\ updlock' = FALSE /\ loc' = FALSE
  /\ UpdateGoto(u, "off")
  /\ UNCHANGED <<calls, lists, service, check, net, counts>>

(* Only --First creates the directory of the lists. *)
UpdateFetched(u) ==
  /\ update[u] = "download" /\ net
  /\ lists' = (lists \/ u = "first")
  /\ \E changed \in (IF u = "cron" THEN BOOLEAN ELSE {FALSE}) :
       UpdateGoto(u, IF changed THEN "apply" ELSE "end")
  /\ UNCHANGED <<calls, loc, updlock, service, check, net, counts>>

(* The lists changed: restart, and go on only if it was refused. *)
UpdateApply ==
  /\ update["cron"] = "apply"
  /\ Restart("cron", None)
  /\ UpdateGoto("cron", "wait")
  /\ UNCHANGED <<files, service, check, net, counts>>

UpdateResume ==
  /\ update["cron"] = "wait" /\ call["cron"] = Idle
  /\ UpdateGoto("cron", "end")
  /\ UNCHANGED <<calls, files, service, check, net, counts>>

UpdateEnd(u) ==
  /\ update[u] = "end"
  /\ updlock' = FALSE
  /\ UpdateGoto(u, "off")
  /\ IF u = "first" THEN Start("first") ELSE UNCHANGED calls
  /\ UNCHANGED <<loc, lists, service, check, net, counts>>

UpdateStep(u) ==
  \/ UpdateTest(u) \/ UpdateTouch(u) \/ UpdateFails(u) \/ UpdateFetched(u)
  \/ UpdateEnd(u)

-----------------------------------------------------------------------------
(* The environment: commands of the user, boot among them; the network; crashes. *)
Command ==
  /\ Happens("command")
  /\ \/ Start("user") /\ wanted' = TRUE
     \/ Stop("user") /\ wanted' = FALSE
     \/ Restart("user", None) /\ wanted' = TRUE
  /\ UNCHANGED <<files, service, helpers, net>>

NetDown ==
  /\ net /\ Happens("outage")
  /\ net' = FALSE
  /\ UNCHANGED <<calls, files, service, helpers, wanted>>

NetUp ==
  /\ ~net /\ net' = TRUE
  /\ UNCHANGED <<calls, files, service, helpers, counts>>

Crash ==
  /\ Happens("crash")
  /\ \/ tcp # {} /\ tcp' = {} /\ UNCHANGED dns
     \/ dns # "off" /\ dns' = "off" /\ UNCHANGED tcp
  /\ UNCHANGED <<calls, files, fw, dnsconf, monitor, switch, helpers, net, wanted>>

Next ==
  \/ \E c \in Callers : Invocation(c)
  \/ MonitorRestart \/ MonitorResume \/ MonitorDns \/ SwitchRestart \/ CheckNetwork
  \/ CronStarts \/ UpdateApply \/ UpdateResume
  \/ \E u \in Updates : UpdateStep(u)
  \/ Command \/ NetDown \/ NetUp \/ Crash

Spec == Init /\ [][Next]_vars

(***************************************************************************)
(* Every process that is started runs; the monitor and checknetwork poll;  *)
(* the network comes back.  Nothing is assumed of the user, of cron, of    *)
(* the switch daemon or of crashes.                                        *)
(***************************************************************************)
Fairness ==
  /\ \A c \in Callers : WF_vars(Invocation(c))
  /\ \A u \in Updates : WF_vars(UpdateStep(u))
  /\ WF_vars(UpdateApply \/ UpdateResume)
  /\ WF_vars(MonitorRestart \/ MonitorResume) /\ WF_vars(MonitorDns)
  /\ WF_vars(CheckNetwork)
  /\ WF_vars(NetUp)

FairSpec == Spec /\ Fairness

-----------------------------------------------------------------------------
(* Properties. *)

CallsOK == call \in [Callers -> CallType] /\ overlap \in BOOLEAN
FilesOK == loc \in BOOLEAN /\ updlock \in BOOLEAN /\ lists \in BOOLEAN
ServiceOK ==
  /\ tcp \in SUBSET Nodes /\ fw \in Nodes \cup {None}
  /\ dns \in {"off", "fallback", "full"} /\ dnsconf \in {"none", "fallback", "full"}
  /\ monitor \in {"off", "watch", "wait", "blind"} /\ switch \in BOOLEAN
HelpersOK ==
  /\ update \in [Updates -> {"off", "test", "touch", "download", "apply", "wait", "end"}]
  /\ check \in 0..MaxChecks
CountsOK == count \in [Events -> Nat] /\ wanted \in BOOLEAN

(* The type invariant: in particular redirectors and firewall rules are    *)
(* only ever set up for a node of the configuration (start, 1311-1316).    *)
TypeOK == CallsOK /\ FilesOK /\ ServiceOK /\ HelpersOK /\ CountsOK /\ net \in BOOLEAN

Quiet == \A c \in Callers : call[c] = Idle

(* As long as no two invocations have worked at once, whatever the monitor,*)
(* the switch daemon, update, checknetwork and the user called, at most    *)
(* one redirector runs and it is the one of the node the firewall redirects*)
(* to; and once the invocation is done smartdns does not serve the         *)
(* forwarding configuration that stop left for the time of a restart.      *)
Consistent ==
  ~overlap => /\ tcp = {} \/ tcp = {fw}
              /\ Quiet /\ tcp # {} => dns # "fallback"

(* Without updates by cron, /var/lock/overwall.lock never outlives those   *)
(* who will remove it: an invocation at work, a checknetwork that will call*)
(* start, or an update --First that will call start or clean (the lock is  *)
(* handed over by firstdown).  A lock without an owner makes every restart *)
(* exit at once (init.d/overwall 1372-1374).                               *)
LockOwned ==
  MaxCronUpdates = 0 /\ loc => \/ \E c \in Callers : Working(c)
                               \/ check > 0
                               \/ update["first"] # "off"

(* The lock that refuses restarts is always released, through the hand-over*)
(* to checknetwork and update --First as well (start, firstdown, update).  *)
LockReleased == loc ~> ~loc

(* If from some time on the last command of the user was not stop, the     *)
(* redirector runs again and again: a crash is noticed by the monitor, an  *)
(* outage by checknetwork, a restart refused by the lock is made up for.   *)
ServiceRecovers == <>[]wanted => []<>(tcp # {})

(* Traffic is not redirected for ever to a port where nobody listens: the  *)
(* rules of a redirector that died are removed or it is started again      *)
(* (monitor 38-44, stop, start).                                           *)
NoBlackHole == (fw # None /\ tcp = {}) ~> (fw = None \/ tcp # {})
=============================================================================
