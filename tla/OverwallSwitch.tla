-------------------------- MODULE OverwallSwitch --------------------------
(***************************************************************************)
(* The switch daemon of luci-app-overwall (usr/share/overwall/switch): it  *)
(* watches the node in service, moves the service to another node when it  *)
(* fails, and back to the main node when that one answers again.           *)
(*                                                                         *)
(* Nodes are the indices of the "servers" sections of the configuration.   *)
(* A node that is up resolves, answers tcping and lets curl through; one   *)
(* that is not fails at any of these.  Health changes while the daemon     *)
(* probes.  The shell has one scope: select_proxy's loop variable i is     *)
(* overwritten by get_ip and curl_check, so that "c=$i" stores curl's exit *)
(* code 0 and not the index of the node.                                   *)
(***************************************************************************)
EXTENDS Naturals, FiniteSets

CONSTANTS
  N,           \* number of servers sections
  Main,        \* SERVER_A, the index of global_server
  Enabled,     \* nodes with switch_enable = 1
  Shunts,      \* nodes whose addresses the firewall rules always exempt
  MayRefuse,   \* TRUE if a restart may find overwall.lock and exit
  MaxChanges   \* bound on the changes of health of the nodes and the network

Nodes == 1..N

ASSUME SwitchAssumption ==
  /\ N \in Nat \ {0} /\ Main \in Nodes
  /\ Enabled \subseteq Nodes /\ Main \in Enabled /\ Shunts \subseteq Nodes
  /\ MayRefuse \in BOOLEAN /\ MaxChanges \in Nat

VARIABLES
  pc,        \* "loop", "test", "check", "select", "probe", "probed", "restart" or "retry"
  SERVER_B,  \* the node the daemon believes in service
  SERVER_C,  \* the node select_proxy found, or 0
  c, i,      \* where select_proxy starts, and its loop variable
  acl,       \* nodes in the ipset over_wan_ac (reached without the proxy)
  added,     \* the probe in progress added its node to acl
  active,    \* the node in service
  up, net,   \* health of the nodes and of the network
  changes,   \* changes of health so far
  good,      \* history: nodes that were up all through the present scan
  refused    \* history: a restart has found overwall.lock

daemon == <<pc, SERVER_B, SERVER_C, c, i>>
world == <<up, net, changes>>
vars == <<pc, SERVER_B, SERVER_C, c, i, acl, added, active, up, net, changes, good, refused>>

(* What the rules script puts into over_wan_ac when node n is in service: the *)
(* other shunt nodes.  Node n itself has a RETURN rule of its own.            *)
BaseAcl(n) == Shunts \ {n}

Init ==
  /\ pc = "loop" /\ SERVER_B = Main /\ SERVER_C = 0 /\ c = 1 /\ i = 0
  /\ active = Main /\ acl = BaseAcl(Main) /\ added = FALSE
  /\ up = [n \in Nodes |-> TRUE] /\ net = TRUE /\ changes = 0
  /\ good = {} /\ refused = FALSE

-----------------------------------------------------------------------------
(* ipset add before a probe, and ipset del after it if the add did something. *)
Exempt(n) == added' = (n \notin acl) /\ acl' = acl \cup {n}
Restore(n) == acl' = (IF added THEN acl \ {n} ELSE acl) /\ added' = FALSE

(* The top of the loop: away from the main node, probe it; else check. *)
Loop ==
  /\ pc = "loop"
  /\ \/ SERVER_B # Main /\ pc' = "test" /\ Exempt(Main)
     \/ /\ SERVER_B = Main \/ ~up[Main]         \* get_ip failed
        /\ pc' = "check" /\ UNCHANGED <<acl, added>>
  /\ UNCHANGED <<SERVER_B, SERVER_C, c, i, active, world, good, refused>>

(* Mutant: the main node is noted as the current one, without a restart. *)
TestMainNoRestart ==
  /\ pc = "test"
  /\ Restore(Main)
  /\ SERVER_B' = IF up[Main] THEN Main ELSE SERVER_B
  /\ pc' = "check"
  /\ UNCHANGED <<SERVER_C, c, i, active, world, good, refused>>

(* test_proxy of the main node. *)
TestMain ==
  /\ pc = "test"
  /\ Restore(Main)
  /\ IF up[Main] THEN SERVER_B' = Main /\ pc' = "restart"
                 ELSE UNCHANGED SERVER_B /\ pc' = "check"
  /\ UNCHANGED <<SERVER_C, c, i, active, world, good, refused>>

(* check_proxy: through the node in service; without a network do nothing. *)
Check ==
  /\ pc = "check"
  /\ pc' = IF net /\ ~up[active] THEN "select" ELSE "loop"
  /\ UNCHANGED <<SERVER_B, SERVER_C, c, i, acl, added, active, world, good, refused>>

Select ==
  /\ pc = "select"
  /\ SERVER_C' = 0
  /\ c' = IF c >= N THEN 1 ELSE c
  /\ i' = c'
  /\ good' = {n \in Nodes : up[n]}
  /\ pc' = "probe"
  /\ UNCHANGED <<SERVER_B, acl, added, active, world, refused>>

(* Index 0 names no section: its address is empty, get_ip fails, it is skipped. *)
Candidate(n) == n \in Enabled \ {SERVER_B}

Skip ==
  /\ pc = "probe" /\ i <= N
  /\ Candidate(i) => ~up[i]
  /\ i' = i + 1
  /\ UNCHANGED <<pc, SERVER_B, SERVER_C, c, acl, added, active, world, good, refused>>

Probe ==
  /\ pc = "probe" /\ i <= N /\ Candidate(i)
  /\ Exempt(i)
  /\ pc' = "probed"
  /\ UNCHANGED <<SERVER_B, SERVER_C, c, i, active, world, good, refused>>

(* Mutant: the loop variable is local, c remembers the node. *)
ProbedRemembersIndex ==
  /\ pc = "probed"
  /\ Restore(i)
  /\ IF up[i]
       THEN SERVER_C' = i /\ SERVER_B' = i /\ c' = i /\ pc' = "restart" /\ UNCHANGED i
       ELSE i' = i + 1 /\ pc' = "probe" /\ UNCHANGED <<SERVER_C, SERVER_B, c>>
  /\ UNCHANGED <<active, world, good, refused>>

(* Mutant: the exemption of a node that was tried is always deleted. *)
ProbedAlwaysDeletes ==
  /\ pc = "probed"
  /\ acl' = acl \ {i} /\ added' = FALSE
  /\ IF up[i]
       THEN SERVER_C' = i /\ SERVER_B' = i /\ c' = 0 /\ pc' = "restart" /\ UNCHANGED i
       ELSE i' = i + 1 /\ pc' = "probe" /\ UNCHANGED <<SERVER_C, SERVER_B, c>>
  /\ UNCHANGED <<active, world, good, refused>>

(* The first node that lets curl through is taken; c becomes 0 (see above). *)
Probed ==
  /\ pc = "probed"
  /\ Restore(i)
  /\ IF up[i]
       THEN SERVER_C' = i /\ SERVER_B' = i /\ c' = 0 /\ pc' = "restart" /\ UNCHANGED i
       ELSE i' = i + 1 /\ pc' = "probe" /\ UNCHANGED <<SERVER_C, SERVER_B, c>>
  /\ UNCHANGED <<active, world, good, refused>>

(* "No server available.Try restart current server." *)
NoServer ==
  /\ pc = "probe" /\ i > N
  /\ pc' = "retry"
  /\ UNCHANGED <<SERVER_B, SERVER_C, c, i, acl, added, active, world, good, refused>>

(* switch_proxy: the restart rebuilds the rules, or is refused. *)
SwitchProxy ==
  /\ pc \in {"restart", "retry"}
  /\ \/ active' = SERVER_B /\ acl' = BaseAcl(active') /\ UNCHANGED refused
     \/ MayRefuse /\ refused' = TRUE /\ UNCHANGED <<active, acl>>
  /\ pc' = "loop"
  /\ UNCHANGED <<SERVER_B, SERVER_C, c, i, added, world, good>>

Daemon == Loop \/ TestMain \/ Check \/ Select \/ Skip \/ Probe \/ Probed \/ NoServer
          \/ SwitchProxy

(* The environment: a node or the network fails or recovers. *)
NodeChanges ==
  /\ changes < MaxChanges /\ changes' = changes + 1
  /\ \E n \in Nodes : up' = [up EXCEPT ![n] = ~@]
  /\ good' = {n \in good : up'[n]}
  /\ UNCHANGED <<daemon, acl, added, active, net, refused>>

NetChanges ==
  /\ changes < MaxChanges /\ changes' = changes + 1
  /\ net' = ~net
  /\ UNCHANGED <<daemon, acl, added, active, up, good, refused>>

Next == Daemon \/ NodeChanges \/ NetChanges

Spec == Init /\ [][Next]_vars

(* The daemon loops for ever; every probe has a timeout. *)
FairSpec == Spec /\ WF_vars(Daemon)

-----------------------------------------------------------------------------
(* Properties. *)

(* The type invariant: the scan of select_proxy stays within the list. *)
TypeOK ==
  /\ pc \in {"loop", "test", "check", "select", "probe", "probed", "restart", "retry"}
  /\ SERVER_B \in Nodes /\ SERVER_C \in 0..N
  /\ c \in 0..N /\ i \in 0..(N + 1)
  /\ acl \in SUBSET Nodes /\ added \in BOOLEAN
  /\ active \in Nodes /\ up \in [Nodes -> BOOLEAN] /\ net \in BOOLEAN
  /\ changes \in Nat /\ good \in SUBSET Nodes /\ refused \in BOOLEAN

(* When select_proxy gives up ("No server available", switch 246), no node *)
(* with switch_enable other than the current one had been up all along.    *)
NoServerMeansNone ==
  pc = "retry" => good \cap (Enabled \ {SERVER_B}) = {}

(* Outside a probe, exactly the addresses that the rules of the node in    *)
(* service exempt are exempt: test_proxy and select_proxy undo what they   *)
(* added and nothing else, even to a node that was exempt before.          *)
AclRestored == pc \notin {"test", "probed"} => acl = BaseAcl(active)

(* If the main node and the network stay up, the service returns to the    *)
(* main node for good (switch 225-236).  After a restart that was refused  *)
(* it may not: SERVER_B is set before the restart and says "main" already. *)
MainRegained ==
  []~refused => (<>[](net /\ up[Main]) => <>[](active = Main))

(* If some node with switch_enable and the network stay up and restarts    *)
(* are not refused, the service is on a node that is up again and again    *)
(* (switch 237-249).                                                       *)
FindsNode ==
  []~refused => \A n \in Enabled : <>[](net /\ up[n]) => []<>up[active]
=============================================================================
