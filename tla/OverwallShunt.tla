---------------------------- MODULE OverwallShunt ----------------------------
(***************************************************************************)
(* How an invocation of /etc/init.d/overwall decides which node carries    *)
(* which service (rules 286-309), which port each redirector gets          *)
(* (325-459) and into which ipset the addresses of a service go            *)
(* (shunt_rules).                                                          *)
(*                                                                         *)
(* Four services may have a node of their own: Youtube (yb), Netflix (nf), *)
(* custom (cu) and Telegram (tg).  A service on the main node or on the    *)
(* node of another service shares its redirector.  The names that fail to  *)
(* resolve end the invocation and are part of Overwall.                    *)
(***************************************************************************)
EXTENDS Naturals

CONSTANTS
  Nodes,    \* the nodes of the configuration that have a server address
  Main,     \* GLOBAL_SERVER
  Stale,    \* configured values that name no node (deleted, or "nil")
  Modes,    \* values of run_mode tried
  Relays,   \* values of UDP_RELAY_SERVER tried, after "same" is replaced
  Types,    \* nodes that may be of type trojan
  Ports,    \* values of local_port tried
  None      \* the empty string

Services == {"yb", "nf", "cu", "tg"}
Redirectors == Services \cup {"main", "udp"}

ASSUME ShuntAssumption ==
  /\ Main \in Nodes /\ Stale \cap Nodes = {} /\ None \notin Nodes \cup Redirectors
  /\ Modes \subseteq {"router", "gfw", "all", "oversea"}
  /\ Relays \subseteq Nodes \cup {None} /\ Types \subseteq Nodes
  /\ Ports \subseteq Nat \ {0}

VARIABLES
  run_mode, conf, relay, trojan, lport,  \* the configuration
  pc,       \* the next step: "read", "share1" .. "share6", "udp", a service, "sets" or "done"
  server,   \* YB_SERVER, NF_SERVER, CU_SERVER, TG_SERVER
  gl,       \* services with YB_GL, NF_GL, CU_GL or TG_GL set
  same,     \* NF_YB, CU_YB, CU_NF, TG_YB, TG_NF, TG_CU: the service shared, or None
  port,     \* the port of each redirector, 0 if it has none
  ipsets    \* where the addresses of each service were added

config == <<run_mode, conf, relay, trojan, lport>>
vars == <<run_mode, conf, relay, trojan, lport, pc, server, gl, same, port, ipsets>>

Init ==
  /\ run_mode \in Modes
  /\ conf \in [Services -> Nodes \cup Stale \cup {None}]
  /\ relay \in Relays /\ trojan \in SUBSET Types
  /\ lport \in [Nodes -> Ports]
  /\ pc = "read"
  /\ server = [s \in Services |-> None] /\ gl = {}
  /\ same = [s \in Services |-> None]
  /\ port = [r \in Redirectors |-> 0]
  /\ ipsets = [s \in Services |-> {}]

-----------------------------------------------------------------------------
(***************************************************************************)
(* The values of the configuration.  A service on the main node, or on a   *)
(* node that does not exist, has no node of its own.  TG_IP is not set yet *)
(* when line 302 looks at it: TG_GL survives in gfw mode only.             *)
(***************************************************************************)
Read ==
  /\ pc = "read" /\ pc' = "share1"
  /\ IF run_mode = "oversea"
       THEN UNCHANGED <<server, gl>>
       ELSE /\ server' = [s \in Services |-> IF conf[s] \in Nodes \ {Main}
                                               THEN conf[s] ELSE None]
            /\ gl' = {s \in Services : conf[s] = Main /\ (s = "tg" => run_mode = "gfw")}
  /\ UNCHANGED <<config, same, port, ipsets>>

(* Mutant: the tests do not look whether the first service has a node. *)
ShareEmpty(step, a, b, next) ==
  /\ pc = step /\ pc' = next
  /\ IF server[b] = server[a]
       THEN same' = [same EXCEPT ![b] = a] /\ server' = [server EXCEPT ![b] = None]
       ELSE UNCHANGED <<same, server>>
  /\ UNCHANGED <<config, gl, port, ipsets>>

(* One of the six tests of lines 304-309: b is on the node of a. *)
Share(step, a, b, next) ==
  /\ pc = step /\ pc' = next
  /\ IF server[a] # None /\ server[b] = server[a]
       THEN same' = [same EXCEPT ![b] = a] /\ server' = [server EXCEPT ![b] = None]
       ELSE UNCHANGED <<same, server>>
  /\ UNCHANGED <<config, gl, port, ipsets>>

Shares ==
  \/ Share("share1", "yb", "nf", "share2")
  \/ Share("share2", "yb", "cu", "share3")
  \/ Share("share3", "nf", "cu", "share4")
  \/ Share("share4", "yb", "tg", "share5")
  \/ Share("share5", "nf", "tg", "share6")
  \/ Share("share6", "cu", "tg", "udp")

(* The ports of the main redirector and of the UDP relay. *)
UdpPort ==
  LET main == lport[Main]
      own  == IF relay = None THEN 0 ELSE lport[relay]
      both == relay # None /\ {Main, relay} \cap trojan # {} /\ own = main
  IN  /\ pc = "udp" /\ pc' = "yb"
      /\ port' = [port EXCEPT !["main"] = main,
                              !["udp"] = IF both THEN main + 1 ELSE own]
      /\ UNCHANGED <<config, server, gl, same, ipsets>>

(* [ $p = $q ] && let p=p+1; a port that is not set equals none. *)
Bump(p, q) == IF p = q THEN p + 1 ELSE p

(* Mutant: the ports given to earlier services are not looked at. *)
PortOfMainOnly(s) ==
  LET p == Bump(lport[server[s]], port["main"])
  IN  IF {relay, server[s]} \cap trojan # {} THEN Bump(p, port["udp"]) ELSE p

(* The port of service s, after those of the services before it. *)
PortOf(s) ==
  LET p == Bump(lport[server[s]], port["main"])
      q == IF {relay, server[s]} \cap trojan # {} THEN Bump(p, port["udp"]) ELSE p
  IN  Bump(Bump(Bump(q, port["yb"]), port["nf"]), port["cu"])

ShuntPort(s, next) ==
  /\ pc = s /\ pc' = next
  /\ port' = IF server[s] = None THEN port ELSE [port EXCEPT ![s] = PortOf(s)]
  /\ UNCHANGED <<config, server, gl, same, ipsets>>

ShuntPorts ==
  ShuntPort("yb", "nf") \/ ShuntPort("nf", "cu") \/ ShuntPort("cu", "tg")
    \/ ShuntPort("tg", "sets")

(* The ipsets to which the addresses of s are added; "main" is blacklist. *)
IpsetsOf(s) ==
  {r \in Services \cup {"main"} : \/ r = s /\ server[s] # None
                                  \/ r = "main" /\ s \in gl
                                  \/ r = same[s]}

ShuntRules ==
  /\ pc = "sets" /\ pc' = "done"
  /\ ipsets' = [s \in Services |-> IpsetsOf(s)]
  /\ UNCHANGED <<config, server, gl, same, port>>

Next == Read \/ Shares \/ UdpPort \/ ShuntPorts \/ ShuntRules

Spec == Init /\ [][Next]_vars

-----------------------------------------------------------------------------
(* Properties. *)

TypeOK ==
  /\ run_mode \in Modes /\ conf \in [Services -> Nodes \cup Stale \cup {None}]
  /\ relay \in Relays /\ trojan \in SUBSET Types /\ lport \in [Nodes -> Ports]
  /\ pc \in {"read", "share1", "share2", "share3", "share4", "share5", "share6",
             "udp", "sets", "done"} \cup Services
  /\ server \in [Services -> (Nodes \ {Main}) \cup {None}]
  /\ gl \in SUBSET Services
  /\ same \in [Services -> Services \cup {None}]
  /\ port \in [Redirectors -> Nat]
  /\ ipsets \in [Services -> SUBSET (Services \cup {"main"})]

(* The node behind an ipset: the one its redirector was started for. *)
NodeOf(r) == IF r = "main" THEN Main ELSE server[r]

(* Services that line 302 leaves to the rules of the run mode. *)
Unlisted(s) == s = "tg" /\ conf[s] = Main /\ run_mode # "gfw"

(* However the services share nodes, the addresses of a service whose node *)
(* exists go into exactly one ipset, and the redirector behind it is the   *)
(* one of the configured node (rules 293-309, shunt_rules): no chain of    *)
(* "same as" flags ends at a service that has given up its own node.       *)
RoutesKept ==
  pc = "done" /\ run_mode # "oversea" =>
    \A s \in Services :
      IF conf[s] \in Nodes /\ ~Unlisted(s)
        THEN \E r \in Services \cup {"main"} : ipsets[s] = {r} /\ NodeOf(r) = conf[s]
        ELSE ipsets[s] = {}

(* Once the sharing is worked out no two redirectors are started for one   *)
(* node (start_yb, start_nf, start_cu, start_tg after rules 304-309).      *)
OneRedirector ==
  pc \in Services \cup {"udp", "sets", "done"} =>
    \A s, t \in Services : server[s] # None /\ server[s] = server[t] => s = t

(* Two redirectors clash if they listen on one port: those of the services *)
(* and of the main node use TCP, the UDP relay clashes with a redirector   *)
(* if one of the two is a trojan, which uses both.                         *)
TcpClash(r, q) == r # q /\ port[r] # 0 /\ port[r] = port[q]
UdpClash(r) ==
  port["udp"] # 0 /\ port["udp"] = port[r] /\ {relay, NodeOf(r)} \cap trojan # {}

(* Every node has the default local_port, and it is not the case that the  *)
(* main node is a trojan and the UDP relay another node that is not.       *)
DefaultPorts ==
  /\ \A m, n \in Nodes : lport[m] = lport[n]
  /\ relay = None \/ relay \in trojan \/ Main \notin trojan

(* The ports, moved apart by one comparison after the other in a fixed     *)
(* order (rules 325-459), leave no two redirectors that clash, whatever    *)
(* services have nodes of their own and whatever the types of these nodes. *)
PortsDistinct ==
  pc = "done" /\ DefaultPorts =>
    \A r \in Services \cup {"main"} :
      ~UdpClash(r) /\ \A q \in Services \cup {"main"} : ~TcpClash(r, q)
=============================================================================
