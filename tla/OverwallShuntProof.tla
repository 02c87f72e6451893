------------------------- MODULE OverwallShuntProof -------------------------
(***************************************************************************)
(* Proofs about OverwallShunt: sharing loses no service and starts no node *)
(* twice, and the default ports are moved apart, for every configuration.  *)
(***************************************************************************)
EXTENDS OverwallShunt, TLAPS

(* The steps from a given one on. *)
AfterPorts == {"sets", "done"}
AfterUdp == Services \cup AfterPorts
From6 == {"share6", "udp"} \cup AfterUdp
From5 == {"share5"} \cup From6
From4 == {"share4"} \cup From5
From3 == {"share3"} \cup From4
From2 == {"share2"} \cup From3
From1 == {"share1"} \cup From2
Shared == {"udp"} \cup AfterUdp

(* A service has its own node, shares the one of another, or has none. *)
Own(s) == conf[s] \in Nodes \ {Main} /\ server[s] = conf[s] /\ same[s] = None
Follows(s) == /\ conf[s] \in Nodes \ {Main} /\ server[s] = None
              /\ same[s] \in Services /\ server[same[s]] = conf[s]
Without(s) == conf[s] \notin Nodes \ {Main} /\ server[s] = None /\ same[s] = None

ReadInv ==
  IF pc = "read" \/ run_mode = "oversea"
    THEN (\A s \in Services : server[s] = None /\ same[s] = None) /\ gl = {}
    ELSE /\ \A s \in Services : Own(s) \/ Follows(s) \/ Without(s)
         /\ gl = {s \in Services : conf[s] = Main /\ (s = "tg" => run_mode = "gfw")}

(* A service shares an earlier one, and no sooner than at its own tests. *)
OrderInv ==
  /\ same["yb"] = None /\ same["nf"] \in {None, "yb"}
  /\ same["cu"] \in {None, "yb", "nf"} /\ same["tg"] \in {None, "yb", "nf", "cu"}
  /\ pc = "share1" => same["nf"] = None
  /\ pc \in {"share1", "share2"} => same["cu"] = None
  /\ pc \in {"share1", "share2", "share3", "share4"} => same["tg"] = None

Apart(a, b) == server[a] # None => server[a] # server[b]

ApartInv ==
  /\ pc \in From2 => Apart("yb", "nf")
  /\ pc \in From3 => Apart("yb", "cu")
  /\ pc \in From4 => Apart("nf", "cu")
  /\ pc \in From5 => Apart("yb", "tg")
  /\ pc \in From6 => Apart("nf", "tg")
  /\ pc \in Shared => Apart("cu", "tg")

SetsInv == pc = "done" => \A s \in Services : ipsets[s] = IpsetsOf(s)

(* The first port a service can get, if all nodes have the default port. *)
First == IF port["udp"] = port["main"] + 1 THEN port["main"] + 2 ELSE port["main"] + 1

UdpInv ==
  pc \in AfterUdp /\ DefaultPorts =>
    /\ port["main"] = lport[Main] /\ port["udp"] \in {0, port["main"], port["main"] + 1}
    /\ port["udp"] = port["main"] + 1 => relay \in trojan
    /\ port["udp"] = port["main"] => relay \notin trojan /\ Main \notin trojan
    /\ port["udp"] = 0 => relay = None

PortInv ==
  /\ pc \notin AfterUdp => \A r \in Redirectors : port[r] = 0
  /\ pc = "yb" => port["yb"] = 0
  /\ pc \in {"yb", "nf"} => port["nf"] = 0
  /\ pc \in {"yb", "nf", "cu"} => port["cu"] = 0
  /\ pc \in {"yb", "nf", "cu", "tg"} => port["tg"] = 0
  /\ pc \in AfterUdp /\ DefaultPorts =>
       /\ port["yb"] \in {0, First}
       /\ port["nf"] \in {0, Bump(First, port["yb"])}
       /\ port["cu"] \in {0, Bump(Bump(First, port["yb"]), port["nf"])}
       /\ port["tg"] \in {0, Bump(Bump(Bump(First, port["yb"]), port["nf"]), port["cu"])}

RouteInv == ReadInv /\ OrderInv /\ ApartInv /\ SetsInv
PortsInv == UdpInv /\ PortInv

-----------------------------------------------------------------------------
(* Type correctness of every step. *)
LEMMA Typing == TypeOK /\ [Next]_vars => TypeOK'
<1> SUFFICES ASSUME TypeOK, [Next]_vars PROVE TypeOK'
  OBVIOUS
<1> USE ShuntAssumption DEF TypeOK, config, Services, Redirectors
<1>1. CASE Read
  <2>1. /\ pc' = "share1" /\ UNCHANGED <<run_mode, conf, relay, trojan, lport, same, port, ipsets>>
        /\ \/ UNCHANGED <<server, gl>>
           \/ /\ server' = [s \in Services |-> IF conf[s] \in Nodes \ {Main} THEN conf[s] ELSE None]
              /\ gl' \in SUBSET Services
    BY <1>1 DEF Read
  <2>2. server' \in [Services -> (Nodes \ {Main}) \cup {None}]
    BY <2>1
  <2>3. gl' \in SUBSET Services
    BY <2>1
  <2> QED BY <2>1, <2>2, <2>3
<1>2. CASE Shares
  <2> DEFINE Tests == {"share1", "share2", "share3", "share4", "share5", "share6"}
  <2>1. PICK a \in Services, b \in Services, step \in Tests, next \in Tests \cup {"udp"} :
          Share(step, a, b, next)
    BY <1>2 DEF Shares
  <2>2. server' \in [Services -> (Nodes \ {Main}) \cup {None}]
    BY <2>1 DEF Share
  <2>3. same' \in [Services -> Services \cup {None}]
    BY <2>1 DEF Share
  <2> QED BY <2>1, <2>2, <2>3 DEF Share
<1>3. CASE UdpPort
  <2>1. lport[Main] \in Nat /\ (relay # None => lport[relay] \in Nat)
    OBVIOUS
  <2> QED BY <1>3, <2>1 DEF UdpPort
<1>4. CASE ShuntPorts
  <2>1. ASSUME NEW s \in Services, server[s] # None PROVE PortOf(s) \in Nat
    <3>1. lport[server[s]] \in Nat
      BY <2>1
    <3>2. \A p, q \in Nat : Bump(p, q) \in Nat
      BY DEF Bump
    <3> DEFINE p == Bump(lport[server[s]], port["main"])
               q == IF {relay, server[s]} \cap trojan # {} THEN Bump(p, port["udp"]) ELSE p
    <3>3. p \in Nat
      BY <3>1, <3>2
    <3>4. q \in Nat
      BY <3>2, <3>3
    <3> HIDE DEF q
    <3>5. Bump(Bump(Bump(q, port["yb"]), port["nf"]), port["cu"]) \in Nat
      BY <3>2, <3>4
    <3> QED BY <3>5 DEF PortOf, q
  <2>2. PICK s \in Services, next \in {"nf", "cu", "tg", "sets"} : ShuntPort(s, next)
    BY <1>4 DEF ShuntPorts
  <2>3. port' \in [Redirectors -> Nat]
    BY <2>1, <2>2 DEF ShuntPort
  <2> QED BY <2>2, <2>3 DEF ShuntPort
<1>5. CASE ShuntRules
  BY <1>5 DEF ShuntRules, IpsetsOf
<1>6. CASE UNCHANGED vars
  BY <1>6 DEF vars
<1> QED BY <1>1, <1>2, <1>3, <1>4, <1>5, <1>6 DEF Next

(* Line 302 and the six tests: every service stays routed. *)
LEMMA Routing == TypeOK /\ RouteInv /\ [Next]_vars => RouteInv'
<1> SUFFICES ASSUME TypeOK, RouteInv, [Next]_vars PROVE RouteInv'
  OBVIOUS
<1> USE ShuntAssumption DEF RouteInv, Services, Redirectors
<1>1. CASE Read
  <2> USE <1>1 DEF Read, config
  <2>1. ASSUME run_mode = "oversea" PROVE ReadInv'
    BY <2>1 DEF ReadInv
  <2>2. ASSUME run_mode # "oversea" PROVE ReadInv'
    <3>1. \A s \in Services : (Own(s) \/ Follows(s) \/ Without(s))'
      BY <2>2 DEF ReadInv, Own, Follows, Without
    <3> QED BY <2>2, <3>1 DEF ReadInv
  <2>3. OrderInv' /\ ApartInv' /\ SetsInv'
    BY DEF ReadInv, OrderInv, ApartInv, SetsInv, From2, From3, From4, From5, From6, Shared,
           AfterUdp, AfterPorts
  <2> QED BY <2>1, <2>2, <2>3
<1>2. CASE Shares
  <2>1. CASE Share("share1", "yb", "nf", "share2")
    BY <2>1 DEF Share, config, ReadInv, Own, Follows, Without, OrderInv, ApartInv, SetsInv, Apart,
       From2, From3, From4, From5, From6, Shared, AfterUdp, AfterPorts, TypeOK
  <2>2. CASE Share("share2", "yb", "cu", "share3")
    BY <2>2 DEF Share, config, ReadInv, Own, Follows, Without, OrderInv, ApartInv, SetsInv, Apart,
       From2, From3, From4, From5, From6, Shared, AfterUdp, AfterPorts, TypeOK
  <2>3. CASE Share("share3", "nf", "cu", "share4")
    BY <2>3 DEF Share, config, ReadInv, Own, Follows, Without, OrderInv, ApartInv, SetsInv, Apart,
       From2, From3, From4, From5, From6, Shared, AfterUdp, AfterPorts, TypeOK
  <2>4. CASE Share("share4", "yb", "tg", "share5")
    BY <2>4 DEF Share, config, ReadInv, Own, Follows, Without, OrderInv, ApartInv, SetsInv, Apart,
       From2, From3, From4, From5, From6, Shared, AfterUdp, AfterPorts, TypeOK
  <2>5. CASE Share("share5", "nf", "tg", "share6")
    BY <2>5 DEF Share, config, ReadInv, Own, Follows, Without, OrderInv, ApartInv, SetsInv, Apart,
       From2, From3, From4, From5, From6, Shared, AfterUdp, AfterPorts, TypeOK
  <2>6. CASE Share("share6", "cu", "tg", "udp")
    BY <2>6 DEF Share, config, ReadInv, Own, Follows, Without, OrderInv, ApartInv, SetsInv, Apart,
       From2, From3, From4, From5, From6, Shared, AfterUdp, AfterPorts, TypeOK
  <2> QED BY <1>2, <2>1, <2>2, <2>3, <2>4, <2>5, <2>6 DEF Shares
<1>3. CASE UdpPort \/ ShuntPorts
  <2>1. /\ pc \in {"udp", "yb", "nf", "cu", "tg"} /\ pc' \in {"yb", "nf", "cu", "tg", "sets"}
        /\ UNCHANGED <<config, server, gl, same, ipsets>>
    BY <1>3 DEF UdpPort, ShuntPorts, ShuntPort
  <2> QED BY <2>1 DEF config, ReadInv, Own, Follows, Without, OrderInv, ApartInv, SetsInv, Apart,
       From2, From3, From4, From5, From6, Shared, AfterUdp, AfterPorts
<1>4. CASE ShuntRules
  <2> USE <1>4 DEF ShuntRules, config
  <2>1. ReadInv'
    BY DEF ReadInv, Own, Follows, Without
  <2>2. OrderInv' /\ ApartInv'
    BY DEF OrderInv, ApartInv, Apart, From2, From3, From4, From5, From6, Shared, AfterUdp, AfterPorts
  <2>3. SetsInv'
    BY DEF SetsInv, IpsetsOf
  <2> QED BY <2>1, <2>2, <2>3
<1>5. CASE UNCHANGED vars
  BY <1>5 DEF vars, ReadInv, Own, Follows, Without, OrderInv, ApartInv, SetsInv, IpsetsOf, Apart
<1> QED BY <1>1, <1>2, <1>3, <1>4, <1>5 DEF Next

(* The ports: each is the next free one after those given before. *)
LEMMA Numbering == TypeOK /\ PortsInv /\ [Next]_vars => PortsInv'
<1> SUFFICES ASSUME TypeOK, PortsInv, [Next]_vars PROVE PortsInv'
  OBVIOUS
<1> USE ShuntAssumption DEF PortsInv
<1>1. CASE Read \/ Shares \/ ShuntRules
  <2>1. /\ pc \notin Services /\ pc' \notin Services /\ (pc \in AfterUdp <=> pc' \in AfterUdp)
        /\ UNCHANGED <<relay, trojan, lport, port>>
    BY <1>1 DEF Read, Shares, Share, ShuntRules, config, AfterUdp, AfterPorts, Services
  <2>2. UdpInv'
    BY <2>1 DEF UdpInv, DefaultPorts
  <2>3. PortInv'
    BY <2>1 DEF PortInv, DefaultPorts, First, Services
  <2> QED BY <2>2, <2>3
<1>2. CASE UdpPort
  <2> USE <1>2 DEF UdpPort, config, Redirectors, Services
  <2>1. /\ port' = [port EXCEPT !["main"] = lport[Main],
              !["udp"] = IF relay # None /\ {Main, relay} \cap trojan # {} /\ lport[relay] = lport[Main]
                           THEN lport[Main] + 1
                           ELSE IF relay = None THEN 0 ELSE lport[relay]]
        /\ port \in [Redirectors -> Nat] /\ lport[Main] \in Nat \ {0} /\ pc' = "yb"
        /\ UNCHANGED <<relay, trojan, lport>> /\ relay \in Nodes \cup {None}
    BY DEF TypeOK
  <2>2. ASSUME DefaultPorts PROVE relay # None => lport[relay] = lport[Main]
    BY <2>1, <2>2 DEF DefaultPorts
  <2>3. DefaultPorts' <=> DefaultPorts
    BY <2>1 DEF DefaultPorts
  <2>4. trojan \subseteq Nodes
    BY DEF TypeOK
  <2>5. UdpInv'
    BY <2>1, <2>2, <2>3, <2>4 DEF UdpInv, DefaultPorts
  <2>6. \A s \in Services : port'[s] = 0
    BY <2>1 DEF PortInv, AfterUdp, AfterPorts
  <2>7. PortInv'
    BY <2>1, <2>6 DEF PortInv, AfterUdp, AfterPorts
  <2> QED BY <2>5, <2>7
<1>3. CASE ShuntPorts
  <2>1. PICK s \in Services, next \in {"nf", "cu", "tg", "sets"} :
          ShuntPort(s, next) /\ <<s, next>> \in {<<"yb", "nf">>, <<"nf", "cu">>, <<"cu", "tg">>, <<"tg", "sets">>}
    BY <1>3 DEF ShuntPorts, Services
  <2>2. /\ pc = s /\ pc' = next /\ UNCHANGED <<relay, trojan, lport>>
        /\ port' = IF server[s] = None THEN port ELSE [port EXCEPT ![s] = PortOf(s)]
    BY <2>1 DEF ShuntPort, config
  <2>3. /\ port \in [Redirectors -> Nat] /\ lport[Main] \in Nat \ {0} /\ trojan \subseteq Nodes
        /\ server[s] # None => server[s] \in Nodes
    BY DEF TypeOK
  <2>4. DefaultPorts' <=> DefaultPorts
    BY <2>2 DEF DefaultPorts
  <2>5. \A r \in Redirectors \ {s} : port'[r] = port[r]
    BY <2>2, <2>3 DEF Redirectors, Services
  <2>6. port'["main"] = port["main"] /\ port'["udp"] = port["udp"] /\ First' = First
    BY <2>5 DEF First, Redirectors, Services
  <2>7. UdpInv'
    BY <2>2, <2>4, <2>6 DEF UdpInv, AfterUdp, Services
  <2>8. ASSUME DefaultPorts, server[s] # None
        PROVE  PortOf(s) = Bump(Bump(Bump(First, port["yb"]), port["nf"]), port["cu"])
    <3>1. lport[server[s]] = port["main"] /\ port["main"] \in Nat
      BY <2>2, <2>3, <2>8 DEF UdpInv, DefaultPorts, AfterUdp, Redirectors
    <3>2. Bump(lport[server[s]], port["main"]) = port["main"] + 1
      BY <3>1 DEF Bump
    <3>3. port["udp"] = port["main"] + 1 => {relay, server[s]} \cap trojan # {}
      BY <2>2, <2>8 DEF UdpInv, AfterUdp
    <3>4. First = IF {relay, server[s]} \cap trojan # {} THEN Bump(port["main"] + 1, port["udp"])
                                                       ELSE port["main"] + 1
      BY <3>1, <3>3, <2>3 DEF First, Bump, Redirectors
    <3> QED BY <3>2, <3>4 DEF PortOf
  <2>9. DefaultPorts => port'[s] \in {0, Bump(Bump(Bump(First, port["yb"]), port["nf"]), port["cu"])}
    BY <2>2, <2>3, <2>8 DEF PortInv, Services, Redirectors
  <2>10. First \in Nat \ {0}
    BY <2>3 DEF First, Redirectors
  <2>11. ASSUME s = "yb" PROVE PortInv'
    BY <2>1, <2>2, <2>3, <2>4, <2>5, <2>6, <2>9, <2>10, <2>11
       DEF PortInv, AfterUdp, AfterPorts, Services, Redirectors, Bump
  <2>12. ASSUME s = "nf" PROVE PortInv'
    BY <2>1, <2>2, <2>3, <2>4, <2>5, <2>6, <2>9, <2>10, <2>12
       DEF PortInv, AfterUdp, AfterPorts, Services, Redirectors, Bump
  <2>13. ASSUME s = "cu" PROVE PortInv'
    BY <2>1, <2>2, <2>3, <2>4, <2>5, <2>6, <2>9, <2>10, <2>13
       DEF PortInv, AfterUdp, AfterPorts, Services, Redirectors, Bump
  <2>14. ASSUME s = "tg" PROVE PortInv'
    BY <2>1, <2>2, <2>3, <2>4, <2>5, <2>6, <2>9, <2>10, <2>14
       DEF PortInv, AfterUdp, AfterPorts, Services, Redirectors, Bump
  <2> QED BY <2>7, <2>11, <2>12, <2>13, <2>14 DEF Services
<1>4. CASE UNCHANGED vars
  BY <1>4 DEF vars, UdpInv, PortInv, DefaultPorts, First
<1> QED BY <1>1, <1>2, <1>3, <1>4 DEF Next

(* The inductive invariant: types, the routes and the ports. *)
IInv == TypeOK /\ RouteInv /\ PortsInv

(* Every invocation keeps the inductive invariant. *)
THEOREM Invariant == Spec => []IInv
<1>1. Init => IInv
  <2> SUFFICES ASSUME Init PROVE IInv
    OBVIOUS
  <2> USE ShuntAssumption DEF Init, Services, Redirectors
  <2>1. TypeOK
    BY DEF TypeOK
  <2>2. RouteInv
    BY DEF RouteInv, ReadInv, OrderInv, ApartInv, SetsInv, From2, From3, From4, From5, From6,
           Shared, AfterUdp, AfterPorts
  <2>3. PortsInv
    BY DEF PortsInv, UdpInv, PortInv, AfterUdp, AfterPorts
  <2> QED BY <2>1, <2>2, <2>3 DEF IInv
<1>2. IInv /\ [Next]_vars => IInv'
  BY Typing, Routing, Numbering DEF IInv
<1> QED BY <1>1, <1>2, PTL DEF Spec

(* The type invariant: a service's own node is never the main node, and    *)
(* ports are natural numbers (rules 298-301, 325-459).                     *)
THEOREM TypeCorrect == Spec => []TypeOK
BY Invariant, PTL DEF IInv

(* No two redirectors are started for one node (rules 304-309).            *)
THEOREM NoNodeTwice == Spec => []OneRedirector
<1>1. IInv => OneRedirector
  BY DEF IInv, RouteInv, ApartInv, Apart, OneRedirector, From2, From3, From4, From5, From6, Shared,
         AfterUdp, AfterPorts, Services
<1> QED BY <1>1, Invariant, PTL

(* The addresses of every service go to the redirector of its configured   *)
(* node, and nowhere else (rules 293-309, shunt_rules), for any number of  *)
(* nodes.                                                                  *)
THEOREM RoutesAlwaysKept == Spec => []RoutesKept
<1>1. IInv => RoutesKept
  <2> SUFFICES ASSUME IInv, pc = "done", run_mode # "oversea", NEW s \in Services
               PROVE  IF conf[s] \in Nodes /\ ~Unlisted(s)
                        THEN \E r \in Services \cup {"main"} :
                               ipsets[s] = {r} /\ NodeOf(r) = conf[s]
                        ELSE ipsets[s] = {}
    BY DEF RoutesKept
  <2>0. SetsInv /\ ReadInv
    BY DEF IInv, RouteInv
  <2> HIDE DEF IInv
  <2>1. ipsets[s] = IpsetsOf(s)
    BY <2>0 DEF SetsInv
  <2>2. /\ Own(s) \/ Follows(s) \/ Without(s)
        /\ s \in gl <=> conf[s] = Main /\ (s = "tg" => run_mode = "gfw")
    BY <2>0 DEF ReadInv
  <2>3. /\ None \notin Services \cup {"main"} /\ "main" \notin Services
        /\ None \notin Nodes /\ Main \in Nodes
    BY ShuntAssumption DEF Redirectors, Services
  <2>4. CASE Own(s)
    <3>1. server[s] # None /\ s \notin gl /\ same[s] = None /\ s # "main"
      BY <2>2, <2>3, <2>4 DEF Own
    <3>2. ipsets[s] = {s}
      <4>1. \A r \in Services \cup {"main"} :
              (r = s /\ server[s] # None) \/ (r = "main" /\ s \in gl) \/ r = same[s] <=> r = s
        BY <2>3, <3>1
      <4>2. IpsetsOf(s) = {r \in Services \cup {"main"} : r = s}
        BY <4>1 DEF IpsetsOf
      <4> QED BY <2>1, <4>2
    <3>3. NodeOf(s) = conf[s] /\ conf[s] \in Nodes /\ ~Unlisted(s)
      BY <2>4, <3>1 DEF Own, NodeOf, Unlisted
    <3> QED BY <3>2, <3>3
  <2>5. CASE Follows(s)
    <3>1. ipsets[s] = {same[s]} /\ NodeOf(same[s]) = conf[s] /\ ~Unlisted(s)
      BY <2>1, <2>2, <2>3, <2>5 DEF Follows, NodeOf, Unlisted, IpsetsOf
    <3> QED BY <3>1, <2>5 DEF Follows
  <2>6. CASE Without(s)
    <3>1. CASE s \in gl
      <4>1. ipsets[s] = {"main"} /\ NodeOf("main") = conf[s] /\ ~Unlisted(s) /\ conf[s] \in Nodes
        BY <2>1, <2>2, <2>3, <2>6, <3>1 DEF Without, NodeOf, Unlisted, IpsetsOf
      <4> QED BY <4>1
    <3>2. CASE s \notin gl
      <4>1. ipsets[s] = {} /\ (conf[s] \notin Nodes \/ Unlisted(s))
        BY <2>1, <2>2, <2>3, <2>6, <3>2 DEF Without, Unlisted, IpsetsOf
      <4> QED BY <4>1
    <3> QED BY <3>1, <3>2
  <2> QED BY <2>2, <2>4, <2>5, <2>6
<1> QED BY <1>1, Invariant, PTL

(* With the default port on every node no two redirectors clash (rules     *)
(* 325-459), whatever the port, the nodes and their types.                 *)
THEOREM PortsAlwaysDistinct == Spec => []PortsDistinct
<1>1. IInv => PortsDistinct
  <2> SUFFICES ASSUME IInv, pc = "done", DefaultPorts, NEW r \in Services \cup {"main"}
               PROVE  ~UdpClash(r) /\ \A q \in Services \cup {"main"} : ~TcpClash(r, q)
    BY DEF PortsDistinct
  <2> USE ShuntAssumption DEF IInv, PortsInv
  <2>1. port \in [Redirectors -> Nat] /\ port["main"] \in Nat \ {0}
    BY DEF TypeOK, UdpInv, AfterUdp, AfterPorts
  <2>2. /\ port["yb"] \in {0, First}
        /\ port["nf"] \in {0, Bump(First, port["yb"])}
        /\ port["cu"] \in {0, Bump(Bump(First, port["yb"]), port["nf"])}
        /\ port["tg"] \in {0, Bump(Bump(Bump(First, port["yb"]), port["nf"]), port["cu"])}
    BY DEF PortInv, AfterUdp, AfterPorts
  <2>3. /\ First \in Nat /\ First > port["main"]
        /\ port["udp"] \in {0, port["main"], port["main"] + 1} /\ port["udp"] < First
    BY <2>1 DEF First, UdpInv, AfterUdp, AfterPorts, Redirectors
  <2>4. \A s \in Services : port[s] = 0 \/ port[s] >= First
    BY <2>1, <2>2, <2>3 DEF Services, Redirectors, Bump
  <2>5. \A q \in Services \cup {"main"} : ~TcpClash(r, q)
    BY <2>1, <2>2, <2>3, <2>4 DEF TcpClash, Services, Redirectors, Bump
  <2>6. CASE r \in Services
    BY <2>1, <2>3, <2>4, <2>5, <2>6 DEF UdpClash, Services, Redirectors
  <2>7. CASE r = "main"
    <3>1. port["udp"] = port["main"] => relay \notin trojan /\ Main \notin trojan
      BY DEF UdpInv, AfterUdp, AfterPorts
    <3>2. {relay, Main} \cap trojan # {} => relay \in trojan \/ Main \in trojan
      OBVIOUS
    <3>3. ~UdpClash("main")
      BY <3>1, <3>2 DEF UdpClash, NodeOf
    <3> QED BY <2>7, <3>3, <2>5
  <2> QED BY <2>5, <2>6, <2>7
<1> QED BY <1>1, Invariant, PTL
=============================================================================
