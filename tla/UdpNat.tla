------------------------------- MODULE UdpNat -------------------------------
(***************************************************************************)
(* What the UDP relay promises, with nothing of how it does it: a table of *)
(* associations.  A client has at most one socket for each kind of         *)
(* destination, no two associations share one, packets leave through the   *)
(* socket of the client that sent them, and what comes back goes to the    *)
(* client the socket belongs to.  An association ends when it times out,   *)
(* when the relay stops, or when a new one would fill the table: then the  *)
(* one whose client has been silent for longest goes, and no other.        *)
(***************************************************************************)
EXTENDS Naturals, FiniteSets

CONSTANTS Kinds,    \* kinds of destinations
          Clients,  \* clients
          Sockets,  \* sockets
          Places,   \* where a packet can wait
          None,     \* no socket
          Max,      \* the table holds fewer associations than this
          Patient   \* no socket is closed while a packet waits to use it

VARIABLES up,       \* the relay runs
          table,    \* the socket of each client for each kind
          older,    \* older \ni <<j, k>>: j's client was last heard before k's
          waiting,  \* the clients of the packets that wait for a name
          relayed   \* the packet the latest step has relayed, if any

vars == <<up, table, older, waiting, relayed>>

Names == Kinds \X Clients

Opened == {k \in Names : table[k] # None}

Out(client, owner) == [way |-> "out", client |-> client, owner |-> owner]
Back(client) == [way |-> "back", client |-> client]
Nothing == [way |-> "none"]

\* What is known of the order without the names in S.
Without(S) == {p \in older : p[1] \notin S /\ p[2] \notin S}

\* The client of k has just been heard.
Heard(k) == Without({k}) \cup {<<j, k>> : j \in Opened \ {k}}

\* The packet at q waits no longer.
Served(q) == waiting' = [p \in DOMAIN waiting \ {q} |-> waiting[p]]

-----------------------------------------------------------------------------
Init ==
  /\ up = TRUE
  /\ table = [k \in Names |-> None]
  /\ older = {}
  /\ DOMAIN waiting = {}
  /\ relayed = Nothing

\* A packet of a client that has a socket leaves, or gets lost.
Packet(k) ==
  /\ k \in Opened
  /\ older' = Heard(k)
  /\ relayed' \in {Out(k[2], k[2]), Nothing}
  /\ UNCHANGED <<up, table, waiting>>

\* A packet has to wait, whether its client has a socket or not.
Park(k, q) ==
  /\ q \notin DOMAIN waiting
  /\ waiting' = [p \in DOMAIN waiting \cup {q} |-> IF p = q THEN k[2] ELSE waiting[p]]
  /\ older' = IF k \in Opened THEN Heard(k) ELSE older
  /\ relayed' = Nothing
  /\ UNCHANGED <<up, table>>

\* A packet that has waited leaves, or gets lost.
Late(q, k) ==
  /\ q \in DOMAIN waiting
  /\ k \in Opened
  /\ Patient => waiting[q] = k[2]
  /\ older' \in {older, Heard(k)}
  /\ relayed' \in {Out(waiting[q], k[2]), Nothing}
  /\ Served(q)
  /\ UNCHANGED <<up, table>>

Lost(q) ==
  /\ q \in DOMAIN waiting
  /\ relayed' = Nothing
  /\ Served(q)
  /\ UNCHANGED <<up, table, older>>

\* The first packet of an association, at once or when it has waited.
NewSocket(k, s) ==
  /\ table[k] = None
  /\ \A j \in Names : table[j] # s
  /\ relayed' = Out(k[2], k[2])
  /\ up' = up
  /\ \/ waiting' = waiting
     \/ \E q \in DOMAIN waiting : waiting[q] = k[2] /\ Served(q)
  /\ \/ /\ Cardinality(Opened) + 1 < Max
        /\ table' = [table EXCEPT ![k] = s]
        /\ older' = older \cup {<<j, k>> : j \in Opened}
     \/ /\ Cardinality(Opened) + 1 = Max
        /\ \E gone \in Opened :
             /\ \A j \in Opened \ {gone} : <<gone, j>> \in older
             /\ table' = [table EXCEPT ![gone] = None, ![k] = s]
             /\ older' = Without({gone}) \cup {<<j, k>> : j \in Opened \ {gone}}

Reply(k) ==
  /\ k \in Opened
  /\ relayed' = Back(k[2])
  /\ UNCHANGED <<up, table, older, waiting>>

Expire(k) ==
  /\ k \in Opened
  /\ table' = [table EXCEPT ![k] = None]
  /\ older' = Without({k})
  /\ relayed' = Nothing
  /\ UNCHANGED <<up, waiting>>

Stop ==
  /\ up' = FALSE
  /\ table' = [k \in Names |-> None]
  /\ older' = {}
  /\ DOMAIN waiting' = {}
  /\ relayed' = Nothing

Next ==
  /\ up
  /\ \/ \E k \in Names : Packet(k) \/ Reply(k) \/ Expire(k)
     \/ \E k \in Names, q \in Places : Park(k, q) \/ Late(q, k)
     \/ \E q \in Places : Lost(q)
     \/ \E k \in Names, s \in Sockets : NewSocket(k, s)
     \/ Stop

Spec == Init /\ [][Next]_vars
=============================================================================
