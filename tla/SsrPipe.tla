------------------------------ MODULE SsrPipe ------------------------------
(***************************************************************************)
(* What the shadowsocksr server promises of one proxied connection, with   *)
(* nothing of how it does it: while the connection is open, each end gets  *)
(* the other end's payload bytes in order, none lost, none twice, none     *)
(* before they were sent; once it is closed neither end gets any more; a   *)
(* new connection starts with both streams empty.  A byte is named by its  *)
(* position in the stream it belongs to.                                   *)
(***************************************************************************)
EXTENDS Naturals, Sequences

CONSTANTS Ends      \* the two ends that receive: the remote and the client

VARIABLES open,     \* the connection exists
          taken,    \* taken[e]: payload bytes meant for e the server has taken
          given     \* given[e]: the bytes e got, in the order it got them

vars == <<open, taken, given>>

\* n bytes of a stream, from position a.
Bytes(a, n) == [i \in 1..n |-> a + i - 1]

Init ==
  /\ open = FALSE
  /\ taken = [e \in Ends |-> 0]
  /\ given = [e \in Ends |-> <<>>]

\* Both streams of a new connection are empty.
Open ==
  /\ ~open
  /\ open' = TRUE
  /\ taken' = [e \in Ends |-> 0]
  /\ given' = [e \in Ends |-> <<>>]

\* Bytes are taken from the one end, and the other gets more of the same
\* stream; a step of the server may do both, and may close after it.
Relay ==
  /\ open
  /\ open' \in BOOLEAN
  /\ taken' \in [Ends -> Nat]
  /\ given' \in [Ends -> Seq(Nat)]
  /\ \A e \in Ends :
       /\ taken[e] <= taken'[e]
       /\ Len(given[e]) <= Len(given'[e])
       /\ Len(given'[e]) <= taken'[e]
       /\ given'[e] = Bytes(1, Len(given'[e]))

Next == Open \/ Relay

Spec == Init /\ [][Next]_vars
=============================================================================
