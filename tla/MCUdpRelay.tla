---------------------------- MODULE MCUdpRelay ----------------------------
(* The relay with its interchangeable names as symmetry sets.              *)
EXTENDS UdpRelay, TLC

\* Clients, destinations and places in memory are interchangeable.
Symmetry == Permutations(Srcs) \cup Permutations(Hosts)
              \cup Permutations(Remotes) \cup Permutations(Queries)
=============================================================================
