----------------------------- MODULE MCRtkVlan -----------------------------
(* The tables with protocols as a symmetry set.                            *)
EXTENDS RtkVlan, TLC

\* The driver treats protocols alike; ports are not interchangeable, since
\* Lists may single one out.
Symmetry == Permutations(Protos)
=============================================================================
