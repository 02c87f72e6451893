----------------------------- MODULE MCAn8855 -----------------------------
(* The calls that are mixed in one behaviour, the ageing times asked for,  *)
(* and a symmetry: the ports of the address table, which the other part    *)
(* does not use, are alike.                                                *)
EXTENDS An8855, TLC

CONSTANTS p1, g1

Mix(K, P) == [kinds |-> K, ports |-> P]

MCMixes == {Mix({"bridge", "filter"}, Ports), Mix({"bridge", "filter", "vlan"}, {p1}),
            Mix({"mirror"}, Ports), Mix({"age"}, {}), Mix({"fdb"}, {})}

\* The borders of both fields, and times in between up to the longest one.
MCAges == {1, 2, AgeCntMax * AgeUnitMax} \cup AgeCntMax..(AgeCntMax + 9)
              \cup (AgeUnitMax - 5)..(AgeUnitMax + 5)
              \cup {97 * k + 13 : k \in 0..100} \cup {9973 * k : k \in 1..100}

\* The host and the group share a row, or the group has the later one.
OneRow == [a \in Addrs |-> 0]
MCHashes == {OneRow, [OneRow EXCEPT ![g1] = 1]}

Symmetry == Permutations(FdbPorts)

\* A behaviour is followed to the first interference of fast ageing with
\* another call, after which EntriesKept claims nothing; the rows of the
\* address table make a difference only to its own calls.
Undisturbed == ~disturbed /\ ("fdb" \in mix.kinds \/ hash = OneRow)
=============================================================================
