SPECIFICATION Spec
CONSTANTS
    p1 = p1
    Ports = {p1, p2, p3}
    Cpu = cpu
    Bridges = {br1, br2}
    NoBridge = none
    Vids = {v1, v2}
    DefaultVid = v0
    Ages <- MCAges
    AgeCntMax = 511
    AgeUnitMax = 2047
    FdbPorts = {f1, f2}
    Hosts = {h1}
    Groups = {g1}
    Garbled = garbled
    g1 = g1
    Rows = 2
    Hashes <- MCHashes
    Mixes <- MCMixes
INVARIANTS BridgesSeparate ModesFollow VlansTrue PvidSound MirrorsTrue AgesInTime EntriesKept
PROPERTIES DumpComplete
SYMMETRY Symmetry
CONSTRAINT Undisturbed
