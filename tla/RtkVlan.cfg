SPECIFICATION Spec
CONSTANTS
    Ports = {p1, p2}
    Lists = {{}, {p1}}
    VIDMAX = 1
    EVIDMAX = 2
    CVIDXMAX = 1
    GIDXMAX = 1
    Protos = {ip, arp}
    NoProto = none
INVARIANTS ShadowTrue MembersTracked PvidRespected GroupsSound
SYMMETRY Symmetry
