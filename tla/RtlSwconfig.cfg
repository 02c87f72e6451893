SPECIFICATION SwSpec
CONSTANTS
    ext0 = ext0
    ext1 = ext1
    utp0 = utp0
    utp1 = utp1
    utp4 = utp4
    Ports <- MCPorts
    Ext0 = ext0
    Ext1 = ext1
    Utp0 = utp0
    Utp4 = utp4
    LanPorts <- MCLanPorts
    UserPorts <- MCUserPorts
    PortLists <- MCPortLists
    Lists <- MCLists
    VIDMAX = 2
    EVIDMAX = 3
    CVIDXMAX = 2
    GIDXMAX = 0
    Protos = {}
    NoProto = none
INVARIANTS LanWanApart HandlerClassifies
CHECK_DEADLOCK FALSE
