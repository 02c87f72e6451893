--------------------------- MODULE MCRtlSwconfig ---------------------------
(* Model values of RtlSwconfig: one LAN port stands for the three UTP ports *)
(* that are never WAN, and user space configures it and a CPU port.        *)
EXTENDS RtlSwconfig
CONSTANTS ext0, ext1, utp0, utp1, utp4

MCPorts == {ext0, ext1, utp0, utp1, utp4}
MCLanPorts == <<utp1>>
MCUserPorts == {ext0, utp1}
MCLists == {{}}
MCPortLists == {<<>>, <<utp1>>, <<ext0, utp1>>, <<utp1, ext0>>}
=============================================================================
