\* Two browsers behind one address, two rooms one after the other on one port.
CONSTANTS
    Conns = {c1, c2}
    WebTransport = {c2}
    Addresses = {a1}
    Worlds = {w1, w2}
    Ports = {p1}
    MaxPerIp = 1
    Timeout = 1
    Grace = 2
    Cooldown = 3
    MaxRestarts = 1
SPECIFICATION FairSpec
INVARIANTS
    SlotsMatch
    PacketsStayOut
PROPERTIES
    DeadRoomLetsGo
