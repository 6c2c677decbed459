\* Three requests for the same game or for two, and one port and one room for all of them.
CONSTANTS
    Joins = {j1, j2, j3}
    Games = {g1, g2}
    PortMin = 1
    PortMax = 1
    MaxRooms = 1
    MaxPlayers = 1
    MaxOccupants = 1
SPECIFICATION FairSpec
INVARIANTS
    PortsExclusive
    NoOrphan
    PortsAccounted
PROPERTIES
    EmptyRoomStops
    JoinIsAnswered
