\* Liveness of the whole system over one ordered stream; no scripts' spawns.
CONSTANTS
    Sessions = {s1, s2}
    SceneSize = 0
    BootSpawns = 0
    PlayerBase = 10
    SpawnBase = 20
    MaxPlayers = 2
    IdleTimeout = 1
    BodyCap = 3
    SnapDivisor = 1
    MaxJoins = 2
    MaxSpawns = 0
    MaxBlasts = 0
    MaxSeq = 0
    Datagrams = {}
    MaxSnapshots = 1
    MaxInFlight = 0
SPECIFICATION FairSystemSpec
PROPERTIES
    LeaverFades
