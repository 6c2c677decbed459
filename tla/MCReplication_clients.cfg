\* One client over WebSocket, one over WebTransport.
CONSTANTS
    Sessions = {s1, s2}
    SceneSize = 0
    BootSpawns = 0
    PlayerBase = 10
    SpawnBase = 20
    MaxPlayers = 2
    IdleTimeout = 1
    BodyCap = 3
    SnapDivisor = 1
    MaxJoins = 2
    MaxSpawns = 1
    MaxBlasts = 0
    MaxSeq = 0
    Datagrams = {s2}
    MaxSnapshots = 2
    MaxInFlight = 1
SPECIFICATION SystemSpec
INVARIANTS
    NothingMissing
    CaughtUpClientIsRight
    OnlyAvatarsLinger
