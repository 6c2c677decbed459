\* The session table: inputs, idle reaping and joins; an empty scene.
CONSTANTS
    Sessions = {s1, s2}
    SceneSize = 0
    BootSpawns = 0
    PlayerBase = 10
    SpawnBase = 20
    MaxPlayers = 1
    IdleTimeout = 2
    BodyCap = 1
    SnapDivisor = 3
    MaxJoins = 3
    MaxSpawns = 0
    MaxBlasts = 1
    MaxSeq = 2
SPECIFICATION FairSpec
PROPERTIES
    InputNeverGoesBack
    SilentSessionLeaves
