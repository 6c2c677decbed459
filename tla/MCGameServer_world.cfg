\* The world and its audience: three sessions for two places, script spawns,
\* destroys, blasts and resets; no inputs.
CONSTANTS
    Sessions = {s1, s2, s3}
    SceneSize = 1
    BootSpawns = 0
    PlayerBase = 10
    SpawnBase = 20
    MaxPlayers = 2
    IdleTimeout = 1
    BodyCap = 3
    SnapDivisor = 1
    MaxJoins = 2
    MaxSpawns = 2
    MaxBlasts = 0
    MaxSeq = 0
SYMMETRY SessionSymmetry
SPECIFICATION Spec
INVARIANTS
    NetIdsUnique
    RosterAgrees
    SpawnsAgree
PROPERTIES
    FreshIdIsUnknown
