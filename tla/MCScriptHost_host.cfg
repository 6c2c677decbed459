\* Two scripted objects, one more entity, a file of scripts and one that cannot be read.
CONSTANTS
    Scene <- MCScene
    Empties = {2}
    Statics = {1}
    PlayerPaths <- MCPlayer
    Paths = {"p", "r"}
    Unreadable = {"r"}
    MaxEntities = 3
    BodyCap = 1
    MaxNest = 2
    MaxFrames = 2
SPECIFICATION FairSpec
INVARIANTS
    EveryScriptGetsItsTurn
    SinkStandsIn
PROPERTIES
    WorldIsKept
    PassEnds
CHECK_DEADLOCK FALSE
