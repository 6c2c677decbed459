\* A page with a server and one without.
CONSTANTS
    Flags <- MCFlags
    OtherBuild <- MCOtherBuild
    StepTime = 2
    MaxAccum = 4
    FirstRepeat = 4
    NextRepeat = 1
    InterpDelay = 1
    MaxSamples = 3
    SnapDistance = 1
    HardSnapDistance = 4
    Pal = 2
    Ball = 3
    Crate = 4
    Deltas <- MCDeltas
    Hands <- MCHands
    MaxInputs <- MCMaxInputs
    MaxFrames = 3
    MaxTime = 4
SPECIFICATION Spec
INVARIANTS
    PressesAreMeant
    SettingsSurvive
    FramesAreUnderstood
PROPERTIES
    ServerIsFollowed
CHECK_DEADLOCK FALSE
