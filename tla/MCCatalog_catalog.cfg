\* One editor and two requests at a time about three games, with one mishap.
CONSTANTS
    Requests = {r1, r2}
    GameIds = {g1, g2, g3}
    Uploads <- MCUploads
    MaxFiles = 3
    MaxRooms = 2
    MaxVersions = 2
    MaxMishaps = 1
    Tabs = {t1}
SPECIFICATION PSpec
SYMMETRY Symmetric
INVARIANTS
    StoredIsComplete
    VersionsArePlayable
    SameVersionSameWorld
    KeysAreKept
PROPERTIES
    ImplementsLedger
CHECK_DEADLOCK FALSE
