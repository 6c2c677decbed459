\* Two objects at most beside the player, one more path to save to.
CONSTANTS
    Ids = {1, 2, 3, 4}
    MaxObjects = 2
    MaxEvents = 4
    Main = "scenes/scene.json"
    Temp = "scene.json"
    SaveTargets = {"other"}
    Written <- MCWritten
SPECIFICATION FairSpec
INVARIANTS
    BodiesAreOwned
    SelectionIsShown
    SimulationIsNotSaved
PROPERTIES
    ChangesAreLoaded
