\* One script that exists and one that does not, five events.
CONSTANTS
    Names = {"f", "g"}
    Elsewhere = {"f"}
    AtStart <- MCAtStart
    Bursts <- MCBursts
    TabWidth = 2
    PageLines = 20
    UndoCap = 2
    MaxText = 5
    MaxEvents = 5
SPECIFICATION Spec
CHECK_DEADLOCK FALSE
INVARIANTS
    HistoryIsWhole
PROPERTIES
    CharactersStayWhole
