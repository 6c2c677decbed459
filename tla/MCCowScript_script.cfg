\* A step budget of 80, a call depth of 2, a clock that is looked at every 32 steps.
CONSTANTS
    Sources <- MCSources
    Expressions <- MCExpressions
    Names <- MCNames
    Spelling <- MCSpelling
    Literals <- MCLiterals
    Numerals <- MCNumerals
    MaxSteps = 80
    MaxCallDepth = 2
    MaxLoop = 30
    Sample = 32
    Lates = {0, 32}
    Modest <- MCModest
SPECIFICATION Spec
INVARIANTS
    ParsesWhatIsMeant
PROPERTIES
    CallsStartAfresh
CHECK_DEADLOCK FALSE
