SPECIFICATION Spec
CONSTANTS
    Uis = {u1, u2}
    Others = {left}
    Raws <- MCRaws
    MinRepeats = 2
    SessionBudget = 1
    WeekBudget = 1
    DecayAfter = 1
    Bounds <- MCBounds
    Doors = {d1, d2}
    Names = {"n"}
    Good = {"good1", "good2"}
    Broken = {"broken"}
    Unsafe = {"secret"}
    Far = {"far"}
    Url <- MCUrl
    Words <- MCWords
    NativeTools <- MCNatives
    MaxTools = 3
SYMMETRY Symmetry
CHECK_DEADLOCK FALSE
INVARIANT TypeOK
INVARIANT ShelfTruthful
INVARIANT EvolutionEarned
