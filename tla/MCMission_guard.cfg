SPECIFICATION Spec
CONSTANTS
    Callers = {left}
    Requests <- MCRequests
    Configs <- MCConfigs
    Tierings <- MCTierings
    Goals <- MCGoals
    Levels = {"agile", "readonly"}
    Remember = {TRUE}
    Bounds <- MCBounds
CHECK_DEADLOCK FALSE
INVARIANT TypeOK
INVARIANT RunsAllowed
INVARIANT ConstraintsSurvive
