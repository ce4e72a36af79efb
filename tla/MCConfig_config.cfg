SPECIFICATION FairSpec
CONSTANTS
    Ids = {"omniroute", "nvidia"}
    Embedded = {"omniroute"}
    EnvKeys = {}
    Keys = {"app.default_model", "app.compact_model"}
    Default = "app.default_model"
    Programs = {"p1", "p2"}
    Attempts = {"l1", "l2"}
    Doors <- MCDoors
    FirstFiles <- MCFirstFiles
    Commands <- MCCommands
    Logins <- MCLogins
    Expiries = {1, 3}
    Intervals = {0, 1}
    PollTimeout = 2
    Bounds <- MCBounds
CHECK_DEADLOCK FALSE
INVARIANT TypeOK
INVARIANT EditsHold
PROPERTY PollingEnds
