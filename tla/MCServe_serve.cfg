SPECIFICATION FairSpec
CONSTANTS
    c1 = c1
    c2 = c2
    Conns = {c1, c2}
    MaxSessions = 1
    Idle = TRUE
    MaxPrompts <- MCPrompts
    MaxRequests = 1
    MaxFaults = 1
CHECK_DEADLOCK FALSE
INVARIANT TypeOK
INVARIANT CountsHold
INVARIANT AnswersFit
PROPERTY ConnectionsEnd
