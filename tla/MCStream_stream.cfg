SPECIFICATION HFairSpec
CONSTANTS
    Dialects = {"chat", "messages", "generate", "responses"}
    Styles = {"index", "id", "bare"}
    EventBuffer = 1
    MaxPieces = 3
    Ways <- MCWays
    LineDialects = {"responses"}
    MaxRetries = 1
CHECK_DEADLOCK FALSE
INVARIANT HTypeOK
INVARIANT AnswerFaithful
INVARIANT ExitTells
PROPERTY ProgramSettles
