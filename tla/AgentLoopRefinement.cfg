SPECIFICATION FairSpec
CONSTANTS
    Names = {bash}
    Args = {a, b}
    Failures = {f1,f2}
    MaxToolCalls = 3
    MaxRetries = 1
    Budget = 4
    Spent = 1
    Costs = {1}
    Paced = TRUE
    MaxBatch = 2
    MaxInjected = 1
INVARIANT TypeOK
INVARIANT CallsAnswered
INVARIANT RepliesBelong
INVARIANT WithinLimits
INVARIANT LoopRules
PROPERTY ImplementsContract
PROPERTY TurnEnds
