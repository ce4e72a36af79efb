SPECIFICATION Spec
CONSTANTS
    MaxTexts = 3
    MaxRequests = 2
    MaxTicks = 3
    MaxChoices = 1
CHECK_DEADLOCK FALSE
INVARIANT NeverBlocks
