SPECIFICATION FairSpec
CONSTANTS
    MaxTexts = 3
    MaxRequests = 2
    MaxTicks = 2
    MaxChoices = 1
CHECK_DEADLOCK FALSE
INVARIANT TypeOK
INVARIANT ScreenAgrees
INVARIANT TextsDelivered
PROPERTY TurnEnds
