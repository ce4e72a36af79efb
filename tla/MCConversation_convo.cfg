CONSTANTS
    KeepTurns = 1
    Setups <- MCSetups
SPECIFICATION Spec
CHECK_DEADLOCK FALSE
INVARIANT TypeOK
INVARIANT CompactionCoherent
INVARIANT RecordedOnce
