CONSTANTS
    MaxStarts = 5
    DeallocCallsBack = FALSE
SPECIFICATION Spec
INVARIANTS
    OwnedOnce
    EveryBlockIsAnswered
PROPERTY ReplacedIsNeverCalled
CHECK_DEADLOCK FALSE
