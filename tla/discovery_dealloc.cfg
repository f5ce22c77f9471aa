CONSTANTS
    MaxStarts = 3
    DeallocCallsBack = TRUE
SPECIFICATION Spec
PROPERTY ReplacedIsNeverCalled
CHECK_DEADLOCK FALSE
