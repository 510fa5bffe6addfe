SPECIFICATION Spec
CONSTANTS
    MaxStarts = 1
    MaxWrites = 1
INVARIANT
    ShutdownCloses
CHECK_DEADLOCK FALSE
