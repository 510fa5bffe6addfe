SPECIFICATION Spec
CONSTANTS
    MaxStarts = 1
    MaxWrites = 1
INVARIANT
    WritesKept
CHECK_DEADLOCK FALSE
