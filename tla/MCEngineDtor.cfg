SPECIFICATION Spec
CONSTANTS
    MaxStarts = 1
    MaxWrites = 1
INVARIANT
    DestructorReturns
CHECK_DEADLOCK FALSE
