SPECIFICATION FairSpec
CONSTANTS
    MaxStarts = 2
    MaxWrites = 2
INVARIANTS
    NoUseAfterFree
    NoLostWakeup
    StopsAfterClosed
    ConnectedFirst
PROPERTIES
    JoinReturns
CHECK_DEADLOCK FALSE
