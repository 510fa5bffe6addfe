SPECIFICATION Spec
CONSTANTS
    MaxOff = 2
    InitMaxData = 2
    MaxFlight = 2
    MaxLost = 1
    SendBufferSize = 2
    WideHeader = FALSE
INVARIANT
    FinSentBeforeCollected
CHECK_DEADLOCK FALSE
