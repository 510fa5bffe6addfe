SPECIFICATION Spec
CONSTANTS
    MaxOff = 2
    InitMaxData = 2
    MaxFlight = 2
    MaxLost = 1
    SendBufferSize = 2
    WideHeader = TRUE
INVARIANT
    QueuedIfFlushable
CHECK_DEADLOCK FALSE
