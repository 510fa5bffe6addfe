SPECIFICATION Spec
CONSTANTS
    MaxOff = 3
    InitMaxData = 2
    MaxFlight = 2
    MaxLost = 1
    SendBufferSize = 2
    WideHeader = FALSE
INVARIANTS
    Contiguous
    QueuedIfFlushable
    CollectedDelivered
PROPERTIES
    LedgerSpec
CHECK_DEADLOCK FALSE
