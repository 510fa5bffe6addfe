SPECIFICATION Spec
CONSTANTS
    Clients <- MCClients
    Reads = {1, 3}
    MaxStreams = 1
    MaxState = 1
    ReadsOn = FALSE
    LateReset = FALSE
CHECK_DEADLOCK FALSE
INVARIANTS
    NoLostEvent
    EndsOnce
    ParserKept
    CriticalClosed
