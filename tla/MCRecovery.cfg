SPECIFICATION Spec
CONSTANTS
    LossDelay = 1
    Rtt = 1
    Pto = 1
    MaxAckDelay = 1
    PktThresh = 2
    MaxPktThresh = 3
    MaxProbes = 2
    Kinds = {"data", "ping", "ack", "padded"}
    Early = TRUE
    PathChanges = TRUE
    MaxTime = 2
    MaxPn = 3
    MaxPto = 3
CHECK_DEADLOCK FALSE
INVARIANTS
    InFlightCounted
    NothingForgotten
    TimerArmed
