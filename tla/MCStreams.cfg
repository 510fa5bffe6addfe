SPECIFICATION Spec
CONSTANTS
    NStreams = 3
    StreamLen <- MCStreamLen
    InitMaxData = 2
    DefaultWindow = 3
    MaxWindow = 4
    InitMaxStreams = 1
    Cwnds = {1, 4}
    CapFactor = 1
    MaxShutdowns = 1
    MaxLost = 1
CHECK_DEADLOCK FALSE
INVARIANTS
    NoConnectionError
    CreditAccounted
    LiveWithinLimit
PROPERTY Delivered
