SPECIFICATION Spec
CONSTANTS
    NStreams = 3
    StreamLen <- MCStreamLen
    InitMaxData = 2
    DefaultWindow = 2
    MaxWindow = 3
    InitMaxStreams = 1
    Cwnds = {1, 4}
    CapFactor = 1
    MaxShutdowns = 0
    MaxLost = 1
CHECK_DEADLOCK FALSE
PROPERTY LimitResent
