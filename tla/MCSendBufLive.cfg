SPECIFICATION FairSpec
CONSTANTS
    MaxOff = 2
    InitMaxData = 1
    MaxFlight = 2
    MaxLost = 1
    SendBufferSize = 1
    WideHeader = FALSE
PROPERTIES
    AllDelivered
CHECK_DEADLOCK FALSE
