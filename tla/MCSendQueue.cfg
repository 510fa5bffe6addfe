SPECIFICATION Spec
CONSTANTS
    MaxOff = 2
    InitMaxData = 1
    MaxFlight = 2
    MaxLost = 1
INVARIANTS
    NothingForgotten
PROPERTIES
    FinalSizeKept
