SPECIFICATION Spec
CONSTANTS
    MaxOff = 5
    Vers = {v1, v2}
    NoVer = NoVer
    InitMaxData = 3
    DefaultWindow = 2
    MaxWindow = 4
SYMMETRY VersSymmetry
CHECK_DEADLOCK FALSE
INVARIANTS
    ChunksDisjoint
    NothingLost
    NeverStuck
    DeliveredFirst
    FinMeansComplete
    CreditReplenished
PROPERTIES
    FinalSizeFixed
