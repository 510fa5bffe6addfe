SPECIFICATION Spec
CONSTANTS
    Limit = 3
    RetiredMult = 3
    MaxSeq = 4
    MaxSent = 6
    Renew = TRUE
    Settled = TRUE
    Spurious = FALSE
INVARIANTS
    NoConnectionError
    Routable
    NothingForgotten
    RetiredGone
CHECK_DEADLOCK FALSE
