SPECIFICATION Spec
CONSTANTS
    Limit = 3
    RetiredMult = 3
    MaxSeq = 4
    MaxSent = 5
    Renew = TRUE
    Settled = TRUE
    Spurious = FALSE
INVARIANT
    ReplacementFits
CHECK_DEADLOCK FALSE
