SPECIFICATION Spec
CONSTANTS
    Addrs = {a, b}
    FirstAddr = a
    MaxPaths = 2
    MaxSpare = 1
    MaxTimeouts = 1
INVARIANTS
    SendNotBlocked
CHECK_DEADLOCK FALSE
