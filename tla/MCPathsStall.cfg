SPECIFICATION Spec
CONSTANTS
    Addrs = {a, b}
    FirstAddr = a
    MaxPaths = 2
    MaxSpare = 1
    MaxTimeouts = 1
PROPERTY
    NotStalled
CHECK_DEADLOCK FALSE
