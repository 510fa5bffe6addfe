SPECIFICATION Spec
CONSTANTS
    Addrs = {a, b}
    FirstAddr = a
    MaxPaths = 2
    MaxSpare = 1
    MaxTimeouts = 1
INVARIANTS
    OneActive
    MigrationReported
    ValidationGoesOn
    ClosedWhenStuck
CHECK_DEADLOCK FALSE
