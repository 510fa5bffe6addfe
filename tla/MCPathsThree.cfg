SPECIFICATION Spec
CONSTANTS
    Addrs = {a, b, c}
    FirstAddr = a
    MaxPaths = 2
    MaxSpare = 1
    MaxTimeouts = 1
INVARIANTS
    OneActive
    MigrationReported
    ValidationGoesOn
    ClosedWhenStuck
CONSTRAINT NoLimbo
SYMMETRY Symmetry
CHECK_DEADLOCK FALSE
