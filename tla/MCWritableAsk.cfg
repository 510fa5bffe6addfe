SPECIFICATION Spec
CONSTANTS
    Streams = {s, t}
    Incremental = {t}
    Total = 4
    StreamWindow = 3
    ConnWindow = 3
    Cwnds = {0, 2}
    MaxAsk = 2
INVARIANT ReportedAtCapacity
