SPECIFICATION Spec
CONSTANTS
    r1 = r1
    r2 = r2
    c1 = c1
    Reqs = {r1, r2}
    Connector = r1
    Async = {}
    Closers = {}
    Reader = Reader
    Nobody = Nobody
    DefaultMaxConcurrent = 2
    MaxConcValues = {0, 2}
    SidLimit = 9
    Cap = 0
    MaxUnits = 0
    DrainExpires = FALSE
INVARIANT NeverFreedMidWrite
