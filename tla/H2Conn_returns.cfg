SPECIFICATION LiveSpec
CONSTANTS
    r1 = r1
    r2 = r2
    c1 = c1
    Reqs = {r1}
    Connector = r1
    Async = {r1}
    Closers = {c1}
    Reader = Reader
    Nobody = Nobody
    DefaultMaxConcurrent = 2
    MaxConcValues = {1}
    SidLimit = 9
    Cap = 1
    MaxUnits = 2
    DrainExpires = TRUE
INVARIANTS TypeOK FreeGuarded FreedAfterReader
PROPERTIES EveryCallReturns CloseFrees
