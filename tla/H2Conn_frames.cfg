SPECIFICATION Spec
CONSTANTS
    r1 = r1
    r2 = r2
    c1 = c1
    Reqs = {r1, r2}
    Connector = r1
    Async = {r2}
    Closers = {}
    Reader = Reader
    Nobody = Nobody
    DefaultMaxConcurrent = 2
    MaxConcValues = {}
    SidLimit = 9
    Cap = 1
    MaxUnits = 3
    DrainExpires = TRUE
INVARIANTS RefsExact OkIsComplete BufferBounded GoawaySparesAccepted
PROPERTIES DoneIsFinal WireInIdOrder
