SPECIFICATION LiveSpec
CONSTANTS
    t1 = t1
    t2 = t2
    t3 = t3
    s1 = s1
    k1 = k1
    k2 = k2
    a = a
    b = b
    c = c
    Calls = {t1, t2, t3}
    Async = {t2}
    Closers = {s1}
    Keys = {k1, k2}
    KeyOf <- TwoKeys
    Conns = {a, b}
    NoConn = NoConn
    MaxConc = 2
    Faults = TRUE
INVARIANTS TypeOK SingleFlight Accounted BurstCoalesced
PROPERTY GetConnReturns
