SPECIFICATION Spec
CONSTANTS
    t1 = t1
    t2 = t2
    t3 = t3
    s1 = s1
    k1 = k1
    k2 = k2
    a = a
    b = b
    c = c
    Calls = {t1, t2, t3}
    Async = {t2}
    Closers = {}
    Keys = {k1}
    KeyOf <- OneKey
    Conns = {a, b, c}
    NoConn = NoConn
    MaxConc = 1
    Faults = TRUE
INVARIANT GoawayDrains
