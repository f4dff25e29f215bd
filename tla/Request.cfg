SPECIFICATION Spec
CONSTANTS
    r1 = r1
    r2 = r2
    h1 = h1
    Calls = {r1, r2}
    Async = {r1, r2}
    Hosts = {h1}
    Eligible = {h1}
    AlwaysH3 = FALSE
    Methods = {"GET", "POST"}
    Retries = 2
    BackoffRetries = 1
    MaxRedirects = 1
    Interval = 2
    Jitter = 1
    Waits = {3}
    MaxRounds = 4
SYMMETRY CallSymmetry
INVARIANTS TypeOK Paced CopiesPerRound
PROPERTIES ResentOnlyIf Advances
