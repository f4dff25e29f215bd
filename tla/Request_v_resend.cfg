SPECIFICATION Spec
CONSTANTS
    r1 = r1
    r2 = r2
    h1 = h1
    Calls = {r1}
    Async = {r1}
    Hosts = {h1}
    Eligible = {h1}
    AlwaysH3 = TRUE
    Methods = {"POST"}
    Retries = 2
    BackoffRetries = 0
    MaxRedirects = 0
    Interval = 2
    Jitter = 1
    Waits = {2}
    MaxRounds = 4
PROPERTY ResentSafely
