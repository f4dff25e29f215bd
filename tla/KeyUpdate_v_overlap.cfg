SPECIFICATION Spec
CONSTANTS
    WriteLimit = 3
    ReadLimit = 3
    UpdateAt = 1
    Sizes = {1}
    MaxPn = 3
    MaxEpoch = 5
    NoKeys = NoKeys
PROPERTY OverlapExact
CHECK_DEADLOCK FALSE
