SPECIFICATION Spec
CONSTANTS
    WriteLimit = 3
    ReadLimit = 4
    UpdateAt = 1
    Sizes = {1, 2}
    MaxPn = 3
    MaxEpoch = 5
    NoKeys = NoKeys
INVARIANTS TypeOK KeysInStep ConsecutiveKeysOrdered PnNeverReused WithinWriteLimit
CHECK_DEADLOCK FALSE
