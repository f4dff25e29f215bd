SPECIFICATION LiveSpec
CONSTANTS
    Versions = {1, 2}
    FirstPns = {1}
    MaxPn = 2
    MaxPeer = 3
    MaxRetry = 1
    MaxTickets = 2
    MaxReceived = 3
    None = None
INVARIANTS TypeOK AuthenticatedFirst VerdictWelcome NumbersFresh KeysInOrder OverlapExplained TokensNewest
PROPERTY HandshakeEnds
CHECK_DEADLOCK FALSE
