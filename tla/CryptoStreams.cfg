SPECIFICATION LiveSpec
CONSTANTS
    MaxLen <- Lengths
    Records <- Flights
    Window = 2
    Limit = 5
    Rooms = {5}
    Overhead = 0
    VarintEdge = 3
    SniSlicing = TRUE
    SniStart = 1
    SniEnd = 3
    BufferLimit = 4
    Faults = 2
    None = None
INVARIANTS TypeOK NotStranded AckedArrived FirstPacketSplits
PROPERTIES ChannelSpec Delivered
CHECK_DEADLOCK FALSE
