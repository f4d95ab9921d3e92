SPECIFICATION Spec
CONSTANTS
    CounterMod = 5
    LengthMod = 64
    DeviceId = {1, 2}
    StreamId = {1}
    Version = {1}
    MessageType = {"data", "status"}
    PacketId <- MCIds
    Packets <- SomePackets
    Requests <- PlainRequests
    DataContexts <- AllContexts
INVARIANT
    SegmentContent
CHECK_DEADLOCK FALSE
