SPECIFICATION FairLinkSpec
CONSTANTS
    CounterMod = 4
    LengthMod = 64
    DeviceId = {1}
    StreamId = {1}
    Version = {1, 2}
    MessageType = {"data", "status"}
    PacketId <- MCIds
    Packets <- SomePackets
    Requests <- MCRequests
    DataContexts <- AllContexts
    NoFrame = NoFrame
    Scenarios <- OneCall
PROPERTY
    EveryPacketDecoded
CHECK_DEADLOCK FALSE
