SPECIFICATION LinkSpec
CONSTANTS
    CounterMod = 32
    LengthMod = 64
    DeviceId = {1}
    StreamId = {1}
    Version = {1, 2}
    MessageType = {"data", "status"}
    PacketId <- MCIds
    Packets <- SomePackets
    Requests <- MCRequests
    DataContexts <- AllContexts
    NoFrame = NoFrame
    Scenarios <- AllScenarios
INVARIANTS
    SplicesOnlyAcrossRestart
    
PROPERTY
    ImplementsChannel
CHECK_DEADLOCK FALSE
