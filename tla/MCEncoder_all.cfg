SPECIFICATION FairSpec
CONSTANTS
    CounterMod = 5
    LengthMod = 64
    DeviceId = {1, 2}
    StreamId = {1}
    Version = {1}
    MessageType = {"data", "status"}
    PacketId <- MCIds
    Packets <- SomePackets
    Requests <- AllRequests
    DataContexts <- AllContexts
INVARIANTS
    TypeOK
    FramesWithinContext
    PayloadsTiled
    SegmentsFormRuns
    NoEmptyMessage
    FramesNumbered
    FrameTypesOfCall
    UnmarkedPiecesAreFirst
    UndefinedOnlyWithoutPayload
    EmptyFramesBesidePieces
PROPERTY
    CallsReturn
CHECK_DEADLOCK FALSE
