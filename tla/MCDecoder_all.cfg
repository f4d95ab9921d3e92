SPECIFICATION HSpec
CONSTANTS
    CounterMod = 4
    LengthMod = 5
    DeviceId <- TwoIds
    StreamId <- TwoIds
    Version = {1, 2}
    MessageType = {"data", "status"}
    Data = {"a", "b"}
    Datagrams <- AllDatagrams
    NoFrame = NoFrame
    MaxSeen = 4
INVARIANTS
    TypeOK
    AssemblyIsOpenRun
    AssembledExactly
    UnsegmentedExactly
    AssembledLength
CHECK_DEADLOCK FALSE
