SPECIFICATION FairSpec
CONSTANTS
    ByteMod = 256
    Datagrams <- MCDatagrams
    NoDatagram = NoDatagram
INVARIANTS
    TypeOK
    BusRecordsInOrder
    OnlyAnnouncedRecords
    ConvertedReadsBack
    ConsistentIsDefined
PROPERTY DecodeReturns
CHECK_DEADLOCK FALSE
