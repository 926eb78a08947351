SPECIFICATION Spec
CONSTANTS
    MaxRecords = 3
    MaxMsgs = 3
    MaxBatch = 2
    MaxRefs = 2
    ServerCodes <- MCServerCodes
INVARIANTS
    RecordsAccounted
    OneBatchInMemory
    CleanEndIsComplete
    NothingDroppedBeforeEnd
    SchemaKnown
    StreamOwned
PROPERTIES
    DeliveryInOrder
    ImplementsRecordStream
    OperationFreed
    CancelUnblocks
CHECK_DEADLOCK FALSE
