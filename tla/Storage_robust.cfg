CONSTANTS
    Records <- MCRecords
    NoRecord = NoRecord
    RecordSize <- MCRecordSize
    Payload <- MCPayload
    BlockSize = 2
    AreaBlocks = 10
    PageBlocks = 5
    MinimumEmpty = 3
    BufferSizes <- MCBufferSizes
    CutPoints <- AnyPoint
    MaxCuts = 2
    MaxFaults = 2
SPECIFICATION Spec
INVARIANTS
    FlashHoldsLive
    PeekIsOldest
PROPERTY
    LossNeedsError
