CONSTANTS
    Records <- MCRecords
    NoRecord = NoRecord
    RecordSize <- MCRecordSize
    Payload <- MCPayload
    BlockSize = 2
    AreaBlocks = 8
    PageBlocks = 4
    MinimumEmpty = 3
    BufferSizes <- MCBufferSizes
    CutPoints <- NotErasing
    MaxCuts = 3
    MaxFaults = 0
SPECIFICATION Spec
PROPERTY
    ImplementsFifo
