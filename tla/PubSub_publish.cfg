CONSTANTS
    Records <- MCRecords
    NoRecord = NoRecord
    RecordSize <- MCRecordSize
    Payload <- MCPayload
    BlockSize = 2
    AreaBlocks = 9
    PageBlocks = 9
    MinimumEmpty = 3
    BufferSizes <- MCBufferSizes
    CutPoints <- NotPushing
    MaxCuts = 2
    MaxFaults = 1
    Publishers = {p1, p2}
    Flusher = Flusher
    Main = Main
    Nobody = Nobody
    Destination <- MCDestination
    Priority <- MCPriority
    Remotes = {"jetson", "mcu"}
    McuRemote = "mcu"
    RemoteSlots = 1
    FrameMax = 3
    EntrySize = 4
SPECIFICATION PubSubFairSpec
INVARIANTS
    SentOncePerReset
    FreedWereSent
PROPERTIES
    StoredAreSent
    PublishReturns
