CONSTANTS
    BlockMax = 3
    WriteSize = 4
    DWord = 2
    Sector = 8
    SlotSize = 16
    ImageBlocks <- ThreeImages
    LastSize <- ThreeLasts
    Windows = {1, 2}
    MaxRequests = 5
    MaxFaults = 1
SPECIFICATION FairSpec
INVARIANTS
    SlotFollowsImage
    WritesFindErasedFlash
    VerifiedIsComplete
    AcksAreOwn
PROPERTY
    EveryRequestAcked
CHECK_DEADLOCK FALSE
