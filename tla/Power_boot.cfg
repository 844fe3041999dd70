CONSTANTS
    PollCount = 3
    RebootDelays <- SomeDelays
    MaxDelay = 60
    ForcedDelays <- SomeForcedDelays
    MaxRequests = 3
SPECIFICATION FairSpec
INVARIANTS
    JetsonNeedsSupplies
    UpdateKept
    PromisedRebootComesBack
PROPERTY
    RebootHappens
