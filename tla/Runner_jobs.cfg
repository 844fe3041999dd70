SPECIFICATION FairSpec
CONSTANTS
    QueueSize = 2
    RemoteSlots = 2
    Apps = {9}
    Payloads <- MCPayloads
    Commands <- MCCommands
    Diamond = TRUE
    Cone = FALSE
    CiBuild = FALSE
    MaxMessages = 3
    MaxResets = 1
INVARIANTS
    AcksAnswerTheirJobs
    JobsRunInOrder
PROPERTIES
    QueuedJobsAreAnswered
    SemaphoreComesBack
