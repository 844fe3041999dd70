SPECIFICATION FairSpec
CONSTANTS
    Boards = {"pearl", "diamond"}
    Waves <- MCWaves
    OnTimes <- MCOnTimes
    FpsValues = {0, 30, 60}
    FrameCounts = {1, 2}
    Edges = {3000, 6000}
    MaxRequests = 4
INVARIANTS
    LedsOffWhenTooClose
    FlashWithinLimits
PROPERTIES
    FocusSweepIsComplete
    SweepEnds
    AutoOffWorks
CHECK_DEADLOCK FALSE
