SPECIFICATION BatteryFairSpec
CONSTANTS
    Chips = {"ruby", "amber"}
    Packs = {"p1", "p2"}
    Levels = {80}
    AnswerOrder <- MCAnswers
    BusStates = {"other", "bus_off"}
    ATTEMPTS = 1
    REMOVED = 1
    FORCE_REBOOT = 2
    MIN_CAPACITY = 5
    FULL = 100
INVARIANTS
    InfoOfOnePack
PROPERTIES
    RebootKeepsItsAnnouncement
    BusOffEnds
    RemovalIsAnswered
