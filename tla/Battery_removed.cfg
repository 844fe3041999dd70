SPECIFICATION BatteryFairSpec
CONSTANTS
    Chips = {"amber"}
    Packs = {"p1", "p2"}
    Levels = {80}
    AnswerOrder <- MCAnswers
    BusStates = {"bus_off"}
    ATTEMPTS = 1
    REMOVED = 1
    FORCE_REBOOT = 2
    MIN_CAPACITY = 5
    FULL = 100
PROPERTIES
    AnnouncedShutdownHappens
