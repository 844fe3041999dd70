SPECIFICATION VoltageFairSpec
CONSTANTS
    Boards = {"pearl", "diamond"}
    Volts <- MCVolts
    Periods = {0, 5}
    I2cPins <- MCI2cPins
    POSITIONS = 2
    LOOPS = 4
    PASS = 2
    LOWEST = 0
    HIGHEST = 9
INVARIANTS
    ExtremesAreKept
    MuxIsExclusive
    PassIsSustained
PROPERTIES
    PublishingHappens
