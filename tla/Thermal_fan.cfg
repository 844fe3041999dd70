SPECIFICATION Spec
CONSTANTS
    SensorOrder <- MCOrder
    Watched = {"main_board"}
    FrontUnit = {"front_unit"}
    Temps = {1, 3, 5, 20}
    MIN_C = 0
    MAX_C = 10
    OUTLIER_C = 3
    OVERTEMP_C = 3
    OVERTEMP_TO_NOMINAL_DROP_C = 1
    OVERTEMP_TO_CRITICAL_RISE_C = 1
    CRITICAL_TO_SHUTDOWN_DELAY = 6
    SAMPLE_COUNT = 2
    Periods = {2}
    Speeds = {0}
    MAX_SPEED = 3
    INITIAL_SPEED = 1
INVARIANTS
    FullSpeedWhileHot
    SpeedComesBack
    CriticalIsCutOff
