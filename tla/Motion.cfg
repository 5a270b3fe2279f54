\* 30 cm, 80 cm, 20 mm/s and 500 mm/s are the code's; times are in periods.
SPECIFICATION Spec
CONSTANTS
    StopDist = 30
    SafeDist = 80
    Ahead <- mcAhead
    StaleTimeout = 2
    MinValidEchoes = 1
    CrawlSpeed = 20
    HoldLimit = 3
    Scan <- mcScan
    Speed <- mcSpeed
    MaxAccel = 150
    MaxDecel = 250
    CmdTimeout = 2
    Crashes = TRUE
INVARIANTS
    StandsStill
    HoldBounded
    IdleMeansStill
PROPERTIES
    NoAdvanceBlind
    OwnWindow
