SPECIFICATION FairSpec
CONSTANTS
    Coord = {0, 1}
    NoPlace = NoPlace
    Between = Between
    Thread = {t1}
    ServerMayBeDown = TRUE
    MaxTasks = 1
    MaxFaults = 2
    MaxOverlaps = 1
INVARIANTS
    TypeOK
    SuccessMeansThere
PROPERTY Reaches
