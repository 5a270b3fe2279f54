SPECIFICATION Spec
CONSTANTS
    Coord = {0, 1}
    NoPlace = NoPlace
    Between = Between
    Thread = {t1, t2}
    ServerMayBeDown = FALSE
    MaxTasks = 1
    MaxFaults = 0
    MaxOverlaps = 1
INVARIANT OneOutstanding
