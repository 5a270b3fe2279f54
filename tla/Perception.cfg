SPECIFICATION Spec
CONSTANTS
    Obj = {o1, o2}
    MaxMissedFrames = 1
    MaxTracks = 2
    Radius = 2
    Timeout <- mcTimeout
    NeverAge = 1
    StaleWindow = 1
    Tolerance = 0
    MaxLag = 1
    TickLimit = 2
    Jitter = 1
    HeartbeatEvery = 2
    MaxId = 3
    Crowded = FALSE
SYMMETRY Symmetry
INVARIANTS
    LossIsTold
    TracksFollowDetections
PROPERTIES
    IdsPersist
