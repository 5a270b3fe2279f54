\* As in the code, the limit can end a search that another turn would have brought on.
SPECIFICATION Spec
CONSTANTS
    Width = 5
    Height = 4
    InscribedSq = 1
    InflationSq = 2
    Decay = 100
    Thread = {t1, t2}
    Static <- mcStatic
    Lidar <- mcLidar
    Start <- mcStart
    Goals <- mcGoals
    Echoes <- mcEchoes
    Frame <- mcFrame
    SnapSq = 1
    MaxIterations = 10
SYMMETRY Symmetry
INVARIANTS
    PathSound
    AvoidsObstacles
    FindsBest
