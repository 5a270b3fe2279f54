\* One thread is enough.
SPECIFICATION Spec
CONSTANTS
    Width = 5
    Height = 4
    InscribedSq = 1
    InflationSq = 2
    Decay = 100
    Thread = {t1}
    Static <- mcStatic
    Lidar <- mcLidar
    Start <- mcStart
    Goals <- mcGoals
    Echoes <- mcEchoes
    Frame <- mcFrame
    SnapSq = 1
    MaxIterations = 10
INVARIANTS
    BarrierStands
