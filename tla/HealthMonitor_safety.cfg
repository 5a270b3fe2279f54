SPECIFICATION Spec
CONSTANTS
    lidar = lidar  mover = mover  any = any  amcl = amcl
    Node = {lidar, mover}
    Probes <- TwoTopics
    Client = {lidar, mover}
    Timeout <- AllOne
    kMaxRetries = 2
    RestartTimeout = 1
    RestartEnabled = TRUE
    Faulty = TRUE
    MayBe <- Classes
    MayFall = {lidar, mover}
INVARIANTS
    TypeOK
    OneTransitionUnderWay
    RestartsWithinBudget
    ServiceAgrees
    TimersOnlyWhileActive
