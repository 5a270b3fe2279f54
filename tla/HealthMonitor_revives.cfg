SPECIFICATION FairSpec
CONSTANTS
    lidar = lidar  mover = mover  any = any  amcl = amcl
    Node = {lidar, any, amcl}
    Probes <- TopicsAndProbe
    Client = {lidar, any}
    Timeout <- AllOne
    kMaxRetries = 2
    RestartTimeout = 1
    RestartEnabled = TRUE
    Faulty = FALSE
    MayBe <- Classes
    MayFall = {lidar, any}
INVARIANT TimersOnlyWhileActive
PROPERTY Revives
