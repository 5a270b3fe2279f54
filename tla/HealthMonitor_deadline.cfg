SPECIFICATION FairSpec
CONSTANTS
    lidar = lidar  mover = mover  any = any  amcl = amcl
    Node = {lidar}
    Probes <- OneTopic
    Client = {lidar}
    Timeout <- AllOne
    kMaxRetries = 1
    RestartTimeout = 2
    RestartEnabled = TRUE
    Faulty = TRUE
    MayBe <- Classes
    MayFall = {lidar}
PROPERTY RestartEnds
