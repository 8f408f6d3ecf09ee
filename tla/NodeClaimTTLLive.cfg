SPECIFICATION FairSpec
CONSTANTS
    Claims = {c1}
    Pods = {p1}
    Owners = {"ReplicaSet", "DaemonSet"}
    StartTaints <- MCUntainted
    Fits <- MCFits
    Tolerant <- MCTolerant
    Nil = Nil
    TTL = 1
    TicksPerSecond = 1
    MaxFailures = 1
    MaxEdits = 0
PROPERTIES
    IdleNodesAreDecommissioned
