SPECIFICATION Spec
CONSTANTS
    Claims = {c1}
    Pods = {p1}
    Owners = {"ReplicaSet"}
    StartTaints <- MCTainted
    Fits <- MCFits
    Tolerant <- MCTolerant
    Nil = Nil
    TTL = 1
    TicksPerSecond = 1
    MaxFailures = 0
    MaxEdits = 1
PROPERTIES
    TaintNodeOnlyAdds
