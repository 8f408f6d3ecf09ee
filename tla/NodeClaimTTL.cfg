SPECIFICATION Spec
CONSTANTS
    Claims = {c1}
    Pods = {p1}
    Owners = {"ReplicaSet"}
    StartTaints <- MCUntainted
    Fits <- MCFits
    Tolerant <- MCTolerant
    Nil = Nil
    TTL = 3
    TicksPerSecond = 2
    MaxFailures = 1
    MaxEdits = 1
INVARIANTS
    TypeOK
    CheckedOnTime
PROPERTIES
    ResetIsRespected
    TaintedBeforeDeletion
