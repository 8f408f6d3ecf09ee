SPECIFICATION Spec
CONSTANTS
    Claims = {c1, c2}
    Servers = {s1, s2}
    Nil = Nil
    UserLabels <- MCUserLabels
    MaxFaults = 2
    MaxCrashes = 1
    MaxSweeps = 1
SYMMETRY MCSymmetry
CHECK_DEADLOCK FALSE
INVARIANTS
    TypeOK
    NoStrayServer
    LeaksAreAccountedFor
    NeverStuck
PROPERTIES
    SweepSparesListedServers
    ImplementsLease
