SPECIFICATION LaunchFairSpec
CONSTANTS
    Claims = {c1}
    Servers = {s1, s2}
    Nil = Nil
    UserLabels <- MCUserLabels
    ClaimLabels <- MCClaimLabels
    MaxFaults = 1
    MaxCrashes = 1
    MaxSweeps = 0
    Plans <- MCPlans
    Details <- MCDetails
    ClassPlan = "CLOUDNATIVE"
    ClassSize = 20
    MaxInt = 15
    MiB = 4
    Names = {n1, n2}
    MaxPolls = 1
CHECK_DEADLOCK FALSE
INVARIANTS
    CertifiedServers
    ClaimDescribesServer
    BundledStorage
PROPERTIES
    DenialIsRespected
    CreateReturns
    DeletionCompletes
