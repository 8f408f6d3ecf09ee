SPECIFICATION FairSpec
CONSTANTS
    LegacyClaims = {}
    StrandedClaims = {}
    NewClaims = {n1}
    Specs <- MCTwoSpecs
    None = None
    MaxEdits = 2
    MaxFaults = 1
    MaxCrashes = 1
CHECK_DEADLOCK FALSE
INVARIANTS
    StampMatchesBuild
PROPERTIES
    DriftIsDetected
    DriftIsGenuine
