SPECIFICATION Spec
CONSTANTS
    LegacyClaims = {o1}
    StrandedClaims = {}
    NewClaims = {}
    Specs <- MCTwoSpecs
    None = None
    MaxEdits = 0
    MaxFaults = 0
    MaxCrashes = 0
CHECK_DEADLOCK FALSE
PROPERTIES
    DriftedClaimsKeepTheirState
