SPECIFICATION FairSpec
CONSTANTS
    LegacyClaims = {o1}
    StrandedClaims = {x1}
    NewClaims = {}
    Specs <- MCTwoSpecs
    None = None
    MaxEdits = 0
    MaxFaults = 1
    MaxCrashes = 1
CHECK_DEADLOCK FALSE
PROPERTIES
    AdoptedEventually
