SPECIFICATION FairSpec
CONSTANTS
    LegacyClaims = {}
    StrandedClaims = {}
    NewClaims = {}
    Specs <- MCSpecs
    None = None
    MaxEdits = 3
    MaxFaults = 1
    MaxCrashes = 1
CHECK_DEADLOCK FALSE
INVARIANTS
    NotForgotten
PROPERTIES
    StatusIsOfLiveSpec
    StatusConverges
