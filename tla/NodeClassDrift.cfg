SPECIFICATION Spec
CONSTANTS
    LegacyClaims = {o1}
    StrandedClaims = {}
    NewClaims = {n1}
    Specs <- MCThreeSpecs
    None = None
    MaxEdits = 1
    MaxFaults = 0
    MaxCrashes = 0
CHECK_DEADLOCK FALSE
INVARIANTS
    TypeOK
PROPERTIES
    DriftIsGenuine
