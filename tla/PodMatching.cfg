SPECIFICATION Spec
CONSTANTS
    Plans = {"A", "B"}
    Taints <- MCTaints
    Tolerations <- MCTolerations
    Nil = Nil
    MaxTerms = 2
    MaxExprs = 2
CHECK_DEADLOCK FALSE
INVARIANTS
    FitAgreesWithScheduler
    NothingKeptInVain
