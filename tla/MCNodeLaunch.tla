---------------------------- MODULE MCNodeLaunch ----------------------------
(* NodeLaunch on a small instance.                                          *)
EXTENDS NodeLaunch, TLC

(* The NodeClass sets the label of the instance type or none, and the claim *)
(* that of the capacity type or none.                                       *)
MCUserLabels == {NoLabels, TypeKey :> "other"}
MCClaimLabels == {NoLabels, CapacityTypeKey :> "other"}

(* A plan of flexible storage and the most memory that fits, and a spot     *)
(* plan that bundles its disk and has more memory than fits.                *)
MCPlans == {"CLOUDNATIVE", "SPOT"}
MCDetails ==
    [p \in MCPlans |-> IF p = "SPOT" THEN [spotName |-> TRUE, memory |-> 4, bundled |-> 50]
                                     ELSE [spotName |-> FALSE, memory |-> 3, bundled |-> 0]]
=============================================================================
