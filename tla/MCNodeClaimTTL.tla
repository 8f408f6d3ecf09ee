--------------------------- MODULE MCNodeClaimTTL ---------------------------
(* NodeClaimTTL on small instances.                                         *)
EXTENDS NodeClaimTTL

(* Every pod fits every node and tolerates only the taints of others. *)
MCFits == Pods \X Claims
MCTolerant == Pods \X {"other"}

MCUntainted == {{}}
MCTainted == {{}, {"other"}}
=============================================================================
