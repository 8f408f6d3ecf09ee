------------------------- MODULE MCServerLifecycle -------------------------
(* ServerLifecycle on small instances.                                      *)
EXTENDS ServerLifecycle, TLC

(* A NodeClass without labels, and one that sets the marker's own key.      *)
MCUserLabels == {NoLabels, ManagedKey :> "other"}

MCSymmetry == Permutations(Claims) \cup Permutations(Servers)
=============================================================================
