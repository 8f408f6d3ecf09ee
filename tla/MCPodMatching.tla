---------------------------- MODULE MCPodMatching ----------------------------
(* PodMatching on a small instance.                                         *)
EXTENDS PodMatching

(* Two taints of one key that differ in value and effect, one of another    *)
(* key, and one that is a preference.                                       *)
MCTaints == {[key |-> "k", value |-> "",  effect |-> "NoSchedule"],
             [key |-> "k", value |-> "v", effect |-> "NoExecute"],
             [key |-> "l", value |-> "v", effect |-> "NoSchedule"],
             [key |-> "l", value |-> "",  effect |-> "PreferNoSchedule"]}

(* By value, by key, by effect; with the operator left out; for everything. *)
MCTolerations == {[key |-> "k", op |-> "Equal",  value |-> "v", effect |-> "NoExecute"],
                  [key |-> "k", op |-> "",       value |-> "",  effect |-> Any],
                  [key |-> "l", op |-> "Exists", value |-> Any, effect |-> "NoExecute"],
                  [key |-> "l", op |-> "Exists", value |-> Any, effect |-> Any],
                  [key |-> Any, op |-> "Exists", value |-> Any, effect |-> "NoSchedule"]}
=============================================================================
