----------------------------- MODULE PodMatching -----------------------------
(***************************************************************************)
(* Whether a pending pod could use a node, as the nodeclaimttl controller  *)
(* decides it: podFitsInstanceType on nodeSelector and required node       *)
(* affinity, podToleratesNodeTaints on tolerations. It gives the constants *)
(* Fits and Tolerant of NodeClaimTTL their meaning. The reference is what  *)
(* the Kubernetes scheduler does.                                          *)
(*                                                                         *)
(* The code goes through terms, expressions and tolerations in order, but  *)
(* no result depends on it: they are sets. An expression on any other key  *)
(* than the instance type is taken to hold, as the code ignores it. A pod  *)
(* without required affinity has no terms; the API server admits no        *)
(* required affinity without terms.                                        *)
(***************************************************************************)
EXTENDS Naturals, FiniteSets

CONSTANTS
    Plans,           \* names of plans
    Taints,          \* the taints nodes may have
    Tolerations,     \* the tolerations pods may have
    Nil,             \* no entry for the instance type in the nodeSelector
    MaxTerms,        \* bound: terms of a pod's required affinity
    MaxExprs         \* bound: expressions of a term

Any == ""            \* an empty field of a toleration

InstanceTypeKey == "node.kubernetes.io/instance-type"
Expr(key, op, values) == [key |-> key, op |-> op, values |-> values]
Exprs == {Expr(InstanceTypeKey, op, vs) : op \in {"In", "NotIn"}, vs \in SUBSET Plans \ {{}}}
         \cup {Expr(InstanceTypeKey, op, {}) : op \in {"Exists", "DoesNotExist"}}
         \cup {Expr("other", "Exists", {})}

Effects == {"NoSchedule", "NoExecute", "PreferNoSchedule"}

ASSUME TaintsAssumption == Taints \subseteq [key : STRING, value : STRING, effect : Effects]

(* The tolerations the API server admits: without a key only with Exists,   *)
(* and with Exists no value.                                                *)
ASSUME TolerationsAssumption ==
    /\ Tolerations \subseteq [key : STRING, op : {"Equal", "", "Exists"}, value : STRING,
                              effect : Effects \cup {Any}]
    /\ \A t \in Tolerations : IF t.op = "Exists" THEN t.value = Any ELSE t.key # Any

VARIABLES
    plan,            \* the node's instance type
    taints,          \* the node's taints
    pod              \* a pending pod: nodeSelector, required affinity, tolerations

vars == <<plan, taints, pod>>

-----------------------------------------------------------------------------
(* The controller                                                           *)

OnInstanceType(e) == e.key = InstanceTypeKey

(* found and failed, after the loop over the expressions of a term. *)
Found(term) == \E e \in term : OnInstanceType(e) /\ e.op \in {"In", "Exists"}
Failed(term, p) == \E e \in term : OnInstanceType(e) /\ e.op = "In" /\ p \notin e.values

(* Mutant of hasConstrainingTerm: the operators the first loop knows only. *)
hasFoundTerm(terms) == \E term \in terms : Found(term)

hasConstrainingTerm(terms) == \E term \in terms : \E e \in term : OnInstanceType(e)

(* Mutant of podFitsInstanceType: the nodeSelector is not looked at. *)
podFitsAffinityOnly(k, p) ==
    (\E term \in k.terms : Found(term) /\ ~Failed(term, p)) \/ ~hasConstrainingTerm(k.terms)

podFitsInstanceType(k, p) ==
    /\ k.selector \in {Nil, p}
    /\ (\E term \in k.terms : Found(term) /\ ~Failed(term, p)) \/ ~hasConstrainingTerm(k.terms)

(* Mutant of tolerationMatches: the effect is not looked at. *)
tolerationMatchesAnyEffect(taint, tolerations) ==
    \E t \in tolerations :
        /\ t.key \in {Any, taint.key}
        /\ t.op = "Exists" \/ t.value = taint.value

tolerationMatches(taint, tolerations) ==
    \E t \in tolerations :
        /\ t.key \in {Any, taint.key}
        /\ t.effect \in {Any, taint.effect}
        /\ t.op = "Exists" \/ t.value = taint.value

podToleratesNodeTaints(k, ts) ==
    \A taint \in ts :
        taint.effect \in {"NoSchedule", "NoExecute"} => tolerationMatches(taint, k.tolerations)

(* What isMatchingPending asks of a pod and a node of plan p with taints ts.*)
couldUse(k, p, ts) == podFitsInstanceType(k, p) /\ podToleratesNodeTaints(k, ts)

-----------------------------------------------------------------------------
(* The scheduler: the reference                                             *)

Holds(e, p) ==
    \/ ~OnInstanceType(e)
    \/ e.op = "In" /\ p \in e.values
    \/ e.op = "NotIn" /\ p \notin e.values
    \/ e.op = "Exists"

(* A term without expressions matches no node. *)
TermMatches(term, p) == term # {} /\ \A e \in term : Holds(e, p)

SchedulerFits(k, p) ==
    /\ k.selector # Nil => k.selector = p
    /\ k.terms # {} => \E term \in k.terms : TermMatches(term, p)

(* A toleration as the set of the taints that it covers: an empty field, or *)
(* for the value the operator Exists, stands for all.                       *)
Covered(t) ==
    [key : IF t.key = Any THEN STRING ELSE {t.key},
     value : IF t.op = "Exists" THEN STRING ELSE {t.value},
     effect : IF t.effect = Any THEN Effects ELSE {t.effect}]

(* A node is ruled out by one taint that is more than a preference and that *)
(* none of the tolerations covers.                                          *)
SchedulerAdmits(k, p, ts) ==
    /\ SchedulerFits(k, p)
    /\ ~\E taint \in ts : /\ taint.effect # "PreferNoSchedule"
                          /\ \A t \in k.tolerations : taint \notin Covered(t)

-----------------------------------------------------------------------------
(* A user writes the pod; the node has any taints.                          *)

Init ==
    /\ plan \in Plans
    /\ taints \in SUBSET Taints
    /\ pod = [selector |-> Nil, terms |-> {}, tolerations |-> {}]

Select(p) ==
    /\ pod.selector = Nil /\ pod' = [pod EXCEPT !.selector = p]
    /\ UNCHANGED <<plan, taints>>

AddTerm ==
    /\ Cardinality(pod.terms) < MaxTerms
    /\ pod' = [pod EXCEPT !.terms = @ \cup {{}}]
    /\ UNCHANGED <<plan, taints>>

AddExpression(e) ==
    /\ \E term \in pod.terms :
          /\ Cardinality(term) < MaxExprs
          /\ pod' = [pod EXCEPT !.terms = (@ \ {term}) \cup {term \cup {e}}]
    /\ UNCHANGED <<plan, taints>>

Tolerate(t) ==
    /\ pod' = [pod EXCEPT !.tolerations = @ \cup {t}]
    /\ UNCHANGED <<plan, taints>>

Next ==
    \/ \E p \in Plans : Select(p)
    \/ AddTerm
    \/ \E e \in Exprs : AddExpression(e)
    \/ \E t \in Tolerations : Tolerate(t)

Spec == Init /\ [][Next]_vars

-----------------------------------------------------------------------------
(* Properties                                                               *)

Constrains(term) == \E e \in term : OnInstanceType(e)

(* On pods that name instance types with In and Exists only, and do so in   *)
(* all alternatives of their affinity or in none, isMatchingPending decides *)
(* as the scheduler does, whatever taints and tolerations there are: it     *)
(* neither keeps a node for a pod that will never run there nor removes one *)
(* that the pod is waiting for.                                             *)
FitAgreesWithScheduler ==
    /\ \A term \in pod.terms : term # {} /\ \A e \in term : e.op \in {"In", "Exists"}
    /\ (\A term \in pod.terms : Constrains(term)) \/ (\A term \in pod.terms : ~Constrains(term))
    => couldUse(pod, plan, taints) = SchedulerAdmits(pod, plan, taints)

(* With the other operators, and with alternatives that do not name an      *)
(* instance type, isMatchingPending errs on one side: it keeps no node for  *)
(* a pod the scheduler would refuse, unless a term is empty or adds NotIn   *)
(* or DoesNotExist to In or Exists.                                         *)
NothingKeptInVain ==
    /\ \A term \in pod.terms :
          /\ term # {}
          /\ Found(term) => \A e \in term : e.op \in {"In", "Exists"}
    /\ couldUse(pod, plan, taints)
    => SchedulerAdmits(pod, plan, taints)

(* "This term doesn't constrain instance type -> pod fits": one alternative *)
(* without an expression on the instance type is enough.                    *)
UnconstrainedTermFits ==
    /\ pod.selector \in {Nil, plan}
    /\ \E term \in pod.terms : term # {} /\ ~Constrains(term)
    => podFitsInstanceType(pod, plan)
=============================================================================
