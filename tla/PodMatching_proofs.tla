-------------------------- MODULE PodMatching_proofs --------------------------
(***************************************************************************)
(* Proofs about PodMatching, for every set of plans, taints and            *)
(* tolerations, and any number of them, of terms and of expressions. Of    *)
(* the node matters only that its taints are taints.                       *)
(***************************************************************************)
EXTENDS PodMatching, TLAPS

(* A term that names the instance type with In and Exists only is not       *)
(* failed exactly if the scheduler takes all its expressions to hold.       *)
LEMMA TermAgrees ==
    ASSUME NEW term, NEW p, term # {}, \A e \in term : e.op \in {"In", "Exists"}
    PROVE  /\ TermMatches(term, p) <=> ~Failed(term, p)
           /\ Found(term) <=> Constrains(term)
  BY DEF TermMatches, Holds, Failed, Found, Constrains

(* podToleratesNodeTaints is the scheduler's rule. *)
LEMMA TolerationsAgree ==
    ASSUME NEW ts \in SUBSET Taints, NEW k
    PROVE  podToleratesNodeTaints(k, ts) <=>
               ~\E taint \in ts : /\ taint.effect # "PreferNoSchedule"
                                 /\ \A t \in k.tolerations : taint \notin Covered(t)
<1>1. ASSUME NEW taint \in ts
      PROVE  /\ taint.effect # "PreferNoSchedule" <=> taint.effect \in {"NoSchedule", "NoExecute"}
             /\ tolerationMatches(taint, k.tolerations) <=>
                   \E t \in k.tolerations : taint \in Covered(t)
  <2>1. taint \in [key : STRING, value : STRING, effect : Effects]
    BY TaintsAssumption
  <2>2. taint.effect # "PreferNoSchedule" <=> taint.effect \in {"NoSchedule", "NoExecute"}
    BY <2>1 DEF Effects
  <2>3. \A t : taint \in Covered(t) <=> /\ t.key \in {Any, taint.key}
                                        /\ t.effect \in {Any, taint.effect}
                                        /\ t.op = "Exists" \/ t.value = taint.value
    BY <2>1 DEF Covered
  <2> QED
    BY <2>2, <2>3 DEF tolerationMatches
<1> QED
  BY <1>1 DEF podToleratesNodeTaints

(* The node's taints are taints. *)
LEMMA TaintsInvariant == Spec => [](taints \subseteq Taints)
<1>1. Init => taints \subseteq Taints
  BY DEF Init
<1>2. taints \subseteq Taints /\ [Next]_vars => (taints \subseteq Taints)'
  BY DEF Next, vars, Select, AddTerm, AddExpression, Tolerate
<1> QED
  BY <1>1, <1>2, PTL DEF Spec

(* isMatchingPending decides as the scheduler does, on all pods that use In *)
(* and Exists, in all terms or in none, and on all taints and tolerations.  *)
THEOREM FitAgrees == Spec => []FitAgreesWithScheduler
<1>1. taints \subseteq Taints => FitAgreesWithScheduler
  <2> SUFFICES ASSUME taints \subseteq Taints,
                      \A term \in pod.terms : term # {} /\ \A e \in term : e.op \in {"In", "Exists"},
                      \/ \A term \in pod.terms : Constrains(term)
                      \/ \A term \in pod.terms : ~Constrains(term)
               PROVE  couldUse(pod, plan, taints) = SchedulerAdmits(pod, plan, taints)
    BY DEF FitAgreesWithScheduler
  <2>1. \A term \in pod.terms : /\ TermMatches(term, plan) <=> ~Failed(term, plan)
                                /\ Found(term) <=> Constrains(term)
    BY TermAgrees
  <2>2. hasConstrainingTerm(pod.terms) <=> \E term \in pod.terms : Constrains(term)
    BY DEF hasConstrainingTerm, Constrains
  <2>3. \A term \in pod.terms : Failed(term, plan) => Constrains(term)
    BY DEF Failed, Constrains
  <2>4. podFitsInstanceType(pod, plan) <=> SchedulerFits(pod, plan)
    BY <2>1, <2>2, <2>3 DEF podFitsInstanceType, SchedulerFits
  <2>5. couldUse(pod, plan, taints) <=> SchedulerAdmits(pod, plan, taints)
    BY <2>4, TolerationsAgree DEF couldUse, SchedulerAdmits
  <2> QED
    BY <2>5 DEF couldUse, SchedulerAdmits
<1> QED
  BY <1>1, TaintsInvariant, PTL

(* isMatchingPending keeps no node for a pod the scheduler would refuse,    *)
(* except by the operators the property excludes.                           *)
THEOREM NothingIsKeptInVain == Spec => []NothingKeptInVain
<1>1. taints \subseteq Taints => NothingKeptInVain
  <2> SUFFICES ASSUME taints \subseteq Taints,
                      \A term \in pod.terms :
                         /\ term # {}
                         /\ Found(term) => \A e \in term : e.op \in {"In", "Exists"},
                      couldUse(pod, plan, taints)
               PROVE  SchedulerAdmits(pod, plan, taints)
    BY DEF NothingKeptInVain
  <2>1. ASSUME NEW term \in pod.terms, Found(term), ~Failed(term, plan)
        PROVE  TermMatches(term, plan)
    BY <2>1, TermAgrees
  <2>2. ASSUME NEW term \in pod.terms, ~hasConstrainingTerm(pod.terms)
        PROVE  TermMatches(term, plan)
    BY <2>2 DEF hasConstrainingTerm, TermMatches, Holds
  <2>3. SchedulerFits(pod, plan)
    BY <2>1, <2>2 DEF couldUse, podFitsInstanceType, SchedulerFits
  <2> QED
    BY <2>3, TolerationsAgree DEF couldUse, SchedulerAdmits
<1> QED
  BY <1>1, TaintsInvariant, PTL
=============================================================================
