----------------------------- MODULE NodeClaimTTL -----------------------------
(***************************************************************************)
(* The nodeclaimttl controller: it gives every NodeClaim a lifetime and,   *)
(* when that is over, starts it anew (the node has pods, or a pending pod  *)
(* could use it) or taints the node and deletes the claim.                 *)
(*                                                                         *)
(* The controller reads NodeClaims, Nodes and Pods from caches that follow *)
(* the Kubernetes API with any delay, each on its own, and writes to the   *)
(* API. Users, the scheduler, kubelets and Karpenter act in between.       *)
(*                                                                         *)
(* Time is discrete, TicksPerSecond ticks to a second, so that the         *)
(* timestamps, which have whole seconds, lose something. Instead of a      *)
(* clock the model keeps ages, which stop counting at TTL: that an age     *)
(* exceeds TTL, and not by how much, is all the code looks at.             *)
(*                                                                         *)
(* Which pods fit a node is decided in PodMatching.                        *)
(***************************************************************************)
EXTENDS Integers, FiniteSets

CONSTANTS
    Claims,           \* NodeClaims; each has a Node of its own
    Pods,             \* Pods
    Owners,           \* the kinds of their owners
    StartTaints,      \* the sets of taints a node may join with
    Fits,             \* <<pod, claim>>: podFitsInstanceType holds
    Tolerant,         \* <<pod, taint>>: the pod tolerates the taint
    Nil,              \* no object, no annotation, no timer
    TTL,              \* UPCLOUD_NODECLAIM_TTL, in ticks
    TicksPerSecond,
    MaxFailures,      \* bound: API calls that fail, restarts of the process
    MaxEdits          \* bound: annotations a user removes, taints others set

Decommissioning == "decommissioning"
Taints == {Decommissioning, "other"}
Ages == 0..TTL

ASSUME TTLAssumption == TTL \in Nat \ {0} /\ TicksPerSecond \in Nat \ {0}
ASSUME TaintsAssumption == StartTaints \subseteq SUBSET {"other"}
ASSUME BoundsAssumption == MaxFailures \in Nat /\ MaxEdits \in Nat
ASSUME NilAssumption == /\ Nil \notin Ages /\ Nil \notin Claims /\ Nil \notin Owners
                        /\ \A taints \in SUBSET Taints : Nil # taints

VARIABLES
    claim,          \* claim -> the NodeClaim in the Kubernetes API
    node,           \* claim -> the taints of its Node, or Nil if there is none
    pod,            \* pod -> the Pod
    claimCache, nodeCache, podCache,      \* the process's copies of them
    behind,         \* the claims with watch events still to be delivered
    queued,         \* the claims in the controller's work queue
    timer,          \* claim -> ticks until it is added to the queue, or Nil
    work,           \* the reconciler
    sub,            \* ticks since the last whole second
    failures, edits

caches == <<claimCache, nodeCache, podCache>>
boundVars == <<failures, edits>>
vars == <<claim, node, pod, claimCache, nodeCache, podCache, behind, queued, timer, work, sub,
          failures, edits>>

-----------------------------------------------------------------------------
(* NodeClaims and time                                                      *)

(* created and reset: the ages of creationTimestamp and of the time in the  *)
(* ttl-reset-at annotation; reset is Nil if there is none that can be       *)
(* parsed. A claim that is not there has ages that no longer change.        *)
NoClaim(phase) == [phase |-> phase, created |-> TTL, reset |-> Nil]

Exists(k) == k.phase \in {"launching", "registered", "deleting"}

(* The age of ttlStart(nc). *)
Elapsed(k) == IF k.reset # Nil THEN k.reset ELSE k.created

(* The age of "now" once it is written with whole seconds (RFC3339, and     *)
(* metav1.Time): the fraction of the second is cut off.                     *)
Now == IF sub < TTL THEN sub ELSE TTL

Older(age) == IF age < TTL THEN age + 1 ELSE age
OlderClaim(k) == [k EXCEPT !.created = Older(@), !.reset = IF @ = Nil THEN Nil ELSE Older(@)]

Tick ==
    /\ sub' = (sub + 1) % TicksPerSecond
    /\ claim' = [c \in Claims |-> OlderClaim(claim[c])]
    /\ claimCache' = [c \in Claims |-> OlderClaim(claimCache[c])]
    /\ timer' = [c \in Claims |-> IF timer[c] \in {Nil, 0} THEN timer[c] ELSE timer[c] - 1]
    /\ UNCHANGED <<node, pod, nodeCache, podCache, behind, queued, work, boundVars>>

-----------------------------------------------------------------------------
(* The cluster                                                              *)

(* A write of the claim to the API, which the watch is going to report. *)
Write(c, k) == claim' = [claim EXCEPT ![c] = k] /\ behind' = behind \cup {c}

NoPod == [state |-> "none", on |-> Nil, owner |-> Nil]
Waiting(p) == pod[p].state \in {"new", "unschedulable", "gated"}

Init ==
    /\ claim = [c \in Claims |-> NoClaim("absent")] /\ claimCache = claim
    /\ node = [c \in Claims |-> Nil] /\ nodeCache = node
    /\ pod = [p \in Pods |-> NoPod] /\ podCache = pod
    /\ behind = {} /\ queued = {} /\ timer = [c \in Claims |-> Nil]
    /\ work = [pc |-> "idle", claim |-> Nil, pending |-> {}, taints |-> {}, stale |-> FALSE]
    /\ sub = 0
    /\ failures = 0 /\ edits = 0

ClaimCreated(c) ==
    /\ claim[c].phase = "absent"
    /\ Write(c, [phase |-> "launching", created |-> Now, reset |-> Nil])
    /\ UNCHANGED <<node, pod, caches, queued, timer, work, sub, boundVars>>

(* The node joins; Karpenter writes its name to status.nodeName. *)
Registered(c, taints) ==
    /\ claim[c].phase = "launching"
    /\ node' = [node EXCEPT ![c] = taints]
    /\ Write(c, [claim[c] EXCEPT !.phase = "registered"])
    /\ UNCHANGED <<pod, caches, queued, timer, work, sub, boundVars>>

(* Someone else deletes the claim. *)
ClaimDeleted(c) ==
    /\ claim[c].phase \in {"launching", "registered"}
    /\ Write(c, [claim[c] EXCEPT !.phase = "deleting"])
    /\ UNCHANGED <<node, pod, caches, queued, timer, work, sub, boundVars>>

(* Karpenter has drained and removed the node. *)
Finalized(c) ==
    /\ claim[c].phase = "deleting"
    /\ Write(c, NoClaim("gone"))
    /\ node' = [node EXCEPT ![c] = Nil]
    /\ pod' = [p \in Pods |-> IF pod[p].on = c THEN NoPod ELSE pod[p]]
    /\ UNCHANGED <<caches, queued, timer, work, sub, boundVars>>

(* A user removes the annotation, or makes it something that is no time. *)
AnnotationSpoilt(c) ==
    /\ edits < MaxEdits /\ edits' = edits + 1
    /\ claim[c].phase = "registered" /\ claim[c].reset # Nil
    /\ Write(c, [claim[c] EXCEPT !.reset = Nil])
    /\ UNCHANGED <<node, pod, caches, queued, timer, work, sub, failures>>

(* Another controller adds its taint to the node, or removes it. *)
OtherTaint(c) ==
    /\ edits < MaxEdits /\ edits' = edits + 1
    /\ node[c] # Nil
    /\ node' = [node EXCEPT ![c] = IF "other" \in @ THEN @ \ {"other"} ELSE @ \cup {"other"}]
    /\ UNCHANGED <<claim, behind, pod, caches, queued, timer, work, sub, failures>>

Tolerates(p, taints) == \A t \in taints : <<p, t>> \in Tolerant

PodStep(p, new) ==
    /\ pod' = [pod EXCEPT ![p] = new]
    /\ UNCHANGED <<claim, behind, node, caches, queued, timer, work, sub, boundVars>>

(* A new pod has no PodScheduled condition; the scheduler sets one, with    *)
(* the reason Unschedulable or SchedulingGated.                             *)
PodCreated(p, owner) ==
    pod[p] = NoPod /\ PodStep(p, [state |-> "new", on |-> Nil, owner |-> owner])
PodUnschedulable(p) == Waiting(p) /\ PodStep(p, [pod[p] EXCEPT !.state = "unschedulable"])
PodGated(p) == pod[p].state = "new" /\ PodStep(p, [pod[p] EXCEPT !.state = "gated"])

(* The scheduler decides by its own copy of the node, which may be of any   *)
(* age, and the binding itself checks no taints: a pod may come to a node   *)
(* whatever its taints are now. Fewer pods do, in fact: those the scheduler *)
(* has seen a taint in time for stay away.                                  *)
PodBound(p, c) ==
    /\ pod[p].state \in {"new", "unschedulable"}
    /\ node[c] # Nil /\ <<p, c>> \in Fits
    /\ PodStep(p, [pod[p] EXCEPT !.state = "bound", !.on = c])

PodDeleted(p) == pod[p].state = "bound" /\ PodStep(p, [pod[p] EXCEPT !.state = "terminating"])
PodGone(p) == (pod[p].state = "terminating" \/ Waiting(p)) /\ PodStep(p, NoPod)

-----------------------------------------------------------------------------
(* Caches and the work queue                                                *)

(* A watch event: the controller's predicate lets every one pass. *)
SyncClaim(c) ==
    /\ c \in behind
    /\ behind' = behind \ {c}
    /\ claimCache' = [claimCache EXCEPT ![c] = claim[c]]
    /\ queued' = queued \cup {c}
    /\ UNCHANGED <<claim, node, pod, nodeCache, podCache, timer, work, sub, boundVars>>

(* An event about other fields of the cached object, or a periodic resync. *)
Resync(c) ==
    /\ Exists(claimCache[c]) /\ c \notin queued
    /\ queued' = queued \cup {c}
    /\ UNCHANGED <<claim, behind, node, pod, caches, timer, work, sub, boundVars>>

SyncNodes ==
    /\ nodeCache # node /\ nodeCache' = node
    /\ UNCHANGED <<claim, behind, node, pod, claimCache, podCache, queued, timer, work, sub, boundVars>>

SyncPods ==
    /\ podCache # pod /\ podCache' = pod
    /\ UNCHANGED <<claim, behind, node, pod, claimCache, nodeCache, queued, timer, work, sub, boundVars>>

TimerFires(c) ==
    /\ timer[c] = 0
    /\ timer' = [timer EXCEPT ![c] = Nil]
    /\ queued' = queued \cup {c}
    /\ UNCHANGED <<claim, behind, node, pod, caches, work, sub, boundVars>>

-----------------------------------------------------------------------------
(* Reconcile                                                                *)

(* stale is a ghost: a write to the claim was still to be reported when the *)
(* reconciler read it.                                                      *)
NoWork == [pc |-> "idle", claim |-> Nil, pending |-> {}, taints |-> {}, stale |-> FALSE]

Goto(pc) == work' = [work EXCEPT !.pc = pc]

(* Reconcile returns RequeueAfter: of two delayed Adds the earlier counts. *)
RequeueAfter(c, ticks) ==
    timer' = [timer EXCEPT ![c] = IF @ # Nil /\ @ < ticks THEN @ ELSE ticks]

(* Reconcile returns an error: the claim is added again after a back-off.  *)
ReturnError == work' = NoWork /\ queued' = queued \cup {work.claim} /\ UNCHANGED timer

(* There is no claim, it is being deleted, or it has no node yet.           *)
ReconcileNothing(c) ==
    /\ work = NoWork /\ c \in queued
    /\ claimCache[c].phase # "registered"
    /\ queued' = queued \ {c}
    /\ UNCHANGED <<claim, behind, node, pod, caches, timer, work, sub, boundVars>>

(* Mutants of ReconcileEarly: the whole TTL is waited for again, and the    *)
(* remaining time is computed with the wrong sign.                          *)
ReconcileEarlyWholeTTL(c) ==
    /\ work = NoWork /\ c \in queued
    /\ claimCache[c].phase = "registered" /\ Elapsed(claimCache[c]) < TTL
    /\ queued' = queued \ {c}
    /\ RequeueAfter(c, TTL)
    /\ UNCHANGED <<claim, behind, node, pod, caches, work, sub, boundVars>>
ReconcileEarlyWrongSign(c) ==
    /\ work = NoWork /\ c \in queued
    /\ claimCache[c].phase = "registered" /\ Elapsed(claimCache[c]) < TTL
    /\ queued' = queued \ {c}
    /\ RequeueAfter(c, TTL + Elapsed(claimCache[c]))
    /\ UNCHANGED <<claim, behind, node, pod, caches, work, sub, boundVars>>

(* The TTL has not expired yet: Reconcile asks to be called when it has. *)
ReconcileEarly(c) ==
    /\ work = NoWork /\ c \in queued
    /\ claimCache[c].phase = "registered" /\ Elapsed(claimCache[c]) < TTL
    /\ queued' = queued \ {c}
    /\ RequeueAfter(c, TTL - Elapsed(claimCache[c]))
    /\ UNCHANGED <<claim, behind, node, pod, caches, work, sub, boundVars>>

(* Mutant of ReconcileExpired: the reset is read for the delay only. *)
ReconcileExpiredSinceCreation(c) ==
    /\ work = NoWork /\ c \in queued
    /\ claimCache[c].phase = "registered" /\ claimCache[c].created >= TTL
    /\ queued' = queued \ {c}
    /\ work' = [NoWork EXCEPT !.pc = "pods", !.claim = c, !.stale = c \in behind]
    /\ UNCHANGED <<claim, behind, node, pod, caches, timer, sub, boundVars>>

(* The TTL has expired, by the copy of the claim that was read. *)
ReconcileExpired(c) ==
    /\ work = NoWork /\ c \in queued
    /\ claimCache[c].phase = "registered" /\ Elapsed(claimCache[c]) >= TTL
    /\ queued' = queued \ {c}
    /\ work' = [NoWork EXCEPT !.pc = "pods", !.claim = c, !.stale = c \in behind]
    /\ UNCHANGED <<claim, behind, node, pod, caches, timer, sub, boundVars>>

isDaemonSet(k) == k.owner = "DaemonSet"

hasNonDSPods(pods, c) ==
    \E p \in Pods : pods[p].on = c /\ ~isDaemonSet(pods[p]) /\ pods[p].state # "terminating"

(* The part of isMatchingPending that looks at the pod alone. *)
isPending(k) == k.state \in {"new", "unschedulable"}

(* The pods are listed: path 1 if the node has pods of its own. *)
ListPods ==
    /\ work.pc = "pods"
    /\ work' = IF hasNonDSPods(podCache, work.claim)
               THEN [work EXCEPT !.pc = "reset"]
               ELSE [work EXCEPT !.pc = "node", !.pending = {p \in Pods : isPending(podCache[p])}]
    /\ UNCHANGED <<claim, behind, node, pod, caches, queued, timer, sub, boundVars>>

hasMatchingPendingPod(pending, c, taints) ==
    \E p \in pending : <<p, c>> \in Fits /\ Tolerates(p, taints)

(* The node is read: path 2 if a pending pod could use it, else path 3.     *)
GetNode ==
    /\ work.pc = "node"
    /\ LET taints == nodeCache[work.claim]
       IN  \/ taints = Nil /\ ReturnError
           \/ /\ taints # Nil
              /\ work' = IF hasMatchingPendingPod(work.pending, work.claim, taints)
                         THEN [work EXCEPT !.pc = "reset", !.pending = {}]
                         ELSE [work EXCEPT !.pc = "taint", !.pending = {}, !.taints = taints]
              /\ UNCHANGED <<queued, timer>>
    /\ UNCHANGED <<claim, behind, node, pod, caches, sub, boundVars>>

(* The merge patch carries the one annotation, and no resourceVersion. *)
resetTTL ==
    /\ work.pc = "reset"
    /\ LET c == work.claim
       IN  \/ ~Exists(claim[c]) /\ ReturnError /\ UNCHANGED <<claim, behind>>
           \/ /\ Exists(claim[c])
              /\ Write(c, [claim[c] EXCEPT !.reset = Now])
              /\ RequeueAfter(c, TTL)
              /\ work' = NoWork
              /\ UNCHANGED queued
    /\ UNCHANGED <<node, pod, caches, sub, boundVars>>

(* Mutants of taintNode: the patch's error is logged and the claim deleted  *)
(* anyway, and a node that has the taint is taken for dealt with.           *)
taintNodeErrorIgnored ==
    /\ work.pc = "taint"
    /\ node' \in {node, [node EXCEPT ![work.claim] =
                            IF @ = Nil THEN Nil ELSE work.taints \cup {Decommissioning}]}
    /\ Goto("delete")
    /\ UNCHANGED <<claim, behind, pod, caches, queued, timer, sub, boundVars>>
taintNodeOnce ==
    /\ work.pc = "taint"
    /\ LET c == work.claim
       IN  \/ Decommissioning \in work.taints /\ work' = NoWork /\ UNCHANGED <<node, queued, timer>>
           \/ /\ Decommissioning \notin work.taints /\ node[c] # Nil
              /\ node' = [node EXCEPT ![c] = work.taints \cup {Decommissioning}]
              /\ Goto("delete")
              /\ UNCHANGED <<queued, timer>>
           \/ /\ Decommissioning \notin work.taints /\ node[c] = Nil
              /\ ReturnError /\ UNCHANGED node
    /\ UNCHANGED <<claim, behind, pod, caches, sub, boundVars>>

(* The merge patch replaces the list of taints by that of the copy with the *)
(* decommissioning taint added.                                             *)
taintNode ==
    /\ work.pc = "taint"
    /\ LET c == work.claim
       IN  \/ /\ Decommissioning \in work.taints
              /\ Goto("delete")
              /\ UNCHANGED <<node, queued, timer>>
           \/ /\ Decommissioning \notin work.taints /\ node[c] # Nil
              /\ node' = [node EXCEPT ![c] = work.taints \cup {Decommissioning}]
              /\ Goto("delete")
              /\ UNCHANGED <<queued, timer>>
           \/ /\ Decommissioning \notin work.taints /\ node[c] = Nil
              /\ ReturnError /\ UNCHANGED node
    /\ UNCHANGED <<claim, behind, pod, caches, sub, boundVars>>

DeleteClaim ==
    /\ work.pc = "delete"
    /\ LET c == work.claim
       IN  \/ ~Exists(claim[c]) /\ ReturnError /\ UNCHANGED <<claim, behind>>
           \/ /\ Exists(claim[c])
              /\ Write(c, [claim[c] EXCEPT !.phase = "deleting"])
              /\ work' = NoWork
              /\ UNCHANGED <<queued, timer>>
    /\ UNCHANGED <<node, pod, caches, sub, boundVars>>

(* A call of the API fails, whichever it is. *)
ReconcileFails ==
    /\ work.pc # "idle"
    /\ failures < MaxFailures /\ failures' = failures + 1
    /\ ReturnError
    /\ UNCHANGED <<claim, behind, node, pod, caches, sub, edits>>

(* The process restarts: it lists what there is and queues every claim. *)
Crash ==
    /\ failures < MaxFailures /\ failures' = failures + 1
    /\ claimCache' = claim /\ nodeCache' = node /\ podCache' = pod
    /\ behind' = {} /\ queued' = {c \in Claims : Exists(claim[c])}
    /\ timer' = [c \in Claims |-> Nil]
    /\ work' = NoWork
    /\ UNCHANGED <<claim, node, pod, sub, edits>>

ClusterStep ==
    \/ \E c \in Claims : \/ ClaimCreated(c) \/ ClaimDeleted(c) \/ Finalized(c)
                         \/ AnnotationSpoilt(c) \/ OtherTaint(c)
                         \/ \E taints \in StartTaints : Registered(c, taints)
    \/ \E p \in Pods : \/ \E owner \in Owners : PodCreated(p, owner)
                       \/ PodUnschedulable(p) \/ PodGated(p)
                       \/ PodDeleted(p) \/ PodGone(p)
                       \/ \E c \in Claims : PodBound(p, c)

ReconcileBegin(c) == ReconcileNothing(c) \/ ReconcileEarly(c) \/ ReconcileExpired(c)

ReconcileStep ==
    \/ ListPods
    \/ GetNode
    \/ resetTTL
    \/ taintNode
    \/ DeleteClaim
    \/ ReconcileFails

Next ==
    \/ Tick
    \/ ClusterStep
    \/ \E c \in Claims : SyncClaim(c) \/ Resync(c) \/ TimerFires(c) \/ ReconcileBegin(c)
    \/ SyncNodes
    \/ SyncPods
    \/ ReconcileStep
    \/ Crash

Spec == Init /\ [][Next]_vars

(* Time passes, watches deliver, and the work queue is first in, first out. *)
Fairness ==
    /\ WF_vars(Tick) /\ WF_vars(SyncNodes) /\ WF_vars(SyncPods) /\ WF_vars(ReconcileStep)
    /\ \A c \in Claims :
          /\ WF_vars(SyncClaim(c)) /\ WF_vars(TimerFires(c))
          /\ SF_vars(ReconcileBegin(c))

FairSpec == Spec /\ Fairness

-----------------------------------------------------------------------------
(* Properties                                                               *)

ClaimRecords == [phase : {"absent", "launching", "registered", "deleting", "gone"},
                 created : Ages, reset : Ages \cup {Nil}]
PodRecords == [state : {"none", "new", "unschedulable", "gated", "bound", "terminating"},
               on : Claims \cup {Nil}, owner : Owners \cup {Nil}]
WorkRecords == [pc : {"idle", "pods", "node", "reset", "taint", "delete"},
                claim : Claims \cup {Nil}, pending : SUBSET Pods, taints : SUBSET Taints,
                stale : BOOLEAN]

(* Every variable keeps its type; no delay asked for exceeds the TTL. *)
TypeOK ==
    /\ claim \in [Claims -> ClaimRecords] /\ claimCache \in [Claims -> ClaimRecords]
    /\ node \in [Claims -> {Nil} \cup SUBSET Taints]
    /\ nodeCache \in [Claims -> {Nil} \cup SUBSET Taints]
    /\ pod \in [Pods -> PodRecords] /\ podCache \in [Pods -> PodRecords]
    /\ behind \subseteq Claims /\ queued \subseteq Claims
    /\ timer \in [Claims -> Ages \cup {Nil}]
    /\ work \in WorkRecords
    /\ sub \in 0..(TicksPerSecond - 1)
    /\ failures \in 0..MaxFailures /\ edits \in 0..MaxEdits

(* A claim with a node is always looked at in time: unless it is queued,    *)
(* being reconciled, or changed in a way that the watch has yet to report, a*)
(* delayed Add for it comes due less than a second after its TTL expires,   *)
(* whatever the rounding of timestamps, resets, edits and restarts.         *)
CheckedOnTime ==
    \A c \in Claims : claim[c].phase = "registered" =>
        \/ c \in queued \/ work.claim = c \/ c \in behind
        \/ timer[c] # Nil /\ timer[c] + Elapsed(claim[c]) < TTL + TicksPerSecond

(* The node has no pods of its own, and no pending pod could use it. *)
IdleNode(c) ==
    /\ claim[c].phase = "registered"
    /\ ~hasNonDSPods(pod, c)
    /\ ~hasMatchingPendingPod({p \in Pods : isPending(pod[p])}, c, node[c])

(* A node does not stay idle for ever: it is given work or its claim is     *)
(* deleted, also when the process stops between the taint and the deletion, *)
(* when calls fail, and when pods come and go elsewhere.                    *)
IdleNodesAreDecommissioned == \A c \in Claims : []<>~IdleNode(c)

(* The controller deletes a claim before the deadline it has set itself     *)
(* only if the watch had not reported a write to the claim when Reconcile   *)
(* read it: a reset that has reached the cache is always respected, however *)
(* long the calls between the reading and the deletion take, and whatever   *)
(* is edited, retried or restarted meanwhile.                               *)
ResetIsRespected ==
    [][\A c \in Claims :
          DeleteClaim /\ work.claim = c /\ claim[c].phase = "registered" =>
              Elapsed(claim[c]) >= TTL \/ work.stale]_vars

(* "taint then delete": a claim is deleted only when its node, if it still  *)
(* has one, has the decommissioning taint in the API, also when taintNode   *)
(* took a copy's word for it and wrote nothing, however old the copy and    *)
(* whatever failed, was edited or restarted in between. A scheduler that    *)
(* has caught up with the node places no pod there that Karpenter then      *)
(* evicts; one that is behind may. (That nobody else removes this taint is  *)
(* assumed: it is the controller's own.)                                    *)
TaintedBeforeDeletion ==
    [][\A c \in Claims :
          DeleteClaim /\ work.claim = c /\ node[c] # Nil => Decommissioning \in node[c]]_vars

(* "taintNode adds the decommissioning NoSchedule taint": it changes no     *)
(* other taint of the node.                                                 *)
TaintNodeOnlyAdds ==
    [][\A c \in Claims : taintNode /\ node'[c] # node[c] =>
          node'[c] = node[c] \cup {Decommissioning}]_vars
-----------------------------------------------------------------------------
(* The inductive invariant of NodeClaimTTL_proofs                           *)

(* A claim the watch has nothing to report of is cached as it is, and the   *)
(* reconciler, when it is busy, is busy with a claim.                       *)
CacheInv ==
    /\ \A c \in Claims \ behind : claimCache[c] = claim[c]
    /\ work.pc # "idle" => work.claim \in Claims

TimeInv == TypeOK /\ CacheInv /\ CheckedOnTime

(* A claim is as old as the last whole second and older than its reset; and *)
(* what the reconciler read of a claim that was not behind stays true until *)
(* it acts: the claim has a node, and its deadline is over.                 *)
DeadlineInv ==
    /\ \A c \in Claims : /\ claim[c].created >= Now
                         /\ claim[c].reset # Nil => claim[c].reset <= claim[c].created
    /\ work.pc # "idle" /\ ~work.stale =>
           /\ claim[work.claim].phase \in {"registered", "deleting", "gone"}
           /\ claim[work.claim].phase = "registered" => Elapsed(claim[work.claim]) >= TTL

(* The node of claim c is gone, or tainted. *)
Doomed(c) ==
    \/ claim[c].phase = "gone"
    \/ node[c] # Nil /\ Decommissioning \in node[c]

(* Only a registered claim, or one that is being deleted, has a node; and   *)
(* the decommissioning taint, once seen in a copy or set, is there to stay. *)
TaintInv ==
    /\ \A c \in Claims :
          /\ claim[c].phase \in {"absent", "launching", "gone"} => node[c] = Nil
          /\ nodeCache[c] # Nil /\ Decommissioning \in nodeCache[c] => Doomed(c)
    /\ work.pc = "taint" /\ Decommissioning \in work.taints => Doomed(work.claim)
    /\ work.pc = "delete" => Doomed(work.claim)
=============================================================================
