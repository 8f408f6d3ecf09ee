------------------------- MODULE NodeClaimTTL_proofs -------------------------
(***************************************************************************)
(* Proofs about NodeClaimTTL, for any claims, pods, TTL and resolution of  *)
(* the timestamps: type correctness, that a claim is looked at in time,    *)
(* that a reset which the controller could read is respected, and that no  *)
(* claim is deleted before its node is tainted.                            *)
(***************************************************************************)
EXTENDS NodeClaimTTL, TLAPS

(* Facts about ages and claims *)

LEMMA NowType == TypeOK => Now \in Ages /\ Now < TicksPerSecond
  BY TTLAssumption DEF TypeOK, Now, Ages

LEMMA OlderType ==
    ASSUME NEW k \in ClaimRecords
    PROVE  OlderClaim(k) \in ClaimRecords /\ OlderClaim(k).phase = k.phase
<1>1. \A a \in Ages : Older(a) \in Ages
  BY TTLAssumption DEF Ages, Older
<1> QED
  BY <1>1, NilAssumption DEF OlderClaim, ClaimRecords

LEMMA ElapsedType == \A k \in ClaimRecords : Elapsed(k) \in Ages
  BY DEF ClaimRecords, Elapsed

LEMMA ElapsedOlder ==
    ASSUME NEW k \in ClaimRecords
    PROVE  Elapsed(OlderClaim(k)) = Older(Elapsed(k))
<1>1. \A a \in Ages : Older(a) # Nil
  BY TTLAssumption, NilAssumption DEF Ages, Older
<1> QED
  BY <1>1 DEF OlderClaim, ClaimRecords, Elapsed

LEMMA RequeueType ==
    ASSUME TypeOK, NEW c \in Claims, NEW ticks \in Ages, RequeueAfter(c, ticks)
    PROVE  /\ timer' \in [Claims -> {Nil} \cup Ages]
           /\ timer'[c] \in Ages /\ timer'[c] <= ticks
           /\ \A d \in Claims \ {c} : timer'[d] = timer[d]
  BY TTLAssumption, NilAssumption DEF TypeOK, RequeueAfter, Ages

LEMMA ClaimUpdate ==
    ASSUME TypeOK, NEW c \in Claims
    PROVE  /\ \A a \in Ages \cup {Nil} : [claim[c] EXCEPT !.reset = a] \in ClaimRecords
           /\ \A q \in {"registered", "deleting"} : [claim[c] EXCEPT !.phase = q] \in ClaimRecords
<1>1. claim[c] \in ClaimRecords
  BY DEF TypeOK
<1> QED BY <1>1 DEF ClaimRecords

LEMMA WriteType ==
    ASSUME TypeOK, NEW c \in Claims, NEW k \in ClaimRecords, Write(c, k)
    PROVE  claim' \in [Claims -> ClaimRecords] /\ behind' \subseteq Claims
  BY DEF TypeOK, Write

-----------------------------------------------------------------------------
(* Type correctness                                                         *)

(* What a step that leaves the reconciler alone has to preserve. *)
LEMMA ClusterType ==
    ASSUME TimeInv, ClusterStep
    PROVE  TypeOK'
<1> USE DEF TimeInv
<1>0. NoPod \in PodRecords /\ NoClaim("gone") \in ClaimRecords /\ Now \in Ages
  BY NowType, TTLAssumption DEF NoPod, PodRecords, NoClaim, ClaimRecords, Ages
<1>1. ASSUME NEW c \in Claims,
             ClaimCreated(c) \/ ClaimDeleted(c) \/ Finalized(c) \/ AnnotationSpoilt(c) \/
             (\E taints \in StartTaints : Registered(c, taints))
      PROVE  TypeOK'
  <2>1. PICK k \in ClaimRecords : Write(c, k)
    <3>1. [phase |-> "launching", created |-> Now, reset |-> Nil] \in ClaimRecords
      BY <1>0 DEF ClaimRecords
    <3> QED
      BY <1>0, <1>1, <3>1, ClaimUpdate DEF ClaimCreated, ClaimDeleted, Finalized,
         AnnotationSpoilt, Registered
  <2>2. claim' \in [Claims -> ClaimRecords] /\ behind' \subseteq Claims
    BY <2>1, WriteType
  <2>3. node' \in [Claims -> {Nil} \cup SUBSET Taints]
    BY <1>1, TaintsAssumption DEF TypeOK, ClaimCreated, ClaimDeleted, Finalized,
       AnnotationSpoilt, Registered, Taints
  <2>4. pod' \in [Pods -> PodRecords]
    BY <1>0, <1>1 DEF TypeOK, ClaimCreated, ClaimDeleted, Finalized, AnnotationSpoilt, Registered
  <2>5. edits' \in 0..MaxEdits /\ UNCHANGED <<caches, queued, timer, work, sub, failures>>
    BY <1>1, BoundsAssumption DEF TypeOK, ClaimCreated, ClaimDeleted, Finalized,
       AnnotationSpoilt, Registered, boundVars
  <2> QED
    BY <2>2, <2>3, <2>4, <2>5 DEF TypeOK, caches
<1>2. ASSUME NEW c \in Claims, OtherTaint(c) PROVE TypeOK'
  <2>1. node' \in [Claims -> {Nil} \cup SUBSET Taints]
    BY <1>2 DEF TypeOK, OtherTaint, Taints
  <2>2. edits' \in 0..MaxEdits
    BY <1>2, BoundsAssumption DEF TypeOK, OtherTaint
  <2> QED
    BY <1>2, <2>1, <2>2 DEF TypeOK, OtherTaint, caches
<1>3. ASSUME NEW p \in Pods, NEW k \in PodRecords, PodStep(p, k) PROVE TypeOK'
  BY <1>3 DEF TypeOK, PodStep, caches, boundVars
<1>4. ASSUME NEW p \in Pods,
             \/ \E owner \in Owners : PodCreated(p, owner)
             \/ PodUnschedulable(p) \/ PodGated(p) \/ PodDeleted(p) \/ PodGone(p)
             \/ \E c \in Claims : PodBound(p, c)
      PROVE  \E k \in PodRecords : PodStep(p, k)
  <2>1. pod[p] \in PodRecords
    BY DEF TypeOK
  <2>2. \A owner \in Owners : [state |-> "new", on |-> Nil, owner |-> owner] \in PodRecords
    BY DEF PodRecords
  <2>3. \A q \in {"unschedulable", "gated", "terminating"} :
           [pod[p] EXCEPT !.state = q] \in PodRecords
    BY <2>1 DEF PodRecords
  <2>4. \A c \in Claims : [pod[p] EXCEPT !.state = "bound", !.on = c] \in PodRecords
    BY <2>1 DEF PodRecords
  <2> QED
    BY <1>0, <1>4, <2>2, <2>3, <2>4 DEF PodCreated, PodUnschedulable, PodGated, PodDeleted,
       PodGone, PodBound
<1> QED
  BY <1>1, <1>2, <1>3, <1>4 DEF ClusterStep

LEMMA QueueType ==
    ASSUME TimeInv, NEW c \in Claims,
           SyncClaim(c) \/ Resync(c) \/ TimerFires(c) \/ ReconcileBegin(c)
    PROVE  TypeOK'
<1> USE DEF TimeInv
<1>1. CASE SyncClaim(c) \/ Resync(c) \/ TimerFires(c)
  BY <1>1 DEF TypeOK, SyncClaim, Resync, TimerFires, caches, boundVars
<1>2. CASE ReconcileNothing(c)
  BY <1>2 DEF TypeOK, ReconcileNothing, caches, boundVars
<1>3. CASE ReconcileEarly(c)
  <2>1. TTL - Elapsed(claimCache[c]) \in Ages
    BY <1>3, ElapsedType, TTLAssumption DEF ReconcileEarly, TypeOK, Ages
  <2>2. timer' \in [Claims -> {Nil} \cup Ages]
    BY <1>3, <2>1, RequeueType DEF ReconcileEarly
  <2> QED
    BY <1>3, <2>2 DEF TypeOK, ReconcileEarly, caches, boundVars
<1>4. CASE ReconcileExpired(c)
  <2>1. work' = [pc |-> "pods", claim |-> c, pending |-> {}, taints |-> {}, stale |-> c \in behind]
    BY <1>4 DEF ReconcileExpired, NoWork
  <2>2. (c \in behind) \in BOOLEAN
    OBVIOUS
  <2>3. work' \in WorkRecords
    BY <2>1, <2>2, Zenon DEF WorkRecords
  <2> QED
    BY <1>4, <2>3 DEF TypeOK, ReconcileExpired, caches, boundVars
<1> QED
  BY <1>1, <1>2, <1>3, <1>4 DEF ReconcileBegin

LEMMA NoWorkType == NoWork \in WorkRecords
  BY DEF NoWork, WorkRecords

LEMMA ErrorType ==
    ASSUME TimeInv, work.pc # "idle", ReturnError
    PROVE  work' \in WorkRecords /\ queued' \subseteq Claims /\ timer' = timer
  BY NoWorkType DEF ReturnError, TimeInv, TypeOK, CacheInv

LEMMA ReconcileType ==
    ASSUME TimeInv, ReconcileStep
    PROVE  TypeOK'
<1> USE DEF TimeInv, boundVars, caches
<1>0. work \in WorkRecords
  BY DEF TypeOK
<1>1. CASE ListPods
  <2>1. work' \in WorkRecords
    BY <1>0, <1>1 DEF ListPods, WorkRecords
  <2> QED BY <1>1, <2>1 DEF ListPods, TypeOK
<1>2. CASE GetNode
  <2>1. work.claim \in Claims /\ work.pc # "idle"
    BY <1>2 DEF GetNode, CacheInv
  <2>2. work' \in WorkRecords /\ queued' \subseteq Claims /\ timer' = timer
    <3>1. nodeCache[work.claim] \in {Nil} \cup SUBSET Taints
      BY <2>1 DEF TypeOK
    <3>2. CASE ReturnError
      BY <2>1, <3>2, ErrorType
    <3>3. CASE /\ nodeCache[work.claim] # Nil
               /\ \/ work' = [work EXCEPT !.pc = "reset", !.pending = {}]
                  \/ work' = [work EXCEPT !.pc = "taint", !.pending = {}, !.taints = nodeCache[work.claim]]
               /\ UNCHANGED <<queued, timer>>
      BY <1>0, <3>1, <3>3 DEF WorkRecords, TypeOK
    <3> QED BY <1>2, <3>2, <3>3 DEF GetNode
  <2> QED BY <1>2, <2>2 DEF GetNode, TypeOK
<1>3. CASE resetTTL
  <2>1. work.claim \in Claims /\ work.pc # "idle"
    BY <1>3 DEF resetTTL, CacheInv
  <2>2. CASE ReturnError /\ UNCHANGED <<claim, behind>>
    BY <1>3, <2>1, <2>2, ErrorType DEF resetTTL, TypeOK
  <2>3. CASE /\ Write(work.claim, [claim[work.claim] EXCEPT !.reset = Now])
             /\ RequeueAfter(work.claim, TTL) /\ work' = NoWork /\ UNCHANGED queued
    <3>1. [claim[work.claim] EXCEPT !.reset = Now] \in ClaimRecords
      BY <2>1, ClaimUpdate, NowType
    <3>2. claim' \in [Claims -> ClaimRecords] /\ behind' \subseteq Claims
      BY <2>1, <2>3, <3>1, WriteType
    <3>3. timer' \in [Claims -> {Nil} \cup Ages]
      BY <2>1, <2>3, RequeueType, TTLAssumption DEF Ages
    <3> QED BY <1>3, <2>3, <3>2, <3>3, NoWorkType DEF resetTTL, TypeOK
  <2> QED BY <1>3, <2>2, <2>3 DEF resetTTL
<1>4. CASE taintNode
  <2>1. work.claim \in Claims /\ work.pc # "idle" /\ work.taints \in SUBSET Taints
    BY <1>0, <1>4 DEF taintNode, CacheInv, WorkRecords
  <2>2. node' \in [Claims -> {Nil} \cup SUBSET Taints]
    BY <1>4, <2>1 DEF taintNode, TypeOK, Taints
  <2>3. work' \in WorkRecords /\ queued' \subseteq Claims /\ timer' = timer
    <3>1. CASE ReturnError
      BY <2>1, <3>1, ErrorType
    <3>2. CASE Goto("delete") /\ UNCHANGED <<queued, timer>>
      BY <1>0, <3>2 DEF Goto, WorkRecords, TypeOK
    <3> QED BY <1>4, <3>1, <3>2 DEF taintNode
  <2> QED BY <1>4, <2>2, <2>3 DEF taintNode, TypeOK
<1>5. CASE DeleteClaim
  <2>1. work.claim \in Claims /\ work.pc # "idle"
    BY <1>5 DEF DeleteClaim, CacheInv
  <2>2. CASE ReturnError /\ UNCHANGED <<claim, behind>>
    BY <1>5, <2>1, <2>2, ErrorType DEF DeleteClaim, TypeOK
  <2>3. CASE /\ Write(work.claim, [claim[work.claim] EXCEPT !.phase = "deleting"])
             /\ work' = NoWork /\ UNCHANGED <<queued, timer>>
    <3>1. [claim[work.claim] EXCEPT !.phase = "deleting"] \in ClaimRecords
      BY <2>1, ClaimUpdate
    <3>2. claim' \in [Claims -> ClaimRecords] /\ behind' \subseteq Claims
      BY <2>1, <2>3, <3>1, WriteType
    <3> QED BY <1>5, <2>3, <3>2, NoWorkType DEF DeleteClaim, TypeOK
  <2> QED BY <1>5, <2>2, <2>3 DEF DeleteClaim
<1>6. CASE ReconcileFails
  <2>1. failures' \in 0..MaxFailures
    BY <1>6, BoundsAssumption DEF ReconcileFails, TypeOK
  <2> QED BY <1>6, <2>1, ErrorType DEF ReconcileFails, TypeOK
<1> QED
  BY <1>1, <1>2, <1>3, <1>4, <1>5, <1>6 DEF ReconcileStep

LEMMA TypeNext ==
    ASSUME TimeInv, [Next]_vars
    PROVE  TypeOK'
<1> USE DEF TimeInv
<1>1. CASE Tick
  <2>1. sub' \in 0..(TicksPerSecond - 1)
    BY <1>1, TTLAssumption DEF Tick, TypeOK
  <2>2. /\ claim' \in [Claims -> ClaimRecords]
        /\ claimCache' \in [Claims -> ClaimRecords]
    BY <1>1, OlderType DEF Tick, TypeOK
  <2>3. timer' \in [Claims -> Ages \cup {Nil}]
    BY <1>1, TTLAssumption DEF Tick, TypeOK, Ages
  <2> QED
    BY <1>1, <2>1, <2>2, <2>3 DEF Tick, TypeOK, boundVars
<1>2. CASE SyncNodes \/ SyncPods \/ UNCHANGED vars
  BY <1>2 DEF SyncNodes, SyncPods, vars, TypeOK, boundVars
<1>3. CASE Crash
  <2>1. failures' \in 0..MaxFailures
    BY <1>3, BoundsAssumption DEF Crash, TypeOK
  <2> QED BY <1>3, <2>1, NoWorkType DEF Crash, TypeOK
<1> QED
  BY <1>1, <1>2, <1>3, ClusterType, QueueType, ReconcileType DEF Next

LEMMA TypeInit == Init => TypeOK
<1> SUFFICES ASSUME Init PROVE TypeOK
  OBVIOUS
<1>1. NoClaim("absent") \in ClaimRecords /\ NoPod \in PodRecords
  BY TTLAssumption DEF NoClaim, ClaimRecords, NoPod, PodRecords, Ages
<1>2. work \in WorkRecords
  BY DEF Init, WorkRecords
<1> QED
  BY <1>1, <1>2, TTLAssumption, BoundsAssumption DEF Init, TypeOK

-----------------------------------------------------------------------------
(* Claims are looked at in time                                             *)

(* The delayed Add of claim c is in time. *)
InTime(c) == timer[c] # Nil /\ timer[c] + Elapsed(claim[c]) < TTL + TicksPerSecond

Watched(c) == c \in queued \/ work.claim = c \/ c \in behind \/ InTime(c)

(* What a step has to do for the invariant, claim by claim: report what it  *)
(* writes, and leave a registered claim watched.                            *)
LEMMA TimeFrame ==
    ASSUME TimeInv, TypeOK',
           work'.pc # "idle" => work'.claim \in Claims,
           \A c \in Claims : c \in behind' \/ (claimCache'[c] = claim'[c]),
           \A c \in Claims : claim'[c].phase = "registered" => Watched(c)'
    PROVE  TimeInv'
  BY DEF TimeInv, CacheInv, CheckedOnTime, Watched, InTime

LEMMA WrittenOrSame ==
    ASSUME TypeOK, NEW c \in Claims, NEW k, Write(c, k)
    PROVE  /\ behind' = behind \cup {c}
           /\ \A d \in Claims \ {c} : claim'[d] = claim[d]
  BY DEF Write, TypeOK

LEMMA ClusterTime ==
    ASSUME TimeInv, ClusterStep
    PROVE  TimeInv'
<1>1. TypeOK'
  BY ClusterType
<1>2. UNCHANGED <<caches, queued, timer, work>>
  BY DEF ClusterStep, ClaimCreated, ClaimDeleted, Finalized, AnnotationSpoilt, OtherTaint,
     Registered, PodCreated, PodUnschedulable, PodGated, PodDeleted, PodGone, PodBound, PodStep
<1>3. \/ UNCHANGED <<claim, behind>>
      \/ \E c \in Claims : \E k : Write(c, k)
  BY DEF ClusterStep, ClaimCreated, ClaimDeleted, Finalized, AnnotationSpoilt, OtherTaint,
     Registered, PodCreated, PodUnschedulable, PodGated, PodDeleted, PodGone, PodBound, PodStep
<1>4. ASSUME NEW d \in Claims PROVE d \in behind' \/ (d \notin behind /\ claim'[d] = claim[d])
  BY <1>3, WrittenOrSame DEF TimeInv
<1>5. /\ \A d \in Claims : d \in behind' \/ (claimCache'[d] = claim'[d])
      /\ \A d \in Claims : claim'[d].phase = "registered" => Watched(d)'
  BY <1>2, <1>4 DEF TimeInv, CacheInv, CheckedOnTime, Watched, InTime, Elapsed, caches
<1> QED
  BY <1>1, <1>2, <1>5, TimeFrame DEF TimeInv, CacheInv

LEMMA QueueTime ==
    ASSUME TimeInv, NEW c \in Claims,
           SyncClaim(c) \/ Resync(c) \/ TimerFires(c) \/ ReconcileBegin(c)
    PROVE  TimeInv'
<1>1. TypeOK' /\ TypeOK /\ claim' = claim
  BY QueueType DEF SyncClaim, Resync, TimerFires, ReconcileBegin, ReconcileNothing,
     ReconcileEarly, ReconcileExpired, TimeInv
<1>2. \A d \in Claims : d \in behind' \/ (claimCache'[d] = claim'[d])
  BY <1>1 DEF SyncClaim, Resync, TimerFires, ReconcileBegin, ReconcileNothing, ReconcileEarly,
     ReconcileExpired, TimeInv, CacheInv, caches, TypeOK
<1>3. work'.pc # "idle" => work'.claim \in Claims
  BY DEF SyncClaim, Resync, TimerFires, ReconcileBegin, ReconcileNothing, ReconcileEarly,
     ReconcileExpired, TimeInv, CacheInv, NoWork
<1>4. ASSUME NEW d \in Claims, claim'[d].phase = "registered" PROVE Watched(d)'
  <2>1. Watched(d)
    BY <1>1, <1>4 DEF TimeInv, CheckedOnTime, Watched, InTime
  <2>2. CASE SyncClaim(c) \/ Resync(c) \/ TimerFires(c)
    BY <1>1, <2>1, <2>2 DEF SyncClaim, Resync, TimerFires, Watched, InTime, Elapsed, TypeOK
  <2>3. CASE d # c /\ ReconcileBegin(c)
    <3>1. /\ work.claim # d /\ UNCHANGED behind
          /\ queued' = queued \ {c}
      BY <2>3, NilAssumption DEF ReconcileBegin, ReconcileNothing, ReconcileEarly,
         ReconcileExpired, NoWork
    <3>2. timer'[d] = timer[d]
      BY <1>1, <2>3 DEF ReconcileBegin, ReconcileNothing, ReconcileEarly, ReconcileExpired,
         RequeueAfter, TypeOK
    <3> QED BY <1>1, <2>1, <2>3, <3>1, <3>2 DEF Watched, InTime, Elapsed
  <2>4. CASE d = c /\ ReconcileNothing(c)
    <3>1. c \in behind
      BY <1>1, <1>4, <2>4 DEF ReconcileNothing, TimeInv, CacheInv
    <3> QED BY <2>4, <3>1 DEF ReconcileNothing, Watched
  <2>5. CASE d = c /\ ReconcileEarly(c)
    <3>1. CASE c \in behind
      BY <2>5, <3>1 DEF ReconcileEarly, Watched
    <3>2. CASE c \notin behind
      <4>1. claimCache[c] = claim[c] /\ Elapsed(claim[c]) \in Ages /\ Elapsed(claim[c]) < TTL
        BY <1>1, <2>5, <3>2, ElapsedType DEF ReconcileEarly, TimeInv, CacheInv, TypeOK
      <4>2. TTL - Elapsed(claim[c]) \in Ages
        BY <4>1, TTLAssumption DEF Ages
      <4>3. timer'[c] \in Ages /\ timer'[c] <= TTL - Elapsed(claim[c])
        BY <1>1, <2>5, <4>1, <4>2, RequeueType DEF ReconcileEarly
      <4>4. InTime(c)'
        BY <1>1, <4>1, <4>3, TTLAssumption, NilAssumption DEF InTime, Elapsed, Ages
      <4> QED BY <2>5, <4>4 DEF Watched
    <3> QED BY <3>1, <3>2
  <2>6. CASE d = c /\ ReconcileExpired(c)
    BY <2>6 DEF ReconcileExpired, NoWork, Watched
  <2> QED BY <2>2, <2>3, <2>4, <2>5, <2>6 DEF ReconcileBegin
<1> QED
  BY <1>1, <1>2, <1>3, <1>4, TimeFrame

LEMMA ReconcileTime ==
    ASSUME TimeInv, ReconcileStep
    PROVE  TimeInv'
<1>1. TypeOK' /\ TypeOK /\ claimCache' = claimCache
  BY ReconcileType DEF TimeInv, ReconcileStep, ListPods, GetNode, resetTTL, taintNode,
     DeleteClaim, ReconcileFails, caches
<1>2. work.claim \in Claims
  BY DEF TimeInv, CacheInv, ReconcileStep, ListPods, GetNode, resetTTL, taintNode,
     DeleteClaim, ReconcileFails
<1>3. CASE ListPods \/ GetNode \/ taintNode \/ ReconcileFails
  <2>1. UNCHANGED <<claim, behind, timer>>
    BY <1>3 DEF ListPods, GetNode, taintNode, ReconcileFails, ReturnError
  <2>2. \/ work'.claim = work.claim /\ queued' = queued
        \/ work'.pc = "idle" /\ queued' = queued \cup {work.claim}
    <3>1. work \in WorkRecords
      BY <1>1 DEF TypeOK
    <3>2. CASE ReturnError
      BY <3>2 DEF ReturnError, NoWork
    <3>3. CASE ListPods
      BY <3>1, <3>3 DEF ListPods, WorkRecords
    <3>4. CASE GetNode /\ ~ReturnError
      BY <3>1, <3>4 DEF GetNode, WorkRecords
    <3>5. CASE taintNode /\ ~ReturnError
      BY <3>1, <3>5 DEF taintNode, Goto, WorkRecords
    <3> QED BY <1>3, <3>2, <3>3, <3>4, <3>5 DEF ReconcileFails
  <2>3. \A d \in Claims : d \in behind' \/ (claimCache'[d] = claim'[d])
    BY <1>1, <2>1 DEF TimeInv, CacheInv
  <2>4. \A d \in Claims : claim'[d].phase = "registered" => Watched(d)'
    BY <2>1, <2>2 DEF TimeInv, CheckedOnTime, Watched, InTime, Elapsed
  <2> QED
    BY <1>1, <1>2, <2>2, <2>3, <2>4, TimeFrame
<1>4. CASE resetTTL \/ DeleteClaim
  <2>1. work' = NoWork
    BY <1>4 DEF resetTTL, DeleteClaim, ReturnError
  <2>2. \/ ReturnError /\ UNCHANGED <<claim, behind>>
        \/ /\ \E k : Write(work.claim, k)
           /\ \A d \in Claims \ {work.claim} : timer'[d] = timer[d]
           /\ UNCHANGED queued
    BY <1>1, <1>2, <1>4 DEF resetTTL, DeleteClaim, RequeueAfter, TypeOK
  <2>3. ASSUME NEW d \in Claims
        PROVE  /\ d \in behind' \/ (claimCache'[d] = claim'[d])
               /\ claim'[d].phase = "registered" => Watched(d)'
    <3>1. CASE ReturnError /\ UNCHANGED <<claim, behind>>
      BY <1>1, <3>1 DEF ReturnError, TimeInv, CacheInv, CheckedOnTime, Watched, InTime, Elapsed
    <3>2. CASE /\ \E k : Write(work.claim, k)
               /\ \A e \in Claims \ {work.claim} : timer'[e] = timer[e]
               /\ UNCHANGED queued
      <4>1. behind' = behind \cup {work.claim}
            /\ \A e \in Claims \ {work.claim} : claim'[e] = claim[e]
        BY <1>1, <1>2, <3>2, WrittenOrSame
      <4>2. CASE d = work.claim
        BY <4>1, <4>2 DEF Watched
      <4>3. CASE d # work.claim
        BY <1>1, <3>2, <4>1, <4>3 DEF TimeInv, CacheInv, CheckedOnTime, Watched, InTime, Elapsed
      <4> QED BY <4>2, <4>3
    <3> QED BY <2>2, <3>1, <3>2
  <2> QED
    BY <1>1, <2>1, <2>3, TimeFrame DEF NoWork
<1> QED
  BY <1>3, <1>4 DEF ReconcileStep

LEMMA TickTime ==
    ASSUME TimeInv, Tick
    PROVE  TimeInv'
<1>1. TypeOK' /\ TypeOK
  BY TypeNext DEF TimeInv, Next
<1>2. /\ UNCHANGED <<behind, queued, work>>
      /\ \A d \in Claims : claim'[d] = OlderClaim(claim[d]) /\ claimCache'[d] = OlderClaim(claimCache[d])
  BY DEF Tick
<1>3. ASSUME NEW d \in Claims, claim'[d].phase = "registered" PROVE Watched(d)'
  <2>1. claim[d] \in ClaimRecords /\ claim[d].phase = "registered"
    BY <1>1, <1>2, <1>3, OlderType DEF TypeOK
  <2>2. Watched(d)
    BY <2>1 DEF TimeInv, CheckedOnTime, Watched, InTime
  <2>3. CASE ~InTime(d)
    BY <1>2, <2>2, <2>3 DEF Watched
  <2>4. CASE InTime(d)
    <3>1. Elapsed(claim'[d]) = Older(Elapsed(claim[d])) /\ Elapsed(claim[d]) \in Ages
      BY <1>2, <2>1, ElapsedOlder, ElapsedType
    <3>2. /\ timer[d] \in Ages
          /\ timer'[d] = IF timer[d] = 0 THEN 0 ELSE timer[d] - 1
      BY <1>1, <2>4, NilAssumption, TTLAssumption DEF Tick, InTime, TypeOK
    <3>3. timer'[d] \in Ages /\ timer'[d] # Nil
      BY <3>2, NilAssumption, TTLAssumption DEF Ages
    <3>4. timer'[d] + Older(Elapsed(claim[d])) < TTL + TicksPerSecond
      BY <2>4, <3>1, <3>2, TTLAssumption DEF InTime, Older, Ages
    <3>5. InTime(d)'
      BY <3>1, <3>3, <3>4 DEF InTime, Elapsed
    <3> QED BY <3>5 DEF Watched
  <2> QED BY <2>3, <2>4
<1> QED
  BY <1>1, <1>2, <1>3, TimeFrame DEF TimeInv, CacheInv

LEMMA TimeNext ==
    ASSUME TimeInv, [Next]_vars
    PROVE  TimeInv'
<1>1. TypeOK'
  BY TypeNext
<1>2. CASE SyncNodes \/ SyncPods \/ UNCHANGED vars
  <2>1. UNCHANGED <<claim, claimCache, behind, queued, timer, work>>
    BY <1>2 DEF SyncNodes, SyncPods, vars
  <2> QED
    BY <1>1, <2>1 DEF TimeInv, CacheInv, CheckedOnTime, Elapsed
<1>3. CASE Crash
  <2>1. \A d \in Claims : claimCache'[d] = claim'[d] /\ (claim'[d].phase = "registered" => d \in queued')
    BY <1>3 DEF Crash, Exists
  <2>2. work'.pc = "idle"
    BY <1>3 DEF Crash, NoWork
  <2> QED
    BY <1>1, <2>1, <2>2, TimeFrame DEF Watched
<1> QED
  BY <1>2, <1>3, TickTime, ClusterTime, QueueTime, ReconcileTime DEF Next

LEMMA TimeInvariant == Spec => []TimeInv
<1>1. Init => TimeInv
  <2> SUFFICES ASSUME Init PROVE TimeInv
    OBVIOUS
  <2>1. /\ work.pc = "idle" /\ claimCache = claim
        /\ \A c \in Claims : claim[c].phase = "absent"
    BY DEF Init, NoClaim
  <2> QED BY <2>1, TypeInit DEF TimeInv, CacheInv, CheckedOnTime
<1>2. TimeInv /\ [Next]_vars => TimeInv'
  BY TimeNext
<1> QED
  BY <1>1, <1>2, PTL DEF Spec

(* Type correctness of NodeClaimTTL. *)
THEOREM TypeCorrect == Spec => []TypeOK
<1>1. TimeInv => TypeOK
  BY DEF TimeInv
<1> QED
  BY <1>1, TimeInvariant, PTL

(* No claim with a node is forgotten by the TTL controller: it is queued,   *)
(* at work, about to be reported, or due less than a second after its TTL.  *)
THEOREM CheckedOnTimeHolds == Spec => []CheckedOnTime
<1>1. TimeInv => CheckedOnTime
  BY DEF TimeInv
<1> QED
  BY <1>1, TimeInvariant, PTL

-----------------------------------------------------------------------------
(* Resets are respected                                                     *)

AgesOK(k) == k.created >= Now /\ (k.reset # Nil => k.reset <= k.created)
Expired(k) ==
    /\ k.phase \in {"registered", "deleting", "gone"}
    /\ k.phase = "registered" => Elapsed(k) >= TTL

LEMMA DeadlineParts ==
    DeadlineInv <=> /\ \A c \in Claims : AgesOK(claim[c])
                    /\ work.pc # "idle" /\ ~work.stale => Expired(claim[work.claim])
  BY DEF DeadlineInv, AgesOK, Expired

(* A step that changes no claim and no age, and lets the reconciler go on.  *)
LEMMA DeadlineFrame ==
    ASSUME DeadlineInv, UNCHANGED <<claim, sub>>,
           work'.pc = "idle" \/ (work.pc # "idle" /\ work'.claim = work.claim /\ work'.stale = work.stale)
    PROVE  DeadlineInv'
  BY DEF DeadlineInv, Now, Elapsed

(* A step that writes one claim. *)
LEMMA DeadlineWrite ==
    ASSUME TypeOK, DeadlineInv, NEW c \in Claims, NEW k, Write(c, k), UNCHANGED sub,
           AgesOK(k),
           work'.pc = "idle" \/ (work' = work /\ (Expired(claim[c]) => Expired(k)))
    PROVE  DeadlineInv'
<1>1. claim' = [claim EXCEPT ![c] = k] /\ claim \in [Claims -> ClaimRecords]
  BY DEF Write, TypeOK
<1>2. \A d \in Claims : AgesOK(claim[d])'
  BY <1>1, DeadlineParts DEF AgesOK, Now
<1>3. ASSUME work'.pc # "idle", ~work'.stale PROVE Expired(claim[work.claim])'
  <2>1. work' = work /\ Expired(claim[work.claim])
    BY <1>3, DeadlineParts
  <2>2. CASE work.claim = c
    BY <1>1, <1>3, <2>1, <2>2 DEF Expired, Elapsed
  <2>3. CASE work.claim # c
    <3>1. claim'[work.claim] = claim[work.claim]
      BY <1>1, <2>3
    <3> QED BY <2>1, <3>1 DEF Expired, Elapsed
  <2> QED BY <2>2, <2>3
<1> QED
  BY <1>2, <1>3 DEF DeadlineInv, AgesOK, Expired, Elapsed, Now

LEMMA DeadlineCluster ==
    ASSUME TypeOK, DeadlineInv, ClusterStep
    PROVE  DeadlineInv'
<1>1. ASSUME NEW c \in Claims, ClaimCreated(c)
      PROVE  DeadlineInv'
  <2> DEFINE k == [phase |-> "launching", created |-> Now, reset |-> Nil]
  <2>1. Write(c, k) /\ UNCHANGED <<sub, work>> /\ claim[c].phase = "absent"
    BY <1>1 DEF ClaimCreated
  <2>2. AgesOK(k) /\ ~Expired(claim[c])
    BY <2>1, NowType DEF AgesOK, Expired, Ages
  <2> QED BY <2>1, <2>2, DeadlineWrite
<1>2. ASSUME NEW c \in Claims, NEW taints \in StartTaints, Registered(c, taints)
      PROVE  DeadlineInv'
  <2> DEFINE k == [claim[c] EXCEPT !.phase = "registered"]
  <2>1. Write(c, k) /\ UNCHANGED <<sub, work>> /\ claim[c].phase = "launching"
    BY <1>2 DEF Registered
  <2>2. claim[c] \in ClaimRecords /\ AgesOK(claim[c])
    BY DeadlineParts DEF TypeOK
  <2>3. AgesOK(k) /\ ~Expired(claim[c])
    BY <2>1, <2>2 DEF AgesOK, Expired, ClaimRecords
  <2> QED BY <2>1, <2>3, DeadlineWrite
<1>3. ASSUME NEW c \in Claims, ClaimDeleted(c)
      PROVE  DeadlineInv'
  <2> DEFINE k == [claim[c] EXCEPT !.phase = "deleting"]
  <2>1. Write(c, k) /\ UNCHANGED <<sub, work>>
    BY <1>3 DEF ClaimDeleted
  <2>2. claim[c] \in ClaimRecords /\ AgesOK(claim[c])
    BY DeadlineParts DEF TypeOK
  <2>3. AgesOK(k) /\ Expired(k)
    BY <2>2 DEF AgesOK, Expired, ClaimRecords
  <2> QED BY <2>1, <2>3, DeadlineWrite
<1>4. ASSUME NEW c \in Claims, Finalized(c)
      PROVE  DeadlineInv'
  <2>1. Write(c, NoClaim("gone")) /\ UNCHANGED <<sub, work>>
    BY <1>4 DEF Finalized
  <2>2. AgesOK(NoClaim("gone")) /\ Expired(NoClaim("gone"))
    BY NowType, TTLAssumption DEF AgesOK, Expired, NoClaim, Ages
  <2> QED BY <2>1, <2>2, DeadlineWrite
<1>5. ASSUME NEW c \in Claims, AnnotationSpoilt(c)
      PROVE  DeadlineInv'
  <2> DEFINE k == [claim[c] EXCEPT !.reset = Nil]
  <2>1. Write(c, k) /\ UNCHANGED <<sub, work>> /\ claim[c].reset # Nil
    BY <1>5 DEF AnnotationSpoilt
  <2>2. claim[c] \in ClaimRecords /\ AgesOK(claim[c])
    BY DeadlineParts DEF TypeOK
  <2>3. AgesOK(k) /\ (Expired(claim[c]) => Expired(k))
    BY <2>1, <2>2, TTLAssumption DEF AgesOK, Expired, ClaimRecords, Elapsed, Ages
  <2> QED BY <2>1, <2>3, DeadlineWrite
<1>6. ASSUME NEW c \in Claims, OtherTaint(c)
      PROVE  DeadlineInv'
  BY <1>6 DEF OtherTaint, DeadlineInv, Now, Elapsed
<1>7. ASSUME NEW p \in Pods, NEW k, PodStep(p, k)
      PROVE  DeadlineInv'
  BY <1>7 DEF PodStep, DeadlineInv, Now, Elapsed
<1>8. ASSUME NEW p \in Pods,
             (\E owner \in Owners : PodCreated(p, owner)) \/ PodUnschedulable(p) \/ PodGated(p)
             \/ PodDeleted(p) \/ PodGone(p) \/ (\E c \in Claims : PodBound(p, c))
      PROVE  DeadlineInv'
  <2>1. \E k : PodStep(p, k)
    BY <1>8 DEF PodCreated, PodUnschedulable, PodGated, PodDeleted, PodGone, PodBound
  <2> QED BY <1>7, <2>1
<1> QED
  BY <1>1, <1>2, <1>3, <1>4, <1>5, <1>6, <1>8 DEF ClusterStep

LEMMA DeadlineTick ==
    ASSUME TimeInv, DeadlineInv, Tick
    PROVE  DeadlineInv'
<1>0. TypeOK /\ (work.pc # "idle" => work.claim \in Claims)
  BY DEF TimeInv, CacheInv
<1>1. /\ work' = work /\ sub' = (sub + 1) % TicksPerSecond
      /\ \A c \in Claims : claim'[c] = OlderClaim(claim[c]) /\ claim[c] \in ClaimRecords
      /\ sub \in 0..(TicksPerSecond - 1)
  BY <1>0 DEF Tick, TypeOK
<1>2. Now' <= Older(Now) /\ Now' \in Nat /\ Now \in Ages
  <2>1. sub' \in {0, sub + 1}
    <3>1. CASE sub + 1 < TicksPerSecond
      BY <1>1, <3>1, TTLAssumption
    <3>2. CASE sub + 1 = TicksPerSecond
      BY <1>1, <3>2, TTLAssumption
    <3> QED BY <1>1, <3>1, <3>2, TTLAssumption
  <2> QED BY <1>0, <1>1, <2>1, NowType, TTLAssumption DEF Now, Older, Ages
<1>3. ASSUME NEW c \in Claims PROVE AgesOK(claim[c])'
  <2>1. AgesOK(claim[c]) /\ claim[c].created \in Ages /\ claim[c].reset \in Ages \cup {Nil}
    BY <1>1, DeadlineParts DEF ClaimRecords
  <2>2. /\ claim'[c].created = Older(claim[c].created)
        /\ claim'[c].reset = IF claim[c].reset = Nil THEN Nil ELSE Older(claim[c].reset)
    BY <1>1 DEF OlderClaim, ClaimRecords
  <2>3. claim'[c].created >= Now'
    BY <1>2, <2>1, <2>2, TTLAssumption DEF AgesOK, Older, Ages
  <2>4. claim'[c].reset # Nil => claim'[c].reset <= claim'[c].created
    BY <2>1, <2>2, TTLAssumption DEF AgesOK, Older, Ages
  <2> QED BY <2>3, <2>4 DEF AgesOK
<1>4. ASSUME NEW c \in Claims, Expired(claim[c]) PROVE Expired(claim[c])'
  <2>1. claim'[c].phase = claim[c].phase /\ Elapsed(claim'[c]) = Older(Elapsed(claim[c]))
    BY <1>1, OlderType, ElapsedOlder
  <2>2. Elapsed(claim[c]) \in Ages
    BY <1>1, ElapsedType
  <2> QED BY <1>4, <2>1, <2>2, TTLAssumption DEF Expired, Elapsed, Older, Ages
<1> QED
  <2>1. work'.pc # "idle" /\ ~work'.stale => Expired(claim[work.claim])'
    BY <1>0, <1>1, <1>4, DeadlineParts
  <2> QED BY <1>3, <2>1 DEF DeadlineInv, AgesOK, Expired

LEMMA DeadlineReconcile ==
    ASSUME TimeInv, DeadlineInv, ReconcileStep
    PROVE  DeadlineInv'
<1>1. TypeOK /\ work \in WorkRecords /\ work.pc # "idle" /\ work.claim \in Claims
  BY DEF TimeInv, TypeOK, CacheInv, ReconcileStep, ListPods, GetNode, resetTTL, taintNode,
     DeleteClaim, ReconcileFails
<1>2. CASE resetTTL
  <2> DEFINE k == [claim[work.claim] EXCEPT !.reset = Now]
  <2>1. claim[work.claim] \in ClaimRecords /\ AgesOK(claim[work.claim])
    BY <1>1, DeadlineParts DEF TypeOK
  <2>2. AgesOK(k)
    BY <1>1, <2>1, NowType, NilAssumption DEF AgesOK, ClaimRecords
  <2>3. /\ work'.pc = "idle" /\ UNCHANGED sub
        /\ Write(work.claim, k) \/ UNCHANGED claim
    BY <1>2 DEF resetTTL, ReturnError, NoWork
  <2>4. CASE Write(work.claim, k)
    BY <1>1, <2>2, <2>3, <2>4, DeadlineWrite
  <2> QED BY <2>3, <2>4, DeadlineFrame
<1>3. CASE DeleteClaim
  <2> DEFINE k == [claim[work.claim] EXCEPT !.phase = "deleting"]
  <2>1. claim[work.claim] \in ClaimRecords /\ AgesOK(claim[work.claim])
    BY <1>1, DeadlineParts DEF TypeOK
  <2>2. AgesOK(k)
    BY <2>1 DEF AgesOK, ClaimRecords
  <2>3. /\ work'.pc = "idle" /\ UNCHANGED sub
        /\ Write(work.claim, k) \/ UNCHANGED claim
    BY <1>3 DEF DeleteClaim, ReturnError, NoWork
  <2>4. CASE Write(work.claim, k)
    BY <1>1, <2>2, <2>3, <2>4, DeadlineWrite
  <2> QED BY <2>3, <2>4, DeadlineFrame
<1>4. CASE ListPods \/ GetNode \/ taintNode \/ ReconcileFails
  <2>1. UNCHANGED <<claim, sub>>
    BY <1>4 DEF ListPods, GetNode, taintNode, ReconcileFails
  <2>2. CASE ReturnError
    BY <2>1, <2>2, DeadlineFrame DEF ReturnError, NoWork
  <2>3. CASE ~ReturnError
    <3>1. work'.claim = work.claim /\ work'.stale = work.stale
      BY <1>1, <1>4, <2>3 DEF ListPods, GetNode, taintNode, ReconcileFails, Goto, WorkRecords
    <3> QED BY <1>1, <2>1, <3>1, DeadlineFrame
  <2> QED BY <2>2, <2>3
<1> QED
  BY <1>2, <1>3, <1>4 DEF ReconcileStep

LEMMA DeadlineNext ==
    ASSUME TimeInv, DeadlineInv, [Next]_vars
    PROVE  DeadlineInv'
<1>0. TypeOK /\ CacheInv
  BY DEF TimeInv
<1>1. ASSUME NEW c \in Claims, ReconcileExpired(c) PROVE DeadlineInv'
  <2>1. work'.claim = c /\ work'.stale = (c \in behind) /\ UNCHANGED <<claim, sub>>
    BY <1>1 DEF ReconcileExpired, NoWork
  <2>2. c \notin behind => Expired(claim[c])
    BY <1>0, <1>1 DEF ReconcileExpired, CacheInv, Expired
  <2> QED BY <2>1, <2>2 DEF DeadlineInv, Now, Elapsed, Expired
<1>2. ASSUME NEW c \in Claims,
             SyncClaim(c) \/ Resync(c) \/ TimerFires(c) \/ ReconcileNothing(c) \/ ReconcileEarly(c)
      PROVE  DeadlineInv'
  <2>1. UNCHANGED <<claim, sub, work>>
    BY <1>2 DEF SyncClaim, Resync, TimerFires, ReconcileNothing, ReconcileEarly
  <2> QED BY <2>1 DEF DeadlineInv, Now, Elapsed
<1>3. CASE SyncNodes \/ SyncPods \/ UNCHANGED vars
  <2>1. UNCHANGED <<claim, sub, work>>
    BY <1>3 DEF SyncNodes, SyncPods, vars
  <2> QED BY <2>1 DEF DeadlineInv, Now, Elapsed
<1>4. CASE Crash
  BY <1>4, DeadlineFrame DEF Crash, NoWork
<1> QED
  BY <1>0, <1>1, <1>2, <1>3, <1>4, DeadlineTick, DeadlineCluster, DeadlineReconcile
  DEF Next, ReconcileBegin

(* The TTL controller deletes a claim whose deadline is not over only if    *)
(* the watch had yet to report a write to it when Reconcile read it.        *)
THEOREM ResetIsRespectedHolds == Spec => ResetIsRespected
<1>1. Init => DeadlineInv
  <2> SUFFICES ASSUME Init PROVE DeadlineInv
    OBVIOUS
  <2>1. work.pc = "idle" /\ Now = 0 /\ \A c \in Claims : claim[c] = NoClaim("absent")
    BY TTLAssumption DEF Init, Now
  <2> QED BY <2>1, TTLAssumption DEF DeadlineInv, NoClaim
<1>2. TimeInv /\ DeadlineInv /\ [Next]_vars => DeadlineInv'
  BY DeadlineNext
<1>3. DeadlineInv => [\A c \in Claims :
          DeleteClaim /\ work.claim = c /\ claim[c].phase = "registered" =>
              Elapsed(claim[c]) >= TTL \/ work.stale]_vars
  BY DEF DeadlineInv, DeleteClaim
<1> QED
  BY <1>1, <1>2, <1>3, TimeInvariant, PTL DEF Spec, ResetIsRespected

-----------------------------------------------------------------------------
(* A node that is given up gets no more pods                                *)

NodeOK(c) == claim[c].phase \in {"absent", "launching", "gone"} => node[c] = Nil

(* Steps by which no node gets out of its doom, and after which a copy of   *)
(* the nodes is an old one or a fresh one.                                  *)
LEMMA TaintFrame ==
    ASSUME TimeInv, TaintInv, NEW N \in {node, nodeCache}, nodeCache' = N,
           \A c \in Claims : Doomed(c) => Doomed(c)',
           \A c \in Claims : NodeOK(c)',
           work'.pc \notin {"taint", "delete"} \/ work' = work
    PROVE  TaintInv'
<1>1. \A c \in Claims : N[c] # Nil /\ Decommissioning \in N[c] => Doomed(c)
  BY DEF TaintInv, Doomed
<1>2. \A c \in Claims : nodeCache'[c] # Nil /\ Decommissioning \in nodeCache'[c] => Doomed(c)'
  BY <1>1
<1>3. /\ work'.pc = "taint" /\ Decommissioning \in work'.taints => Doomed(work.claim)' /\ work' = work
      /\ work'.pc = "delete" => Doomed(work.claim)' /\ work' = work
  BY DEF TaintInv, TimeInv, CacheInv
<1> QED
  BY <1>2, <1>3 DEF TaintInv, NodeOK, Doomed

(* The usual case: no node changes, and no claim its phase. *)
LEMMA TaintSame ==
    ASSUME TimeInv, TaintInv, UNCHANGED node, nodeCache' \in {node, nodeCache},
           \A c \in Claims : claim'[c].phase = claim[c].phase,
           work'.pc \notin {"taint", "delete"} \/ work' = work
    PROVE  TaintInv'
<1>1. \A c \in Claims : (Doomed(c) => Doomed(c)') /\ NodeOK(c)'
  BY DEF Doomed, NodeOK, TaintInv
<1> QED
  BY <1>1, TaintFrame

LEMMA TaintCluster ==
    ASSUME TimeInv, TaintInv, ClusterStep
    PROVE  TaintInv'
<1>0. /\ claim \in [Claims -> ClaimRecords] /\ node \in [Claims -> {Nil} \cup SUBSET Taints]
      /\ \A c \in Claims : NodeOK(c)
  BY DEF TimeInv, TypeOK, TaintInv, NodeOK
<1>1. ASSUME NEW c \in Claims, ClaimCreated(c) \/ ClaimDeleted(c)
      PROVE  TaintInv'
  <2>1. /\ UNCHANGED <<node, nodeCache, work>> /\ claim[c].phase # "gone"
        /\ claim'[c].phase \in {"launching", "deleting"}
        /\ claim[c].phase = "absent" \/ claim'[c].phase = "deleting"
        /\ \A d \in Claims : d # c => claim'[d] = claim[d]
    BY <1>0, <1>1 DEF ClaimCreated, ClaimDeleted, Write, caches, ClaimRecords
  <2>2. \A d \in Claims : (Doomed(d) => Doomed(d)') /\ NodeOK(d)'
    BY <1>0, <2>1 DEF Doomed, NodeOK
  <2> QED BY <2>1, <2>2, TaintFrame
<1>2. ASSUME NEW c \in Claims, NEW taints \in StartTaints, Registered(c, taints)
      PROVE  TaintInv'
  <2>1. /\ UNCHANGED <<nodeCache, work>> /\ claim[c].phase = "launching"
        /\ claim'[c].phase = "registered"
        /\ \A d \in Claims : d # c => claim'[d] = claim[d] /\ node'[d] = node[d]
    BY <1>0, <1>2 DEF Registered, Write, caches, ClaimRecords
  <2>2. \A d \in Claims : (Doomed(d) => Doomed(d)') /\ NodeOK(d)'
    BY <1>0, <2>1 DEF Doomed, NodeOK
  <2> QED BY <2>1, <2>2, TaintFrame
<1>3. ASSUME NEW c \in Claims, Finalized(c)
      PROVE  TaintInv'
  <2>1. /\ UNCHANGED <<nodeCache, work>> /\ claim'[c].phase = "gone" /\ node'[c] = Nil
        /\ \A d \in Claims : d # c => claim'[d] = claim[d] /\ node'[d] = node[d]
    BY <1>0, <1>3 DEF Finalized, Write, caches, NoClaim
  <2>2. \A d \in Claims : (Doomed(d) => Doomed(d)') /\ NodeOK(d)'
    BY <1>0, <2>1 DEF Doomed, NodeOK
  <2> QED BY <2>1, <2>2, TaintFrame
<1>4. ASSUME NEW c \in Claims, AnnotationSpoilt(c)
      PROVE  TaintInv'
  <2>1. /\ UNCHANGED <<node, nodeCache, work>>
        /\ \A d \in Claims : claim'[d].phase = claim[d].phase
    BY <1>0, <1>4 DEF AnnotationSpoilt, Write, caches, ClaimRecords
  <2> QED BY <2>1, TaintSame
<1>5. ASSUME NEW c \in Claims, OtherTaint(c)
      PROVE  TaintInv'
  <2>1. /\ UNCHANGED <<claim, nodeCache, work>> /\ node[c] # Nil /\ node'[c] # Nil
        /\ Decommissioning \in node[c] => Decommissioning \in node'[c]
        /\ \A d \in Claims : d # c => node'[d] = node[d]
    BY <1>0, <1>5, NilAssumption DEF OtherTaint, caches, Taints, Decommissioning
  <2>2. \A d \in Claims : (Doomed(d) => Doomed(d)') /\ NodeOK(d)'
    BY <1>0, <2>1 DEF Doomed, NodeOK
  <2> QED BY <2>1, <2>2, TaintFrame
<1>6. ASSUME NEW p \in Pods,
             (\E owner \in Owners : PodCreated(p, owner)) \/ PodUnschedulable(p) \/ PodGated(p)
             \/ PodDeleted(p) \/ PodGone(p) \/ (\E c \in Claims : PodBound(p, c))
      PROVE  TaintInv'
  <2>1. UNCHANGED <<claim, node, nodeCache, work>>
    BY <1>6 DEF PodCreated, PodUnschedulable, PodGated, PodDeleted, PodGone, PodBound, PodStep, caches
  <2> QED BY <2>1, TaintSame
<1> QED
  BY <1>1, <1>2, <1>3, <1>4, <1>5, <1>6 DEF ClusterStep

LEMMA TaintReconcile ==
    ASSUME TimeInv, TaintInv, ReconcileStep
    PROVE  TaintInv'
<1>1. /\ work \in WorkRecords /\ work.claim \in Claims
      /\ claim \in [Claims -> ClaimRecords] /\ node \in [Claims -> {Nil} \cup SUBSET Taints]
      /\ \A c \in Claims : NodeOK(c)
  BY DEF TimeInv, TypeOK, CacheInv, ReconcileStep, ListPods, GetNode, resetTTL, taintNode,
     DeleteClaim, ReconcileFails, TaintInv, NodeOK
<1> USE DEF caches
<1>2. CASE ListPods
  <2>1. work'.pc \in {"reset", "node"} /\ UNCHANGED <<claim, node, nodeCache>>
    BY <1>1, <1>2 DEF ListPods, WorkRecords
  <2> QED BY <2>1, TaintSame
<1>3. CASE GetNode
  <2>1. UNCHANGED <<claim, node, nodeCache>>
    BY <1>3 DEF GetNode
  <2> DEFINE taints == nodeCache[work.claim]
  <2>2. CASE ReturnError
    BY <2>1, <2>2, TaintSame DEF ReturnError, NoWork
  <2>3. CASE work' = [work EXCEPT !.pc = "reset", !.pending = {}]
    <3>1. work'.pc = "reset"
      BY <1>1, <2>3 DEF WorkRecords
    <3> QED BY <2>1, <3>1, TaintSame
  <2>4. CASE taints # Nil /\ work' = [work EXCEPT !.pc = "taint", !.pending = {}, !.taints = taints]
    <3>1. work'.pc = "taint" /\ work'.claim = work.claim /\ work'.taints = taints
      BY <1>1, <2>4 DEF WorkRecords
    <3> QED BY <1>1, <2>1, <2>4, <3>1 DEF TaintInv, Doomed
  <2> QED BY <1>3, <2>2, <2>3, <2>4 DEF GetNode
<1>4. CASE taintNode
  <2>0. UNCHANGED <<claim, nodeCache>>
    BY <1>4 DEF taintNode
  <2>1. CASE Decommissioning \in work.taints
    <3>1. UNCHANGED node /\ work'.claim = work.claim /\ work'.pc = "delete" /\ Doomed(work.claim)
      BY <1>1, <1>4, <2>1 DEF taintNode, Goto, WorkRecords, TaintInv
    <3> QED BY <2>0, <3>1 DEF TaintInv, Doomed
  <2>2. CASE Decommissioning \notin work.taints /\ node[work.claim] # Nil
    <3>1. /\ node' = [node EXCEPT ![work.claim] = work.taints \cup {Decommissioning}]
          /\ work'.claim = work.claim /\ work'.pc = "delete"
      BY <1>1, <1>4, <2>2 DEF taintNode, Goto, WorkRecords
    <3>2. work.taints \cup {Decommissioning} # Nil
      <4>1. work.taints \cup {Decommissioning} \in SUBSET Taints
        BY <1>1 DEF WorkRecords, Taints
      <4> QED BY <4>1, NilAssumption
    <3>3. \A c \in Claims : Doomed(c) => Doomed(c)'
      BY <1>1, <2>0, <3>1, <3>2 DEF Doomed
    <3>4. \A c \in Claims : NodeOK(c)'
      BY <1>1, <2>0, <2>2, <3>1 DEF NodeOK
    <3>5. Doomed(work.claim)'
      BY <1>1, <3>1, <3>2 DEF Doomed
    <3> QED BY <2>0, <3>1, <3>3, <3>4, <3>5 DEF TaintInv, NodeOK, Doomed
  <2>3. CASE Decommissioning \notin work.taints /\ node[work.claim] = Nil
    <3>1. UNCHANGED node /\ work'.pc = "idle"
      BY <1>4, <2>3 DEF taintNode, ReturnError, NoWork
    <3> QED BY <2>0, <3>1, TaintSame
  <2> QED BY <2>1, <2>2, <2>3
<1>5. CASE resetTTL
  <2>1. /\ work'.pc = "idle" /\ UNCHANGED <<node, nodeCache>>
        /\ \A d \in Claims : claim'[d].phase = claim[d].phase
    BY <1>1, <1>5 DEF resetTTL, ReturnError, NoWork, Write, ClaimRecords
  <2> QED BY <2>1, TaintSame
<1>6. CASE DeleteClaim
  <2>1. /\ work'.pc = "idle" /\ UNCHANGED <<node, nodeCache>>
        /\ \A d \in Claims : claim'[d].phase = claim[d].phase \/
               (claim[d].phase # "gone" /\ claim'[d].phase = "deleting")
    BY <1>1, <1>6 DEF DeleteClaim, ReturnError, NoWork, Write, ClaimRecords, Exists
  <2>2. \A d \in Claims : (Doomed(d) => Doomed(d)') /\ NodeOK(d)'
    BY <1>1, <2>1 DEF Doomed, NodeOK
  <2> QED BY <2>1, <2>2, TaintFrame
<1>7. CASE ReconcileFails
  <2>1. work'.pc = "idle" /\ UNCHANGED <<claim, node, nodeCache>>
    BY <1>7 DEF ReconcileFails, ReturnError, NoWork
  <2> QED BY <2>1, TaintSame
<1> QED
  BY <1>2, <1>3, <1>4, <1>5, <1>6, <1>7 DEF ReconcileStep

LEMMA TaintNext ==
    ASSUME TimeInv, TaintInv, [Next]_vars
    PROVE  TaintInv'
<1>1. CASE Tick
  <2>1. UNCHANGED <<node, nodeCache, work>> /\ \A c \in Claims : claim'[c].phase = claim[c].phase
    BY <1>1, OlderType DEF Tick, TimeInv, TypeOK
  <2> QED BY <2>1, TaintSame
<1>2. ASSUME NEW c \in Claims, ReconcileExpired(c) PROVE TaintInv'
  <2>1. UNCHANGED <<claim, node, nodeCache>> /\ work'.pc = "pods"
    BY <1>2 DEF ReconcileExpired, NoWork, caches
  <2> QED BY <2>1, TaintSame
<1>3. ASSUME NEW c \in Claims,
             SyncClaim(c) \/ Resync(c) \/ TimerFires(c) \/ ReconcileNothing(c) \/ ReconcileEarly(c)
      PROVE  TaintInv'
  <2>1. UNCHANGED <<claim, node, nodeCache, work>>
    BY <1>3 DEF SyncClaim, Resync, TimerFires, ReconcileNothing, ReconcileEarly, caches
  <2> QED BY <2>1, TaintSame
<1>4. CASE SyncNodes \/ SyncPods \/ UNCHANGED vars
  <2>1. UNCHANGED <<claim, node, work>> /\ nodeCache' \in {node, nodeCache}
    BY <1>4 DEF SyncNodes, SyncPods, vars
  <2> QED BY <2>1, TaintSame
<1>5. CASE Crash
  <2>1. UNCHANGED <<claim, node>> /\ nodeCache' = node /\ work'.pc = "idle"
    BY <1>5 DEF Crash, NoWork
  <2> QED BY <2>1, TaintSame
<1> QED
  BY <1>1, <1>2, <1>3, <1>4, <1>5, TaintCluster, TaintReconcile DEF Next, ReconcileBegin

(* No claim is deleted whose node is there without the taint, however old   *)
(* the copy was that taintNode looked at.                                   *)
THEOREM TaintedBeforeDeletionHolds == Spec => TaintedBeforeDeletion
<1>1. Init => TaintInv
  <2> SUFFICES ASSUME Init PROVE TaintInv
    OBVIOUS
  <2>1. work.pc = "idle" /\ \A c \in Claims : node[c] = Nil /\ nodeCache[c] = Nil
    BY DEF Init
  <2> QED BY <2>1 DEF TaintInv
<1>2. TimeInv /\ TaintInv /\ [Next]_vars => TaintInv'
  BY TaintNext
<1>3. ASSUME TaintInv, NEW c \in Claims, DeleteClaim, work.claim = c, node[c] # Nil
      PROVE  Decommissioning \in node[c]
  <2>1. work.pc = "delete"
    BY <1>3 DEF DeleteClaim
  <2> QED
    BY <1>3, <2>1 DEF TaintInv, Doomed
<1>4. TaintInv => [\A c \in Claims :
          DeleteClaim /\ work.claim = c /\ node[c] # Nil => Decommissioning \in node[c]]_vars
  BY <1>3
<1> QED
  BY <1>1, <1>2, <1>4, TimeInvariant, PTL DEF Spec, TaintedBeforeDeletion
=============================================================================
