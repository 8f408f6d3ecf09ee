---------------------------- MODULE NodeClassDrift ----------------------------
(***************************************************************************)
(* Drift detection: an UpCloudNodeClass, the nodeclass controller that     *)
(* validates it, publishes its hash and re-baselines the hash annotations  *)
(* of the NodeClaims launched from it, cloudprovider.Create that stamps    *)
(* those annotations, and cloudprovider.IsDrifted that compares them.      *)
(*                                                                         *)
(* The model starts when this version of the provider is installed over an *)
(* older one: there are claims whose stamp the old hash algorithm made,    *)
(* claims that carry no stamp, and (StrandedClaims) claims that the old    *)
(* process had stamped but not yet launched when it was replaced.          *)
(*                                                                         *)
(* Controllers read caches that follow the Kubernetes API with any delay   *)
(* and write to the API itself. Every version of the NodeClass passes      *)
(* through the cache, in order.                                            *)
(***************************************************************************)
EXTENDS Integers, FiniteSets, Sequences, SequencesExt

CONSTANTS
    LegacyClaims,     \* claims launched before this version was installed
    StrandedClaims,   \* claims stamped but not launched by the old version
    NewClaims,        \* claims that are made later
    Specs,            \* the values NodeClass.spec may have
    None,             \* no object, no stamp, no spec
    MaxEdits,         \* bound: changes the user makes to the NodeClass
    MaxFaults,        \* bound: Kubernetes API calls that fail
    MaxCrashes        \* bound: restarts of the controller process

Claims == LegacyClaims \cup StrandedClaims \cup NewClaims

ASSUME SpecsAssumption ==
    Specs \subseteq [zone : STRING, plan : STRING, labels : SUBSET STRING, taints : Seq(STRING)]
ASSUME ClaimsAssumption ==
    /\ LegacyClaims \cap NewClaims = {}
    /\ StrandedClaims \cap (LegacyClaims \cup NewClaims) = {}
ASSUME BoundsAssumption == /\ MaxEdits \in Nat
                           /\ MaxFaults \in Nat
                           /\ MaxCrashes \in Nat

VARIABLES
    nc,             \* the NodeClass in the Kubernetes API, or None
    ncCache,        \* the process's cached copy of it
    feed,           \* the later versions of it that the watch has yet to deliver
    claim,          \* claim -> the NodeClaim in the Kubernetes API
    claimCache,     \* claim -> the process's cached copy of it
    queued,         \* the NodeClass is in the controller's work queue
    timer,          \* ... or will be added to it (RequeueAfter, back-off)
    work,           \* the reconciler of the NodeClass
    launch,         \* claim -> the Create call under way for it
    gen,            \* generations handed out to NodeClasses so far
    faults, crashes,
    built,          \* ghost: claim -> the spec its server was made from
    changed         \* ghost: claim -> another spec was live after the version of
                    \* the NodeClass that holds this one

boundVars == <<faults, crashes>>
ncVars == <<nc, feed, gen>>
queueVars == <<queued, timer, work>>
vars == <<nc, ncCache, feed, claim, claimCache, queued, timer, work, launch, gen,
          faults, crashes, built, changed>>

-----------------------------------------------------------------------------
(* The hash                                                                 *)

(* An element's hash is combined with those of the others by exclusive or. *)
Odd(list) == {x \in ToSet(list) : Cardinality({i \in DOMAIN list : list[i] = x}) % 2 = 1}

(* What Hash() distinguishes: the list fields of the spec count as sets, in *)
(* which an element that occurs twice cancels out. An empty list and an     *)
(* omitted one are both nil and no part of the hash; a list whose elements  *)
(* all cancel out still is. Labels stand for their entries.                 *)
Canon(s) == [zone |-> s.zone, plan |-> s.plan, labels |-> s.labels,
             taints |-> [hashed |-> s.taints # <<>>, elements |-> Odd(s.taints)]]

(* Mutant of Hash: a list field is left out of the hash. *)
HashIgnoringTaints(s) == <<"v2", [zone |-> s.zone, plan |-> s.plan, labels |-> s.labels]>>

(* UpCloudNodeClass.Hash(), version v2. *)
Hash(s) == <<"v2", Canon(s)>>

(* The unversioned algorithm it replaces: SHA-256 of the JSON text, which   *)
(* is sensitive to the order of list elements.                              *)
LegacyHash(s) == <<"v1", s>>

(* A stamp: the hash annotation with the hash-version annotation.           *)
CurrentStamp(s) == [version |-> "v2", hash |-> Hash(s)]
LegacyStamp(s) == [version |-> "none", hash |-> LegacyHash(s)]

Stamps == [version : {"v2"}, hash : {Hash(s) : s \in Specs}]
          \cup [version : {"none"}, hash : {LegacyHash(s) : s \in Specs}]

ASSUME NoneAssumption == None \notin Specs \cup Stamps

validateSpec(s) == s.zone # "" /\ s.plan # ""

-----------------------------------------------------------------------------
(* State                                                                    *)

NoClaim == [phase |-> "absent", stamp |-> None, drifted |-> FALSE]

Present(k) == k.phase \in {"pending", "launched"}

NewClass(s, g) == [spec |-> s, finalizer |-> FALSE, deleting |-> FALSE, gen |-> g,
                   ready |-> "Unknown", observed |-> 0, hash |-> None]

Idle == [pc |-> "idle", obj |-> None, todo |-> {}]
NotLaunching == [pc |-> "idle", spec |-> None]

(* What the old version may have left of a claim made from spec b: a        *)
(* launched claim without stamp, or with a stamp of the old algorithm and   *)
(* possibly found to have drifted from the spec now live ...                *)
LegacyRecords(b, live) ==
    {[phase |-> "launched", stamp |-> None, drifted |-> FALSE],
     [phase |-> "launched", stamp |-> LegacyStamp(b), drifted |-> FALSE],
     [phase |-> "launched", stamp |-> LegacyStamp(b),
      drifted |-> LegacyHash(b) # LegacyHash(live)]}

(* ... or a claim stamped but not launched. *)
StrandedRecord(b) == [phase |-> "pending", stamp |-> LegacyStamp(b), drifted |-> FALSE]

Starting(c, b, live) ==
    CASE c \in LegacyClaims   -> LegacyRecords(b, live)
      [] c \in StrandedClaims -> {StrandedRecord(b)}
      [] c \in NewClaims      -> {NoClaim}

Init ==
    /\ gen = 1 /\ faults = 0 /\ crashes = 0
    /\ \E s \in Specs, f \in BOOLEAN : nc = [NewClass(s, 1) EXCEPT !.finalizer = f]
    /\ \E b \in [Claims -> {s \in Specs : validateSpec(s)}] :
          /\ built = [c \in Claims |-> IF c \in LegacyClaims THEN b[c] ELSE None]
          /\ claim \in [Claims -> UNION {Starting(c, b[c], nc.spec) : c \in Claims}]
          /\ \A c \in Claims : claim[c] \in Starting(c, b[c], nc.spec)
    /\ changed = [c \in Claims |-> c \in LegacyClaims /\ Canon(built[c]) # Canon(nc.spec)]
    /\ ncCache = nc /\ feed = <<>> /\ claimCache = claim
    /\ queued = TRUE /\ timer = FALSE /\ work = Idle
    /\ launch = [c \in Claims |-> NotLaunching]

Fault == faults < MaxFaults /\ faults' = faults + 1

-----------------------------------------------------------------------------
(* The user and the caches                                                  *)

(* The spec that the server of claim c is made from, once one was read. *)
Origin(c) == IF launch[c].pc # "idle" THEN launch[c].spec ELSE built[c]

(* Another spec goes live, after claims were built from their own.          *)
NoteSpec(s) ==
    changed' = [c \in Claims |->
        changed[c] \/ (Origin(c) # None /\ Canon(Origin(c)) # Canon(s))]

(* A write to the NodeClass, which the watch is going to deliver. *)
Write(o) == nc' = o /\ feed' = IF o = nc THEN feed ELSE Append(feed, o)

UserEdit(s) ==
    /\ gen <= MaxEdits
    /\ nc # None /\ ~nc.deleting /\ s # nc.spec
    /\ gen' = gen + 1
    /\ Write([nc EXCEPT !.spec = s, !.gen = gen + 1])
    /\ NoteSpec(s)
    /\ UNCHANGED <<ncCache, claim, claimCache, queueVars, launch, boundVars, built>>

(* The API server keeps an object that has a finalizer, this controller's   *)
(* or another one, marked as deleted.                                       *)
UserDelete ==
    /\ gen <= MaxEdits
    /\ nc # None /\ ~nc.deleting
    /\ gen' = gen + 1
    /\ \/ Write([nc EXCEPT !.deleting = TRUE, !.gen = gen + 1])
       \/ ~nc.finalizer /\ Write(None)
    /\ UNCHANGED <<ncCache, claim, claimCache, queueVars, launch, boundVars, built, changed>>

(* Whoever set the other finalizer removes it. *)
OtherFinalizerRemoved ==
    /\ nc # None /\ nc.deleting /\ ~nc.finalizer
    /\ Write(None)
    /\ UNCHANGED <<gen, ncCache, claim, claimCache, queueVars, launch, boundVars, built, changed>>

UserRecreate(s) ==
    /\ gen <= MaxEdits
    /\ nc = None
    /\ gen' = gen + 1
    /\ Write(NewClass(s, gen + 1))
    /\ NoteSpec(s)
    /\ UNCHANGED <<ncCache, claim, claimCache, queueVars, launch, boundVars, built>>

(* GenerationChangedPredicate: creations and deletions are always enqueued, *)
(* an update only if it changed the generation.                             *)
EventPasses(old, new) == old = None \/ new = None \/ old.gen # new.gen

(* The watch delivers the next version. (One that was interrupted and skips *)
(* some does to cache and queue what delivering them at once does.)         *)
SyncClass ==
    /\ feed # <<>> /\ feed' = Tail(feed)
    /\ ncCache' = Head(feed)
    /\ queued' = (queued \/ EventPasses(ncCache, Head(feed)))
    /\ UNCHANGED <<nc, gen, claim, claimCache, timer, work, launch, boundVars, built, changed>>

SyncClaim(c) ==
    /\ claimCache[c] # claim[c]
    /\ claimCache' = [claimCache EXCEPT ![c] = claim[c]]
    /\ UNCHANGED <<ncVars, ncCache, claim, queueVars, launch, boundVars, built, changed>>

-----------------------------------------------------------------------------
(* The nodeclass controller                                                 *)

(* A delayed Add of the work queue comes due. *)
TimerFires ==
    /\ timer
    /\ timer' = FALSE /\ queued' = TRUE
    /\ UNCHANGED <<ncVars, ncCache, claim, claimCache, work, launch, boundVars, built, changed>>

(* Reconcile returns: it is called again after a delay (RequeueAfter,       *)
(* Requeue or an error), or only upon the next event.                       *)
ReturnAndRequeue == work' = Idle /\ timer' = TRUE
ReturnForGood == work' = Idle /\ UNCHANGED timer

(* Mutant of Unmodified: a patch without the optimistic lock. *)
Unlocked == nc # None

(* A write that carries the resourceVersion of the copy that was read       *)
(* succeeds only if the object is still that copy.                          *)
Unmodified == nc = work.obj

ReconcileBegin ==
    /\ queued /\ work.pc = "idle"
    /\ queued' = FALSE
    /\ work' = IF ncCache = None THEN Idle ELSE [work EXCEPT !.pc = "got", !.obj = ncCache]
    /\ UNCHANGED <<ncVars, ncCache, claim, claimCache, timer, launch, boundVars, built, changed>>

(* handleDeletion: the finalizer is removed, and the object with it unless  *)
(* it has another one.                                                      *)
handleDeletion ==
    /\ work.pc = "got" /\ work.obj.deleting
    /\ \/ ~work.obj.finalizer /\ ReturnForGood /\ UNCHANGED <<nc, feed>>
       \/ /\ work.obj.finalizer /\ Unmodified
          /\ Write(None) \/ Write([nc EXCEPT !.finalizer = FALSE])
          /\ ReturnForGood
       \/ work.obj.finalizer /\ ~Unmodified /\ ReturnAndRequeue /\ UNCHANGED <<nc, feed>>
    /\ UNCHANGED <<gen, ncCache, claim, claimCache, queued, launch, boundVars, built, changed>>

(* Mutant of AddFinalizer: no RequeueAfter; the update event is relied on.  *)
AddFinalizerOnce ==
    /\ work.pc = "got" /\ ~work.obj.deleting /\ ~work.obj.finalizer
    /\ Write(IF Unmodified THEN [nc EXCEPT !.finalizer = TRUE] ELSE nc)
    /\ ReturnForGood
    /\ UNCHANGED <<gen, ncCache, claim, claimCache, queued, launch, boundVars, built, changed>>

AddFinalizer ==
    /\ work.pc = "got" /\ ~work.obj.deleting /\ ~work.obj.finalizer
    /\ Write(IF Unmodified THEN [nc EXCEPT !.finalizer = TRUE] ELSE nc)
    /\ ReturnAndRequeue
    /\ UNCHANGED <<gen, ncCache, claim, claimCache, queued, launch, boundVars, built, changed>>

(* The reconciler has an object with finalizer that is not being deleted. *)
Settled == work.pc = "got" /\ ~work.obj.deleting /\ work.obj.finalizer

(* The patch carries the status that was computed for the copy o. *)
PatchStatus(o) ==
    Write([nc EXCEPT !.ready = o.ready, !.observed = o.observed, !.hash = o.hash])

(* The copy with Ready unset for its generation; the published hash stays.  *)
Refused(o) == [o EXCEPT !.ready = "False", !.observed = o.gen]

MarkInvalid ==
    /\ Settled /\ ~validateSpec(work.obj.spec)
    /\ \/ Unmodified /\ PatchStatus(Refused(work.obj))
       \/ ~Unmodified /\ UNCHANGED <<nc, feed>>
    /\ ReturnAndRequeue
    /\ UNCHANGED <<gen, ncCache, claim, claimCache, queued, launch, boundVars, built, changed>>

(* The copy with Ready set for its generation and its hash published. *)
Published(o) == [o EXCEPT !.ready = "True", !.observed = o.gen, !.hash = Hash(o.spec)]

(* Mutant of MarkReady: status is patched only when Ready is not True yet.  *)
MarkReadyOnce ==
    /\ Settled /\ validateSpec(work.obj.spec)
    /\ \/ /\ work.obj.ready = "True"
          /\ work' = [work EXCEPT !.pc = "list"]
          /\ UNCHANGED <<nc, feed, timer>>
       \/ /\ work.obj.ready # "True" /\ Unmodified
          /\ PatchStatus(Published(work.obj))
          /\ work' = [work EXCEPT !.pc = "list"]
          /\ UNCHANGED timer
       \/ work.obj.ready # "True" /\ ~Unmodified /\ ReturnAndRequeue /\ UNCHANGED <<nc, feed>>
    /\ UNCHANGED <<gen, ncCache, claim, claimCache, queued, launch, boundVars, built, changed>>

(* The spec is valid: status is patched if it changes, under the lock, and  *)
(* the reconciler goes on to the claims.                                    *)
MarkReady ==
    /\ Settled /\ validateSpec(work.obj.spec)
    /\ \/ /\ work.obj = Published(work.obj)
          /\ work' = [work EXCEPT !.pc = "list"]
          /\ UNCHANGED <<nc, feed, timer>>
       \/ /\ work.obj # Published(work.obj) /\ Unmodified
          /\ PatchStatus(Published(work.obj))
          /\ work' = [work EXCEPT !.pc = "list"]
          /\ UNCHANGED timer
       \/ /\ work.obj # Published(work.obj) /\ ~Unmodified
          /\ ReturnAndRequeue
          /\ UNCHANGED <<nc, feed>>
    /\ UNCHANGED <<gen, ncCache, claim, claimCache, queued, launch, boundVars, built, changed>>

(* Mutants of NeedsRebaseline: unlaunched claims are stamped too, and       *)
(* unstamped claims are left alone.                                         *)
NeedsRebaselineEarly(k) ==
    Present(k) /\ ~(k.stamp # None /\ k.stamp.version = "v2") /\ ~k.drifted
NeedsRebaselineStamped(k) ==
    Present(k) /\ k.stamp # None /\ k.stamp.version # "v2" /\ ~k.drifted

(* The cached claims that the loop of rebaselineClaimHashes does not skip.  *)
NeedsRebaseline(k) ==
    /\ Present(k)
    /\ ~(k.stamp = None /\ k.phase # "launched")
    /\ ~(k.stamp # None /\ k.stamp.version = "v2")
    /\ ~k.drifted

ListClaims ==
    /\ work.pc = "list"
    /\ work' = [work EXCEPT !.pc = "patch",
                            !.todo = {c \in Claims : NeedsRebaseline(claimCache[c])}]
    /\ UNCHANGED <<ncVars, ncCache, claim, claimCache, queued, timer, launch, boundVars,
                   built, changed>>

(* The merge patch of one claim overwrites both annotations; a claim that   *)
(* no longer exists makes Reconcile return the error.                       *)
RebaselineClaim(c) ==
    /\ work.pc = "patch" /\ c \in work.todo
    /\ \/ /\ Present(claim[c])
          /\ claim' = [claim EXCEPT ![c].stamp = CurrentStamp(work.obj.spec)]
          /\ work' = [work EXCEPT !.todo = @ \ {c}]
          /\ UNCHANGED timer
       \/ /\ ~Present(claim[c])
          /\ ReturnAndRequeue
          /\ UNCHANGED claim
    /\ UNCHANGED <<ncVars, ncCache, claimCache, queued, launch, boundVars, built, changed>>

ReconcileEnd ==
    /\ work.pc = "patch" /\ work.todo = {}
    /\ ReturnAndRequeue
    /\ UNCHANGED <<ncVars, ncCache, claim, claimCache, queued, launch, boundVars, built, changed>>

(* Any call of the API fails: Reconcile returns the error or Requeue. *)
ReconcileFails ==
    /\ work.pc # "idle"
    /\ Fault
    /\ ReturnAndRequeue
    /\ UNCHANGED <<ncVars, ncCache, claim, claimCache, queued, launch, crashes, built, changed>>

-----------------------------------------------------------------------------
(* Create, and Karpenter's persisting of what it returns                    *)

ClaimCreated(c) ==
    /\ c \in NewClaims /\ claim[c].phase = "absent"
    /\ claim' = [claim EXCEPT ![c].phase = "pending"]
    /\ UNCHANGED <<ncVars, ncCache, claimCache, queueVars, launch, boundVars, built, changed>>

(* Create reads the NodeClass from the cache and makes the server from it;  *)
(* later versions may have been live already.                               *)
CreateBegin(c) ==
    /\ launch[c].pc = "idle" /\ claim[c].phase = "pending" /\ ncCache # None
    /\ launch' = [launch EXCEPT ![c] = [pc |-> "stamp", spec |-> ncCache.spec]]
    /\ changed' = [changed EXCEPT ![c] =
          \E o \in ToSet(feed) : o # None /\ Canon(o.spec) # Canon(ncCache.spec)]
    /\ UNCHANGED <<ncVars, ncCache, claim, claimCache, queueVars, boundVars, built>>

CreateFails(c) ==
    /\ launch[c].pc = "stamp"
    /\ launch' = [launch EXCEPT ![c] = NotLaunching]
    /\ UNCHANGED <<ncVars, ncCache, claim, claimCache, queueVars, boundVars, built, changed>>

(* Mutants of CreateStamp: the hash-version annotation is left out, and the *)
(* markers are added to the labels of the NodeClass itself.                 *)
CreateStampUnversioned(s) == [version |-> "none", hash |-> Hash(s)]
CreateStampMarked(s) == CurrentStamp([s EXCEPT !.labels = @ \cup {"managed_by"}])

(* The stamp Create puts on the NodeClaim it returns: the hash is computed  *)
(* after the instance provider has added its markers to a copy of the       *)
(* labels, so from the spec as it was read.                                 *)
CreateStamp(s) == CurrentStamp(s)

(* Karpenter patches the claim's metadata first ...  *)
PersistMetadata(c) ==
    /\ launch[c].pc = "stamp"
    /\ IF Present(claim[c])
       THEN /\ claim' = [claim EXCEPT ![c].stamp = CreateStamp(launch[c].spec)]
            /\ launch' = [launch EXCEPT ![c].pc = "status"]
       ELSE launch' = [launch EXCEPT ![c] = NotLaunching] /\ UNCHANGED claim
    /\ UNCHANGED <<ncVars, ncCache, claimCache, queueVars, boundVars, built, changed>>

(* ... and its status, with the provider ID, second. *)
PersistStatus(c) ==
    /\ launch[c].pc = "status"
    /\ IF Present(claim[c])
       THEN /\ claim' = [claim EXCEPT ![c].phase = "launched"]
            /\ built' = [built EXCEPT ![c] = launch[c].spec]
       ELSE UNCHANGED <<claim, built>>
    /\ launch' = [launch EXCEPT ![c] = NotLaunching]
    /\ UNCHANGED <<ncVars, ncCache, claimCache, queueVars, boundVars, changed>>

-----------------------------------------------------------------------------
(* Drift                                                                    *)

(* Mutant of IsDrifted: hashes of different versions are compared. *)
IsDriftedAnyVersion(k, class) ==
    class # None /\ k.stamp # None /\ k.stamp.hash # Hash(class.spec)

(* Mutant of IsDrifted: compared with the published hash, not a fresh one.  *)
IsDriftedByStatus(k, class) ==
    /\ class # None
    /\ k.stamp # None
    /\ k.stamp.version = "v2"
    /\ k.stamp.hash # class.hash

(* cloudprovider.IsDrifted of a claim, against the cached NodeClass. *)
IsDrifted(k, class) ==
    /\ class # None
    /\ k.stamp # None
    /\ k.stamp.version = "v2"
    /\ k.stamp.hash # Hash(class.spec)

(* Karpenter's disruption controller sets or clears the claim's condition.  *)
(* Its write is refused if the claim it read is not the current one.        *)
EvaluateDrift(c) ==
    /\ claim[c].phase = "launched"
    /\ claim' = [claim EXCEPT ![c].drifted = IsDrifted(claim[c], ncCache)]
    /\ UNCHANGED <<ncVars, ncCache, claimCache, queueVars, launch, boundVars, built, changed>>

(* A claim is deleted: Karpenter replaces a drifted one, or the user asks. *)
ClaimDeleted(c) ==
    /\ Present(claim[c])
    /\ claim' = [claim EXCEPT ![c].phase = "gone"]
    /\ UNCHANGED <<ncVars, ncCache, claimCache, queueVars, launch, boundVars, built, changed>>

(* The process restarts: it lists what there is and queues what it finds. *)
Crash ==
    /\ crashes < MaxCrashes /\ crashes' = crashes + 1
    /\ ncCache' = nc /\ feed' = <<>> /\ claimCache' = claim
    /\ queued' = (nc # None) /\ timer' = FALSE /\ work' = Idle
    /\ launch' = [c \in Claims |-> NotLaunching]
    /\ UNCHANGED <<nc, gen, claim, faults, built, changed>>

UserStep ==
    \/ \E s \in Specs : UserEdit(s) \/ UserRecreate(s)
    \/ UserDelete
    \/ OtherFinalizerRemoved
    \/ \E c \in Claims : ClaimCreated(c) \/ ClaimDeleted(c)

ReconcileStep ==
    \/ ReconcileBegin
    \/ handleDeletion
    \/ AddFinalizer
    \/ MarkInvalid
    \/ MarkReady
    \/ ListClaims
    \/ \E c \in Claims : RebaselineClaim(c)
    \/ ReconcileEnd
    \/ ReconcileFails

CreateStep(c) ==
    \/ CreateBegin(c)
    \/ CreateFails(c)
    \/ PersistMetadata(c)
    \/ PersistStatus(c)

Next ==
    \/ UserStep
    \/ SyncClass
    \/ TimerFires
    \/ ReconcileStep
    \/ \E c \in Claims : SyncClaim(c) \/ CreateStep(c) \/ EvaluateDrift(c)
    \/ Crash

Spec == Init /\ [][Next]_vars

(* Watches deliver, delayed Adds come due, the manager runs the reconciler  *)
(* and Karpenter evaluates every launched claim again and again.            *)
Fairness ==
    /\ WF_vars(SyncClass) /\ WF_vars(TimerFires) /\ WF_vars(ReconcileStep)
    /\ \A c \in Claims : WF_vars(SyncClaim(c)) /\ WF_vars(EvaluateDrift(c))

FairSpec == Spec /\ Fairness

-----------------------------------------------------------------------------
(* Properties                                                               *)

ClaimRecords == [phase : {"absent", "pending", "launched", "gone"},
                 stamp : Stamps \cup {None}, drifted : BOOLEAN]

(* An UpCloudNodeClass: its spec, what metadata and the Ready condition say  *)
(* of it, and status.hash.                                                  *)
ClassRecords == [spec : Specs, finalizer : BOOLEAN, deleting : BOOLEAN, gen : Nat,
                 ready : {"Unknown", "True", "False"}, observed : Nat,
                 hash : {Hash(s) : s \in Specs} \cup {None}]

(* Every variable keeps its type; a stamp is always a hash together with    *)
(* the version of the algorithm that made it.                               *)
TypeOK ==
    /\ nc \in ClassRecords \cup {None}
    /\ ncCache \in ClassRecords \cup {None} /\ feed \in Seq(ClassRecords \cup {None})
    /\ claim \in [Claims -> ClaimRecords]
    /\ claimCache \in [Claims -> ClaimRecords]
    /\ queued \in BOOLEAN /\ timer \in BOOLEAN
    /\ work \in [pc : {"idle", "got", "list", "patch"}, obj : ClassRecords \cup {None},
                 todo : SUBSET Claims]
    /\ launch \in [Claims -> [pc : {"idle", "stamp", "status"}, spec : Specs \cup {None}]]
    /\ gen \in 1..(MaxEdits + 1)
    /\ faults \in 0..MaxFaults /\ crashes \in 0..MaxCrashes
    /\ built \in [Claims -> Specs \cup {None}]
    /\ changed \in [Claims -> BOOLEAN]

(* A claim that this version launched carries the hash of the very spec its *)
(* server was made from: the nodeclass controller, which patches claims     *)
(* from a stale list and without a lock, never overwrites what Create       *)
(* stamped, whichever of them is faster and whatever the user edits.        *)
StampMatchesBuild ==
    \A c \in NewClaims : claim[c].phase = "launched" =>
        claim[c].stamp = CurrentStamp(built[c])

(* A node is found to have drifted only if a spec that really differs from  *)
(* the one its server was made from was live after the version of the       *)
(* NodeClass that Create read: not because list elements were reordered,    *)
(* the hash algorithm was replaced, the markers got into the hash, or the   *)
(* cache went back to an older version. (The differing spec may be live no  *)
(* more, and have been so only before the server was made: a cache that is  *)
(* behind shows it nevertheless.)                                           *)
DriftIsGenuine ==
    [][\A c \in LegacyClaims \cup NewClaims : ~claim[c].drifted /\ claim'[c].drifted => changed[c]]_vars

(* The status the controller publishes is that of the spec live at that     *)
(* moment, never of the older one it read: Ready says whether that spec is  *)
(* valid, and with Ready the hash is that spec's.                           *)
StatusIsOfLiveSpec ==
    [][nc # None /\ nc' # None /\ nc'.observed # nc.observed /\ nc'.observed # 0 =>
          /\ nc'.observed = nc.gen
          /\ nc'.ready = (IF validateSpec(nc.spec) THEN "True" ELSE "False")
          /\ validateSpec(nc.spec) => nc'.hash = Hash(nc.spec)]_vars

(* A NodeClass is never forgotten: although the event filter drops the      *)
(* events of the controller's own writes, a NodeClass that exists, and that *)
(* this controller has not let go of, is queued,                            *)
(* being reconciled, due to be queued, or changed in a way that will pass   *)
(* the filter.                                                              *)
NotForgotten ==
    nc # None /\ (nc.deleting => nc.finalizer) =>
        queued \/ timer \/ work.pc # "idle" \/ EventPasses(ncCache, nc)

(* A claim that was drifted, of a server that differs from the live spec,   *)
(* stays drifted while the spec is not edited: "Claims already evaluated as *)
(* drifted keep their state and are still recycled."                        *)
DriftedClaimsKeepTheirState ==
    [][\A c \in LegacyClaims :
          /\ claim[c].drifted /\ claim[c].phase = "launched" /\ claim'[c].phase = "launched"
          /\ nc # None /\ nc' = nc /\ ncCache = nc
          /\ Canon(built[c]) # Canon(nc.spec)
          => claim'[c].drifted]_vars

Adoptable == nc # None /\ ~nc.deleting /\ validateSpec(nc.spec)

(* "no node stays permanently outside drift detection": a launched claim    *)
(* that carries no hash, or one of another version, gets the current one.   *)
AdoptedEventually ==
    \A c \in Claims :
        claim[c].phase = "launched" /\ (claim[c].stamp = None \/ claim[c].stamp.version # "v2")
        ~> \/ claim[c].stamp # None /\ claim[c].stamp.version = "v2"
           \/ claim[c].phase = "gone"
           \/ ~Adoptable

(* A claim that this version launched from another spec than the live one   *)
(* is found to have drifted.                                                *)
DriftIsDetected ==
    \A c \in NewClaims :
        LET differs == /\ claim[c].phase = "launched" /\ nc # None
                       /\ Canon(built[c]) # Canon(nc.spec)
        IN  differs ~> claim[c].drifted \/ ~differs

(* Once the user stops editing, status settles on the live spec, and a      *)
(* deleted NodeClass is let go.                                             *)
StatusConverges ==
    <>[](nc # None =>
           \/ nc.deleting /\ ~nc.finalizer
           \/ /\ ~nc.deleting /\ nc.finalizer /\ nc.observed = nc.gen
              /\ nc.ready = (IF validateSpec(nc.spec) THEN "True" ELSE "False")
              /\ validateSpec(nc.spec) => nc.hash = Hash(nc.spec))
-----------------------------------------------------------------------------
(* The inductive invariants of NodeClassDrift_proofs                        *)

(* A claim of this version is stamped before it is launched, by Create, and *)
(* is therefore never one that the controller's loop picks.                 *)
StampInv ==
    /\ \A c \in NewClaims :
          /\ c \notin work.todo
          /\ \A k \in {claim[c], claimCache[c]} :
                /\ k.stamp # None => k.stamp.version = "v2"
                /\ k.phase = "launched" => k.stamp # None
          /\ launch[c].pc # "idle" => claim[c].phase \in {"pending", "gone"}
          /\ launch[c].pc = "status" /\ claim[c].phase = "pending" =>
                claim[c].stamp = CurrentStamp(launch[c].spec)
    /\ \A c \in Claims : launch[c].pc # "idle" => launch[c].spec # None
    /\ work.pc # "idle" => work.obj # None
    /\ StampMatchesBuild

(* The live NodeClass and the versions that the cache shows or will show. *)
Versions == {nc, ncCache} \cup ToSet(feed)

(* Delivering all there is to deliver brings the cache up to date. *)
FeedInv == nc = IF feed = <<>> THEN ncCache ELSE feed[Len(feed)]

SameSpec(o, s) == o # None => Canon(o.spec) = Canon(s)

(* While only specs equivalent to its origin were live, every copy of the   *)
(* NodeClass that the claim may still be compared with is equivalent to it, *)
(* and so is its stamp.                                                     *)
OriginInv ==
    /\ FeedInv
    /\ \A c \in LegacyClaims :
          launch[c].pc = "idle" /\ claim[c].phase \in {"launched", "gone"} /\ built[c] # None
    /\ \A c \in NewClaims :
          /\ claim[c].phase = "launched" => built[c] # None
          /\ claim[c].phase \in {"absent", "pending"} => built[c] = None
          /\ launch[c].pc # "idle" => built[c] = None
    /\ \A c \in LegacyClaims \cup NewClaims : ~changed[c] /\ Origin(c) # None =>
          /\ \A o \in Versions : SameSpec(o, Origin(c))
          /\ c \in LegacyClaims =>
                /\ SameSpec(work.obj, Origin(c))
                /\ claim[c].stamp # None /\ claim[c].stamp.version = "v2" =>
                       claim[c].stamp.hash = Hash(built[c])

(* A copy o of the NodeClass n is no newer than the generations handed out  *)
(* and, as long as none was handed out since, it is being deleted if n is;  *)
(* a finalizer that is gone by then does not come back.                     *)
Copy(o, n, g) ==
    o # None =>
        /\ o.gen <= g
        /\ n # None /\ o.gen = n.gen =>
               /\ o.deleting <=> n.deleting
               /\ o.deleting /\ ~o.finalizer => ~n.finalizer

(* The reconciler may be at work on a copy that is out of date only if the  *)
(* NodeClass is queued again, or will be.                                   *)
WatchInv ==
    /\ \A o \in Versions : Copy(o, nc, gen)
    /\ work.pc # "idle" => Copy(work.obj, nc, gen)
    /\ work.pc # "idle" /\ nc # None =>
          queued \/ EventPasses(ncCache, nc) \/ work.obj.gen = nc.gen
    /\ NotForgotten
=============================================================================
