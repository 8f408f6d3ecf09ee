# Formal models of the UpCloud provider for Karpenter

This directory holds TLA+ models of karpenter-provider-upcloud, the TLC configurations
that check them on small instances, and TLAPS proofs of their main safety properties for
every size of instance. All of it is translated from the Go code; what lives outside the
repository (Karpenter core, Kubernetes, controller-runtime, the UpCloud API) is modelled
only as far as the code relies on it, and is marked external in `PROJECT.json`.

## The system

The provider is one process: Karpenter core, linked as a library, with an implementation
of its `CloudProvider` interface and two controllers of its own. It keeps almost nothing in
memory. Its state is in the Kubernetes API (NodeClaims, Nodes, Pods, UpCloudNodeClasses)
and in the UpCloud API (servers), which it reads through informer caches and remote calls.

| component | source | state | operations | hard because |
|---|---|---|---|---|
| cloudprovider | `pkg/cloudprovider/cloudprovider.go` | none; results are persisted by Karpenter | `Create`, `Delete`, `Get`, `List`, `IsDrifted`, `GetInstanceTypes` | partial failure, retries, crash between a remote call and its record |
| instance provider | `pkg/providers/instance/instance.go` | servers and their labels in the account | `Create`, `Delete`, `Stop`, `WaitForStop`, `List`, `Get` | each API call is legal in some server states only; `List` is a loop of calls |
| bootstrap certificate, CA bundle | `pkg/cloudprovider/helpers.go` | a CertificateSigningRequest | `getCABundle`, `generateKubeletCert` | read, decide and write of a request that others decide too; a poll with a timeout |
| nodeclass controller | `pkg/controllers/nodeclass/controller.go` | finalizer, status and hash of the NodeClass; hash annotations of its claims | `Reconcile`, `handleDeletion`, `rebaselineClaimHashes` | stale caches, event filter, races with `Create` over the annotations |
| NodeClass and its hash | `apis/v1alpha2/` | - | `Hash`, versions | two versions of the algorithm, order of lists |
| nodeclaimttl controller | `pkg/controllers/nodeclaimttl/controller.go` | an annotation on the claim, a taint on the node | `Reconcile`, `resetTTL`, `taintNode`, `ttlStart`, `hasMatchingPendingPod` | time, stale caches, decisions made on what was read some calls ago |
| instance types provider | `pkg/providers/instancetypes/instancetypes.go` | a cache of plans and prices, lost with the process | `Refresh`, `List`, `Get` | filled once, at start-up; three conversions of a plan that must agree; memory in bytes |
| user data | `pkg/providers/userdata/userdata.go` | - | text rendering | - |
| start-up | `cmd/karpenter-upcloud/main.go` | - | `run` | what must be known before the first controller runs |
| options, events, version, registration | `pkg/providers/options.go`, ... | - | wiring | - |

How they interact. Karpenter's lifecycle controller calls `Create` for a claim without
provider ID, writes the returned labels and annotations in one patch and the status (with
the provider ID) in another; for a deleted claim it calls `Delete` until it returns nil or
NodeClaimNotFound and then `Get` until that says NodeClaimNotFound. Its garbage collector
compares the claims with `List`. Its disruption controller asks `IsDrifted` and sets or
clears the condition Drifted. The nodeclass controller publishes the hash of the spec and
re-stamps claims whose hash another version made; `Create` stamps new claims with the same
annotations. The nodeclaimttl controller deletes claims, upon which the lifecycle
controller calls `Delete`.

What makes it correct:

* no server runs, and costs, without a NodeClaim that will delete it;
* a deleted NodeClaim goes away whatever state its server is in;
* garbage collection over `List` never deletes the claim of a running server;
* drift is found exactly when the spec differs from what the server was made from, across
  an upgrade of the hash algorithm too;
* the status of a NodeClass describes its live spec, in the end and whenever it is written;
* an idle node goes away after its TTL, and a busy one does not;
* a server is made only with a certificate that somebody signed for it, and a denied request
  stays denied;
* what Karpenter is told about a plan before a launch, at the launch and after it agrees.

## Modules

| module | models |
|---|---|
| `ServerLifecycle` | servers under NodeClaims: `Create`, `Delete`, `Get`, `List`, the instance provider, Karpenter's launch, finalization and garbage collection |
| `MachineLease` | abstract: what the provider promises about machines and claims; implemented by `ServerLifecycle` |
| `KubeletCSR` | `getCABundle` and `generateKubeletCert`, other approvers and the signer |
| `InstanceTypes` | the instance types provider, the start of the process, what is made of a plan |
| `NodeLaunch` | `Create` in full: `ServerLifecycle` composed with `KubeletCSR` and `InstanceTypes` |
| `NodeClassDrift` | the NodeClass, its controller, the hash stamps, `Create` as far as it stamps, `IsDrifted` |
| `NodeClaimTTL` | the nodeclaimttl controller with its work queue, the cluster around it and time |
| `PodMatching` | its `isMatchingPending`: `podFitsInstanceType` and `podToleratesNodeTaints`, with the scheduler as reference |
| `MC...` | values for the constants |
| `LeaseRefinement_proofs` | the proof that `ServerLifecycle` implements `MachineLease` |
| `..._proofs` | theorems about the module of that name, and their proofs |

`NodeLaunch` implements `ServerLifecycle`, which implements `MachineLease`. `PodMatching` gives
the constants `Fits` and `Tolerant` of `NodeClaimTTL` their meaning. Otherwise the modules are
separate specifications that share the NodeClaim, of which each keeps the part that its code
reads and writes. Definitions whose comment begins "Mutant of"
are variants of the definition next to them that contain a plausible mistake; nothing in
the specifications uses them. They document what a property would catch.

### ServerLifecycle

State: of each claim its phase, provider ID, InstanceTerminating condition and Node; of
each server its state (`none`, `maintenance` while it is cloned, `started`, `stopping`,
`stopped`, `deleted`) and labels; the step of the claim's lifecycle worker (`pc`), the
in-memory launch cache (`mem`, whose entry for a claim also expires after a minute,
`LaunchExpires`) and the garbage collector's round (`gc`), all three lost by `Crash`. `owner` and `lost` are ghosts: for which claim a server was made, and which
servers' UUIDs nobody kept.

`CreateServer` is the successful call of `instance.Create` with everything `Create` does
after it. `CreateRejected` and `CreateAnswerLost` are its two failures: in the second the
server exists. Both end as InsufficientCapacityError, upon which Karpenter deletes the
claim. `CreateAbort` is every return before the call. `Delete` is one action per API call
and answer: `StopServer`, `StopIllegal` (SERVER_STATE_ILLEGAL, taken for "stopped"),
`StopNotFound`, `StopFailed`, `WaitForStop`, `WaitFailed`, `DeleteServer`, `DeleteNotFound`,
`DeleteFailed`. `List` is `ListServers`, a `ServerDetails` or `DetailsFailed` per server and
`ListReturns`. A provider ID is a record of prefix and UUID, so that a wrong prefix shows.

The UpCloud API is modelled from the contract the code and CONTRIBUTING.md state: Stop is
legal for a started server only, Delete for a stopped one only, UUIDs are not reused, and
servers also stop or disappear on their own (`Halt`, `Vanish`). Nobody starts a server again
that is stopping: the code never does, and somebody who did it by hand could make `WaitForStop`
poll until its context ends.

### MachineLease

Six variables (open claims, the machine each holds, which leases are on record, machines
ever made, existing, orphaned) and seven actions. `ServerLifecycle` defines the mapping
(`Lease == INSTANCE MachineLease WITH ...`): a claim holds the server of its provider ID or of the
launch cache, a lease is on record once the provider ID is persisted, an orphan is a lost
server. `Crash` is `Forget` of all leases that are not on record, `LaunchExpires` of one, a lost
answer is `MakeOrphan`, finalization is `Close` or
`Abandon`. The abstract module has no failing calls, retries, phases or garbage collection:
that they do not show is the point.

### KubeletCSR, InstanceTypes and NodeLaunch

In `ServerLifecycle` the part of `Create` before the server is one worker state, "launch".
`NodeLaunch` opens it. `Begin` picks a name; `Certify` is a step of `KubeletCSR`: `getCABundle`,
`CreateRequest`, `RefetchRequest` (a denial ends the call, an approval by others is
respected), `ApproveRequest` or `ApprovalConflict` (the optimistic lock), `PollSigned`,
`PollAgain`, `PollEnds`. `APIError` is the failure of any of these calls, before or after it took
effect. Meanwhile others approve, deny, sign and remove requests; the ghost `signed` remembers
for which names the signer has signed, which a request that was removed no longer says. A name is
random: which of the unused ones a call gets makes no difference, so `NameServer` takes any
fixed one of them. `Launch`, `Reject` and
`LoseAnswer` are the three outcomes of the request for the server, with its hostname, plan
and disk in `made`, and the NodeClaim that `Create` returns in `returned`.

`InstanceTypes` holds what the process knows. `Start` is `main.run`: the controllers run only
after `Refresh` has filled the maps; nothing refreshes them later. Plans appear in the UpCloud
API while the process runs (`PlanIntroduced`), and `Restart` loses the maps with everything
else in memory. `InstanceType`, `NewNodeClaim` and `buildNodeClaim` are the three places in the
code that turn a plan into labels and capacity: only the first clamps and saturates, and in
the second a label of the NodeClass goes before a computed one, and a label of the claim itself
(`own`) before both (`lo.Assign`, `NodeLabel`). Memory keeps
the width of an integer (`Wrap`); a plan is `Genuine` if its memory is within the bounds that a
comment of the code says genuine plans keep to, and there are others. `ChosenPlan` is the first value of the claim's requirement on
the instance type, whatever its operator, or the NodeClass's plan.

`NodeLaunch` uses the actions of `ServerLifecycle` as they are, without garbage collection,
without the state of nodes, which only garbage collection reads, and without the expiry of the
launch cache, whose effect on a launch, that it is begun anew, is that of a restart.

### NodeClassDrift

State: the NodeClass and the claims in the API (`nc`, `claim`), the process's caches
(`ncCache`, `claimCache`), which follow with any delay, the versions of the NodeClass that the watch
has yet to deliver (`feed`), the controller's work queue
(`queued`, `timer`), its reconciler (`work`) and the `Create` calls under way (`launch`).
Every version of the NodeClass passes through the cache, in order (`SyncClass`), because two reads
of it are compared: the one of `Create` and the one of `IsDrifted`. A claim's cached copy goes
straight to the live one (`SyncClaim`): each of its reads is used by itself.
The ghosts `built` and `changed` say from which spec a claim's server was made and whether
a different one was live after the version of the NodeClass that `Create` read. The model starts when this version is installed over an
older one: `LegacyClaims` may carry no stamp or one of the unversioned algorithm, possibly
with the condition Drifted; `StrandedClaims` were stamped but not launched.

A spec is a zone, a plan, labels and one list, which stands for the optional fields: as far as
drift is concerned the code only hashes them. Labels are their entries; they are there for the
markers that the instance provider adds to its copy of them. The hash of version v2 is the spec with
the list as the set of the elements that occur an odd number of times, which is what `hashstructure`
with `SlicesAsSets` tells apart (it combines elements by exclusive or), and whether there is a list
at all: an empty one is made nil and ignored, one whose elements cancel out is not (`Canon`). The
older hash is the spec itself, whose JSON text depends on the order. Both are free of collisions in the
model. `Reconcile` is one action per call to the API: `handleDeletion`, `AddFinalizer`,
`MarkInvalid` or `MarkReady`, `ListClaims`, `RebaselineClaim` per claim, `ReconcileEnd`.
`Unmodified` is the optimistic lock of the status patches, which carry what was computed from the
cached copy (`PatchStatus`).
`GenerationChangedPredicate` is `EventPasses`: the controller's own status writes wake
nobody.

### NodeClaimTTL

State: claims, the taints of their nodes and pods in the API and in three caches, which
lag independently of each other; the claims with undelivered events (`behind`); the work
queue with its delays; the reconciler. Time is discrete, `TicksPerSecond` ticks to a second,
because `resetTTL` writes RFC3339 with whole seconds. Ages that stop at `TTL` take the place
of a clock, which keeps the state space finite and loses nothing the code looks at.

`Reconcile` is `ReconcileNothing` (claim gone, deleting or without node), `ReconcileEarly`
(requeue for the rest of the TTL), or `ReconcileExpired` followed by `ListPods`, `GetNode`
(with `hasMatchingPendingPod`), then `resetTTL`, or `taintNode` and `DeleteClaim`; each call
may fail (`ReconcileFails`). The ghost `stale` in the reconciler's state says that the claim was
read from the cache while a write to it was still to be reported.
`PodBound` looks at no taints: the scheduler decides by its own copy of the node, of any age, and the
binding itself checks none, so a pod may come to a node that is tainted already.

### PodMatching

A pod is built up step by step: an entry of the nodeSelector, terms of the required node
affinity, expressions in a term, any number of tolerations; the node has any number of taints. The code's loops become sets, because their
result does not depend on the order: of a term only `found` and `failed` matter. The reference
is the scheduler's rule: terms are alternatives, the expressions of a term all have to hold,
an empty term holds never; and a toleration stands for the set of taints that it covers
(`Covered`), one of which each taint of the node that is more than a preference has to be in.

## What is checked

Every run is exhaustive. In the passing runs every action of the modules is taken.

| run | properties | what it shows |
|---|---|---|
| `ServerLifecycle` | `TypeOK`, `NoStrayServer`, `LeaksAreAccountedFor`, `NeverStuck`, `SweepSparesListedServers`, `ImplementsLease` | an existing server whose UUID was not lost belongs to a claim that exists and holds it; at most one server is lost per failed call, and one per claim and crash; `WaitForStop` and Karpenter wait only for what comes; a sweep deletes an active claim only if its server is gone or its details call failed; all of it is an implementation of the abstract lease |
| `NodeLaunch` | `CertifiedServers`, `ClaimDescribesServer`, `BundledStorage`, `DenialIsRespected`, `CreateReturns`, `DeletionCompletes` | no server is made before the certificate for its name was signed, also when requests are removed; no denial is overruled although it may come between reading and approving; claim, server and, for genuine plans, instance type agree but for labels that the NodeClass or the claim sets; a chosen plan gets the disk it bundles also from a process that did not offer it; `Create` returns though nobody ever signs; deletion gets through every state of the server |
| `NodeClassDrift` | `TypeOK`, `DriftIsGenuine` | a claim, of the old version or this one, becomes drifted only after a spec that is different, not just reordered, was live |
| `NodeClassLaunch` | `StampMatchesBuild`, `DriftIsGenuine`, `DriftIsDetected` | a claim launched by this version carries the hash of the spec its server was made from, whatever the controller does meanwhile; drift from it is found; and only drift from it, although a spec may be replaced and come back while the cache is behind |
| `NodeClassStatus` | `NotForgotten`, `StatusIsOfLiveSpec`, `StatusConverges` | work that is left is queued although the event filter drops events; a status is never written for a spec that is no longer live; the status settles on the last spec |
| `NodeClassAdopt` | `AdoptedEventually` | every launched claim of the old version gets a current stamp, unless the NodeClass is invalid or deleted |
| `NodeClaimTTL` | `TypeOK`, `CheckedOnTime`, `ResetIsRespected`, `TaintedBeforeDeletion` | a claim with a node is always queued, being reconciled, about to be reported by the watch, or due less than a second after its TTL; it is not deleted before the deadline of a reset that had reached the cache; and when it is deleted its node has the decommissioning taint, though a stale copy may have said so |
| `NodeClaimTTLLive` | `IdleNodesAreDecommissioned` | no node stays idle for ever |
| `PodMatching` | `FitAgreesWithScheduler`, `NothingKeptInVain` | where the controller decides as the scheduler does, and that elsewhere it errs, with the exceptions named in the property, towards removing a node |

Bounds. Two claims and two servers let a server be lost and replaced, or coexist with the
server of another claim; two faults and a crash allow a failing retry after a lost answer.
One round of garbage collection is enough because rounds share no state. `NodeLaunch` has
one claim, two servers and two names, so that a launch may fail and be repeated under a new
name; one fault and one crash, one repetition of the poll; integers up to 15 with a mebibyte
of 4; a spot plan that bundles its disk and has more memory than fits, and a plan without disk
that has the most that does; a NodeClass that sets the label of the instance type or none, and a
claim that sets that of the capacity type or none. Claims share only the
names, which the proof covers for any number. `PodMatching` has two terms of two expressions,
which is what `found`, `failed` and the second loop can tell apart, any subset of four taints (two of
one key that differ in value and effect, one of another key, one that is a preference) and of five
tolerations (by value, key or effect, with the operator left out, for everything). One NodeClass with
one to three changes covers edit, deletion and re-creation under a reconcile that began
before; the specs include a reordered one and an invalid one. Two changes, in `NodeClassLaunch`, let
a spec come back after another one was live. The liveness runs have one or
two claims because claims interact only through the NodeClass. `NodeClaimTTL` has a TTL of
three half-seconds, the smallest that is neither whole seconds nor less than one; the
liveness run uses the smallest TTL, as its length does not matter there. Faults, edits
and restarts are bounded in the guards of the actions (`MaxFaults`, `MaxFailures`,
`MaxCrashes`, `MaxEdits`, `MaxSweeps`, `MaxTerms`, `MaxExprs`); the proofs hold for all values of
these. `MaxPolls` is no bound of the model but the code's own timeout, 90 seconds at one poll
every two.
`ServerLifecycle` uses symmetry of claims and of servers; no liveness run does.
Deadlock is checked of `NodeClaimTTL` only, which always ticks: the others come to rest when
all claims are gone or settled, or the pod is complete, and the bounds are used up.

Fairness.

* `NodeLaunch`: the process is started again until it runs, the lifecycle worker of a claim
  goes on (Karpenter retries with back-off), and servers finish booting and stopping. Faults
  are bounded, so calls succeed in the end. Approvers and the signer owe nothing: that
  `Create` returns rests on its timeout.
* `NodeClassDrift`: caches catch up, delayed Adds come due, the reconciler goes on, and
  Karpenter evaluates drift of each claim again and again. Users and deletions are not
  assumed to act.
* `NodeClaimTTL`: in addition time passes, and `ReconcileBegin` is strongly fair for each
  claim: the work queue is first in, first out, so a queued claim gets its turn although
  the reconciler is busy with others in between.

### Disagreements with the documentation

Three runs are expected to fail: each states a sentence of the repository's documentation or
comments that the code does not keep.

* `NodeClassUpgrade` (`DriftedClaimsKeepTheirState`). FEATURES.md says that claims already
  drifted when the hash algorithm changes "keep their state and are still recycled".
  `IsDrifted` returns no drift for a hash of another version, Karpenter therefore clears the
  condition, and the next pass re-stamps the claim.
* `NodeClaimTTLTaints` (`TaintNodeOnlyAdds`). `taintNode` "adds" a taint, but its merge patch
  carries the whole list as cached, and removes a taint set in the meantime.
* `PodMatchingTerms` (`UnconstrainedTermFits`). "This term doesn't constrain instance type →
  pod fits", says `podFitsInstanceType`, and goes on with the next term; if that one names
  another plan the pod is taken not to fit, although terms are alternatives.

Observations without a run of their own:

* `rebaselineClaimHashes` says that it skips claims that have not launched; it does so only if
  they have no hash. A stamped but unlaunched claim of the old version is re-stamped,
  possibly over the stamp of `Create` (`StrandedClaims` in `NodeClassDrift`).
* A test says that a TTL reset "is picked up on the next reconcile cycle". The reconcile may
  read a cached claim without it; `ResetIsRespected` has to except that case (`stale`).
* `instance.List` "returns all managed servers" but leaves out those whose details call fails;
  `SweepSparesListedServers` has to except them, and this is the one way in which the claim of
  a running server can be swept. `isManaged` looks at the marker only, not at the cluster.
* A pod that is bound after `ListPods` loses its node: before the taint always, and after it if the
  scheduler has not seen the taint yet. `TaintedBeforeDeletion` says that the taint is there, which is
  what the code does about it; it does not say that no pod comes.
* While the cache is behind, a node may be found drifted from a spec that is live no more: if a
  NodeClass is changed from A to B and back to A, and `Create` reads the first A late, the cache shows
  B next, and `IsDrifted` answers yes although A was live when the server was made and is live again.
  Karpenter clears the condition when the cache has caught up, unless it has replaced the node by
  then. `DriftIsGenuine` therefore counts from the version `Create` read.
* The comment of `isMatchingPending` says "pending with reason Unschedulable"; a pod without the
  condition PodScheduled, which the scheduler has not looked at yet, counts too (`isPending`).
* If the write of the provider ID keeps failing for a minute, Karpenter's launch cache expires and the
  next launch makes a second server (`LaunchExpires`); the first is lost.
* If the deletion fails after the taint, and pods are found on the node when it is retried, the
  TTL is reset but the taint stays: the node is kept and gets no new pods.
* FEATURES.md and a comment call the instance types "refreshed periodically"; `Refresh` has
  one caller, at start-up. Prices that cannot be read then are missing until the next start.
* `Create` takes the first value of the requirement on the instance type whatever its operator
  is; the capacity it returns has no GPUs while the instance type's has; labels of the
  NodeClass or of the claim may replace those that say which plan the node is
  (`ClaimDescribesServer` has to except them); and for a plan outside the bounds the code states, the
  memory that Karpenter schedules with is not that of the claim.
* `podFitsInstanceType` does not evaluate `NotIn` and `DoesNotExist` and takes an empty term for
  one without constraint (`NothingKeptInVain` has to except them).
* Zone, SSH keys, kubelet arguments and utility network access are hashed, hence cause drift,
  but `Create` does not use them.

## What is proved

For every value of the constants, from the assumptions named in the modules: types of the
constants, that the null values differ from everything else, and that there are finitely many
claims at a time (`ClaimsAssumption`, for the count of lost servers). The bounds on faults, crashes, edits and
sweeps may be any numbers. Every safety property that a passing run checks is also a theorem.

`ServerLifecycle_proofs`: `TypeCorrect`, `NoStrayServerHolds`, `SweepIsSafe`, `LeaksAreAccountedForHolds`,
`NeverStuckHolds`.
`NoStrayServer` is not inductive: whether a step of `Delete` may release a claim depends on
where its worker is. `WorkerInv` says that: `Create` runs only for a claim that holds
nothing, `Delete` only for one with a provider ID, and once Delete has succeeded the server
is gone for good. `LeaseInv == TypeOK /\ WorkerInv /\ NoStrayServer` is inductive.
`SweepInv` adds what a round relies on: every server carries the marker whatever labels
the NodeClass has, and the server of a claim in the round is still to be asked for, or
was listed or skipped, or is gone; claims are read before servers, which is why a server
made later cannot be missed.
`LeaksAreAccountedFor` is not inductive either: when the write of a provider ID fails nothing is
lost yet, the server is in the launch cache, but a deletion of the claim or the expiry of the
cache may lose it later, at no further cost. `LeakInv` counts these claims (`Unsaved`) with the lost servers: a failed
write pays for its claim in advance, and a crash turns what the cache holds, at most one server
for each claim, into losses. The proof is by cases on which of the two sets grows, with the
library's facts on cardinality.
`NeverStuck` needs beside `LeaseInv` only that no step brings a server back up (`StaysDown`).

`LeaseRefinement_proofs`: `LeaseIsImplemented`. From `LeaseInv`, every step of `ServerLifecycle` maps to
one step of `MachineLease` or leaves its variables alone. `MachineLease_proofs`: `LeaseMeansLeased`
shows of the abstract module, by itself, that a machine which exists and is no orphan is
held by an open claim and by no other. Its only assumption is that the null value is no
machine. `LeasedInv`, its inductive form, adds that what is held was made and is not lost, and
that a closed claim holds nothing that exists. So the abstraction says what it is meant to say, and
an implementation of it cannot be correct in name only.

`NodeLaunch_proofs`: `LaunchImplementsLifecycle` shows that `LaunchSpec` implies the specification
of `ServerLifecycle`; `LaunchLeavesNoStray`, `LaunchLeaksAreAccountedFor` and `LaunchImplementsLease` are what
follows for `Create` in full. `CertInv`, for `ServersAreCertified` and
`DenialsAreRespected`, says that a name belongs to one call of `Create`, that a copy about to be
approved was pending, and that whoever holds a certificate, or has become a server, is among the
names that were ever signed for.
`PlanInv`, for `ClaimsDescribeServers` and `StorageIsBundled`, says that the requirement of a claim
names only plans that are offered and, while the process runs, known: a plan that one process
offered is in the maps of the next, because plans are not withdrawn and `Start` reads them
before anything else; and that what `Create` returned was computed from that plan, the labels of the
NodeClass the server was made from and the claim's own. That `Create` and `buildNodeClaim` agree on
memory is proved for all plans, that the instance type agrees with them for genuine ones.
`MemorySaturates`: for any width of integers and any amount, negative ones too, the guard of the instance types
provider catches exactly the products that would wrap around.

`PodMatching_proofs`: `FitAgrees` and `NothingIsKeptInVain`, for any number of terms, expressions,
taints and tolerations, of any keys and values the API server admits; with the lemma that going
through the tolerations for each taint, as the code does, is to ask whether the sets of taints that
the tolerations cover leave one out, as the scheduler's rule has it.

`NodeClassDrift_proofs`: `TypeCorrect`, `StampMatchesBuildHolds`, `DriftIsGenuineHolds`, `NotForgottenHolds`,
`StatusIsOfLiveSpecHolds`, `HashIgnoresOrder`, `HashDropsPairs`.
`StampInv` shows why `Create` and the re-baselining loop do not meet for claims of this
version: such a claim is stamped with version v2 before it has a provider ID, in the API
and in every cached copy, so the loop never picks it. `OriginInv` follows a claim from
its origin: as long as only equivalent specs were live, each copy of the NodeClass that it
may be compared with or re-stamped from (API, cache, the versions on their way to it, reconciler)
is equivalent, and so is its stamp. `FeedInv`, that the last version on its way is the live one,
is part of it. `DriftIsGenuine` is an action property and follows from the two.
`WatchInv`, for `NotForgotten`, is about copies: the reconciler may work on one that is out of date
only if the NodeClass is queued again or an event that passes the filter is under way, and a
copy of the live generation agrees with it on the deletion, so that `handleDeletion` returning
for good does so for a NodeClass that is really let go (`Copy`). `StatusIsOfLiveSpec` is an action
property and follows from types and the optimistic lock.
The hash theorems are about lists of any length: a permutation of a list leaves the hash as it is
(`HashIgnoresOrder`, by a bijection between the places of each element), and an element appended
twice does so exactly if the list was not empty (`HashDropsPairs`), which is the blind spot of
`SlicesAsSets`, and its limit.

`NodeClaimTTL_proofs`: `TypeCorrect`, `CheckedOnTimeHolds`, `ResetIsRespectedHolds`, `TaintedBeforeDeletionHolds`.
`CheckedOnTime` speaks of the
claim in the API, the code of the one in the cache; `CacheInv` says that they agree unless
an event is still to be delivered. `TimeInv == TypeOK /\ CacheInv /\ CheckedOnTime` is
inductive, for any TTL and any resolution of the clock. `DeadlineInv` adds what the deletion
rests on: a claim is never younger than its reset, and what the reconciler read of a claim
with nothing to report stays true until it acts, because nobody but itself resets the TTL.
`TaintInv`, for `TaintedBeforeDeletion`, says that a decommissioning taint seen in a cached node, or in the
reconciler's copy, is on the node itself or the claim is gone: the taint, once set, stays, also
through the stale lists that `taintNode` writes back, because every such list contains it. That
nobody else removes this taint is assumed; no code here does.

Only model-checked, because fairness and ENABLED are out of the prover's reach: the liveness
properties `DeletionCompletes`, `CreateReturns`, `DriftIsDetected`, `AdoptedEventually`, `StatusConverges` and
`IdleNodesAreDecommissioned`. What they need of safety is proved where it says something by itself:
that nothing is waited for in vain (`NeverStuck`), that no NodeClass with work left drops out of the
queue (`NotForgotten`), and that no claim misses its expiry (`CheckedOnTime`).

## What is not modelled

* Rendering of user data: text without state. The repository's fuzz test parses its output;
  its failure is one of the causes of `Abort`.
* Prices, and the labels and overheads of instance types beside plan, capacity type and memory:
  only Karpenter's choice among plans depends on them.
* Keys, encodings and the content of certificates and of the CA bundle.
* Parsing of options, environment and kubeconfig; events; registration and generated code.
* Plans that are withdrawn: GetPlans lists what can be ordered, and a server of a plan that
  cannot is rejected, which `Reject` is.
* Two clusters in one account: which account a cluster uses is not in the code.
* More than one replica of the process: leader election is Karpenter's.

## Plan

1. Done: `ServerLifecycle`, `NodeClassDrift`, `NodeClaimTTL` with their proofs; `MachineLease` and the
   refinement; `KubeletCSR`, `InstanceTypes` and their composition `NodeLaunch`; `PodMatching`.
2. Done: the proofs of `NotForgotten`, `StatusIsOfLiveSpec`, `LeaksAreAccountedFor`, of the two properties
   added with them (`NeverStuck`, `TaintedBeforeDeletion`), of what the abstract lease means, and of the
   hash and the conversion of memory for all inputs.
3. Safety cores of the other liveness properties: that an adopted stamp is never lost again, and
   that the budget of polls of a call of `Create` only shrinks.
4. Lists with repeated elements in the instances of `NodeClassDrift`, once it is settled whether
   they should count as different specs.
