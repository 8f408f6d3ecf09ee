--------------------------- MODULE ServerLifecycle ---------------------------
(***************************************************************************)
(* The life of an UpCloud server under a Karpenter NodeClaim: what         *)
(* cloudprovider.Create, Delete, Get and List, and the instance provider   *)
(* under them, do to the servers of the account, interleaved with          *)
(* Karpenter core (which drives them and persists their results), with the *)
(* UpCloud API (which may fail, and whose answers may be lost) and with    *)
(* crashes of the controller process.                                      *)
(*                                                                         *)
(* Everything the process keeps in memory (pc, mem, gc) is lost by Crash;  *)
(* everything else is kept by the Kubernetes or by the UpCloud API.        *)
(***************************************************************************)
EXTENDS Integers, FiniteSets

CONSTANTS
    Claims,        \* NodeClaims
    Servers,       \* the UUIDs the UpCloud API may give to servers
    Nil,           \* "no server", "no provider ID", "no owner"
    UserLabels,    \* the values NodeClass.spec.labels may have
    MaxFaults,     \* bound: failed calls and lost answers
    MaxCrashes,    \* bound: restarts of the controller process
    MaxSweeps      \* bound: rounds of Karpenter's NodeClaim garbage collection

ManagedKey == "managed_by"                    \* ServerManagedLabelKey
ManagedValue == "karpenter"                   \* ServerManagedLabelValue
TypeKey == "node.kubernetes.io/instance-type"        \* LabelInstanceTypeStable
CapacityTypeKey == "karpenter.sh/capacity-type"
LabelKeys == {ManagedKey, TypeKey, CapacityTypeKey}  \* the keys Create writes itself
LabelValues == {ManagedValue, "other"}
LabelMaps == UNION {[D -> LabelValues] : D \in SUBSET LabelKeys}
NoLabels == [k \in {} |-> ManagedValue]

ASSUME ClaimsAssumption == IsFiniteSet(Claims)
ASSUME LabelsAssumption == UserLabels \subseteq LabelMaps
ASSUME BoundsAssumption == /\ MaxFaults \in Nat
                           /\ MaxCrashes \in Nat
                           /\ MaxSweeps \in Nat

VARIABLES
    phase,         \* claim -> "active" | "deleting" (deletionTimestamp set) | "gone"
    pid,           \* claim -> status.providerID, or Nil while it is empty
    terminating,   \* claim -> its InstanceTerminating condition
    node,          \* claim -> its Node: "none" (not registered) | "ready" | "notready"
    pc,            \* claim -> the step its lifecycle worker is at
    mem,           \* claim -> the server in Karpenter's in-memory launch cache
    server,        \* server -> its state in the UpCloud API
    labels,        \* server -> its labels in the UpCloud API
    gc,            \* the garbage collector's round (the one caller of List)
    faults, crashes, sweeps,                  \* how much of each bound is used
    owner,         \* ghost: server -> the claim Create was called for
    lost           \* ghost: servers whose UUID no part of the system ever kept

claimVars == <<phase, pid, terminating, node>>
cloudVars == <<server, labels, owner>>
boundVars == <<faults, crashes, sweeps>>
vars == <<phase, pid, terminating, node, pc, mem, server, labels, gc,
          faults, crashes, sweeps, owner, lost>>

LiveStates == {"maintenance", "started", "stopping", "stopped"}
WorkerSteps == {"idle", "launch", "persist", "stop", "wait", "delete", "mark"}
ProviderIDs == [prefix : {"upcloud:////"}, uuid : Servers]

ASSUME NilAssumption == Nil \notin Servers \cup Claims \cup ProviderIDs

(* Mutant of ProviderID: one slash less than the cloud controller manager. *)
ProviderIDShort(s) == [prefix |-> "upcloud:///", uuid |-> s]

(* ProviderIDPrefix + server.UUID, as Create and buildNodeClaim write it. *)
ProviderID(s) == [prefix |-> "upcloud:////", uuid |-> s]

(* strings.TrimPrefix(providerID, ProviderIDPrefix), as Delete and Get read it. *)
ServerUUID(id) == id.uuid

(* The UpCloud API knows the server by this UUID. *)
Exists(u) == u \in Servers /\ server[u] \in LiveStates

GCIdle == [pc |-> "idle", claims |-> {}, todo |-> {}, listed |-> {}, skipped |-> {}]

-----------------------------------------------------------------------------
(* Faults and answers                                                       *)

Fault == faults < MaxFaults /\ faults' = faults + 1

NoFault == UNCHANGED faults

Goto(c, step) == pc' = [pc EXCEPT ![c] = step]

(* The server's state changes; nothing else in the account does. *)
SetServer(s, state) == server' = [server EXCEPT ![s] = state]

(* Karpenter deletes the NodeClaim: its finalizer keeps it until Release. *)
MarkDeleting(c) ==
    phase' = [phase EXCEPT ![c] = IF @ = "active" THEN "deleting" ELSE @]

(* Karpenter removes the NodeClaim's finalizer: the object is gone. *)
Release(c) ==
    /\ phase' = [phase EXCEPT ![c] = "gone"]
    /\ Goto(c, "idle")

-----------------------------------------------------------------------------
(* Create                                                                   *)

(* Karpenter's launch: a NodeClaim without provider ID that is not being    *)
(* deleted and not in the launch cache is passed to cloudprovider.Create.   *)
CreateBegin(c) ==
    /\ pc[c] = "idle" /\ phase[c] = "active" /\ pid[c] = Nil /\ mem[c] = Nil
    /\ Goto(c, "launch")
    /\ UNCHANGED <<claimVars, cloudVars, boundVars, mem, gc, lost>>

(* Create returns before it calls the UpCloud API: the NodeClass, the CA    *)
(* bundle, the kubelet certificate or the user data failed. Such an error   *)
(* is returned as it is and Karpenter tries again.                          *)
CreateAbort(c) ==
    /\ pc[c] = "launch"
    /\ Goto(c, "idle")
    /\ UNCHANGED <<claimVars, cloudVars, boundVars, mem, gc, lost>>

(* Mutant of ServerLabels: the labels of the NodeClass are written last. *)
ServerLabelsUserLast(user) ==
    [k \in DOMAIN user \cup {ManagedKey} |-> IF k \in DOMAIN user THEN user[k] ELSE ManagedValue]

(* The labels the server is created with: the markers of the instance       *)
(* provider are written over a copy of NodeClass.spec.labels.               *)
ServerLabels(user) ==
    [k \in DOMAIN user \cup {ManagedKey} |-> IF k = ManagedKey THEN ManagedValue ELSE user[k]]

(* The UpCloud API makes a new server for claim c. *)
NewServer(c, s, user) ==
    /\ server[s] = "none"
    /\ SetServer(s, "maintenance")
    /\ labels' = [labels EXCEPT ![s] = ServerLabels(user)]
    /\ owner' = [owner EXCEPT ![s] = c]

(* Mutant of CreateServer: Create returns an error after the server is made *)
(* (say, of waiting for it to start).                                       *)
CreateServerThenError(c, s, user) ==
    /\ pc[c] = "launch"
    /\ NewServer(c, s, user)
    /\ lost' = lost \cup {s}
    /\ MarkDeleting(c)
    /\ Goto(c, "idle")
    /\ UNCHANGED <<pid, terminating, node, mem, boundVars, gc>>

(* instanceProvider.Create succeeded: Create returns the provider ID to     *)
(* Karpenter, which keeps it in the launch cache until it is persisted.     *)
CreateServer(c, s, user) ==
    /\ pc[c] = "launch"
    /\ NewServer(c, s, user)
    /\ mem' = [mem EXCEPT ![c] = s]
    /\ Goto(c, "persist")
    /\ UNCHANGED <<claimVars, boundVars, gc, lost>>

(* instanceProvider.Create returned an error. Create turns every error into *)
(* an InsufficientCapacityError, upon which Karpenter deletes the NodeClaim.*)
CreateRejected(c) ==
    /\ pc[c] = "launch"
    /\ Fault
    /\ MarkDeleting(c)
    /\ Goto(c, "idle")
    /\ UNCHANGED <<pid, terminating, node, mem, cloudVars, crashes, sweeps, gc, lost>>

(* The same, but the request had been carried out: only the answer is lost. *)
CreateAnswerLost(c, s, user) ==
    /\ pc[c] = "launch"
    /\ Fault
    /\ NewServer(c, s, user)
    /\ lost' = lost \cup {s}
    /\ MarkDeleting(c)
    /\ Goto(c, "idle")
    /\ UNCHANGED <<pid, terminating, node, mem, crashes, sweeps, gc>>

(* Karpenter persists the NodeClaim that Create returned. *)
PersistLaunch(c) ==
    /\ pc[c] = "persist"
    /\ pid' = [pid EXCEPT ![c] = ProviderID(mem[c])]
    /\ mem' = [mem EXCEPT ![c] = Nil]
    /\ Goto(c, "idle")
    /\ UNCHANGED <<phase, terminating, node, cloudVars, boundVars, gc, lost>>

(* The write fails: the launch cache answers the next launch. *)
PersistFailed(c) ==
    /\ pc[c] = "persist"
    /\ Fault
    /\ Goto(c, "idle")
    /\ UNCHANGED <<claimVars, mem, cloudVars, crashes, sweeps, gc, lost>>

LaunchFromCache(c) ==
    /\ pc[c] = "idle" /\ phase[c] = "active" /\ pid[c] = Nil /\ mem[c] # Nil
    /\ Goto(c, "persist")
    /\ UNCHANGED <<claimVars, mem, cloudVars, boundVars, gc, lost>>

(* The entry of the launch cache expires, after a minute, before the write  *)
(* has succeeded: the next launch is going to make another server.          *)
LaunchExpires(c) ==
    /\ pc[c] = "idle" /\ mem[c] # Nil
    /\ mem' = [mem EXCEPT ![c] = Nil]
    /\ lost' = lost \cup {mem[c]}
    /\ UNCHANGED <<claimVars, pc, cloudVars, boundVars, gc>>

-----------------------------------------------------------------------------
(* Delete                                                                   *)

(* The user, disruption, expiration or the TTL controller deletes a claim. *)
DeleteClaim(c) ==
    /\ phase[c] = "active"
    /\ MarkDeleting(c)
    /\ UNCHANGED <<pid, terminating, node, pc, mem, cloudVars, boundVars, gc, lost>>

(* Finalization of a claim without provider ID: there is nothing to delete, *)
(* and what the launch cache still holds is never looked at again.          *)
FinalizeUnlaunched(c) ==
    /\ pc[c] = "idle" /\ phase[c] = "deleting" /\ pid[c] = Nil
    /\ Release(c)
    /\ mem' = [mem EXCEPT ![c] = Nil]
    /\ lost' = lost \cup ({mem[c]} \ {Nil})
    /\ UNCHANGED <<pid, terminating, node, cloudVars, boundVars, gc>>

(* Finalization calls cloudprovider.Delete until it has once succeeded. *)
DeleteBegin(c) ==
    /\ pc[c] = "idle" /\ phase[c] = "deleting" /\ pid[c] # Nil /\ ~terminating[c]
    /\ Goto(c, "stop")
    /\ UNCHANGED <<claimVars, mem, cloudVars, boundVars, gc, lost>>

(* Mutant of NotFound: Delete, like Get, makes NodeClaimNotFound of any     *)
(* error.                                                                   *)
AnyErrorIsNotFound(c) ==
    /\ Release(c)
    /\ UNCHANGED <<pid, terminating, node, mem, cloudVars, boundVars, gc, lost>>

(* Stop or Delete answered SERVER_NOT_FOUND: Delete returns                 *)
(* NodeClaimNotFound and Karpenter lets go of the claim.                    *)
NotFound(c) ==
    /\ ~Exists(ServerUUID(pid[c]))
    /\ Release(c)
    /\ UNCHANGED <<pid, terminating, node, mem, cloudVars, boundVars, gc, lost>>

StopNotFound(c) == pc[c] = "stop" /\ NotFound(c)

(* The hard stop is accepted: Delete goes on to wait for it. *)
StopServer(c) ==
    /\ pc[c] = "stop"
    /\ LET u == ServerUUID(pid[c])
       IN  Exists(u) /\ server[u] = "started" /\ SetServer(u, "stopping")
    /\ Goto(c, "wait")
    /\ UNCHANGED <<claimVars, mem, labels, owner, boundVars, gc, lost>>

(* Mutants of StopIllegal: the error is taken for "gone", for "stopping",   *)
(* and returned like any other.                                             *)
StopIllegalIsNotFound(c) ==
    /\ pc[c] = "stop"
    /\ Exists(ServerUUID(pid[c])) /\ server[ServerUUID(pid[c])] # "started"
    /\ Release(c)
    /\ UNCHANGED <<pid, terminating, node, mem, cloudVars, boundVars, gc, lost>>
StopIllegalIsStopping(c) ==
    /\ pc[c] = "stop"
    /\ Exists(ServerUUID(pid[c])) /\ server[ServerUUID(pid[c])] # "started"
    /\ Goto(c, "wait")
    /\ UNCHANGED <<claimVars, mem, cloudVars, boundVars, gc, lost>>
StopIllegalReturned(c) ==
    /\ pc[c] = "stop"
    /\ Exists(ServerUUID(pid[c])) /\ server[ServerUUID(pid[c])] # "started"
    /\ Goto(c, "idle")
    /\ UNCHANGED <<claimVars, mem, cloudVars, boundVars, gc, lost>>

(* SERVER_STATE_ILLEGAL, taken for "already stopped": on to the deletion.   *)
(* The API says so of every server that is not started.                     *)
StopIllegal(c) ==
    /\ pc[c] = "stop"
    /\ Exists(ServerUUID(pid[c])) /\ server[ServerUUID(pid[c])] # "started"
    /\ Goto(c, "delete")
    /\ UNCHANGED <<claimVars, mem, cloudVars, boundVars, gc, lost>>

(* Any other error of Stop is returned, whether or not the stop was begun. *)
StopFailed(c) ==
    /\ pc[c] = "stop"
    /\ Fault
    /\ LET u == ServerUUID(pid[c])
       IN  \/ UNCHANGED server
           \/ Exists(u) /\ server[u] = "started" /\ SetServer(u, "stopping")
    /\ Goto(c, "idle")
    /\ UNCHANGED <<claimVars, mem, labels, owner, crashes, sweeps, gc, lost>>

(* WaitForStop polls until the server is stopped ... *)
WaitForStop(c) ==
    /\ pc[c] = "wait"
    /\ Exists(ServerUUID(pid[c])) /\ server[ServerUUID(pid[c])] = "stopped"
    /\ Goto(c, "delete")
    /\ UNCHANGED <<claimVars, mem, cloudVars, boundVars, gc, lost>>

(* ... and returns any error of a poll, SERVER_NOT_FOUND included. *)
WaitFailed(c) ==
    /\ pc[c] = "wait"
    /\ IF Exists(ServerUUID(pid[c])) THEN Fault ELSE NoFault
    /\ Goto(c, "idle")
    /\ UNCHANGED <<claimVars, mem, cloudVars, crashes, sweeps, gc, lost>>

DeleteNotFound(c) == pc[c] = "delete" /\ NotFound(c)

(* DeleteServerAndStorages removes a stopped server; Delete returns nil. *)
DeleteServer(c) ==
    /\ pc[c] = "delete"
    /\ LET u == ServerUUID(pid[c])
       IN  Exists(u) /\ server[u] = "stopped" /\ SetServer(u, "deleted")
    /\ Goto(c, "mark")
    /\ UNCHANGED <<claimVars, mem, labels, owner, boundVars, gc, lost>>

(* The API refuses to delete a server that is not stopped (no fault), or    *)
(* the call fails, before or after it took effect: Delete returns the error *)
(* and Karpenter calls Delete again.                                        *)
DeleteFailed(c) ==
    /\ pc[c] = "delete"
    /\ LET u == ServerUUID(pid[c])
       IN  \/ Exists(u) /\ server[u] # "stopped" /\ NoFault /\ UNCHANGED server
           \/ Fault /\ UNCHANGED server
           \/ Fault /\ Exists(u) /\ server[u] = "stopped" /\ SetServer(u, "deleted")
    /\ Goto(c, "idle")
    /\ UNCHANGED <<claimVars, mem, labels, owner, crashes, sweeps, gc, lost>>

(* Karpenter records that Delete succeeded. *)
MarkTerminating(c) ==
    /\ pc[c] = "mark"
    /\ terminating' = [terminating EXCEPT ![c] = TRUE]
    /\ Goto(c, "idle")
    /\ UNCHANGED <<phase, pid, node, mem, cloudVars, boundVars, gc, lost>>

(* Once terminating, Karpenter calls cloudprovider.Get until it returns     *)
(* NodeClaimNotFound, which Get makes of every error.                       *)
GetReturnsNotFound(c) ==
    /\ pc[c] = "idle" /\ phase[c] = "deleting" /\ pid[c] # Nil /\ terminating[c]
    /\ IF Exists(ServerUUID(pid[c])) THEN Fault ELSE NoFault
    /\ Release(c)
    /\ UNCHANGED <<pid, terminating, node, mem, cloudVars, crashes, sweeps, gc, lost>>

-----------------------------------------------------------------------------
(* The servers, their nodes                                                 *)

(* The server has finished cloning its storage and starts. *)
Boot(s) ==
    /\ server[s] = "maintenance" /\ SetServer(s, "started")
    /\ UNCHANGED <<claimVars, pc, mem, labels, owner, gc, boundVars, lost>>

PowerOff(s) ==
    /\ server[s] = "stopping" /\ SetServer(s, "stopped")
    /\ UNCHANGED <<claimVars, pc, mem, labels, owner, gc, boundVars, lost>>

(* A spot server is reclaimed, or the account's owner deletes the server. *)
Vanish(s) ==
    /\ server[s] \in LiveStates /\ SetServer(s, "deleted")
    /\ UNCHANGED <<claimVars, pc, mem, labels, owner, gc, boundVars, lost>>

(* The account's owner powers the server off. *)
Halt(s) ==
    /\ server[s] = "started" /\ SetServer(s, "stopping")
    /\ UNCHANGED <<claimVars, pc, mem, labels, owner, gc, boundVars, lost>>

(* The kubelet joins the cluster: Karpenter registers the claim. *)
Register(c) ==
    /\ phase[c] = "active" /\ pid[c] # Nil /\ node[c] # "ready"
    /\ Exists(ServerUUID(pid[c])) /\ server[ServerUUID(pid[c])] = "started"
    /\ node' = [node EXCEPT ![c] = "ready"]
    /\ UNCHANGED <<phase, pid, terminating, pc, mem, cloudVars, boundVars, gc, lost>>

(* The kubelet's heartbeat is missing, whatever the server does. *)
HeartbeatLost(c) ==
    /\ node[c] = "ready"
    /\ node' = [node EXCEPT ![c] = "notready"]
    /\ UNCHANGED <<phase, pid, terminating, pc, mem, cloudVars, boundVars, gc, lost>>

-----------------------------------------------------------------------------
(* List, as Karpenter's NodeClaim garbage collection calls it               *)

(* A round starts from the registered claims that are not being deleted. *)
SweepBegin ==
    /\ gc.pc = "idle" /\ sweeps < MaxSweeps
    /\ sweeps' = sweeps + 1
    /\ gc' = [gc EXCEPT !.pc = "list",
                        !.claims = {c \in Claims : phase[c] = "active" /\ node[c] # "none"}]
    /\ UNCHANGED <<claimVars, pc, mem, cloudVars, faults, crashes, lost>>

(* GetServers returns every server of the account. *)
ListServers ==
    /\ gc.pc = "list"
    /\ gc' = [gc EXCEPT !.pc = "details", !.todo = {s \in Servers : Exists(s)}]
    /\ UNCHANGED <<claimVars, pc, mem, cloudVars, boundVars, lost>>

(* GetServers failed: List returns the error and the round ends. *)
ListFailed ==
    /\ gc.pc = "list"
    /\ Fault
    /\ gc' = GCIdle
    /\ UNCHANGED <<claimVars, pc, mem, cloudVars, crashes, sweeps, lost>>

isManaged(s) ==
    ManagedKey \in DOMAIN labels[s] /\ labels[s][ManagedKey] = ManagedValue

(* GetServerDetails of one listed server, kept if it carries the marker. *)
ServerDetails(s) ==
    /\ gc.pc = "details" /\ s \in gc.todo
    /\ Exists(s)
    /\ gc' = [gc EXCEPT !.todo = @ \ {s},
                        !.listed = IF isManaged(s) THEN @ \cup {ProviderID(s)} ELSE @]
    /\ UNCHANGED <<claimVars, pc, mem, cloudVars, boundVars, lost>>

(* GetServerDetails failed, because the server is gone by now or for any    *)
(* other reason: the loop continues without the server.                     *)
DetailsFailed(s) ==
    /\ gc.pc = "details" /\ s \in gc.todo
    /\ IF Exists(s) THEN Fault ELSE NoFault
    /\ gc' = [gc EXCEPT !.todo = @ \ {s}, !.skipped = @ \cup {s}]
    /\ UNCHANGED <<claimVars, pc, mem, cloudVars, crashes, sweeps, lost>>

ListReturns ==
    /\ gc.pc = "details" /\ gc.todo = {}
    /\ gc' = [gc EXCEPT !.pc = "sweep"]
    /\ UNCHANGED <<claimVars, pc, mem, cloudVars, boundVars, lost>>

(* A claim whose provider ID List did not return is deleted, unless its     *)
(* node is ready.                                                           *)
SweepClaim(c) ==
    /\ gc.pc = "sweep" /\ c \in gc.claims
    /\ gc' = [gc EXCEPT !.claims = @ \ {c}]
    /\ IF pid[c] \notin gc.listed /\ node[c] # "ready"
       THEN MarkDeleting(c)
       ELSE UNCHANGED phase
    /\ UNCHANGED <<pid, terminating, node, pc, mem, cloudVars, boundVars, lost>>

SweepEnd ==
    /\ gc.pc = "sweep" /\ gc.claims = {}
    /\ gc' = GCIdle
    /\ UNCHANGED <<claimVars, pc, mem, cloudVars, boundVars, lost>>

-----------------------------------------------------------------------------
(* The controller process dies and is started again. *)
Crash ==
    /\ crashes < MaxCrashes /\ crashes' = crashes + 1
    /\ pc' = [c \in Claims |-> "idle"]
    /\ mem' = [c \in Claims |-> Nil]
    /\ gc' = GCIdle
    /\ lost' = lost \cup ({mem[c] : c \in Claims} \ {Nil})
    /\ UNCHANGED <<claimVars, cloudVars, faults, sweeps>>

Init ==
    /\ phase = [c \in Claims |-> "active"]
    /\ pid = [c \in Claims |-> Nil]
    /\ terminating = [c \in Claims |-> FALSE]
    /\ node = [c \in Claims |-> "none"]
    /\ pc = [c \in Claims |-> "idle"]
    /\ mem = [c \in Claims |-> Nil]
    /\ server = [s \in Servers |-> "none"]
    /\ labels = [s \in Servers |-> NoLabels]
    /\ owner = [s \in Servers |-> Nil]
    /\ lost = {}
    /\ gc = GCIdle
    /\ faults = 0 /\ crashes = 0 /\ sweeps = 0

(* The steps the system itself takes for one claim: Create ... *)
LaunchStep(c) ==
    \/ CreateBegin(c)
    \/ CreateAbort(c)
    \/ CreateRejected(c)
    \/ PersistLaunch(c)
    \/ PersistFailed(c)
    \/ LaunchFromCache(c)
    \/ \E s \in Servers, user \in UserLabels :
          \/ CreateServer(c, s, user)
          \/ CreateAnswerLost(c, s, user)

(* ... and finalization, in which Delete and Get are called. *)
FinalizeStep(c) ==
    \/ FinalizeUnlaunched(c)
    \/ DeleteBegin(c)
    \/ StopNotFound(c)
    \/ StopServer(c)
    \/ StopIllegal(c)
    \/ StopFailed(c)
    \/ WaitForStop(c)
    \/ WaitFailed(c)
    \/ DeleteNotFound(c)
    \/ DeleteServer(c)
    \/ DeleteFailed(c)
    \/ MarkTerminating(c)
    \/ GetReturnsNotFound(c)

SweepStep ==
    \/ SweepBegin
    \/ ListServers
    \/ ListFailed
    \/ \E s \in Servers : ServerDetails(s) \/ DetailsFailed(s)
    \/ ListReturns
    \/ \E c \in Claims : SweepClaim(c)
    \/ SweepEnd

CloudStep(s) == Boot(s) \/ PowerOff(s) \/ Vanish(s) \/ Halt(s)

ClusterStep(c) == DeleteClaim(c) \/ LaunchExpires(c) \/ Register(c) \/ HeartbeatLost(c)

Next ==
    \/ \E c \in Claims : LaunchStep(c) \/ FinalizeStep(c) \/ ClusterStep(c)
    \/ \E s \in Servers : CloudStep(s)
    \/ SweepStep
    \/ Crash

Spec == Init /\ [][Next]_vars

(* What the code justifies: Karpenter requeues a claim until it is launched *)
(* or gone, and the UpCloud API finishes starting and stopping a server.    *)
Fairness ==
    /\ \A c \in Claims : WF_vars(LaunchStep(c)) /\ WF_vars(FinalizeStep(c))
    /\ \A s \in Servers : WF_vars(Boot(s)) /\ WF_vars(PowerOff(s))

FairSpec == Spec /\ Fairness

-----------------------------------------------------------------------------
(* Properties                                                               *)

(* Every variable keeps its type; a provider ID always carries the prefix   *)
(* upcloud://// that the cloud controller manager writes on the Node.       *)
TypeOK ==
    /\ phase \in [Claims -> {"active", "deleting", "gone"}]
    /\ pid \in [Claims -> ProviderIDs \cup {Nil}]
    /\ terminating \in [Claims -> BOOLEAN]
    /\ node \in [Claims -> {"none", "ready", "notready"}]
    /\ pc \in [Claims -> WorkerSteps]
    /\ mem \in [Claims -> Servers \cup {Nil}]
    /\ server \in [Servers -> LiveStates \cup {"none", "deleted"}]
    /\ labels \in [Servers -> LabelMaps]
    /\ owner \in [Servers -> Claims \cup {Nil}]
    /\ lost \subseteq Servers
    /\ gc \in [pc : {"idle", "list", "details", "sweep"}, claims : SUBSET Claims,
               todo : SUBSET Servers, listed : SUBSET ProviderIDs,
               skipped : SUBSET Servers]
    /\ faults \in 0..MaxFaults /\ crashes \in 0..MaxCrashes /\ sweeps \in 0..MaxSweeps

(* The server that claim c answers for: the one its provider ID names or,   *)
(* before that is persisted, the one in the launch cache.                   *)
Held(c) == IF pid[c] = Nil THEN mem[c] ELSE ServerUUID(pid[c])

(* No server is left running without a NodeClaim: a server that exists is   *)
(* held by the claim Create made it for, and Karpenter never lets go of     *)
(* that claim before Delete has destroyed the server. The exceptions are    *)
(* the servers whose UUID was lost before it was persisted. Since a claim   *)
(* holds one server, Create also never runs a second server for a claim     *)
(* beside the first.                                                        *)
NoStrayServer ==
    \A s \in Servers : server[s] \in LiveStates /\ s \notin lost =>
        /\ owner[s] \in Claims
        /\ phase[owner[s]] # "gone"
        /\ Held(owner[s]) = s

(* What of this specification MachineLease speaks about. *)
Lease == INSTANCE MachineLease WITH
    Machines <- Servers,
    open <- {c \in Claims : phase[c] # "gone"},
    held <- [c \in Claims |-> Held(c)],
    recorded <- {c \in Claims : pid[c] # Nil},
    used <- {s \in Servers : server[s] # "none"},
    exists <- {s \in Servers : server[s] \in LiveStates},
    orphans <- lost

(* Create, Delete, Get and List under Karpenter implement the abstract      *)
(* lease: whatever calls fail and wherever the process stops, a claim never *)
(* takes a second machine while it holds one, a recorded provider ID is     *)
(* neither dropped nor replaced, and finalization lets go of such a claim   *)
(* only once its server is gone.                                            *)
ImplementsLease == Lease!Spec

(* A UUID is lost only to a failed call (the answer of CreateServer, or a   *)
(* write of the NodeClaim that a deletion or the expiry of the launch cache *)
(* then overtakes) or to a crash, and a crash costs at most one server for  *)
(* each claim: repeated launches, deletions and retries of Delete leak      *)
(* nothing by themselves.                                                   *)
LeaksAreAccountedFor ==
    Cardinality(lost) <= faults + crashes * Cardinality(Claims)

(* Garbage collection deletes an active claim only when its server is gone  *)
(* or when List left the server out because its details call failed: a      *)
(* NodeClass label never hides a server from List, and neither does a       *)
(* server that is made, stopped or deleted while List runs.                 *)
SweepSparesListedServers ==
    [][\A c \in Claims :
          SweepClaim(c) /\ phase[c] = "active" /\ phase'[c] = "deleting" =>
              \/ ~Exists(ServerUUID(pid[c]))
              \/ ServerUUID(pid[c]) \in gc.skipped]_vars

(* Finalization never waits for what will not come: WaitForStop polls only  *)
(* a server that is on its way down, whoever else stops or deletes it (that *)
(* nobody starts it again is assumed), and Karpenter waits for Get to say   *)
(* "not found" only once the server is gone for good.                       *)
NeverStuck ==
    \A c \in Claims : LET u == ServerUUID(pid[c]) IN
        /\ pc[c] = "wait" => server[u] \in {"stopping", "stopped", "deleted"}
        /\ terminating[c] => ~Exists(u)

(* A deleted NodeClaim goes away: Delete, called again after every error,   *)
(* gets through "not started yet", "still stopping", "already stopped" and  *)
(* "already deleted" to the end, and a crash anywhere in it is harmless.    *)
DeletionCompletes ==
    \A c \in Claims : phase[c] = "deleting" ~> phase[c] = "gone"

-----------------------------------------------------------------------------
(* The inductive invariants of ServerLifecycle_proofs                       *)

(* What a worker's position says about its claim: Create runs only for a    *)
(* claim that holds nothing, Delete only for one with a provider ID, no     *)
(* worker is busy with a claim that is gone, and once Delete has succeeded  *)
(* the server is gone for good.                                             *)
WorkerInv ==
    \A c \in Claims :
        /\ pc[c] = "launch" => pid[c] = Nil /\ mem[c] = Nil
        /\ pc[c] = "persist" => mem[c] # Nil
        /\ pc[c] \in {"stop", "wait", "delete", "mark"} => pid[c] # Nil
        /\ pc[c] # "idle" => phase[c] # "gone"
        /\ mem[c] # Nil => pid[c] = Nil
        /\ terminating[c] \/ pc[c] = "mark" =>
               pid[c] # Nil /\ server[ServerUUID(pid[c])] = "deleted"

LeaseInv == TypeOK /\ WorkerInv /\ NoStrayServer

(* The claims whose server is in the launch cache only, because the write   *)
(* of their provider ID failed.                                             *)
Unsaved == {c \in Claims : mem[c] # Nil /\ pc[c] = "idle"}

(* Every server that is lost, or that would be if its claim were deleted    *)
(* now, was paid for with a failed call or with a crash.                    *)
LeakInv ==
    /\ IsFiniteSet(lost)
    /\ Cardinality(lost) + Cardinality(Unsaved) <= faults + crashes * Cardinality(Claims)

(* What a round of garbage collection relies on: registered claims have a   *)
(* provider ID, of a server that was made; servers carry the marker; and a  *)
(* server of a claim in the round, unless it is gone, is still to be asked  *)
(* for its details, or was listed or skipped.                               *)
SweepInv ==
    /\ \A c \in Claims :
          /\ mem[c] # Nil => server[mem[c]] # "none"
          /\ pid[c] # Nil => server[ServerUUID(pid[c])] # "none"
          /\ node[c] # "none" \/ c \in gc.claims => pid[c] # Nil
    /\ \A s \in Servers : server[s] \in LiveStates => isManaged(s)
    /\ gc.pc \in {"details", "sweep"} =>
          \A c \in gc.claims : LET u == ServerUUID(pid[c]) IN
              \/ u \in gc.todo \cup gc.skipped
              \/ pid[c] \in gc.listed
              \/ server[u] = "deleted"
    /\ gc.pc = "sweep" => gc.todo = {}
=============================================================================
