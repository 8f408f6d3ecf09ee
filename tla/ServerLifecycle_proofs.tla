------------------------ MODULE ServerLifecycle_proofs ------------------------
(***************************************************************************)
(* Proofs about ServerLifecycle, for every number of claims, servers,      *)
(* faults, crashes and garbage collections: its type invariant, that no    *)
(* server is left without the NodeClaim that answers for it, that garbage  *)
(* collection spares what List could read, how many servers can be lost,   *)
(* and that finalization never waits in vain.                              *)
(***************************************************************************)
EXTENDS ServerLifecycle, FiniteSetTheorems, TLAPS

USE DEF LiveStates, WorkerSteps

(* ServerLabels yields a label map that carries the marker. *)
LEMMA ServerLabelsType ==
    ASSUME NEW user \in UserLabels
    PROVE  /\ ServerLabels(user) \in LabelMaps
           /\ ManagedKey \in DOMAIN ServerLabels(user)
           /\ ServerLabels(user)[ManagedKey] = ManagedValue
<1>1. PICK D \in SUBSET LabelKeys : user \in [D -> LabelValues]
  BY LabelsAssumption DEF LabelMaps
<1>2. ServerLabels(user) \in [D \cup {ManagedKey} -> LabelValues]
  BY <1>1 DEF ServerLabels, LabelValues
<1>3. D \cup {ManagedKey} \in SUBSET LabelKeys
  BY DEF LabelKeys
<1> QED
  BY <1>1, <1>2, <1>3 DEF LabelMaps, ServerLabels

(* The initial state is of the right type. *)
LEMMA TypeInit == Init => TypeOK
<1>1. NoLabels \in LabelMaps
  <2>1. NoLabels \in [{} -> LabelValues]
    BY DEF NoLabels
  <2> QED
    BY <2>1 DEF LabelMaps
<1> QED
  BY <1>1, BoundsAssumption DEF Init, TypeOK, GCIdle

(* Every step of a launch keeps the types. *)
LEMMA LaunchType ==
    ASSUME TypeOK, WorkerInv, NEW c \in Claims, LaunchStep(c)
    PROVE  TypeOK'
<1> USE BoundsAssumption, NilAssumption
    DEF TypeOK, claimVars, cloudVars, boundVars, Goto, Fault, MarkDeleting, SetServer
<1>1. CASE CreateBegin(c)     BY <1>1 DEF CreateBegin
<1>2. CASE CreateAbort(c)     BY <1>2 DEF CreateAbort
<1>3. CASE CreateRejected(c)  BY <1>3 DEF CreateRejected
<1>4. CASE PersistLaunch(c)   BY <1>4 DEF WorkerInv, PersistLaunch, ProviderID, ProviderIDs
<1>5. CASE PersistFailed(c)   BY <1>5 DEF PersistFailed
<1>6. CASE LaunchFromCache(c) BY <1>6 DEF LaunchFromCache
<1>7. ASSUME NEW s \in Servers, NEW user \in UserLabels, CreateServer(c, s, user)
      PROVE  TypeOK'
  BY <1>7, ServerLabelsType DEF CreateServer, NewServer
<1>8. ASSUME NEW s \in Servers, NEW user \in UserLabels, CreateAnswerLost(c, s, user)
      PROVE  TypeOK'
  BY <1>8, ServerLabelsType DEF CreateAnswerLost, NewServer
<1> QED
  BY <1>1, <1>2, <1>3, <1>4, <1>5, <1>6, <1>7, <1>8 DEF LaunchStep

(* Every step of a finalization keeps the types. *)
LEMMA FinalizeType ==
    ASSUME TypeOK, NEW c \in Claims, FinalizeStep(c)
    PROVE  TypeOK'
<1> USE BoundsAssumption, NilAssumption
    DEF TypeOK, claimVars, cloudVars, boundVars, Goto, Fault, NoFault, SetServer,
        Release, Exists, NotFound
<1>1. CASE FinalizeUnlaunched(c) BY <1>1 DEF FinalizeUnlaunched
<1>2. CASE DeleteBegin(c)        BY <1>2 DEF DeleteBegin
<1>3. CASE StopNotFound(c)       BY <1>3 DEF StopNotFound
<1>4. CASE StopServer(c)         BY <1>4 DEF StopServer
<1>5. CASE StopIllegal(c)        BY <1>5 DEF StopIllegal
<1>6. CASE StopFailed(c)         BY <1>6 DEF StopFailed
<1>7. CASE WaitForStop(c)        BY <1>7 DEF WaitForStop
<1>8. CASE WaitFailed(c)         BY <1>8 DEF WaitFailed
<1>9. CASE DeleteNotFound(c)     BY <1>9 DEF DeleteNotFound
<1>10. CASE DeleteServer(c)      BY <1>10 DEF DeleteServer
<1>11. CASE DeleteFailed(c)      BY <1>11 DEF DeleteFailed
<1>12. CASE MarkTerminating(c)   BY <1>12 DEF MarkTerminating
<1>13. CASE GetReturnsNotFound(c) BY <1>13 DEF GetReturnsNotFound
<1> QED
  BY <1>1, <1>2, <1>3, <1>4, <1>5, <1>6, <1>7, <1>8, <1>9, <1>10, <1>11, <1>12, <1>13
  DEF FinalizeStep

(* Every step of garbage collection keeps the types. *)
LEMMA SweepType ==
    ASSUME TypeOK, SweepStep
    PROVE  TypeOK'
<1> DEFINE GCType == [pc : {"idle", "list", "details", "sweep"}, claims : SUBSET Claims,
                      todo : SUBSET Servers, listed : SUBSET ProviderIDs,
                      skipped : SUBSET Servers]
<1>1. SUFFICES gc' \in GCType
  <2> HIDE DEF GCType
  <2>1. ASSUME NEW c \in Claims, SweepClaim(c)
        PROVE  phase' \in [Claims -> {"active", "deleting", "gone"}]
    BY <2>1 DEF SweepClaim, TypeOK, MarkDeleting
  <2>2. phase' \in [Claims -> {"active", "deleting", "gone"}]
    <3>1. CASE \E c \in Claims : SweepClaim(c)
      BY <2>1, <3>1
    <3>2. CASE ~\E c \in Claims : SweepClaim(c)
      BY <3>2 DEF SweepStep, SweepBegin, ListServers, ListFailed, ServerDetails,
         DetailsFailed, ListReturns, SweepEnd, TypeOK, claimVars
    <3> QED BY <3>1, <3>2
  <2>3. UNCHANGED <<pid, terminating, node, pc, mem, server, labels, owner, lost, crashes>>
    BY DEF SweepStep, SweepBegin, ListServers, ListFailed, ServerDetails, DetailsFailed,
           ListReturns, SweepClaim, SweepEnd, claimVars, cloudVars, boundVars
  <2>4. faults' \in 0..MaxFaults /\ sweeps' \in 0..MaxSweeps
    <3>1. \/ UNCHANGED sweeps
          \/ sweeps < MaxSweeps /\ sweeps' = sweeps + 1
      BY DEF SweepStep, SweepBegin, ListServers, ListFailed, ServerDetails,
         DetailsFailed, ListReturns, SweepClaim, SweepEnd, boundVars
    <3>2. UNCHANGED faults \/ Fault
      BY DEF SweepStep, SweepBegin, ListServers, ListFailed, ServerDetails,
         DetailsFailed, ListReturns, SweepClaim, SweepEnd, boundVars, NoFault
    <3> QED
      BY <3>1, <3>2, BoundsAssumption DEF Fault, TypeOK
  <2> QED
    BY <2>2, <2>3, <2>4 DEF TypeOK, GCType
<1>2. gc \in GCType
  BY DEF TypeOK
<1>3. CASE SweepBegin
  <2>1. {c \in Claims : phase[c] = "active" /\ node[c] # "none"} \in SUBSET Claims
    OBVIOUS
  <2> QED BY <1>2, <1>3, <2>1 DEF SweepBegin
<1>4. CASE ListServers  BY <1>2, <1>4 DEF ListServers
<1>5. CASE ListFailed   BY <1>5 DEF ListFailed, GCIdle
<1>6. ASSUME NEW s \in Servers, ServerDetails(s) PROVE gc' \in GCType
  <2>1. ProviderID(s) \in ProviderIDs
    BY DEF ProviderID, ProviderIDs
  <2>2. gc.listed \in SUBSET ProviderIDs /\ gc.listed \cup {ProviderID(s)} \in SUBSET ProviderIDs
    BY <1>2, <2>1
  <2> QED BY <1>2, <1>6, <2>2 DEF ServerDetails
<1>7. ASSUME NEW s \in Servers, DetailsFailed(s) PROVE gc' \in GCType
  BY <1>2, <1>7 DEF DetailsFailed
<1>8. CASE ListReturns  BY <1>2, <1>8 DEF ListReturns
<1>9. ASSUME NEW c \in Claims, SweepClaim(c) PROVE gc' \in GCType
  BY <1>2, <1>9 DEF SweepClaim
<1>10. CASE SweepEnd    BY <1>10 DEF SweepEnd, GCIdle
<1> QED
  BY <1>3, <1>4, <1>5, <1>6, <1>7, <1>8, <1>9, <1>10 DEF SweepStep

(* So do the steps of the servers, of the cluster, and a crash. *)
LEMMA EnvironmentType ==
    ASSUME TypeOK,
           \/ \E s \in Servers : CloudStep(s)
           \/ \E c \in Claims : ClusterStep(c)
           \/ Crash
    PROVE  TypeOK'
<1> USE BoundsAssumption
    DEF TypeOK, claimVars, cloudVars, boundVars, SetServer, MarkDeleting
<1>1. ASSUME NEW s \in Servers, CloudStep(s) PROVE TypeOK'
  BY <1>1 DEF CloudStep, Boot, PowerOff, Vanish, Halt
<1>2. ASSUME NEW c \in Claims, ClusterStep(c) PROVE TypeOK'
  BY <1>2 DEF ClusterStep, DeleteClaim, LaunchExpires, Register, HeartbeatLost
<1>3. CASE Crash
  BY <1>3 DEF Crash, GCIdle
<1> QED
  BY <1>1, <1>2, <1>3

(* A provider ID names a server. *)
LEMMA UUIDType ==
    ASSUME TypeOK, NEW c \in Claims, pid[c] # Nil
    PROVE  ServerUUID(pid[c]) \in Servers /\ pid[c] = ProviderID(ServerUUID(pid[c]))
  BY DEF TypeOK, ServerUUID, ProviderIDs, ProviderID

(* WorkerInv: the steps of a launch. *)
LEMMA LaunchWorker ==
    ASSUME TypeOK, WorkerInv, NEW c \in Claims, LaunchStep(c)
    PROVE  WorkerInv'
<1> USE NilAssumption
    DEF TypeOK, WorkerInv, claimVars, cloudVars, Goto, MarkDeleting, SetServer
<1>1. CASE CreateBegin(c)     BY <1>1 DEF CreateBegin
<1>2. CASE CreateAbort(c)     BY <1>2 DEF CreateAbort
<1>3. CASE CreateRejected(c)  BY <1>3 DEF CreateRejected
<1>4. CASE PersistLaunch(c)
  <2>1. ProviderID(mem[c]) # Nil /\ terminating[c] = FALSE
    BY <1>4 DEF PersistLaunch, ProviderID, ProviderIDs
  <2> QED BY <1>4, <2>1 DEF PersistLaunch
<1>5. CASE PersistFailed(c)   BY <1>5 DEF PersistFailed
<1>6. CASE LaunchFromCache(c) BY <1>6 DEF LaunchFromCache
<1>7. ASSUME NEW s \in Servers, NEW user \in UserLabels, CreateServer(c, s, user)
      PROVE  WorkerInv'
  BY <1>7 DEF CreateServer, NewServer
<1>8. ASSUME NEW s \in Servers, NEW user \in UserLabels, CreateAnswerLost(c, s, user)
      PROVE  WorkerInv'
  BY <1>8 DEF CreateAnswerLost, NewServer
<1> QED
  BY <1>1, <1>2, <1>3, <1>4, <1>5, <1>6, <1>7, <1>8 DEF LaunchStep

(* WorkerInv: the steps of a finalization. *)
LEMMA FinalizeWorker ==
    ASSUME TypeOK, WorkerInv, NEW c \in Claims, FinalizeStep(c)
    PROVE  WorkerInv'
<1> USE NilAssumption
    DEF TypeOK, WorkerInv, claimVars, cloudVars, Goto, SetServer, Release, Exists, NotFound
<1>1. CASE FinalizeUnlaunched(c) BY <1>1 DEF FinalizeUnlaunched
<1>2. CASE DeleteBegin(c)        BY <1>2 DEF DeleteBegin
<1>3. CASE StopNotFound(c)       BY <1>3 DEF StopNotFound
<1>4. CASE StopServer(c)         BY <1>4, UUIDType DEF StopServer
<1>5. CASE StopIllegal(c)        BY <1>5 DEF StopIllegal
<1>6. CASE StopFailed(c)         BY <1>6, UUIDType DEF StopFailed
<1>7. CASE WaitForStop(c)        BY <1>7 DEF WaitForStop
<1>8. CASE WaitFailed(c)         BY <1>8 DEF WaitFailed
<1>9. CASE DeleteNotFound(c)     BY <1>9 DEF DeleteNotFound
<1>10. CASE DeleteServer(c)      BY <1>10, UUIDType DEF DeleteServer
<1>11. CASE DeleteFailed(c)      BY <1>11, UUIDType DEF DeleteFailed
<1>12. CASE MarkTerminating(c)   BY <1>12 DEF MarkTerminating
<1>13. CASE GetReturnsNotFound(c) BY <1>13 DEF GetReturnsNotFound
<1> QED
  BY <1>1, <1>2, <1>3, <1>4, <1>5, <1>6, <1>7, <1>8, <1>9, <1>10, <1>11, <1>12, <1>13
  DEF FinalizeStep

(* A sweep at most marks claims that are active as deleting. *)
LEMMA SweepFrame ==
    ASSUME TypeOK, SweepStep
    PROVE  /\ UNCHANGED <<pid, terminating, node, pc, mem, server, labels, owner, lost>>
           /\ \A c \in Claims : phase'[c] = "gone" => phase[c] = "gone"
<1>1. UNCHANGED <<pid, terminating, node, pc, mem, server, labels, owner, lost>>
  BY DEF SweepStep, SweepBegin, ListServers, ListFailed, ServerDetails, DetailsFailed,
         ListReturns, SweepClaim, SweepEnd, claimVars, cloudVars
<1>2. ASSUME NEW d \in Claims, SweepClaim(d), NEW c \in Claims, phase'[c] = "gone"
      PROVE  phase[c] = "gone"
  BY <1>2 DEF SweepClaim, MarkDeleting, TypeOK
<1>3. CASE ~\E d \in Claims : SweepClaim(d)
  <2>1. UNCHANGED phase
    BY <1>3 DEF SweepStep, SweepBegin, ListServers, ListFailed, ServerDetails,
       DetailsFailed, ListReturns, SweepEnd, claimVars
  <2> QED BY <1>1, <2>1
<1> QED
  BY <1>1, <1>2, <1>3

(* WorkerInv: everything else. *)
LEMMA OtherWorker ==
    ASSUME TypeOK, WorkerInv,
           \/ SweepStep
           \/ \E s \in Servers : CloudStep(s)
           \/ \E c \in Claims : ClusterStep(c)
           \/ Crash
           \/ UNCHANGED vars
    PROVE  WorkerInv'
<1>1. CASE SweepStep
  BY <1>1, SweepFrame DEF WorkerInv
<1>2. ASSUME NEW s \in Servers, CloudStep(s) PROVE WorkerInv'
  BY <1>2, UUIDType DEF CloudStep, Boot, PowerOff, Vanish, Halt, SetServer, TypeOK, WorkerInv,
                        claimVars
<1>3. ASSUME NEW c \in Claims, ClusterStep(c) PROVE WorkerInv'
  BY <1>3 DEF ClusterStep, DeleteClaim, LaunchExpires, Register, HeartbeatLost, MarkDeleting, TypeOK,
              WorkerInv, claimVars, cloudVars
<1>4. CASE Crash
  BY <1>4 DEF Crash, TypeOK, WorkerInv, claimVars, cloudVars
<1>5. CASE UNCHANGED vars
  BY <1>5 DEF vars, WorkerInv
<1> QED
  BY <1>1, <1>2, <1>3, <1>4, <1>5

(* NoStrayServer: the steps of a launch. *)
LEMMA LaunchHeld ==
    ASSUME LeaseInv, NEW c \in Claims, LaunchStep(c)
    PROVE  NoStrayServer'
<1> USE NilAssumption
    DEF LeaseInv, TypeOK, WorkerInv, NoStrayServer, Held, claimVars, cloudVars, Goto,
        MarkDeleting, SetServer
<1>1. CASE CreateBegin(c)     BY <1>1 DEF CreateBegin
<1>2. CASE CreateAbort(c)     BY <1>2 DEF CreateAbort
<1>3. CASE CreateRejected(c)  BY <1>3 DEF CreateRejected
<1>4. CASE PersistLaunch(c)
  <2>1. ProviderID(mem[c]) # Nil /\ ServerUUID(ProviderID(mem[c])) = mem[c]
    BY <1>4 DEF PersistLaunch, ProviderID, ServerUUID, ProviderIDs
  <2> QED BY <1>4, <2>1 DEF PersistLaunch
<1>5. CASE PersistFailed(c)   BY <1>5 DEF PersistFailed
<1>6. CASE LaunchFromCache(c) BY <1>6 DEF LaunchFromCache
<1>7. ASSUME NEW s \in Servers, NEW user \in UserLabels, CreateServer(c, s, user)
      PROVE  NoStrayServer'
  BY <1>7 DEF CreateServer, NewServer
<1>8. ASSUME NEW s \in Servers, NEW user \in UserLabels, CreateAnswerLost(c, s, user)
      PROVE  NoStrayServer'
  BY <1>8 DEF CreateAnswerLost, NewServer
<1> QED
  BY <1>1, <1>2, <1>3, <1>4, <1>5, <1>6, <1>7, <1>8 DEF LaunchStep

(* NoStrayServer: the steps of a finalization. A claim is released only     *)
(* when its server is not there any more.                                   *)
LEMMA FinalizeHeld ==
    ASSUME LeaseInv, NEW c \in Claims, FinalizeStep(c)
    PROVE  NoStrayServer'
<1> USE NilAssumption
    DEF LeaseInv, TypeOK, WorkerInv, NoStrayServer, Held, claimVars, cloudVars, Goto,
        SetServer, Release, Exists, NotFound
<1>1. CASE FinalizeUnlaunched(c) BY <1>1 DEF FinalizeUnlaunched
<1>2. CASE DeleteBegin(c)        BY <1>2 DEF DeleteBegin
<1>3. CASE StopNotFound(c)       BY <1>3 DEF StopNotFound
<1>4. CASE StopServer(c)         BY <1>4 DEF StopServer
<1>5. CASE StopIllegal(c)        BY <1>5 DEF StopIllegal
<1>6. CASE StopFailed(c)         BY <1>6 DEF StopFailed
<1>7. CASE WaitForStop(c)        BY <1>7 DEF WaitForStop
<1>8. CASE WaitFailed(c)         BY <1>8 DEF WaitFailed
<1>9. CASE DeleteNotFound(c)     BY <1>9 DEF DeleteNotFound
<1>10. CASE DeleteServer(c)      BY <1>10 DEF DeleteServer
<1>11. CASE DeleteFailed(c)      BY <1>11 DEF DeleteFailed
<1>12. CASE MarkTerminating(c)   BY <1>12 DEF MarkTerminating
<1>13. CASE GetReturnsNotFound(c) BY <1>13 DEF GetReturnsNotFound
<1> QED
  BY <1>1, <1>2, <1>3, <1>4, <1>5, <1>6, <1>7, <1>8, <1>9, <1>10, <1>11, <1>12, <1>13
  DEF FinalizeStep

(* NoStrayServer: everything else. *)
LEMMA OtherHeld ==
    ASSUME LeaseInv,
           \/ SweepStep
           \/ \E s \in Servers : CloudStep(s)
           \/ \E c \in Claims : ClusterStep(c)
           \/ Crash
           \/ UNCHANGED vars
    PROVE  NoStrayServer'
<1> USE DEF LeaseInv
<1>1. CASE SweepStep
  BY <1>1, SweepFrame DEF NoStrayServer, Held
<1>2. ASSUME NEW s \in Servers, CloudStep(s) PROVE NoStrayServer'
  BY <1>2 DEF CloudStep, Boot, PowerOff, Vanish, Halt, SetServer, TypeOK, NoStrayServer,
              Held, claimVars
<1>3. ASSUME NEW c \in Claims, ClusterStep(c) PROVE NoStrayServer'
  BY <1>3 DEF ClusterStep, DeleteClaim, LaunchExpires, Register, HeartbeatLost, MarkDeleting, TypeOK,
              NoStrayServer, Held, claimVars, cloudVars
<1>4. CASE Crash
  BY <1>4, NilAssumption DEF Crash, TypeOK, NoStrayServer, Held, claimVars, cloudVars
<1>5. CASE UNCHANGED vars
  BY <1>5 DEF vars, NoStrayServer, Held
<1> QED
  BY <1>1, <1>2, <1>3, <1>4, <1>5

(* LeaseInv is an invariant. *)
LEMMA LeaseInvInit == Init => LeaseInv
  BY TypeInit DEF Init, LeaseInv, WorkerInv, NoStrayServer

LEMMA LeaseInvNext == LeaseInv /\ [Next]_vars => LeaseInv'
<1> SUFFICES ASSUME LeaseInv, [Next]_vars PROVE LeaseInv'
  OBVIOUS
<1>0. TypeOK /\ WorkerInv
  BY DEF LeaseInv
<1>1. ASSUME NEW c \in Claims, LaunchStep(c) PROVE LeaseInv'
  BY <1>0, <1>1, LaunchType, LaunchWorker, LaunchHeld DEF LeaseInv
<1>2. ASSUME NEW c \in Claims, FinalizeStep(c) PROVE LeaseInv'
  BY <1>0, <1>2, FinalizeType, FinalizeWorker, FinalizeHeld DEF LeaseInv
<1>3. CASE \/ SweepStep
           \/ \E s \in Servers : CloudStep(s)
           \/ \E c \in Claims : ClusterStep(c)
           \/ Crash
  <2>1. TypeOK'
    BY <1>0, <1>3, SweepType, EnvironmentType
  <2> QED
    BY <1>0, <1>3, <2>1, OtherWorker, OtherHeld DEF LeaseInv
<1>4. CASE UNCHANGED vars
  <2>1. TypeOK'
    BY <1>0, <1>4 DEF vars, TypeOK
  <2> QED
    BY <1>0, <1>4, <2>1, OtherWorker, OtherHeld DEF LeaseInv
<1> QED
  BY <1>1, <1>2, <1>3, <1>4 DEF Next

LEMMA LeaseInvariant == Spec => []LeaseInv
<1> QED
  BY LeaseInvInit, LeaseInvNext, PTL DEF Spec

(* Type correctness of ServerLifecycle. *)
THEOREM TypeCorrect == Spec => []TypeOK
<1>1. LeaseInv => TypeOK
  BY DEF LeaseInv
<1> QED
  BY <1>1, LeaseInvariant, PTL

(* Create and Delete leave no server running without the NodeClaim that     *)
(* answers for it, whatever fails, crashes or is retried, except a server   *)
(* whose UUID was lost before it was persisted.                             *)
THEOREM NoStrayServerHolds == Spec => []NoStrayServer
<1>1. LeaseInv => NoStrayServer
  BY DEF LeaseInv
<1> QED
  BY <1>1, LeaseInvariant, PTL

-----------------------------------------------------------------------------
(* Garbage collection                                                       *)

(* What all steps do to the server a claim names: it was made and is never  *)
(* made again, so that a deleted server stays deleted.                      *)
Steady ==
    /\ \A c \in Claims : pid[c] # Nil => pid'[c] = pid[c]
    /\ \A s \in Servers : server[s] # "none" => server'[s] # "none"
    /\ \A s \in Servers : server[s] = "deleted" => server'[s] = "deleted"
    /\ \A s \in Servers : server[s] # "none" => labels'[s] = labels[s]

(* Every step but those of garbage collection and Crash leaves its round    *)
(* alone.                                                                   *)
LEMMA LaunchSteady ==
    ASSUME LeaseInv, NEW c \in Claims, LaunchStep(c)
    PROVE  Steady /\ UNCHANGED <<gc, node>>
<1> USE DEF LeaseInv, TypeOK, WorkerInv, Steady, claimVars, cloudVars, SetServer
<1>1. CASE CreateBegin(c)     BY <1>1 DEF CreateBegin
<1>2. CASE CreateAbort(c)     BY <1>2 DEF CreateAbort
<1>3. CASE CreateRejected(c)  BY <1>3 DEF CreateRejected
<1>4. CASE PersistLaunch(c)   BY <1>4 DEF PersistLaunch
<1>5. CASE PersistFailed(c)   BY <1>5 DEF PersistFailed
<1>6. CASE LaunchFromCache(c) BY <1>6 DEF LaunchFromCache
<1>7. ASSUME NEW s \in Servers, NEW user \in UserLabels, CreateServer(c, s, user)
      PROVE  Steady /\ UNCHANGED <<gc, node>>
  BY <1>7 DEF CreateServer, NewServer
<1>8. ASSUME NEW s \in Servers, NEW user \in UserLabels, CreateAnswerLost(c, s, user)
      PROVE  Steady /\ UNCHANGED <<gc, node>>
  BY <1>8 DEF CreateAnswerLost, NewServer
<1> QED
  BY <1>1, <1>2, <1>3, <1>4, <1>5, <1>6, <1>7, <1>8 DEF LaunchStep

LEMMA FinalizeSteady ==
    ASSUME LeaseInv, NEW c \in Claims, FinalizeStep(c)
    PROVE  Steady /\ UNCHANGED <<gc, node, pid, labels>>
<1> USE DEF LeaseInv, TypeOK, Steady, claimVars, cloudVars, SetServer, Exists, NotFound
<1>1. CASE StopServer(c)   BY <1>1 DEF StopServer
<1>2. CASE StopFailed(c)   BY <1>2 DEF StopFailed
<1>3. CASE DeleteServer(c) BY <1>3 DEF DeleteServer
<1>4. CASE DeleteFailed(c) BY <1>4 DEF DeleteFailed
<1>5. CASE \/ FinalizeUnlaunched(c) \/ DeleteBegin(c) \/ StopNotFound(c) \/ StopIllegal(c)
           \/ WaitForStop(c) \/ WaitFailed(c) \/ DeleteNotFound(c) \/ MarkTerminating(c)
           \/ GetReturnsNotFound(c)
  BY <1>5 DEF FinalizeUnlaunched, DeleteBegin, StopNotFound, StopIllegal, WaitForStop,
     WaitFailed, DeleteNotFound, MarkTerminating, GetReturnsNotFound
<1> QED
  BY <1>1, <1>2, <1>3, <1>4, <1>5 DEF FinalizeStep

(* Finalization makes no server, and at most forgets the launch cache. *)
LEMMA FinalizeServers ==
    ASSUME LeaseInv, NEW c \in Claims, FinalizeStep(c)
    PROVE  /\ \A s \in Servers : server[s] = "none" => server'[s] = "none"
           /\ UNCHANGED mem \/ mem' = [mem EXCEPT ![c] = Nil]
           /\ UNCHANGED owner
<1>1. UNCHANGED server \/ \E u \in Servers, x \in {"stopping", "deleted"} :
          server[u] # "none" /\ server' = [server EXCEPT ![u] = x]
  <2>1. CASE StopServer(c) BY <2>1 DEF StopServer, Exists, SetServer
  <2>2. CASE StopFailed(c) BY <2>2 DEF StopFailed, Exists, SetServer
  <2>3. CASE DeleteServer(c) BY <2>3 DEF DeleteServer, Exists, SetServer
  <2>4. CASE DeleteFailed(c) BY <2>4 DEF DeleteFailed, Exists, SetServer
  <2>5. CASE \/ FinalizeUnlaunched(c) \/ DeleteBegin(c) \/ StopNotFound(c)
             \/ StopIllegal(c) \/ WaitForStop(c) \/ WaitFailed(c) \/ DeleteNotFound(c)
             \/ MarkTerminating(c) \/ GetReturnsNotFound(c)
    BY <2>5 DEF FinalizeUnlaunched, DeleteBegin, StopNotFound, StopIllegal, WaitForStop,
       WaitFailed, DeleteNotFound, MarkTerminating, GetReturnsNotFound, NotFound, cloudVars
  <2> QED BY <2>1, <2>2, <2>3, <2>4, <2>5 DEF FinalizeStep
<1>2. (UNCHANGED mem \/ mem' = [mem EXCEPT ![c] = Nil]) /\ UNCHANGED owner
  BY DEF FinalizeStep, FinalizeUnlaunched, DeleteBegin, StopNotFound, StopServer, StopIllegal,
     StopFailed, WaitForStop, WaitFailed, DeleteNotFound, DeleteServer, DeleteFailed,
     MarkTerminating, GetReturnsNotFound, NotFound, cloudVars
<1> QED
  BY <1>1, <1>2 DEF LeaseInv, TypeOK

(* SweepInv outside a round: nothing that a round knows becomes untrue. *)
LEMMA SteadySweep ==
    ASSUME LeaseInv, SweepInv, Steady, UNCHANGED gc,
           \A c \in Claims : mem'[c] # Nil /\ mem'[c] # mem[c] => server'[mem'[c]] # "none",
           \A c \in Claims : pid'[c] # pid[c] =>
               pid'[c] # Nil /\ mem[c] # Nil /\ ServerUUID(pid'[c]) = mem[c],
           \A c \in Claims : node'[c] # node[c] => pid[c] # Nil,
           \A s \in Servers : server[s] = "none" /\ server'[s] \in LiveStates => isManaged(s)'
    PROVE  SweepInv'
<1> USE DEF LeaseInv
<1>1. ASSUME NEW c \in Claims
      PROVE  /\ mem'[c] # Nil => server'[mem'[c]] # "none"
             /\ pid'[c] # Nil => server'[ServerUUID(pid'[c])] # "none"
             /\ node'[c] # "none" \/ c \in gc'.claims => pid'[c] # Nil
  <2>1. mem'[c] # Nil => server'[mem'[c]] # "none"
    BY DEF SweepInv, Steady, TypeOK
  <2>2. pid'[c] # Nil => server'[ServerUUID(pid'[c])] # "none"
    <3>1. CASE pid'[c] = pid[c]
      BY <3>1, UUIDType DEF SweepInv, Steady
    <3>2. CASE pid'[c] # pid[c]
      BY <3>2, NilAssumption DEF SweepInv, Steady, TypeOK, WorkerInv
    <3> QED BY <3>1, <3>2
  <2>3. node'[c] # "none" \/ c \in gc'.claims => pid'[c] # Nil
    BY DEF SweepInv, Steady
  <2> QED BY <2>1, <2>2, <2>3
<1>2. ASSUME NEW s \in Servers, server'[s] \in LiveStates
      PROVE  isManaged(s)'
  BY <1>2 DEF SweepInv, Steady, isManaged, TypeOK
<1>3. ASSUME gc'.pc \in {"details", "sweep"}, NEW c \in gc'.claims
      PROVE  \/ ServerUUID(pid'[c]) \in gc'.todo \cup gc'.skipped
             \/ pid'[c] \in gc'.listed
             \/ server'[ServerUUID(pid'[c])] = "deleted"
  <2>1. c \in Claims
    BY <1>3 DEF TypeOK
  <2> QED
    BY <1>3, <2>1, UUIDType DEF SweepInv, Steady
<1>4. gc'.pc = "sweep" => gc'.todo = {}
  BY DEF SweepInv
<1> QED
  BY <1>1, <1>2, <1>3, <1>4 DEF SweepInv

(* SweepInv: the steps of a launch. *)
LEMMA LaunchSweep ==
    ASSUME LeaseInv, SweepInv, NEW c \in Claims, LaunchStep(c)
    PROVE  SweepInv'
<1>1. Steady /\ UNCHANGED <<gc, node>>
  BY LaunchSteady
<1> USE DEF LeaseInv, TypeOK, WorkerInv, claimVars, cloudVars, SetServer
<1>2. CASE PersistLaunch(c)
  <2>1. ServerUUID(ProviderID(mem[c])) = mem[c] /\ ProviderID(mem[c]) # Nil /\ mem[c] # Nil
    BY <1>2, NilAssumption DEF PersistLaunch, ProviderID, ServerUUID, ProviderIDs
  <2> QED
    BY <1>1, <1>2, <2>1, SteadySweep DEF PersistLaunch
<1>3. ASSUME NEW s \in Servers, NEW user \in UserLabels,
             CreateServer(c, s, user) \/ CreateAnswerLost(c, s, user)
      PROVE  SweepInv'
  <2>1. isManaged(s)'
    BY <1>3, ServerLabelsType DEF CreateServer, CreateAnswerLost, NewServer, isManaged
  <2>2. /\ UNCHANGED pid
        /\ server' = [server EXCEPT ![s] = "maintenance"]
        /\ mem' = mem \/ mem' = [mem EXCEPT ![c] = s]
    BY <1>3 DEF CreateServer, CreateAnswerLost, NewServer
  <2>3. \A d \in Claims : mem'[d] # Nil /\ mem'[d] # mem[d] => server'[mem'[d]] # "none"
    BY <2>2
  <2>4. \A t \in Servers : server[t] = "none" /\ server'[t] \in LiveStates => isManaged(t)'
    BY <2>1, <2>2
  <2> QED
    BY <1>1, <2>2, <2>3, <2>4, SteadySweep
<1>4. CASE \/ CreateBegin(c) \/ CreateAbort(c) \/ CreateRejected(c) \/ PersistFailed(c)
           \/ LaunchFromCache(c)
  <2>1. UNCHANGED <<pid, mem, server>>
    BY <1>4 DEF CreateBegin, CreateAbort, CreateRejected, PersistFailed, LaunchFromCache
  <2> QED
    BY <1>1, <2>1, SteadySweep
<1> QED
  BY <1>2, <1>3, <1>4 DEF LaunchStep

(* SweepInv: the steps of a finalization. *)
LEMMA FinalizeSweep ==
    ASSUME LeaseInv, SweepInv, NEW c \in Claims, FinalizeStep(c)
    PROVE  SweepInv'
<1>1. Steady /\ UNCHANGED <<gc, node, pid, labels>>
  BY FinalizeSteady
<1>2. UNCHANGED mem \/ mem' = [mem EXCEPT ![c] = Nil]
  BY FinalizeServers
<1>3. \A s \in Servers : server[s] = "none" => server'[s] = "none"
  BY FinalizeServers
<1>4. \A d \in Claims : mem'[d] # Nil => mem'[d] = mem[d]
  BY <1>2 DEF LeaseInv, TypeOK
<1> QED
  BY <1>1, <1>3, <1>4, SteadySweep

(* SweepInv: the servers, the cluster and a crash. *)
LEMMA EnvironmentSweep ==
    ASSUME LeaseInv, SweepInv,
           \/ \E s \in Servers : CloudStep(s)
           \/ \E c \in Claims : ClusterStep(c)
           \/ Crash
           \/ UNCHANGED vars
    PROVE  SweepInv'
<1> USE DEF LeaseInv, claimVars, cloudVars
<1>1. ASSUME NEW s \in Servers, CloudStep(s) PROVE SweepInv'
  <2>1. UNCHANGED <<pid, mem, node, labels, gc>>
    BY <1>1 DEF CloudStep, Boot, PowerOff, Vanish, Halt
  <2>2. \E x \in {"started", "stopping", "stopped", "deleted"} :
            server[s] \in LiveStates /\ server' = [server EXCEPT ![s] = x]
    BY <1>1 DEF CloudStep, Boot, PowerOff, Vanish, Halt, SetServer
  <2>3. Steady /\ \A t \in Servers : server[t] = "none" => server'[t] = "none"
    BY <2>1, <2>2 DEF Steady, TypeOK
  <2> QED
    BY <2>1, <2>3, SteadySweep
<1>2. ASSUME NEW c \in Claims, ClusterStep(c) PROVE SweepInv'
  <2>1. UNCHANGED <<pid, labels, server, gc>> /\ (UNCHANGED mem \/ mem' = [mem EXCEPT ![c] = Nil])
    BY <1>2 DEF ClusterStep, DeleteClaim, LaunchExpires, Register, HeartbeatLost
  <2>2. \A d \in Claims : mem'[d] # Nil => mem'[d] = mem[d]
    BY <2>1 DEF TypeOK
  <2>3. \A d \in Claims : node'[d] # node[d] => pid[d] # Nil
    BY <1>2 DEF ClusterStep, DeleteClaim, LaunchExpires, Register, HeartbeatLost, TypeOK, SweepInv
  <2> QED
    BY <2>1, <2>2, <2>3, SteadySweep DEF Steady
<1>3. CASE Crash
  <2>1. /\ UNCHANGED <<pid, node, labels, server>>
        /\ gc'.pc = "idle" /\ gc'.claims = {}
        /\ \A d \in Claims : mem'[d] = Nil
    BY <1>3 DEF Crash, GCIdle
  <2> QED
    BY <2>1 DEF SweepInv, isManaged
<1>4. CASE UNCHANGED vars
  BY <1>4 DEF vars, SweepInv, isManaged
<1> QED
  BY <1>1, <1>2, <1>3, <1>4

(* SweepInv: the round itself. *)
LEMMA RoundSweep ==
    ASSUME LeaseInv, SweepInv, SweepStep
    PROVE  SweepInv'
<1>1. UNCHANGED <<pid, node, mem, server, labels>>
  BY SweepFrame DEF LeaseInv
<1>2. SUFFICES
        /\ \A c \in gc'.claims : pid[c] # Nil
        /\ gc'.pc \in {"details", "sweep"} =>
              \A c \in gc'.claims :
                 \/ ServerUUID(pid[c]) \in gc'.todo \cup gc'.skipped
                 \/ pid[c] \in gc'.listed
                 \/ server[ServerUUID(pid[c])] = "deleted"
        /\ gc'.pc = "sweep" => gc'.todo = {}
  BY <1>1 DEF SweepInv, isManaged
<1>3. gc \in [pc : {"idle", "list", "details", "sweep"}, claims : SUBSET Claims,
              todo : SUBSET Servers, listed : SUBSET ProviderIDs, skipped : SUBSET Servers]
  BY DEF LeaseInv, TypeOK
<1>4. CASE SweepBegin
  BY <1>3, <1>4 DEF SweepBegin, SweepInv
<1>5. CASE ListServers
  <2>1. \A c \in gc.claims : Exists(ServerUUID(pid[c])) \/ server[ServerUUID(pid[c])] = "deleted"
    BY <1>3, UUIDType DEF SweepInv, Exists, LeaseInv, TypeOK
  <2>2. /\ gc'.claims = gc.claims /\ gc'.pc = "details"
        /\ gc'.todo = {s \in Servers : Exists(s)}
    BY <1>3, <1>5 DEF ListServers
  <2>3. \A c \in gc.claims : ServerUUID(pid[c]) \in Servers /\ pid[c] # Nil
    BY <1>3, UUIDType DEF SweepInv, LeaseInv
  <2> QED
    BY <2>1, <2>2, <2>3
<1>6. CASE ListFailed
  BY <1>6 DEF ListFailed, GCIdle
<1>7. ASSUME NEW s \in Servers, ServerDetails(s)
      PROVE  /\ \A c \in gc'.claims : pid[c] # Nil
             /\ gc'.pc \in {"details", "sweep"} =>
                   \A c \in gc'.claims :
                      \/ ServerUUID(pid[c]) \in gc'.todo \cup gc'.skipped
                      \/ pid[c] \in gc'.listed
                      \/ server[ServerUUID(pid[c])] = "deleted"
             /\ gc'.pc = "sweep" => gc'.todo = {}
  <2>1. isManaged(s)
    BY <1>7 DEF ServerDetails, Exists, SweepInv
  <2>2. /\ gc'.claims = gc.claims /\ gc'.skipped = gc.skipped
        /\ gc'.pc = "details" /\ gc.pc = "details"
        /\ gc'.todo = gc.todo \ {s}
        /\ gc'.listed = gc.listed \cup {ProviderID(s)}
    BY <1>3, <1>7, <2>1 DEF ServerDetails
  <2>3. \A c \in gc.claims : c \in Claims /\ pid[c] # Nil /\ pid[c] = ProviderID(ServerUUID(pid[c]))
    BY <1>3, UUIDType DEF SweepInv, LeaseInv
  <2> QED
    BY <2>2, <2>3 DEF SweepInv
<1>8. ASSUME NEW s \in Servers, DetailsFailed(s)
      PROVE  /\ \A c \in gc'.claims : pid[c] # Nil
             /\ gc'.pc \in {"details", "sweep"} =>
                   \A c \in gc'.claims :
                      \/ ServerUUID(pid[c]) \in gc'.todo \cup gc'.skipped
                      \/ pid[c] \in gc'.listed
                      \/ server[ServerUUID(pid[c])] = "deleted"
             /\ gc'.pc = "sweep" => gc'.todo = {}
  <2>1. /\ gc'.claims = gc.claims /\ gc'.listed = gc.listed
        /\ gc'.pc = "details" /\ gc.pc = "details"
        /\ gc'.todo = gc.todo \ {s} /\ gc'.skipped = gc.skipped \cup {s}
    BY <1>3, <1>8 DEF DetailsFailed
  <2> QED
    BY <1>3, <2>1 DEF SweepInv
<1>9. CASE ListReturns
  BY <1>3, <1>9 DEF ListReturns, SweepInv
<1>10. CASE \E c \in Claims : SweepClaim(c)
  BY <1>3, <1>10 DEF SweepClaim, SweepInv
<1>11. CASE SweepEnd
  BY <1>11 DEF SweepEnd, GCIdle
<1> QED
  BY <1>4, <1>5, <1>6, <1>7, <1>8, <1>9, <1>10, <1>11 DEF SweepStep

LEMMA SweepInvariant == Spec => []SweepInv
<1>1. Init => SweepInv
  BY DEF Init, SweepInv, GCIdle
<1>2. LeaseInv /\ SweepInv /\ [Next]_vars => SweepInv'
  BY LaunchSweep, FinalizeSweep, EnvironmentSweep, RoundSweep DEF Next
<1> QED
  BY <1>1, <1>2, LeaseInvariant, PTL DEF Spec

(* Garbage collection never deletes the claim of a server that List could   *)
(* read: not for its labels, its state or the moment it was made.           *)
THEOREM SweepIsSafe == Spec => SweepSparesListedServers
<1>1. ASSUME LeaseInv, SweepInv,
             NEW c \in Claims, SweepClaim(c), phase[c] = "active", phase'[c] = "deleting"
      PROVE  \/ ~Exists(ServerUUID(pid[c]))
             \/ ServerUUID(pid[c]) \in gc.skipped
  <2>1. gc.pc = "sweep" /\ c \in gc.claims /\ gc.todo = {}
    BY <1>1 DEF SweepClaim, SweepInv
  <2>2. pid[c] \notin gc.listed
    BY <1>1 DEF SweepClaim, LeaseInv, TypeOK
  <2> QED
    BY <1>1, <2>1, <2>2 DEF SweepInv, Exists
<1>2. LeaseInv /\ SweepInv =>
        [\A c \in Claims :
            SweepClaim(c) /\ phase[c] = "active" /\ phase'[c] = "deleting" =>
                \/ ~Exists(ServerUUID(pid[c]))
                \/ ServerUUID(pid[c]) \in gc.skipped]_vars
  BY <1>1
<1> QED
  BY <1>2, LeaseInvariant, SweepInvariant, PTL DEF SweepSparesListedServers

-----------------------------------------------------------------------------
(* Lost servers                                                             *)

(* The cardinalities that LeakInv compares are numbers. *)
LEMMA LeakNumbers ==
    ASSUME TypeOK
    PROVE  /\ IsFiniteSet(Unsaved) /\ Cardinality(Unsaved) \in Nat
           /\ Cardinality(Claims) \in Nat
           /\ faults \in Nat /\ crashes \in Nat /\ crashes * Cardinality(Claims) \in Nat
           /\ IsFiniteSet(lost) => Cardinality(lost) \in Nat
<1>1. IsFiniteSet(Unsaved)
  BY ClaimsAssumption, FS_Subset DEF Unsaved
<1>2. /\ Cardinality(Unsaved) \in Nat /\ Cardinality(Claims) \in Nat
      /\ IsFiniteSet(lost) => Cardinality(lost) \in Nat
  BY <1>1, ClaimsAssumption, FS_CardinalityType
<1>3. faults \in Nat /\ crashes \in Nat
  BY BoundsAssumption DEF TypeOK
<1>4. crashes * Cardinality(Claims) \in Nat
  BY <1>2, <1>3
<1> QED
  BY <1>1, <1>2, <1>3, <1>4

(* The product, out of the way of the other sums. *)
Paid == crashes * Cardinality(Claims)

(* A step that loses no server, and leaves none in the launch cache only. *)
LEMMA LeakFrame ==
    ASSUME TypeOK, TypeOK', LeakInv, UNCHANGED <<lost, crashes>>, faults' >= faults,
           Unsaved' \subseteq Unsaved
    PROVE  LeakInv'
<1>1. Cardinality(Unsaved') <= Cardinality(Unsaved) /\ Cardinality(Unsaved') \in Nat
  BY LeakNumbers, FS_Subset, FS_CardinalityType
<1>2. Paid' = Paid /\ Paid \in Nat
  BY LeakNumbers DEF Paid
<1>3. IsFiniteSet(lost) /\ Cardinality(lost) + Cardinality(Unsaved) <= faults + Paid
  BY DEF LeakInv, Paid
<1>4. faults \in Nat /\ faults' \in Nat /\ Cardinality(lost) \in Nat /\ Cardinality(Unsaved) \in Nat
  BY <1>3, LeakNumbers, BoundsAssumption DEF TypeOK
<1>5. Cardinality(lost') + Cardinality(Unsaved') <= faults' + Paid'
  BY <1>1, <1>2, <1>3, <1>4
<1> QED
  BY <1>3, <1>5 DEF LeakInv, Paid

(* A failed call: one more server is lost, or is in the launch cache only. *)
LEMMA LeakPaidByFault ==
    ASSUME TypeOK, TypeOK', LeakInv, UNCHANGED crashes, faults' = faults + 1, NEW s, NEW c,
           \/ lost' = lost \cup {s} /\ Unsaved' = Unsaved
           \/ lost' = lost /\ Unsaved' = Unsaved \cup {c}
    PROVE  LeakInv'
<1>1. /\ IsFiniteSet(lost') /\ Cardinality(lost') \in Nat /\ Cardinality(Unsaved') \in Nat
      /\ Cardinality(lost') + Cardinality(Unsaved') <= Cardinality(lost) + Cardinality(Unsaved) + 1
  <2>1. IsFiniteSet(lost) /\ Cardinality(lost) \in Nat /\ Cardinality(Unsaved) \in Nat
    BY LeakNumbers DEF LeakInv
  <2>2. CASE lost' = lost \cup {s} /\ Unsaved' = Unsaved
    <3>1. /\ IsFiniteSet(lost \cup {s})
          /\ Cardinality(lost \cup {s}) \in {Cardinality(lost), Cardinality(lost) + 1}
      BY <2>1, FS_AddElement
    <3> QED BY <2>1, <2>2, <3>1
  <2>3. CASE lost' = lost /\ Unsaved' = Unsaved \cup {c}
    <3>1. Cardinality(Unsaved \cup {c}) \in {Cardinality(Unsaved), Cardinality(Unsaved) + 1}
      BY LeakNumbers, FS_AddElement
    <3> QED BY <2>1, <2>3, <3>1
  <2> QED BY <2>2, <2>3
<1>2. Paid' = Paid /\ Paid \in Nat
  BY LeakNumbers DEF Paid
<1>3. Cardinality(lost) + Cardinality(Unsaved) <= faults + Paid
  BY DEF LeakInv, Paid
<1>4. faults \in Nat /\ Cardinality(lost) \in Nat /\ Cardinality(Unsaved) \in Nat
  BY LeakNumbers DEF LeakInv
<1>5. Cardinality(lost') + Cardinality(Unsaved') <= faults' + Paid'
  BY <1>1, <1>2, <1>3, <1>4
<1> QED
  BY <1>1, <1>5 DEF LeakInv, Paid

(* LeakInv: the steps of a launch. *)
LEMMA LaunchLeak ==
    ASSUME LeaseInv, TypeOK', LeakInv, NEW c \in Claims, LaunchStep(c)
    PROVE  LeakInv'
<1>0. faults \in Nat
  BY LeakNumbers DEF LeaseInv
<1> USE DEF LeaseInv, boundVars, Goto, Fault
<1>1. CASE PersistFailed(c)
  <2>1. Unsaved' = Unsaved \cup {c}
    BY <1>1 DEF PersistFailed, Unsaved, TypeOK, WorkerInv
  <2>2. UNCHANGED <<lost, crashes>> /\ faults' = faults + 1
    BY <1>1 DEF PersistFailed
  <2> QED BY <2>1, <2>2, LeakPaidByFault
<1>2. ASSUME NEW s \in Servers, NEW user \in UserLabels, CreateAnswerLost(c, s, user)
      PROVE  LeakInv'
  <2>1. Unsaved' = Unsaved
    BY <1>2 DEF CreateAnswerLost, Unsaved, TypeOK, WorkerInv
  <2>2. lost' = lost \cup {s} /\ UNCHANGED crashes /\ faults' = faults + 1
    BY <1>2 DEF CreateAnswerLost
  <2> QED BY <2>1, <2>2, LeakPaidByFault
<1>3. ASSUME NEW s \in Servers, NEW user \in UserLabels, CreateServer(c, s, user)
      PROVE  LeakInv'
  <2>1. Unsaved' \subseteq Unsaved
    BY <1>3 DEF CreateServer, Unsaved, TypeOK
  <2> QED BY <1>0, <1>3, <2>1, LeakFrame DEF CreateServer
<1>4. CASE CreateRejected(c) \/ CreateAbort(c) \/ CreateBegin(c) \/ LaunchFromCache(c)
  <2>1. Unsaved' \subseteq Unsaved
    BY <1>4 DEF CreateRejected, CreateAbort, CreateBegin, LaunchFromCache, Unsaved, TypeOK, WorkerInv
  <2> QED BY <1>0, <1>4, <2>1, LeakFrame
          DEF CreateRejected, CreateAbort, CreateBegin, LaunchFromCache
<1>5. CASE PersistLaunch(c)
  <2>1. Unsaved' \subseteq Unsaved
    BY <1>5 DEF PersistLaunch, Unsaved, TypeOK
  <2> QED BY <1>0, <1>5, <2>1, LeakFrame DEF PersistLaunch
<1> QED
  BY <1>1, <1>2, <1>3, <1>4, <1>5 DEF LaunchStep

(* The launch cache lets go of a server, which is lost: a failed write has  *)
(* paid for it already.                                                     *)
LEMMA CachedLost ==
    ASSUME LeaseInv, LeakInv, NEW c \in Unsaved, Unsaved' = Unsaved \ {c},
           lost' = lost \cup {mem[c]}, UNCHANGED <<faults, crashes>>
    PROVE  LeakInv'
<1>1. faults \in Nat /\ Paid' = Paid /\ Paid \in Nat
  BY LeakNumbers DEF Paid, LeaseInv
<1>2. /\ IsFiniteSet(lost) /\ Cardinality(lost) \in Nat
      /\ IsFiniteSet(Unsaved) /\ Cardinality(Unsaved) \in Nat
  BY LeakNumbers DEF LeakInv, LeaseInv
<1>3. Cardinality(Unsaved') = Cardinality(Unsaved) - 1
  BY <1>2, FS_RemoveElement
<1>4. /\ IsFiniteSet(lost')
      /\ Cardinality(lost') \in {Cardinality(lost), Cardinality(lost) + 1}
  BY <1>2, FS_AddElement
<1>5. Cardinality(lost) + Cardinality(Unsaved) <= faults + Paid
  BY DEF LeakInv, Paid
<1>6. Cardinality(lost') + Cardinality(Unsaved') <= faults' + Paid'
  BY <1>1, <1>2, <1>3, <1>4, <1>5
<1> QED
  BY <1>4, <1>6 DEF LeakInv, Paid

(* A claim is deleted while its server is in the launch cache only. *)
LEMMA UnlaunchedLeak ==
    ASSUME LeaseInv, TypeOK', LeakInv, NEW c \in Claims, FinalizeUnlaunched(c)
    PROVE  LeakInv'
<1> USE DEF LeaseInv, boundVars
<1>0. faults \in Nat
  BY LeakNumbers
<1>1. CASE mem[c] = Nil
  <2>1. Unsaved' = Unsaved
    BY <1>1 DEF FinalizeUnlaunched, Unsaved, TypeOK, Release, Goto
  <2>2. UNCHANGED <<lost, faults, crashes>>
    BY <1>1 DEF FinalizeUnlaunched
  <2> QED BY <1>0, <2>1, <2>2, LeakFrame
<1>2. CASE mem[c] # Nil
  <2>1. c \in Unsaved /\ Unsaved' = Unsaved \ {c}
    BY <1>2 DEF FinalizeUnlaunched, Unsaved, TypeOK, Release, Goto
  <2>2. lost' = lost \cup {mem[c]} /\ UNCHANGED <<faults, crashes>>
    BY <1>2 DEF FinalizeUnlaunched
  <2> QED BY <2>1, <2>2, CachedLost
<1> QED
  BY <1>1, <1>2

(* LeakInv: the other steps of a finalization lose nothing. *)
LEMMA FinalizeLeak ==
    ASSUME LeaseInv, TypeOK', LeakInv, NEW c \in Claims, FinalizeStep(c)
    PROVE  LeakInv'
<1>1. CASE FinalizeUnlaunched(c)
  BY <1>1, UnlaunchedLeak
<1>2. CASE ~FinalizeUnlaunched(c)
  <2>1. UNCHANGED <<lost, crashes, mem>> /\ (UNCHANGED faults \/ faults' = faults + 1)
    BY <1>2 DEF FinalizeStep, DeleteBegin, StopNotFound, StopServer, StopIllegal,
       StopFailed, WaitForStop, WaitFailed, DeleteNotFound, DeleteServer, DeleteFailed,
       MarkTerminating, GetReturnsNotFound, NotFound, boundVars, Fault, NoFault
  <2>2. \A d \in Claims : d # c => pc'[d] = pc[d]
    BY <1>2 DEF FinalizeStep, DeleteBegin, StopNotFound, StopServer, StopIllegal,
       StopFailed, WaitForStop, WaitFailed, DeleteNotFound, DeleteServer, DeleteFailed,
       MarkTerminating, GetReturnsNotFound, NotFound, Release, Goto, LeaseInv, TypeOK
  <2>3. mem[c] = Nil
    BY <1>2 DEF FinalizeStep, DeleteBegin, StopNotFound, StopServer, StopIllegal,
       StopFailed, WaitForStop, WaitFailed, DeleteNotFound, DeleteServer, DeleteFailed,
       MarkTerminating, GetReturnsNotFound, LeaseInv, WorkerInv
  <2>4. Unsaved' \subseteq Unsaved
    BY <2>1, <2>2, <2>3 DEF Unsaved
  <2>5. faults' >= faults
    BY <2>1, LeakNumbers DEF LeaseInv
  <2> QED BY <2>1, <2>4, <2>5, LeakFrame DEF LeaseInv
<1> QED
  BY <1>1, <1>2

(* A crash loses at most what the launch cache holds: one server for each   *)
(* claim.                                                                   *)
LEMMA CrashLeak ==
    ASSUME LeaseInv, TypeOK', LeakInv, Crash
    PROVE  LeakInv'
<1> DEFINE n == Cardinality(Claims)
           cached == {mem[c] : c \in Claims}
           gone == cached \ {Nil}
<1>1. IsFiniteSet(cached) /\ Cardinality(cached) <= n
  <2>1. mem \in Surjection(Claims, cached)
    BY DEF Surjection, LeaseInv, TypeOK
  <2> QED BY <2>1, ClaimsAssumption, FS_Surjection
<1>2. IsFiniteSet(gone) /\ Cardinality(gone) <= Cardinality(cached)
  BY <1>1, FS_Subset
<1>3. Unsaved' = {} /\ Cardinality({}) = 0
  BY FS_EmptySet DEF Crash, Unsaved
<1>4. lost' = lost \cup gone /\ UNCHANGED faults /\ crashes' = crashes + 1
  BY DEF Crash
<1>5. /\ n \in Nat /\ faults \in Nat /\ crashes \in Nat /\ Paid \in Nat
      /\ IsFiniteSet(lost) /\ Cardinality(lost) \in Nat /\ Cardinality(Unsaved) \in Nat
      /\ Cardinality(gone) \in Nat /\ Cardinality(cached) \in Nat
  BY <1>1, <1>2, LeakNumbers, FS_CardinalityType DEF LeaseInv, LeakInv, Paid
<1> HIDE DEF gone, cached
<1>6. /\ IsFiniteSet(lost') /\ Cardinality(lost') \in Nat
      /\ Cardinality(lost') <= Cardinality(lost) + Cardinality(gone)
  <2>1. /\ IsFiniteSet(lost \cup gone)
        /\ Cardinality(lost \cup gone) = Cardinality(lost) + Cardinality(gone) - Cardinality(lost \cap gone)
    BY <1>2, <1>5, FS_Union
  <2>2. Cardinality(lost \cap gone) \in Nat /\ Cardinality(lost \cup gone) \in Nat
    BY <1>5, <2>1, FS_Subset, FS_CardinalityType
  <2> QED BY <1>4, <1>5, <2>1, <2>2
<1>7. Paid' = Paid + n
  BY <1>4, <1>5 DEF Paid
<1> HIDE DEF n
<1>8. Cardinality(lost) + Cardinality(Unsaved) <= faults + Paid
  BY DEF LeakInv, Paid
<1>9. Cardinality(lost') + Cardinality(Unsaved') <= faults' + Paid'
  BY <1>1, <1>2, <1>3, <1>4, <1>5, <1>6, <1>7, <1>8
<1> QED
  BY <1>6, <1>9 DEF LeakInv, Paid

LEMMA LeakInvNext ==
    ASSUME LeaseInv, LeaseInv', LeakInv, [Next]_vars
    PROVE  LeakInv'
<1> USE DEF LeaseInv
<1>0. faults \in Nat
  BY LeakNumbers
<1>1. ASSUME NEW c \in Claims, LaunchStep(c) \/ FinalizeStep(c) PROVE LeakInv'
  BY <1>1, LaunchLeak, FinalizeLeak
<1>2. ASSUME NEW c \in Claims, ClusterStep(c) PROVE LeakInv'
  <2>1. CASE DeleteClaim(c) \/ Register(c) \/ HeartbeatLost(c)
    <3>1. UNCHANGED <<lost, faults, crashes, mem, pc>>
      BY <2>1 DEF DeleteClaim, Register, HeartbeatLost, boundVars
    <3> QED BY <1>0, <3>1, LeakFrame DEF Unsaved
  <2>2. CASE LaunchExpires(c)
    <3>1. /\ c \in Unsaved /\ Unsaved' = Unsaved \ {c}
          /\ lost' = lost \cup {mem[c]} /\ UNCHANGED <<faults, crashes>>
      BY <2>2 DEF LaunchExpires, Unsaved, TypeOK, boundVars
    <3> QED BY <3>1, CachedLost
  <2> QED BY <1>2, <2>1, <2>2 DEF ClusterStep
<1>3. ASSUME NEW s \in Servers, CloudStep(s) PROVE LeakInv'
  <2>1. UNCHANGED <<lost, faults, crashes, mem, pc>>
    BY <1>3 DEF CloudStep, Boot, PowerOff, Vanish, Halt, boundVars
  <2> QED BY <1>0, <2>1, LeakFrame DEF Unsaved
<1>4. CASE SweepStep
  <2>1. UNCHANGED <<lost, mem, pc>>
    BY <1>4, SweepFrame
  <2>2. UNCHANGED crashes /\ (UNCHANGED faults \/ faults' = faults + 1)
    BY <1>4 DEF SweepStep, SweepBegin, ListServers, ListFailed, ServerDetails, DetailsFailed,
       ListReturns, SweepClaim, SweepEnd, boundVars, Fault, NoFault
  <2> QED BY <1>0, <2>1, <2>2, LeakFrame DEF Unsaved
<1>5. CASE Crash
  BY <1>5, CrashLeak
<1>6. CASE UNCHANGED vars
  BY <1>0, <1>6, LeakFrame DEF vars, Unsaved
<1> QED
  BY <1>1, <1>2, <1>3, <1>4, <1>5, <1>6 DEF Next

(* A server is lost only to a failed call or to a crash, and a crash costs  *)
(* at most one server for each claim, however many launches, retries and    *)
(* deletions there are.                                                     *)
THEOREM LeaksAreAccountedForHolds == Spec => []LeaksAreAccountedFor
<1>1. Init => LeakInv
  <2> SUFFICES ASSUME Init PROVE LeakInv
    OBVIOUS
  <2>1. lost = {} /\ Unsaved = {} /\ faults = 0 /\ crashes = 0
    BY DEF Init, Unsaved
  <2>2. IsFiniteSet({}) /\ Cardinality({}) = 0 /\ Cardinality(Claims) \in Nat
    BY FS_EmptySet, ClaimsAssumption, FS_CardinalityType
  <2> QED BY <2>1, <2>2 DEF LeakInv
<1>2. LeaseInv /\ LeaseInv' /\ LeakInv /\ [Next]_vars => LeakInv'
  BY LeakInvNext
<1>3. LeaseInv /\ LeakInv => LeaksAreAccountedFor
  <2> SUFFICES ASSUME LeaseInv, LeakInv PROVE LeaksAreAccountedFor
    OBVIOUS
  <2>1. /\ Cardinality(lost) \in Nat /\ Cardinality(Unsaved) \in Nat
        /\ faults \in Nat /\ Paid \in Nat
    BY LeakNumbers DEF LeaseInv, LeakInv, Paid
  <2>2. Cardinality(lost) + Cardinality(Unsaved) <= faults + Paid
    BY DEF LeakInv, Paid
  <2>3. Cardinality(lost) <= faults + Paid
    BY <2>1, <2>2
  <2> QED BY <2>3 DEF LeaksAreAccountedFor, Paid
<1> QED
  BY <1>1, <1>2, <1>3, LeaseInvariant, PTL DEF Spec

-----------------------------------------------------------------------------
(* Nothing is waited for in vain                                            *)

Down == {"stopping", "stopped", "deleted"}
StaysDown == \A s \in Servers : server[s] \in Down => server'[s] \in Down
WaitOK(c) == pc[c] = "wait" => server[ServerUUID(pid[c])] \in Down

(* Nothing starts a server again. *)
LEMMA LaunchStaysDown ==
    ASSUME LeaseInv, NEW c \in Claims, LaunchStep(c)
    PROVE  StaysDown /\ \A d \in Claims : pc'[d] = "wait" => pc[d] = "wait"
<1> USE DEF LeaseInv, TypeOK, StaysDown, Down, cloudVars, SetServer, Goto
<1>1. ASSUME NEW s \in Servers, NEW user \in UserLabels,
             CreateServer(c, s, user) \/ CreateAnswerLost(c, s, user)
      PROVE  StaysDown /\ \A d \in Claims : pc'[d] = "wait" => pc[d] = "wait"
  BY <1>1 DEF CreateServer, CreateAnswerLost, NewServer
<1>2. CASE \/ CreateBegin(c) \/ CreateAbort(c) \/ CreateRejected(c) \/ PersistLaunch(c)
           \/ PersistFailed(c) \/ LaunchFromCache(c)
  BY <1>2 DEF CreateBegin, CreateAbort, CreateRejected, PersistLaunch, PersistFailed, LaunchFromCache
<1> QED
  BY <1>1, <1>2 DEF LaunchStep

LEMMA FinalizeStaysDown ==
    ASSUME LeaseInv, NEW c \in Claims, FinalizeStep(c)
    PROVE  /\ StaysDown
           /\ \A d \in Claims : pc'[d] = "wait" /\ ~StopServer(c) => pc[d] = "wait"
<1> USE DEF LeaseInv, TypeOK, StaysDown, Down, cloudVars, SetServer, Goto, Exists, Release, NotFound
<1>1. CASE StopServer(c)
  BY <1>1 DEF StopServer
<1>2. CASE StopFailed(c)
  BY <1>2 DEF StopFailed
<1>3. CASE DeleteServer(c)
  BY <1>3 DEF DeleteServer
<1>4. CASE DeleteFailed(c)
  BY <1>4 DEF DeleteFailed
<1>5. CASE \/ FinalizeUnlaunched(c) \/ DeleteBegin(c) \/ StopNotFound(c) \/ StopIllegal(c)
           \/ WaitForStop(c) \/ WaitFailed(c) \/ DeleteNotFound(c) \/ MarkTerminating(c)
           \/ GetReturnsNotFound(c)
  BY <1>5 DEF FinalizeUnlaunched, DeleteBegin, StopNotFound, StopIllegal, WaitForStop,
     WaitFailed, DeleteNotFound, MarkTerminating, GetReturnsNotFound
<1> QED
  BY <1>1, <1>2, <1>3, <1>4, <1>5 DEF FinalizeStep

(* A worker that waited and still does waits for the same server. *)
LEMMA StillWaiting ==
    ASSUME LeaseInv, Steady, StaysDown, NEW c \in Claims, WaitOK(c),
           pc'[c] = "wait" => pc[c] = "wait"
    PROVE  WaitOK(c)'
<1> SUFFICES ASSUME pc'[c] = "wait" PROVE server'[ServerUUID(pid'[c])] \in Down
  BY DEF WaitOK
<1>1. pid[c] # Nil /\ pid'[c] = pid[c]
  BY DEF LeaseInv, WorkerInv, Steady
<1>2. ServerUUID(pid[c]) \in Servers
  BY <1>1, UUIDType DEF LeaseInv
<1> QED
  BY <1>1, <1>2 DEF WaitOK, StaysDown

LEMMA WaitNext ==
    ASSUME LeaseInv, \A c \in Claims : WaitOK(c), [Next]_vars
    PROVE  \A c \in Claims : WaitOK(c)'
<1> USE DEF LeaseInv, claimVars, cloudVars
<1>1. ASSUME NEW c \in Claims, LaunchStep(c), NEW d \in Claims PROVE WaitOK(d)'
  BY <1>1, LaunchSteady, LaunchStaysDown, StillWaiting
<1>2. ASSUME NEW c \in Claims, FinalizeStep(c), NEW d \in Claims PROVE WaitOK(d)'
  <2>1. CASE pc'[d] = "wait" => pc[d] = "wait"
    BY <1>2, <2>1, FinalizeSteady, FinalizeStaysDown, StillWaiting
  <2>2. CASE StopServer(c)
    <3>1. CASE d = c
      BY <2>2, <3>1 DEF StopServer, SetServer, TypeOK, WaitOK, Down, Exists
    <3>2. CASE d # c
      <4>1. pc'[d] = pc[d]
        BY <2>2, <3>2 DEF StopServer, Goto, TypeOK
      <4> QED BY <2>1, <4>1
    <3> QED BY <3>1, <3>2
  <2> QED BY <1>2, <2>1, <2>2, FinalizeStaysDown
<1>3. ASSUME NEW c \in Claims, ClusterStep(c), NEW d \in Claims PROVE WaitOK(d)'
  <2>1. UNCHANGED <<pid, pc, server>>
    BY <1>3 DEF ClusterStep, DeleteClaim, LaunchExpires, Register, HeartbeatLost
  <2> QED BY <2>1 DEF WaitOK
<1>4. ASSUME NEW s \in Servers, CloudStep(s), NEW d \in Claims PROVE WaitOK(d)'
  <2>1. UNCHANGED <<pid, pc, labels>>
    BY <1>4 DEF CloudStep, Boot, PowerOff, Vanish, Halt
  <2>2. Steady /\ StaysDown
    BY <1>4, <2>1 DEF CloudStep, Boot, PowerOff, Vanish, Halt, SetServer, TypeOK, Steady, StaysDown, Down
  <2> QED BY <2>1, <2>2, StillWaiting
<1>5. CASE SweepStep
  BY <1>5, SweepFrame DEF WaitOK
<1>6. CASE Crash
  BY <1>6 DEF Crash, WaitOK
<1>7. CASE UNCHANGED vars
  BY <1>7 DEF vars, WaitOK
<1> QED
  BY <1>1, <1>2, <1>3, <1>4, <1>5, <1>6, <1>7 DEF Next

(* Neither WaitForStop nor Karpenter's wait for "not found" is in vain, for *)
(* any number of claims and servers, and whoever else acts on the servers.  *)
THEOREM NeverStuckHolds == Spec => []NeverStuck
<1> DEFINE Waits == \A c \in Claims : WaitOK(c)
<1>1. Init => Waits
  BY DEF Init, WaitOK
<1>2. LeaseInv /\ Waits /\ [Next]_vars => Waits'
  BY WaitNext
<1>3. LeaseInv /\ Waits => NeverStuck
  BY DEF LeaseInv, WorkerInv, WaitOK, Down, NeverStuck, Exists
<1> HIDE DEF Waits
<1> QED
  BY <1>1, <1>2, <1>3, LeaseInvariant, PTL DEF Spec
=============================================================================
