------------------------ MODULE LeaseRefinement_proofs ------------------------
(***************************************************************************)
(* ServerLifecycle implements MachineLease. Most of its steps leave the    *)
(* lease as it is; each of the others is one step of MachineLease, given   *)
(* the invariant LeaseInv: that Create runs only for a claim that holds    *)
(* nothing, and that a claim is released only when its server is gone.     *)
(***************************************************************************)
EXTENDS ServerLifecycle_proofs

USE DEF LiveStates

(* The steps that MachineLease does not see. *)
LEMMA SameLease ==
    ASSUME UNCHANGED <<pid, mem, lost>>,
           \A c \in Claims : phase'[c] = "gone" <=> phase[c] = "gone",
           \A s \in Servers : server'[s] = "none" <=> server[s] = "none",
           \A s \in Servers : server'[s] \in LiveStates <=> server[s] \in LiveStates
    PROVE  UNCHANGED Lease!vars
<1>1. UNCHANGED [c \in Claims |-> Held(c)]
  BY DEF Held
<1>2. UNCHANGED {c \in Claims : phase[c] # "gone"}
  OBVIOUS
<1>3. UNCHANGED {s \in Servers : server[s] # "none"}
  OBVIOUS
<1>4. UNCHANGED {s \in Servers : server[s] \in LiveStates}
  OBVIOUS
<1> QED
  BY <1>1, <1>2, <1>3, <1>4 DEF Lease!vars

(* The end of a server's life. *)
LEMMA ServerDestroyed ==
    ASSUME TypeOK, UNCHANGED <<phase, pid, mem, lost>>, NEW s \in Servers,
           server[s] \in LiveStates, server' = [server EXCEPT ![s] = "deleted"]
    PROVE  Lease!Destroy(s)
<1>1. UNCHANGED [c \in Claims |-> Held(c)]
  BY DEF Held
<1>2. UNCHANGED {t \in Servers : server[t] # "none"}
  BY DEF TypeOK
<1>3. {t \in Servers : server'[t] \in LiveStates} = {t \in Servers : server[t] \in LiveStates} \ {s}
  BY DEF TypeOK
<1> QED
  BY <1>1, <1>2, <1>3 DEF Lease!Destroy

(* A claim is let go of. *)
LEMMA ClaimClosed ==
    ASSUME TypeOK, UNCHANGED <<pid, mem, server, lost>>, NEW c \in Claims,
           phase[c] # "gone", phase' = [phase EXCEPT ![c] = "gone"],
           pid[c] # Nil, server[ServerUUID(pid[c])] \notin LiveStates
    PROVE  Lease!Close(c)
<1>1. UNCHANGED [d \in Claims |-> Held(d)]
  BY DEF Held
<1>2. {d \in Claims : phase'[d] # "gone"} = {d \in Claims : phase[d] # "gone"} \ {c}
  BY DEF TypeOK
<1>3. [d \in Claims |-> Held(d)][c] \notin {s \in Servers : server[s] \in LiveStates}
  BY DEF Held
<1> QED
  BY <1>1, <1>2, <1>3 DEF Lease!Close

(* A server is made. *)
LEMMA ServerMade ==
    ASSUME TypeOK, NEW s \in Servers, server[s] = "none",
           server' = [server EXCEPT ![s] = "maintenance"]
    PROVE  Lease!Make(s)
<1>1. {t \in Servers : server'[t] \in LiveStates} = {t \in Servers : server[t] \in LiveStates} \cup {s}
  BY DEF TypeOK
<1>2. {t \in Servers : server'[t] # "none"} = {t \in Servers : server[t] # "none"} \cup {s}
  BY DEF TypeOK
<1> QED
  BY <1>1, <1>2 DEF Lease!Make

(* The steps of a launch. *)
LEMMA LaunchLease ==
    ASSUME LeaseInv, NEW c \in Claims, LaunchStep(c)
    PROVE  Lease!Next \/ UNCHANGED Lease!vars
<1> USE DEF LeaseInv, claimVars, cloudVars
<1>1. CASE \/ CreateBegin(c) \/ CreateAbort(c) \/ CreateRejected(c) \/ PersistFailed(c)
           \/ LaunchFromCache(c)
  <2>1. /\ UNCHANGED <<pid, mem, lost, server>>
        /\ UNCHANGED phase \/ MarkDeleting(c)
    BY <1>1 DEF CreateBegin, CreateAbort, CreateRejected, PersistFailed, LaunchFromCache
  <2>2. \A d \in Claims : phase'[d] = "gone" <=> phase[d] = "gone"
    BY <2>1 DEF MarkDeleting, TypeOK
  <2> QED
    BY <2>1, <2>2, SameLease
<1>2. CASE PersistLaunch(c)
  <2>1. /\ ServerUUID(ProviderID(mem[c])) = mem[c] /\ ProviderID(mem[c]) # Nil
        /\ mem[c] # Nil /\ pid[c] = Nil /\ phase[c] # "gone"
    BY <1>2, NilAssumption DEF PersistLaunch, ProviderID, ServerUUID, ProviderIDs, WorkerInv, TypeOK
  <2>2. /\ pid' = [pid EXCEPT ![c] = ProviderID(mem[c])] /\ mem' = [mem EXCEPT ![c] = Nil]
        /\ UNCHANGED <<phase, server, lost>>
    BY <1>2 DEF PersistLaunch
  <2>3. \A d \in Claims : Held(d)' = Held(d)
    BY <2>1, <2>2 DEF Held, TypeOK
  <2>4. UNCHANGED [d \in Claims |-> Held(d)]
    BY <2>3
  <2>5. {d \in Claims : pid'[d] # Nil} = {d \in Claims : pid[d] # Nil} \cup {c}
    BY <2>1, <2>2 DEF TypeOK
  <2>6. Held(c) # Nil
    BY <2>1 DEF Held
  <2>7. Lease!Record(c)
    BY <2>1, <2>2, <2>4, <2>5, <2>6 DEF Lease!Record
  <2> QED
    BY <2>7 DEF Lease!Next
<1>3. ASSUME NEW s \in Servers, NEW user \in UserLabels, CreateServer(c, s, user)
      PROVE  Lease!Next
  <2>1. /\ pid[c] = Nil /\ mem[c] = Nil /\ phase[c] # "gone"
        /\ server[s] = "none" /\ server' = [server EXCEPT ![s] = "maintenance"]
        /\ mem' = [mem EXCEPT ![c] = s] /\ UNCHANGED <<phase, pid, lost>>
    BY <1>3 DEF CreateServer, NewServer, SetServer, WorkerInv
  <2>2. Lease!Make(s)
    BY <2>1, ServerMade
  <2>3. [d \in Claims |-> Held(d)]' = [[d \in Claims |-> Held(d)] EXCEPT ![c] = s]
    <3>1. \A d \in Claims : Held(d)' = IF d = c THEN s ELSE Held(d)
      BY <2>1 DEF Held, TypeOK
    <3> QED BY <3>1
  <2>4. Held(c) = Nil
    BY <2>1 DEF Held
  <2>5. Lease!Acquire(c, s)
    BY <2>1, <2>2, <2>3, <2>4 DEF Lease!Acquire
  <2> QED
    BY <2>5 DEF Lease!Next
<1>4. ASSUME NEW s \in Servers, NEW user \in UserLabels, CreateAnswerLost(c, s, user)
      PROVE  Lease!Next
  <2>1. /\ server[s] = "none" /\ server' = [server EXCEPT ![s] = "maintenance"]
        /\ lost' = lost \cup {s} /\ UNCHANGED <<pid, mem>> /\ MarkDeleting(c)
    BY <1>4 DEF CreateAnswerLost, NewServer, SetServer
  <2>2. Lease!Make(s)
    BY <2>1, ServerMade
  <2>3. UNCHANGED [d \in Claims |-> Held(d)]
    BY <2>1 DEF Held
  <2>4. UNCHANGED {d \in Claims : phase[d] # "gone"}
    BY <2>1 DEF MarkDeleting, TypeOK
  <2>5. Lease!MakeOrphan(s)
    BY <2>1, <2>2, <2>3, <2>4 DEF Lease!MakeOrphan
  <2> QED
    BY <2>5 DEF Lease!Next
<1> QED
  BY <1>1, <1>2, <1>3, <1>4 DEF LaunchStep

(* The steps of a finalization. *)
LEMMA FinalizeLease ==
    ASSUME LeaseInv, NEW c \in Claims, FinalizeStep(c)
    PROVE  Lease!Next \/ UNCHANGED Lease!vars
<1> USE DEF LeaseInv, claimVars, cloudVars
<1>1. CASE \/ DeleteBegin(c) \/ StopIllegal(c) \/ WaitForStop(c) \/ WaitFailed(c)
           \/ MarkTerminating(c)
  <2>1. UNCHANGED <<phase, pid, mem, lost, server>>
    BY <1>1 DEF DeleteBegin, StopIllegal, WaitForStop, WaitFailed, MarkTerminating
  <2> QED
    BY <2>1, SameLease
<1>2. CASE StopServer(c) \/ StopFailed(c)
  <2>1. /\ UNCHANGED <<phase, pid, mem, lost>>
        /\ \/ UNCHANGED server
           \/ LET u == ServerUUID(pid[c])
              IN  u \in Servers /\ server[u] = "started" /\ server' = [server EXCEPT ![u] = "stopping"]
    BY <1>2 DEF StopServer, StopFailed, SetServer, Exists
  <2>2. \A s \in Servers : /\ server'[s] = "none" <=> server[s] = "none"
                           /\ server'[s] \in LiveStates <=> server[s] \in LiveStates
    BY <2>1 DEF TypeOK
  <2> QED
    BY <2>1, <2>2, SameLease
<1>3. CASE DeleteServer(c) \/ DeleteFailed(c)
  <2>1. /\ UNCHANGED <<phase, pid, mem, lost>>
        /\ \/ UNCHANGED server
           \/ LET u == ServerUUID(pid[c])
              IN  u \in Servers /\ server[u] = "stopped" /\ server' = [server EXCEPT ![u] = "deleted"]
    BY <1>3 DEF DeleteServer, DeleteFailed, SetServer, Exists
  <2>2. CASE UNCHANGED server
    BY <2>1, <2>2, SameLease
  <2>3. CASE ~UNCHANGED server
    <3>1. PICK u \in Servers : server[u] = "stopped" /\ server' = [server EXCEPT ![u] = "deleted"]
      BY <2>1, <2>3
    <3>2. Lease!Destroy(u)
      BY <2>1, <3>1, ServerDestroyed
    <3> QED BY <3>2 DEF Lease!Next
  <2> QED BY <2>2, <2>3
<1>4. CASE StopNotFound(c) \/ DeleteNotFound(c) \/ GetReturnsNotFound(c)
  <2>1. pid[c] # Nil /\ phase[c] # "gone"
    BY <1>4 DEF StopNotFound, DeleteNotFound, GetReturnsNotFound, WorkerInv
  <2>2. ServerUUID(pid[c]) \in Servers
    BY <2>1, UUIDType
  <2>3. server[ServerUUID(pid[c])] \notin LiveStates
    BY <1>4, <2>2 DEF StopNotFound, DeleteNotFound, GetReturnsNotFound, NotFound, Exists, WorkerInv
  <2>4. UNCHANGED <<pid, mem, server, lost>> /\ phase' = [phase EXCEPT ![c] = "gone"]
    BY <1>4 DEF StopNotFound, DeleteNotFound, GetReturnsNotFound, NotFound, Release
  <2>5. Lease!Close(c)
    BY <2>1, <2>3, <2>4, ClaimClosed
  <2> QED BY <2>5 DEF Lease!Next
<1>5. CASE FinalizeUnlaunched(c)
  <2>1. /\ phase[c] # "gone" /\ phase' = [phase EXCEPT ![c] = "gone"] /\ pid[c] = Nil
        /\ mem' = [mem EXCEPT ![c] = Nil] /\ lost' = lost \cup ({mem[c]} \ {Nil})
        /\ UNCHANGED <<pid, server>>
    BY <1>5 DEF FinalizeUnlaunched, Release
  <2>2. {d \in Claims : phase'[d] # "gone"} = {d \in Claims : phase[d] # "gone"} \ {c}
    BY <2>1 DEF TypeOK
  <2>3. [d \in Claims |-> Held(d)]' = [[d \in Claims |-> Held(d)] EXCEPT ![c] = Nil]
    <3>1. \A d \in Claims : Held(d)' = IF d = c THEN Nil ELSE Held(d)
      BY <2>1 DEF Held, TypeOK
    <3> QED BY <3>1
  <2>4. Held(c) = mem[c]
    BY <2>1 DEF Held
  <2>5. Lease!Abandon(c)
    BY <2>1, <2>2, <2>3, <2>4 DEF Lease!Abandon
  <2> QED BY <2>5 DEF Lease!Next
<1> QED
  BY <1>1, <1>2, <1>3, <1>4, <1>5 DEF FinalizeStep

(* Garbage collection, the servers, the cluster and a crash. *)
LEMMA OtherLease ==
    ASSUME LeaseInv,
           \/ SweepStep
           \/ \E s \in Servers : CloudStep(s)
           \/ \E c \in Claims : ClusterStep(c)
           \/ Crash
           \/ UNCHANGED vars
    PROVE  Lease!Next \/ UNCHANGED Lease!vars
<1> USE DEF LeaseInv, claimVars, cloudVars
<1>1. CASE SweepStep
  <2>1. UNCHANGED <<pid, mem, lost, server>>
    BY <1>1, SweepFrame
  <2>2. \A d \in Claims : phase'[d] = "gone" <=> phase[d] = "gone"
    <3>1. UNCHANGED phase \/ \E c \in Claims : MarkDeleting(c)
      BY <1>1 DEF SweepStep, SweepBegin, ListServers, ListFailed, ServerDetails, DetailsFailed,
         ListReturns, SweepClaim, SweepEnd
    <3> QED BY <3>1 DEF MarkDeleting, TypeOK
  <2> QED BY <2>1, <2>2, SameLease
<1>2. ASSUME NEW s \in Servers, CloudStep(s) PROVE Lease!Next \/ UNCHANGED Lease!vars
  <2>1. UNCHANGED <<phase, pid, mem, lost>>
    BY <1>2 DEF CloudStep, Boot, PowerOff, Vanish, Halt
  <2>2. CASE Vanish(s)
    <3>1. Lease!Destroy(s)
      BY <2>1, <2>2, ServerDestroyed DEF Vanish, SetServer
    <3> QED BY <3>1 DEF Lease!Next
  <2>3. CASE Boot(s) \/ PowerOff(s) \/ Halt(s)
    <3>1. \A t \in Servers : /\ server'[t] = "none" <=> server[t] = "none"
                             /\ server'[t] \in LiveStates <=> server[t] \in LiveStates
      BY <2>3 DEF Boot, PowerOff, Halt, SetServer, TypeOK
    <3> QED BY <2>1, <3>1, SameLease
  <2> QED BY <1>2, <2>2, <2>3 DEF CloudStep
<1>3. ASSUME NEW c \in Claims, DeleteClaim(c) \/ Register(c) \/ HeartbeatLost(c)
      PROVE  UNCHANGED Lease!vars
  <2>1. UNCHANGED <<pid, mem, lost, server>>
    BY <1>3 DEF DeleteClaim, Register, HeartbeatLost
  <2>2. \A d \in Claims : phase'[d] = "gone" <=> phase[d] = "gone"
    BY <1>3 DEF DeleteClaim, Register, HeartbeatLost, MarkDeleting, TypeOK
  <2> QED BY <2>1, <2>2, SameLease
<1>6. ASSUME NEW c \in Claims, LaunchExpires(c) PROVE Lease!Next
  <2>1. /\ pid[c] = Nil /\ mem' = [mem EXCEPT ![c] = Nil] /\ lost' = lost \cup ({mem[c]} \ {Nil})
        /\ UNCHANGED <<phase, pid, server>>
    BY <1>6 DEF LaunchExpires, WorkerInv
  <2> DEFINE lapsed == {c}
             held == [d \in Claims |-> Held(d)]
  <2>2. held' = [d \in Claims |-> IF d \in lapsed THEN Nil ELSE held[d]]
    <3>1. \A d \in Claims : Held(d)' = IF d \in lapsed THEN Nil ELSE held[d]
      BY <2>1 DEF Held, TypeOK
    <3> QED BY <3>1
  <2>3. {held[d] : d \in lapsed} = {mem[c]}
    BY <2>1 DEF Held
  <2>4. lapsed \in SUBSET Claims /\ lapsed \cap {d \in Claims : pid[d] # Nil} = {}
    BY <2>1
  <2>5. Lease!Forget(lapsed)
    BY <2>1, <2>2, <2>3, <2>4 DEF Lease!Forget
  <2> HIDE DEF lapsed
  <2> QED BY <2>4, <2>5 DEF Lease!Next
<1>4. CASE Crash
  <2>1. /\ UNCHANGED <<phase, pid, server>> /\ mem' = [c \in Claims |-> Nil]
        /\ lost' = lost \cup ({mem[c] : c \in Claims} \ {Nil})
    BY <1>4 DEF Crash
  <2> DEFINE lapsed == {c \in Claims : pid[c] = Nil}
             held == [c \in Claims |-> Held(c)]
  <2>2. held' = [c \in Claims |-> IF c \in lapsed THEN Nil ELSE held[c]]
    <3>1. \A c \in Claims : Held(c)' = IF c \in lapsed THEN Nil ELSE held[c]
      BY <2>1 DEF Held
    <3> QED BY <3>1
  <2>3. {mem[c] : c \in Claims} \ {Nil} = {held[c] : c \in lapsed} \ {Nil}
    <3>1. \A c \in Claims : mem[c] # Nil => c \in lapsed
      BY DEF WorkerInv
    <3>2. \A c \in lapsed : held[c] = mem[c]
      BY DEF Held
    <3> QED BY <3>1, <3>2
  <2>4. lapsed \in SUBSET Claims /\ lapsed \cap {c \in Claims : pid[c] # Nil} = {}
    OBVIOUS
  <2>5. Lease!Forget(lapsed)
    BY <2>1, <2>2, <2>3, <2>4 DEF Lease!Forget
  <2> HIDE DEF lapsed
  <2> QED BY <2>4, <2>5 DEF Lease!Next
<1>5. CASE UNCHANGED vars
  BY <1>5, SameLease DEF vars
<1> QED
  BY <1>1, <1>2, <1>3, <1>4, <1>5, <1>6 DEF ClusterStep

(* For any number of claims, servers, faults, crashes and sweeps, Create,   *)
(* Delete, Get and List, called by Karpenter, keep the promises of          *)
(* MachineLease: at most one machine to an open claim, no recorded lease    *)
(* given up while its machine exists, no other machine without a lease than *)
(* those whose lease was lost before it was recorded.                       *)
THEOREM LeaseIsImplemented == Spec => ImplementsLease
<1>1. Init => Lease!Init
  <2> SUFFICES ASSUME Init PROVE Lease!Init
    OBVIOUS
  <2>1. /\ {c \in Claims : phase[c] # "gone"} = Claims
        /\ {c \in Claims : pid[c] # Nil} = {}
        /\ {s \in Servers : server[s] # "none"} = {}
        /\ {s \in Servers : server[s] \in LiveStates} = {}
    BY DEF Init
  <2>2. [c \in Claims |-> Held(c)] = [c \in Claims |-> Nil]
    BY DEF Init, Held
  <2> QED
    BY <2>1, <2>2 DEF Init, Lease!Init
<1>2. LeaseInv /\ [Next]_vars => [Lease!Next]_(Lease!vars)
  BY LaunchLease, FinalizeLease, OtherLease DEF Next
<1> QED
  BY <1>1, <1>2, LeaseInvariant, PTL DEF Spec, ImplementsLease, Lease!Spec
=============================================================================
