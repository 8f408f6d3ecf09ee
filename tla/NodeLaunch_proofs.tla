--------------------------- MODULE NodeLaunch_proofs ---------------------------
(***************************************************************************)
(* Proofs about NodeLaunch: Create with its certificate and its plan is    *)
(* the Create of ServerLifecycle, so that what is proved there holds here; *)
(* and what NodeLaunch adds about certificates, plans, memory and disks,   *)
(* for any number of claims, servers, names, plans, polls and restarts.    *)
(***************************************************************************)
EXTENDS NodeLaunch, LeaseRefinement_proofs

USE DEF LiveStates

(* Every step is a step of ServerLifecycle or leaves its state alone. *)
LEMMA LifecycleStep == [LaunchNext]_allVars => [Next]_vars
<1> SUFFICES ASSUME LaunchNext PROVE [Next]_vars
  BY DEF allVars
<1>1. CASE StartUp   BY <1>1 DEF StartUp
<1>2. CASE Restart   BY <1>2 DEF Restart, Next
<1>3. ASSUME NEW c \in Claims, Schedule(c) PROVE [Next]_vars
  BY <1>3 DEF Schedule
<1>4. ASSUME NEW c \in Claims, CreateStep(c) PROVE [Next]_vars
  <2>1. UNCHANGED vars \/ LaunchStep(c)
    BY <1>4 DEF CreateStep, Begin, Certify, Abort, Reject, Persist, Launch, LoseAnswer, LaunchStep
  <2> QED BY <2>1 DEF Next
<1>5. ASSUME NEW c \in Claims, DeleteStep(c) PROVE [Next]_vars
  BY <1>5 DEF DeleteStep, Next
<1>6. ASSUME NEW c \in Claims, DeleteClaim(c) PROVE [Next]_vars
  BY <1>6 DEF Next, ClusterStep
<1>7. ASSUME NEW s \in Servers, CloudStep(s) PROVE [Next]_vars
  BY <1>7 DEF Next
<1>8. ASSUME NEW n \in Names, Decide(n) PROVE [Next]_vars
  BY <1>8 DEF Decide
<1>9. ASSUME NEW p \in Plans, NewPlan(p) PROVE [Next]_vars
  BY <1>9 DEF NewPlan
<1> QED
  BY <1>1, <1>2, <1>3, <1>4, <1>5, <1>6, <1>7, <1>8, <1>9 DEF LaunchNext

(* NodeLaunch implements ServerLifecycle: with the certificate, the choice  *)
(* of the plan and the start of the process in it, Create still does to     *)
(* servers and claims what ServerLifecycle says.                            *)
THEOREM LaunchImplementsLifecycle == LaunchSpec => Spec
<1>1. LaunchInit => Init
  BY DEF LaunchInit
<1> QED
  BY <1>1, LifecycleStep, PTL DEF LaunchSpec, Spec

(* What the lifecycle promises survives the detail: denied, timed out and   *)
(* aborted launches, and a process that stops before it has started, leave  *)
(* no server without its claim ...                                          *)
THEOREM LaunchLeavesNoStray == LaunchSpec => []NoStrayServer
  BY LaunchImplementsLifecycle, NoStrayServerHolds, PTL

(* ... lose none but to a failed call or to a restart ...                   *)
THEOREM LaunchLeaksAreAccountedFor == LaunchSpec => []LeaksAreAccountedFor
  BY LaunchImplementsLifecycle, LeaksAreAccountedForHolds, PTL

(* ... and keep to the abstract lease.                                      *)
THEOREM LaunchImplementsLease == LaunchSpec => ImplementsLease
  BY LaunchImplementsLifecycle, LeaseIsImplemented, PTL

-----------------------------------------------------------------------------
(* The certificate                                                          *)

(* One call and one request change: all that CertInv asks of the others. *)
LEMMA CertFrame ==
    ASSUME CertInv, NEW c \in Claims, UNCHANGED <<server, made>>, CSR!CSRTypeOK',
           \A d \in Claims \ {c} : call'[d] = call[d],
           UNCHANGED signed,
           \A n \in Names : csr'[n] # csr[n] =>
               n = call[c].name /\ call[c].pc # "idle" /\ csr'[n] # "signed",
           /\ call'[c].pc = "idle" <=> call'[c] = CSR!NoCall
           /\ call'[c].pc # "idle" => call'[c].name = call[c].name /\ call[c].pc # "idle"
           /\ call'[c].pc \in {"ca", "create"} => csr'[call'[c].name] = "none"
           /\ call'[c].pc = "approve" => call'[c].fresh = "pending"
           /\ call'[c].pc = "certified" => call'[c].name \in signed
    PROVE  CertInv'
<1>1. ASSUME NEW d \in Claims
      PROVE  /\ call'[d].pc = "idle" <=> call'[d] = CSR!NoCall
             /\ call'[d].pc # "idle" => call'[d].name \in Names /\ call'[d].name # Nil
             /\ call'[d].pc \in {"ca", "create"} => csr'[call'[d].name] = "none"
             /\ call'[d].pc = "approve" => call'[d].fresh = "pending"
             /\ call'[d].pc = "certified" => call'[d].name \in signed'
  <2>1. CASE d = c
    BY <2>1 DEF CertInv
  <2>2. CASE d # c
    <3>1. call'[d] = call[d]
      BY <2>2
    <3>2. call[d].pc # "idle" => csr'[call[d].name] = csr[call[d].name]
      BY <2>2 DEF CertInv
    <3> QED
      BY <3>1, <3>2 DEF CertInv
  <2> QED BY <2>1, <2>2
<1>2. ASSUME NEW d \in Claims, NEW e \in Claims, d # e, call'[d].pc # "idle"
      PROVE  call'[d].name # call'[e].name
  <2>1. call'[d].name = call[d].name /\ call[d].pc # "idle"
    BY <1>2
  <2>2. call'[e].name = call[e].name \/ call'[e] = CSR!NoCall
    BY <1>2
  <2>3. CASE call'[e].name = call[e].name
    BY <1>2, <2>1, <2>3 DEF CertInv
  <2>4. CASE call'[e] = CSR!NoCall
    BY <1>2, <2>1, <2>4 DEF CertInv, CSR!NoCall
  <2> QED BY <2>2, <2>3, <2>4
<1>3. ASSUME NEW s \in Servers, server'[s] # "none"
      PROVE  made'[s].name \in Names /\ made'[s].name \in signed'
  BY <1>3 DEF CertInv
<1>4. ASSUME NEW n \in Names, csr'[n] = "signed" PROVE n \in signed'
  BY <1>4 DEF CertInv
<1> QED
  BY <1>1, <1>2, <1>3, <1>4 DEF CertInv

(* A call of generateKubeletCert, step by step. *)
LEMMA CertStepCert ==
    ASSUME CertInv, NEW c \in Claims, UNCHANGED <<server, made>>,
           CSR!CertStep(c) \/ CSR!CertError(c) \/ CSR!APIError(c)
    PROVE  CertInv'
<1>1. /\ call \in [Claims -> [pc : {"idle", "ca", "create", "get", "approve", "poll", "certified"},
                              name : Names \cup {Nil}, fresh : CSR!RequestStates \cup {Nil},
                              polls : 0..MaxPolls]]
      /\ csr \in [Names -> CSR!RequestStates] /\ signed \subseteq Names
      /\ \A n \in Names : csr[n] = "signed" => n \in signed
  BY DEF CertInv, CSR!CSRTypeOK
<1>2. /\ call[c].pc # "idle" => call[c].name \in Names
      /\ call[c].pc \in {"ca", "create"} => csr[call[c].name] = "none"
      /\ call[c].pc = "approve" => call[c].fresh = "pending"
  BY DEF CertInv
<1> USE <1>1, <1>2, PollsAssumption
    DEF CSR!CSRTypeOK, CSR!RequestStates, CSR!Existing, CSR!Request, CSR!Step, CSR!SetRequest,
        CSR!NoCall, CSR!CertFails
<1>3. CASE CSR!getCABundle(c)
  BY <1>3, CertFrame DEF CSR!getCABundle
<1>4. CASE CSR!CreateRequest(c)
  BY <1>4, CertFrame DEF CSR!CreateRequest
<1>5. CASE CSR!RefetchRequest(c)
  BY <1>5, CertFrame DEF CSR!RefetchRequest
<1>6. CASE CSR!ApproveRequest(c)
  BY <1>6, CertFrame DEF CSR!ApproveRequest
<1>7. CASE CSR!PollSigned(c)
  BY <1>7, CertFrame DEF CSR!PollSigned
<1>8. CASE CSR!PollAgain(c)
  BY <1>8, CertFrame DEF CSR!PollAgain
<1>9. CASE CSR!CertError(c)
  BY <1>9, CertFrame DEF CSR!CertError, CSR!RefetchRefused, CSR!ApprovalConflict, CSR!PollEnds
<1>10. CASE CSR!APIError(c)
  BY <1>10, CertFrame DEF CSR!APIError
<1> QED
  BY <1>3, <1>4, <1>5, <1>6, <1>7, <1>8, <1>9, <1>10 DEF CSR!CertStep

(* A call ends, with or without a server. *)
LEMMA CallEndsCert ==
    ASSUME CertInv, NEW c \in Claims, UNCHANGED <<csr, signed>>,
           call' = [call EXCEPT ![c] = CSR!NoCall],
           \/ UNCHANGED <<server, made>>
           \/ \E s \in Servers : \E plan, size :
                 /\ call[c].pc = "certified"
                 /\ server' = [server EXCEPT ![s] = "maintenance"]
                 /\ made' = [made EXCEPT ![s] = [name |-> call[c].name, plan |-> plan, size |-> size]],
           DOMAIN made = Servers, DOMAIN server = Servers
    PROVE  CertInv'
<1>1. call \in [Claims -> [pc : {"idle", "ca", "create", "get", "approve", "poll", "certified"},
                           name : Names \cup {Nil}, fresh : CSR!RequestStates \cup {Nil},
                           polls : 0..MaxPolls]]
  BY DEF CertInv, CSR!CSRTypeOK
<1>2. CSR!CSRTypeOK'
  BY <1>1, PollsAssumption DEF CertInv, CSR!CSRTypeOK, CSR!NoCall
<1>3. \A d \in Claims : call'[d] = IF d = c THEN CSR!NoCall ELSE call[d]
  BY <1>1
<1>4. \A d, e \in Claims : d # e /\ call'[d].pc # "idle" => call'[d].name # call'[e].name
  BY <1>3 DEF CertInv, CSR!NoCall
<1>5. ASSUME NEW s \in Servers, server'[s] # "none"
      PROVE  made'[s].name \in Names /\ made'[s].name \in signed'
  <2>1. CASE made'[s] = made[s] /\ server'[s] = server[s]
    BY <1>5, <2>1 DEF CertInv
  <2>2. CASE ~(made'[s] = made[s] /\ server'[s] = server[s])
    <3>1. call[c].pc = "certified" /\ made'[s].name = call[c].name
      BY <2>2
    <3> QED BY <3>1 DEF CertInv
  <2> QED BY <2>1, <2>2
<1> QED
  BY <1>2, <1>3, <1>4, <1>5 DEF CertInv, CSR!NoCall

(* A new call takes a new name. *)
LEMMA NameServerCert ==
    ASSUME CertInv, NEW c \in Claims, CSR!NameServer(c), UNCHANGED <<server, made>>
    PROVE  CertInv'
<1>1. /\ call \in [Claims -> [pc : {"idle", "ca", "create", "get", "approve", "poll", "certified"},
                              name : Names \cup {Nil}, fresh : CSR!RequestStates \cup {Nil},
                              polls : 0..MaxPolls]]
      /\ UNCHANGED <<csr, signed>>
      /\ call[c].name = Nil
  BY DEF CertInv, CSR!CSRTypeOK, CSR!NameServer, CSR!NoCall
<1> DEFINE n == CHOOSE n \in CSR!Unused : TRUE
<1>6. n \in Names /\ csr[n] = "none" /\ \A d \in Claims : call[d].name # n
  BY DEF CSR!NameServer, CSR!Unused
<1>7. call' = [call EXCEPT ![c] = [pc |-> "ca", name |-> n, fresh |-> Nil, polls |-> 0]]
  BY DEF CSR!NameServer
<1> HIDE DEF n
<1>2. \A d \in Claims : call'[d] =
          IF d = c THEN [pc |-> "ca", name |-> n, fresh |-> Nil, polls |-> 0] ELSE call[d]
  BY <1>1, <1>7
<1>3. CSR!CSRTypeOK'
  BY <1>1, <1>6, <1>7, PollsAssumption DEF CertInv, CSR!CSRTypeOK
<1>4. \A d, e \in Claims : d # e /\ call'[d].pc # "idle" => call'[d].name # call'[e].name
  BY <1>2, <1>6 DEF CertInv
<1>5. n # Nil
  BY <1>1, <1>6
<1> QED
  BY <1>1, <1>2, <1>3, <1>4, <1>5, <1>6 DEF CertInv, CSR!NoCall

(* The approvers and the signer, and a restart. *)
LEMMA ClusterCert ==
    ASSUME CertInv, NEW n \in Names, CSR!CSRClusterStep(n), UNCHANGED <<server, made>>
    PROVE  CertInv'
<1>1. /\ UNCHANGED call /\ csr[n] # "none" /\ csr[n] # "removed"
      /\ \E x \in {"approved", "denied", "signed", "removed"} :
            /\ csr' = [csr EXCEPT ![n] = x]
            /\ signed' = IF x = "signed" THEN signed \cup {n} ELSE signed
  BY DEF CSR!CSRClusterStep, CSR!OtherApproves, CSR!OtherDenies, CSR!Sign, CSR!RemoveRequest,
         CSR!Decide, CSR!Existing
<1>2. CSR!CSRTypeOK' /\ csr \in [Names -> CSR!RequestStates]
  BY <1>1 DEF CertInv, CSR!CSRTypeOK, CSR!RequestStates
<1>3. /\ \A m \in Names : csr[m] = "none" => csr'[m] = "none"
      /\ signed \subseteq signed'
      /\ \A m \in Names : csr'[m] = "signed" => csr[m] = "signed" \/ m \in signed'
  BY <1>1, <1>2
<1> QED
  BY <1>1, <1>2, <1>3 DEF CertInv

(* The steps that the certificate has no part in. *)
LEMMA SameCert ==
    ASSUME CertInv, UNCHANGED <<certVars, made>>,
           \A s \in Servers : server[s] = "none" => server'[s] = "none"
    PROVE  CertInv'
  BY DEF CertInv, CSR!CSRTypeOK, certVars

LEMMA CertInvNext == CertInv /\ LaunchTypeOK /\ LeaseInv /\ [LaunchNext]_allVars => CertInv'
<1> SUFFICES ASSUME CertInv, LaunchTypeOK, LeaseInv, [LaunchNext]_allVars PROVE CertInv'
  OBVIOUS
<1> USE DEF certVars, claimSpecVars, createVars, launchVars, claimVars, cloudVars
<1>0. DOMAIN made = Servers /\ DOMAIN server = Servers
  BY DEF LaunchTypeOK, LeaseInv, TypeOK
<1>1. CASE \/ StartUp \/ \E p \in Plans : NewPlan(p)
           \/ \E c \in Claims : Schedule(c) \/ Persist(c)
           \/ UNCHANGED allVars
  BY <1>1, SameCert DEF StartUp, NewPlan, Schedule, Persist, PersistLaunch, PersistFailed,
     LaunchFromCache, allVars, vars
<1>2. CASE Restart
  <2>1. UNCHANGED <<csr, signed, made, server>> /\ call' = [c \in Claims |-> CSR!NoCall]
    BY <1>2 DEF Restart, Crash
  <2> QED
    BY <2>1, PollsAssumption DEF CertInv, CSR!CSRTypeOK, CSR!NoCall
<1>3. ASSUME NEW c \in Claims, Begin(c) PROVE CertInv'
  BY <1>3, NameServerCert DEF Begin, CreateBegin
<1>4. ASSUME NEW c \in Claims, Certify(c) PROVE CertInv'
  BY <1>4, CertStepCert DEF Certify, vars
<1>5. ASSUME NEW c \in Claims, Abort(c) PROVE CertInv'
  <2>1. UNCHANGED <<server, made>>
    BY <1>5 DEF Abort, CreateAbort
  <2> QED
    BY <1>0, <1>5, <2>1, CertStepCert, CallEndsCert DEF Abort, CSR!CertFails
<1>6. ASSUME NEW c \in Claims, Reject(c) PROVE CertInv'
  BY <1>0, <1>6, CallEndsCert DEF Reject, Ask, CSR!CertFails, CreateRejected
<1>7. ASSUME NEW c \in Claims, NEW s \in Servers, NEW user \in UserLabels,
             Launch(c, s, user) \/ LoseAnswer(c, s, user)
      PROVE  CertInv'
  <2>1. /\ UNCHANGED <<csr, signed>> /\ call[c].pc = "certified"
        /\ call' = [call EXCEPT ![c] = CSR!NoCall]
        /\ server' = [server EXCEPT ![s] = "maintenance"]
        /\ made' = [made EXCEPT ![s] = [name |-> call[c].name, plan |-> Plan(c),
                                        size |-> StorageSize(Plan(c))]]
    BY <1>7 DEF Launch, LoseAnswer, Ask, CSR!CertFails, Make, CreateServer, CreateAnswerLost,
       NewServer, SetServer
  <2> QED
    BY <1>0, <2>1, CallEndsCert
<1>8. ASSUME NEW c \in Claims, DeleteStep(c) PROVE CertInv'
  BY <1>8, FinalizeServers, SameCert DEF DeleteStep
<1>9. ASSUME NEW c \in Claims, DeleteClaim(c), UNCHANGED launchVars PROVE CertInv'
  BY <1>9, SameCert DEF DeleteClaim
<1>10. ASSUME NEW s \in Servers, CloudStep(s), UNCHANGED launchVars PROVE CertInv'
  <2>1. \A t \in Servers : server[t] = "none" => server'[t] = "none"
    BY <1>10 DEF CloudStep, Boot, PowerOff, Vanish, Halt, SetServer, LeaseInv, TypeOK
  <2> QED
    BY <1>10, <2>1, SameCert
<1>11. ASSUME NEW n \in Names, Decide(n) PROVE CertInv'
  BY <1>11, ClusterCert DEF Decide, vars
<1> QED
  BY <1>1, <1>2, <1>3, <1>4, <1>5, <1>6, <1>7, <1>8, <1>9, <1>10, <1>11
  DEF LaunchNext, CreateStep

-----------------------------------------------------------------------------
(* The plan                                                                 *)

(* The steps that neither give a claim its requirement nor make a server:   *)
(* claims at most let go of servers, and servers come to their end.         *)
LEMMA SamePlan ==
    ASSUME PlanInv, UNCHANGED <<req, own, made, returned>>,
           offered \subseteq offered', offered' \subseteq Plans, known' \subseteq offered',
           running' => known' = offered \/ (running /\ known' = known),
           \A c \in Claims : pc'[c] = "launch" => req[c] # Nil,
           \A c \in Claims : Held(c)' # Nil => Held(c)' = Held(c),
           \A s \in Servers : server'[s] # "none" => server[s] # "none",
           UNCHANGED <<owner, labels>>
    PROVE  PlanInv'
<1>1. LaunchTypeOK'
  BY DEF PlanInv, LaunchTypeOK
<1>2. ASSUME NEW c \in Claims, req[c] # Nil, req[c] # <<>>
      PROVE  /\ ChosenPlan(req[c]) \in offered'
             /\ running' => ChosenPlan(req[c]) \in known'
             /\ \E i \in DOMAIN req[c] : req[c][i] = ChosenPlan(req[c])
  BY <1>2 DEF PlanInv
<1>3. ASSUME NEW c \in Claims
      PROVE  /\ pc'[c] = "launch" \/ Held(c)' # Nil => req[c] # Nil
             /\ Held(c)' # Nil => /\ made[Held(c)'].plan = Plan(c)
                                  /\ returned[c] = NewNodeClaim(Plan(c), labels[Held(c)'], own[c])
  BY DEF PlanInv
<1>4. ASSUME NEW s \in Servers, server'[s] # "none"
      PROVE  /\ owner[s] \in Claims /\ req[owner[s]] # Nil
             /\ made[s].plan = Plan(owner[s])
             /\ req[owner[s]] # <<>> /\ Details[made[s].plan].bundled > 0 =>
                    made[s].size = Details[made[s].plan].bundled
  BY <1>4 DEF PlanInv
<1>5. \A c \in Claims : Plan(c)' = Plan(c)
  BY DEF ChosenPlan, Plan
<1> QED
  BY <1>1, <1>2, <1>3, <1>4, <1>5 DEF PlanInv

(* Karpenter chooses among the types it was offered, which the process      *)
(* knows.                                                                   *)
LEMMA SchedulePlan ==
    ASSUME PlanInv, NEW c \in Claims, Schedule(c)
    PROVE  PlanInv'
<1>1. /\ running /\ req[c] = Nil
      /\ UNCHANGED <<running, offered, known, made, returned, pc, pid, mem, server, owner, labels>>
  BY DEF Schedule, typeVars, createVars, vars
<1>2. PICK values \in Requirements, user \in ClaimLabels :
          req' = [req EXCEPT ![c] = values] /\ own' = [own EXCEPT ![c] = user]
  BY DEF Schedule
<1>3. /\ values \in Seq(Plans)
      /\ values # <<>> => /\ ChosenPlan(values) \in known
                          /\ \E i \in DOMAIN values : values[i] = ChosenPlan(values)
  <2>1. {t.type : t \in List} = known
    <3>1. \A p : InstanceType(p).type = p
      BY DEF InstanceType
    <3>2. \A t \in List : t.type \in known
      BY <3>1 DEF List
    <3>3. \A p \in known : \E t \in List : p = t.type
      BY <3>1 DEF List
    <3> QED BY <3>2, <3>3
  <2>2. known \subseteq Plans
    BY DEF PlanInv, LaunchTypeOK
  <2>3. \/ values = <<>>
        \/ \E p \in known : values = <<p>>
        \/ \E p \in known, q \in known : values = <<p, q>>
    BY <2>1 DEF Requirements
  <2>4. CASE values = <<>>
    BY <2>4
  <2>5. ASSUME NEW p \in known, values = <<p>> PROVE <1>3!1 /\ <1>3!2
    BY <2>2, <2>5 DEF ChosenPlan
  <2>6. ASSUME NEW p \in known, NEW q \in known, values = <<p, q>> PROVE <1>3!1 /\ <1>3!2
    BY <2>2, <2>6 DEF ChosenPlan
  <2> QED
    BY <2>3, <2>4, <2>5, <2>6
<1>4. \A d \in Claims : /\ req'[d] = IF d = c THEN values ELSE req[d]
                        /\ d # c => own'[d] = own[d]
  BY <1>2 DEF PlanInv, LaunchTypeOK
<1>5. LaunchTypeOK'
  <2>1. req' \in [Claims -> {Nil} \cup Seq(Plans)] /\ own' \in [Claims -> {NoLabels} \cup ClaimLabels]
    BY <1>2, <1>3 DEF PlanInv, LaunchTypeOK
  <2> QED
    BY <1>1, <2>1 DEF PlanInv, LaunchTypeOK
<1>6. \A d \in Claims : Held(d)' = Held(d)
  BY <1>1 DEF Held
<1>7. Held(c) = Nil /\ pc[c] # "launch"
  BY <1>1 DEF PlanInv
<1>8. \A d \in Claims : d # c => Plan(d)' = Plan(d)
  BY <1>4 DEF Plan
<1>9. \A s \in Servers : server[s] # "none" => owner[s] \in Claims /\ owner[s] # c
  BY <1>1 DEF PlanInv
<1>10. known \subseteq offered
  BY DEF PlanInv, LaunchTypeOK
<1>11. ASSUME NEW d \in Claims
       PROVE  /\ req'[d] # Nil /\ req'[d] # <<>> =>
                    /\ ChosenPlan(req'[d]) \in offered'
                    /\ running' => ChosenPlan(req'[d]) \in known'
                    /\ \E i \in DOMAIN req'[d] : req'[d][i] = ChosenPlan(req'[d])
              /\ pc'[d] = "launch" \/ Held(d)' # Nil => req'[d] # Nil
              /\ Held(d)' # Nil => /\ made'[Held(d)'].plan = Plan(d)'
                                   /\ returned'[d] = NewNodeClaim(Plan(d)', labels'[Held(d)'], own'[d])
  <2>1. CASE d = c
    BY <1>1, <1>3, <1>4, <1>6, <1>7, <1>10, <2>1
  <2>2. CASE d # c
    BY <1>1, <1>4, <1>6, <1>8, <2>2 DEF PlanInv
  <2> QED BY <2>1, <2>2
<1>12. ASSUME NEW s \in Servers, server'[s] # "none"
       PROVE  /\ owner'[s] \in Claims /\ req'[owner'[s]] # Nil
              /\ made'[s].plan = Plan(owner[s])'
              /\ req'[owner'[s]] # <<>> /\ Details[made'[s].plan].bundled > 0 =>
                     made'[s].size = Details[made'[s].plan].bundled
  <2>1. req'[owner[s]] = req[owner[s]] /\ Plan(owner[s])' = Plan(owner[s])
    BY <1>1, <1>4, <1>9, <1>12 DEF Plan
  <2> QED
    BY <1>1, <1>12, <2>1 DEF PlanInv
<1> QED
  BY <1>5, <1>11, <1>12 DEF PlanInv

(* The marker that the server gets is not among the labels of a node. *)
LEMMA MarkerIsNoNodeLabel ==
    ASSUME NEW p, NEW user, NEW claim
    PROVE  NewNodeClaim(p, ServerLabels(user), claim) = NewNodeClaim(p, user, claim)
<1>1. ASSUME NEW key \in {TypeKey, CapacityTypeKey}, NEW computed
      PROVE  NodeLabel(key, computed, ServerLabels(user), claim) = NodeLabel(key, computed, user, claim)
  <2>1. key # ManagedKey
    BY DEF TypeKey, CapacityTypeKey, ManagedKey
  <2> QED BY <2>1 DEF NodeLabel, ServerLabels
<1> QED
  BY <1>1 DEF NewNodeClaim

(* A server is made by the claim's requirement: whoever else holds or owns  *)
(* one has another.                                                         *)
LEMMA MakePlan ==
    ASSUME PlanInv, CertInv, LeaseInv, SweepInv,
           NEW c \in Claims, NEW s \in Servers, NEW user \in UserLabels,
           Launch(c, s, user) \/ LoseAnswer(c, s, user)
    PROVE  PlanInv'
<1>1. /\ running /\ pc[c] = "launch" /\ server[s] = "none" /\ Plan(c) \in offered
      /\ call[c].pc = "certified"
      /\ made' = [made EXCEPT ![s] = [name |-> call[c].name, plan |-> Plan(c),
                                      size |-> StorageSize(Plan(c))]]
      /\ server' = [server EXCEPT ![s] = "maintenance"]
      /\ owner' = [owner EXCEPT ![s] = c]
      /\ UNCHANGED <<running, offered, known, req, own, pid>>
      /\ \E step \in {"persist", "idle"} : pc' = [pc EXCEPT ![c] = step]
      /\ \/ UNCHANGED <<mem, returned>>
         \/ /\ mem' = [mem EXCEPT ![c] = s]
            /\ returned' = [returned EXCEPT ![c] = NewNodeClaim(Plan(c), user, own[c])]
      /\ labels' = [labels EXCEPT ![s] = ServerLabels(user)]
  BY DEF Launch, LoseAnswer, Ask, Make, CreateServer, CreateAnswerLost, NewServer, SetServer,
     Goto, typeVars, claimVars, claimSpecVars
<1>2. /\ Plan(c) \in Plans /\ req[c] # Nil /\ call[c].name \in Names
      /\ req[c] # <<>> => Plan(c) \in known
  BY <1>1 DEF PlanInv, LaunchTypeOK, CertInv, Plan
<1>3. StorageSize(Plan(c)) \in Nat \cup {ClassSize}
  BY <1>2, DetailsAssumption DEF StorageSize
<1>4. LaunchTypeOK'
  <2>1. made' \in [Servers -> {Nil} \cup [name : Names, plan : Plans, size : Nat \cup {ClassSize}]]
    BY <1>1, <1>2, <1>3 DEF PlanInv, LaunchTypeOK
  <2>2. returned' \in [Claims -> {Nil} \cup {NewNodeClaim(p, u, l) :
                          p \in Plans, u \in UserLabels, l \in {NoLabels} \cup ClaimLabels}]
    BY <1>1, <1>2 DEF PlanInv, LaunchTypeOK
  <2> QED
    BY <1>1, <2>1, <2>2 DEF PlanInv, LaunchTypeOK
<1>5. \A d \in Claims : Plan(d)' = Plan(d)
  BY <1>1 DEF Plan
<1>6. \A d \in Claims : Held(d) # Nil => Held(d) \in Servers \ {s}
  BY <1>1, UUIDType DEF SweepInv, Held, LeaseInv, TypeOK
<1>7. ASSUME NEW d \in Claims
      PROVE  /\ Held(d)' # Nil => /\ req[d] # Nil
                                  /\ made'[Held(d)'].plan = Plan(d)
                                  /\ returned'[d] = NewNodeClaim(Plan(d), labels'[Held(d)'], own[d])
             /\ pc'[d] = "launch" => req[d] # Nil
  <2>1. pc'[d] = "launch" => req[d] # Nil
    BY <1>1, <1>2 DEF PlanInv, LeaseInv, TypeOK
  <2>2. ASSUME Held(d)' = Held(d), Held(d) # Nil, returned'[d] = returned[d]
        PROVE  /\ req[d] # Nil
               /\ made'[Held(d)'].plan = Plan(d)
               /\ returned'[d] = NewNodeClaim(Plan(d), labels'[Held(d)'], own[d])
    <3>1. made'[Held(d)] = made[Held(d)] /\ labels'[Held(d)] = labels[Held(d)]
      BY <1>1, <1>6, <2>2
    <3> QED
      BY <2>2, <3>1 DEF PlanInv
  <2>3. CASE d = c
    <3>1. Held(c) = Nil
      BY <1>1 DEF LeaseInv, WorkerInv, Held
    <3>2. Held(c)' = Nil \/ (Held(c)' = s /\ returned'[c] = NewNodeClaim(Plan(c), user, own[c]))
      BY <1>1, <3>1 DEF Held, LeaseInv, TypeOK, WorkerInv, PlanInv, LaunchTypeOK
    <3>3. made'[s].plan = Plan(c) /\ labels'[s] = ServerLabels(user)
      BY <1>1 DEF PlanInv, LaunchTypeOK, LeaseInv, TypeOK
    <3> QED
      BY <1>2, <2>1, <2>3, <3>2, <3>3, MarkerIsNoNodeLabel
  <2>4. CASE d # c
    <3>1. Held(d)' = Held(d) /\ returned'[d] = returned[d]
      BY <1>1, <2>4 DEF Held, LeaseInv, TypeOK, PlanInv, LaunchTypeOK
    <3> QED
      BY <2>1, <2>2, <3>1
  <2> QED BY <2>3, <2>4
<1>8. ASSUME NEW t \in Servers, server'[t] # "none"
      PROVE  /\ owner'[t] \in Claims /\ req[owner'[t]] # Nil
             /\ made'[t].plan = Plan(owner'[t])
             /\ req[owner'[t]] # <<>> /\ Details[made'[t].plan].bundled > 0 =>
                    made'[t].size = Details[made'[t].plan].bundled
  <2>1. CASE t = s
    <3>1. owner'[t] = c /\ made'[t].plan = Plan(c) /\ made'[t].size = StorageSize(Plan(c))
      BY <1>1, <2>1 DEF PlanInv, LaunchTypeOK, LeaseInv, TypeOK
    <3> QED
      BY <1>2, <3>1 DEF StorageSize
  <2>2. CASE t # s
    <3>1. owner'[t] = owner[t] /\ made'[t] = made[t] /\ server[t] # "none"
      BY <1>1, <1>8, <2>2 DEF PlanInv, LaunchTypeOK, LeaseInv, TypeOK
    <3> QED
      BY <3>1 DEF PlanInv
  <2> QED BY <2>1, <2>2
<1> QED
  BY <1>1, <1>4, <1>5, <1>7, <1>8 DEF PlanInv, Plan

LEMMA PlanInvNext ==
    ASSUME PlanInv, CertInv, LeaseInv, SweepInv, [LaunchNext]_allVars
    PROVE  PlanInv'
<1> USE DEF certVars, claimSpecVars, createVars, launchVars, typeVars, claimVars, cloudVars
<1>0. /\ known \subseteq offered /\ offered \subseteq Plans
      /\ \A c \in Claims : pc[c] = "launch" => req[c] # Nil
      /\ pc \in [Claims -> WorkerSteps]
  BY DEF PlanInv, LaunchTypeOK, LeaseInv, TypeOK
<1>1. CASE UNCHANGED allVars
  <2>1. \A c \in Claims : Held(c)' = Held(c)
    BY <1>1 DEF allVars, vars, Held
  <2> QED BY <1>0, <1>1, <2>1, SamePlan DEF allVars, vars
<1>2. CASE StartUp \/ (\E p \in Plans : NewPlan(p)) \/ \E n \in Names : Decide(n)
  <2>1. /\ UNCHANGED <<vars, req, own, made, returned>>
        /\ \/ known' = offered /\ UNCHANGED offered
           \/ UNCHANGED <<running, known>> /\ offered \subseteq offered' /\ offered' \subseteq Plans
    BY <1>0, <1>2 DEF StartUp, Start, Refresh, NewPlan, PlanIntroduced, Decide
  <2>2. \A c \in Claims : Held(c)' = Held(c)
    BY <2>1 DEF vars, Held
  <2> QED BY <1>0, <2>1, <2>2, SamePlan DEF vars
<1>3. CASE Restart
  <2>1. /\ UNCHANGED <<req, own, made, returned, offered, server, owner, labels, pid>>
        /\ running' = FALSE /\ known' = {}
        /\ pc' = [c \in Claims |-> "idle"] /\ mem' = [c \in Claims |-> Nil]
    BY <1>3 DEF Restart, Stop, Crash
  <2>2. \A c \in Claims : Held(c)' # Nil => Held(c)' = Held(c)
    BY <2>1 DEF Held
  <2> QED BY <1>0, <2>1, <2>2, SamePlan
<1>4. ASSUME NEW c \in Claims, \/ Begin(c) \/ Certify(c) \/ Abort(c) \/ Reject(c)
                               \/ req[c] # Nil /\ DeleteClaim(c) /\ UNCHANGED launchVars
      PROVE  PlanInv'
  <2>1. /\ UNCHANGED <<req, own, made, returned, running, offered, known, server, owner, labels, pid, mem>>
        /\ UNCHANGED pc \/ \E step \in {"launch", "idle"} :
              pc' = [pc EXCEPT ![c] = step] /\ (step = "launch" => req[c] # Nil)
    BY <1>4 DEF Begin, Certify, Abort, Reject, CreateBegin, CreateAbort, CreateRejected, Goto,
       DeleteClaim, vars
  <2>2. \A d \in Claims : Held(d)' = Held(d)
    BY <2>1 DEF Held
  <2>3. \A d \in Claims : pc'[d] = "launch" => req[d] # Nil
    BY <1>0, <2>1
  <2> QED BY <1>0, <2>1, <2>2, <2>3, SamePlan
<1>5. ASSUME NEW c \in Claims, Persist(c) PROVE PlanInv'
  <2>1. /\ UNCHANGED <<req, own, made, returned, running, offered, known, server, owner, labels>>
        /\ \E step \in {"persist", "idle"} : pc' = [pc EXCEPT ![c] = step]
    BY <1>5 DEF Persist, PersistLaunch, PersistFailed, LaunchFromCache, Goto
  <2>2. \A d \in Claims : Held(d)' = Held(d)
    <3>1. CASE UNCHANGED <<pid, mem>>
      BY <3>1 DEF Held
    <3>2. CASE PersistLaunch(c)
      BY <3>2, NilAssumption DEF PersistLaunch, ProviderID, ServerUUID, ProviderIDs, WorkerInv,
         LeaseInv, TypeOK, Held
    <3> QED
      BY <1>5, <3>1, <3>2 DEF Persist, PersistFailed, LaunchFromCache
  <2>3. \A d \in Claims : pc'[d] = "launch" => req[d] # Nil
    BY <1>0, <2>1
  <2> QED BY <1>0, <2>1, <2>2, <2>3, SamePlan
<1>6. ASSUME NEW c \in Claims, DeleteStep(c) PROVE PlanInv'
  <2>1. /\ UNCHANGED <<req, own, made, returned, running, offered, known, pid, labels>>
        /\ FinalizeStep(c)
    BY <1>6, FinalizeSteady DEF DeleteStep
  <2>2. \A d \in Claims : Held(d)' # Nil => Held(d)' = Held(d)
    BY <2>1, FinalizeServers DEF Held, LeaseInv, TypeOK
  <2>3. \A d \in Claims : pc'[d] = "launch" => req[d] # Nil
    <3>1. \E step \in WorkerSteps \ {"launch"} : pc' = [pc EXCEPT ![c] = step]
      BY <2>1 DEF FinalizeStep, FinalizeUnlaunched, DeleteBegin, StopNotFound, StopServer,
         StopIllegal, StopFailed, WaitForStop, WaitFailed, DeleteNotFound, DeleteServer,
         DeleteFailed, MarkTerminating, GetReturnsNotFound, NotFound, Release, Goto, WorkerSteps
    <3> QED BY <1>0, <3>1
  <2> QED BY <1>0, <2>1, <2>2, <2>3, FinalizeServers, SamePlan
<1>7. ASSUME NEW s \in Servers, CloudStep(s), UNCHANGED launchVars PROVE PlanInv'
  <2>1. UNCHANGED <<pc, pid, mem, owner, labels>> /\ \A t \in Servers : server[t] = "none" => server'[t] = "none"
    BY <1>7 DEF CloudStep, Boot, PowerOff, Vanish, Halt, SetServer, LeaseInv, TypeOK
  <2>2. \A d \in Claims : Held(d)' = Held(d)
    BY <2>1 DEF Held
  <2> QED BY <1>0, <1>7, <2>1, <2>2, SamePlan
<1> QED
  BY <1>1, <1>2, <1>3, <1>4, <1>5, <1>6, <1>7, SchedulePlan, MakePlan DEF LaunchNext, CreateStep

-----------------------------------------------------------------------------
(* The theorems                                                             *)

LEMMA LaunchInvariant == LaunchSpec => [](CertInv /\ PlanInv)
<1>1. LaunchInit => CertInv
  BY PollsAssumption DEF LaunchInit, Init, CSR!CSRInit, CertInv, CSR!CSRTypeOK, CSR!NoCall,
     CSR!RequestStates
<1>2. LaunchInit => PlanInv
  BY DEF LaunchInit, Init, TypesInit, PlanInv, LaunchTypeOK, Held
<1>3. CertInv /\ PlanInv /\ LeaseInv /\ SweepInv /\ [LaunchNext]_allVars => (CertInv /\ PlanInv)'
  BY CertInvNext, PlanInvNext DEF PlanInv
<1> QED
  BY <1>1, <1>2, <1>3, LaunchImplementsLifecycle, LeaseInvariant, SweepInvariant, PTL
  DEF LaunchSpec

(* Whoever approves, denies, signs or deletes requests, whatever call fails *)
(* and wherever the process stops, every server was made with a signed      *)
(* certificate for its own name.                                            *)
THEOREM ServersAreCertified == LaunchSpec => []CertifiedServers
<1>1. CertInv => CertifiedServers
  BY DEF CertInv, CertifiedServers
<1> QED
  BY <1>1, LaunchInvariant, PTL

(* UpdateApproval of a stale copy never overrules a denial. *)
THEOREM DenialsAreRespected == LaunchSpec => DenialIsRespected
<1>1. ASSUME CertInv, [LaunchNext]_allVars, NEW n \in Names, csr[n] = "denied"
      PROVE  csr'[n] \in {"denied", "removed"}
  <2> USE DEF CSR!Step, CSR!SetRequest, CSR!Request, CSR!Existing, CSR!CertFails
  <2>1. csr \in [Names -> CSR!RequestStates]
    BY <1>1 DEF CertInv, CSR!CSRTypeOK
  <2>2. CASE UNCHANGED csr
    BY <1>1, <2>2
  <2>3. ASSUME NEW c \in Claims, CSR!CertStep(c) \/ CSR!CertError(c) \/ CSR!APIError(c)
        PROVE  UNCHANGED csr \/ csr'[n] = "denied"
    <3>1. /\ call[c].pc \in {"create", "approve"} => call[c].name \in Names
          /\ call[c].pc = "create" => csr[call[c].name] = "none"
          /\ call[c].pc = "approve" => call[c].fresh = "pending"
      BY <1>1, <2>3 DEF CertInv
    <3>2. UNCHANGED csr \/ (/\ call[c].pc \in {"create", "approve"}
                            /\ call[c].pc = "approve" => csr[call[c].name] = "pending"
                            /\ \E x : csr' = [csr EXCEPT ![call[c].name] = x])
      BY <2>3, <3>1 DEF CSR!CertStep, CSR!CertError, CSR!APIError, CSR!getCABundle,
         CSR!CreateRequest, CSR!RefetchRequest, CSR!ApproveRequest, CSR!PollSigned,
         CSR!PollAgain, CSR!RefetchRefused, CSR!ApprovalConflict, CSR!PollEnds
    <3> QED BY <1>1, <2>1, <3>1, <3>2
  <2>4. ASSUME NEW m \in Names, CSR!CSRClusterStep(m)
        PROVE  csr'[n] \in {"denied", "removed"}
    BY <1>1, <2>1, <2>4 DEF CSR!CSRClusterStep, CSR!OtherApproves, CSR!OtherDenies, CSR!Sign,
       CSR!RemoveRequest, CSR!Decide
  <2>5. \/ UNCHANGED csr
        \/ \E c \in Claims : CSR!CertStep(c) \/ CSR!CertError(c) \/ CSR!APIError(c)
        \/ \E m \in Names : CSR!CSRClusterStep(m)
    BY <1>1 DEF LaunchNext, StartUp, Restart, Schedule, CreateStep, Begin, CSR!NameServer, Certify,
       Abort, Reject, Persist, Launch, LoseAnswer, Ask, DeleteStep, NewPlan, Decide, allVars,
       launchVars, certVars
  <2> QED BY <1>1, <2>2, <2>3, <2>4, <2>5
<1>2. CertInv /\ [LaunchNext]_allVars =>
          [\A n \in Names : csr[n] = "denied" => csr'[n] \in {"denied", "removed"}]_allVars
  BY <1>1
<1> QED
  BY <1>2, LaunchInvariant, PTL DEF LaunchSpec, DenialIsRespected

(* Whether a product exceeds a bound, asked by division. *)
LEMMA DivisionBound ==
    ASSUME NEW m \in Nat, NEW b \in Nat \ {0}, NEW k \in Nat
    PROVE  k <= m \div b <=> k * b <= m
<1> DEFINE q == m \div b
<1>1. q \in Nat /\ q * b <= m /\ m < q * b + b
  OBVIOUS
<1> HIDE DEF q
<1>2. CASE k <= q
  <2>1. k * b <= q * b
    BY <1>1, <1>2
  <2>2. k * b \in Nat /\ q * b \in Nat
    BY <1>1
  <2> QED BY <1>1, <1>2, <2>1, <2>2 DEF q
<1>3. CASE q + 1 <= k
  <2>1. (q + 1) * b <= k * b
    BY <1>1, <1>3
  <2>2. (q + 1) * b = q * b + b
    BY <1>1
  <2>3. k * b \in Nat /\ q * b \in Nat
    BY <1>1
  <2> QED BY <1>1, <1>3, <2>1, <2>2, <2>3 DEF q
<1> QED
  BY <1>1, <1>2, <1>3

(* A number within the width is not changed by it. *)
LEMMA WrapFits ==
    ASSUME NEW n \in 0..MaxInt
    PROVE  Wrap(n) = n
<1>1. ASSUME NEW k \in Nat, NEW w \in Nat, k < w PROVE k % w = k
  BY <1>1
<1>2. /\ n + MaxInt + 1 \in Nat /\ 2 * (MaxInt + 1) \in Nat
      /\ n + MaxInt + 1 < 2 * (MaxInt + 1)
  BY WidthAssumption
<1>3. (n + MaxInt + 1) % (2 * (MaxInt + 1)) = n + MaxInt + 1
  BY <1>1, <1>2
<1> QED
  BY <1>3, WidthAssumption DEF Wrap

(* "saturate the MiB-to-bytes conversion instead of overflowing": whatever  *)
(* memory a plan is said to have, its bytes are the product if that fits    *)
(* and else the largest integer, never a number that has wrapped around.    *)
THEOREM MemorySaturates ==
    ASSUME NEW mib \in Int
    PROVE  memoryBytes(mib) = IF Clamped(mib) * MiB <= MaxInt THEN Clamped(mib) * MiB ELSE MaxInt
<1>1. Clamped(mib) \in Nat
  BY DEF Clamped
<1>2. Clamped(mib) <= MaxInt \div MiB <=> Clamped(mib) * MiB <= MaxInt
  BY <1>1, WidthAssumption, DivisionBound
<1>3. Clamped(mib) * MiB \in Nat
  BY <1>1, WidthAssumption
<1>4. Clamped(mib) * MiB <= MaxInt => Wrap(Clamped(mib) * MiB) = Clamped(mib) * MiB
  BY <1>3, WrapFits, WidthAssumption
<1> QED
  BY <1>2, <1>4 DEF memoryBytes

(* What Get and List say of a genuine plan is what Karpenter is offered.    *)
LEMMA SameDescription ==
    ASSUME NEW p \in Plans, Genuine(p)
    PROVE  buildNodeClaim(p) = InstanceType(p)
<1>1. Details[p].memory \in 0..(MaxInt \div MiB)
  BY DEF Genuine
<1>2. memoryBytes(Details[p].memory) = Wrap(Details[p].memory * MiB)
  <2>1. Clamped(Details[p].memory) = Details[p].memory
    BY <1>1, WidthAssumption DEF Clamped
  <2>2. Details[p].memory <= MaxInt \div MiB
    BY <1>1, WidthAssumption
  <2> QED BY <2>1, <2>2 DEF memoryBytes
<1> QED
  BY <1>2 DEF buildNodeClaim, InstanceType

(* What Create returned for a claim is what Get and List say of its server, *)
(* which is of a plan Karpenter asked for, with any labels of NodeClasses   *)
(* and claims, and any plans: memory within the bounds the code relies on   *)
(* is also what Karpenter scheduled with.                                   *)
THEOREM ClaimsDescribeServers == LaunchSpec => []ClaimDescribesServer
<1>1. ASSUME PlanInv, LeaseInv, NEW c \in Claims, pid[c] # Nil
      PROVE  LET s == ServerUUID(pid[c])
                 plan == made[s].plan
                 listed == buildNodeClaim(plan)
                 told == returned[c]
                 set == DOMAIN labels[s] \cup DOMAIN own[c]
             IN  /\ req[c] # <<>> => \E i \in DOMAIN req[c] : req[c][i] = plan
                 /\ told.type # listed.type => TypeKey \in set
                 /\ told.capacityType # listed.capacityType => CapacityTypeKey \in set
                 /\ told.memory = listed.memory
                 /\ Genuine(plan) => told.memory = InstanceType(plan).memory
  <2>1. Held(c) = ServerUUID(pid[c]) /\ Held(c) # Nil
    BY <1>1, UUIDType, NilAssumption DEF Held, LeaseInv
  <2>2. /\ made[ServerUUID(pid[c])].plan = Plan(c)
        /\ returned[c] = NewNodeClaim(Plan(c), labels[ServerUUID(pid[c])], own[c])
        /\ req[c] # Nil
    BY <1>1, <2>1 DEF PlanInv
  <2>3. Plan(c) \in Plans
    BY <1>1, <2>2 DEF PlanInv, LaunchTypeOK, Plan, ChosenPlan
  <2>4. req[c] # <<>> => \E i \in DOMAIN req[c] : req[c][i] = Plan(c)
    BY <1>1, <2>2 DEF PlanInv, Plan
  <2>5. LET listed == buildNodeClaim(Plan(c))
            set == DOMAIN labels[ServerUUID(pid[c])] \cup DOMAIN own[c]
        IN  /\ returned[c].memory = listed.memory
            /\ returned[c].type # listed.type => TypeKey \in set
            /\ returned[c].capacityType # listed.capacityType => CapacityTypeKey \in set
    BY <2>2 DEF NewNodeClaim, NodeLabel, buildNodeClaim
  <2> QED BY <2>2, <2>3, <2>4, <2>5, SameDescription
<1>2. PlanInv /\ LeaseInv => ClaimDescribesServer
  BY <1>1 DEF ClaimDescribesServer
<1> QED
  BY <1>2, LaunchInvariant, LaunchImplementsLifecycle, LeaseInvariant, PTL

(* Every server of a plan Karpenter chose has the disk the plan bundles.    *)
THEOREM StorageIsBundled == LaunchSpec => []BundledStorage
<1>1. PlanInv => BundledStorage
  BY DEF PlanInv, BundledStorage
<1> QED
  BY <1>1, LaunchInvariant, PTL
=============================================================================
