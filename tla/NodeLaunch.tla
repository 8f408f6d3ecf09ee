------------------------------ MODULE NodeLaunch ------------------------------
(***************************************************************************)
(* The whole of cloudprovider.Create: ServerLifecycle, in which it is one  *)
(* step "launch", composed with the bootstrap certificate (KubeletCSR) and *)
(* with the start-up of the process and its instance types (InstanceTypes).*)
(* Nothing of ServerLifecycle runs before the process has started. Left    *)
(* out is what has nothing to do with what is added here: garbage          *)
(* collection, the state of the nodes, which only it reads, and the expiry *)
(* of the launch cache, which is to a launch as a restart is.              *)
(***************************************************************************)
EXTENDS ServerLifecycle, InstanceTypes

CONSTANTS
    Names, MaxPolls,
    ClaimLabels    \* the values NodeClaim.metadata.labels may have

ASSUME PollsAssumption == MaxPolls \in Nat
ASSUME ClaimLabelsAssumption == ClaimLabels \subseteq LabelMaps

VARIABLES
    csr, call, signed,  \* KubeletCSR
    req,           \* claim -> its instance-type requirement, Nil until it is created
    own,           \* claim -> its own labels
    made,          \* server -> its hostname, plan and disk in the UpCloud API
    returned       \* claim -> labels and capacity of the NodeClaim Create returned

CSR == INSTANCE KubeletCSR WITH Callers <- Claims

certVars == <<csr, call, signed>>
claimSpecVars == <<req, own>>
createVars == <<made, returned>>
launchVars == <<certVars, typeVars, claimSpecVars, createVars>>
allVars == <<vars, launchVars>>

Plan(c) == ChosenPlan(req[c])

(* lo.Assign: the labels of the NodeClass go before the computed ones, and  *)
(* those of the NodeClaim before both.                                      *)
NodeLabel(key, computed, class, claim) ==
    IF key \in DOMAIN claim THEN claim[key]
    ELSE IF key \in DOMAIN class THEN class[key]
    ELSE computed

(* Mutant of NewNodeClaim: the capacity type of the NodeClass's plan. *)
NewNodeClaimOfClass(p, class, claim) ==
    [type |-> NodeLabel(TypeKey, p, class, claim),
     capacityType |-> NodeLabel(CapacityTypeKey, CapacityType(ClassPlan), class, claim),
     memory |-> Wrap(Details[p].memory * MiB)]

(* The NodeClaim that Create returns for a new server of plan p. *)
NewNodeClaim(p, class, claim) ==
    [type |-> NodeLabel(TypeKey, p, class, claim),
     capacityType |-> NodeLabel(CapacityTypeKey, CapacityType(p), class, claim),
     memory |-> Wrap(Details[p].memory * MiB)]

-----------------------------------------------------------------------------
(* Create, step by step                                                     *)

(* Karpenter's provisioner, or a user, creates the claim, with labels of    *)
(* its own.                                                                 *)
Schedule(c) ==
    /\ running /\ req[c] = Nil
    /\ \E values \in Requirements, user \in ClaimLabels :
          req' = [req EXCEPT ![c] = values] /\ own' = [own EXCEPT ![c] = user]
    /\ UNCHANGED <<vars, certVars, typeVars, createVars>>

Begin(c) ==
    /\ running /\ req[c] # Nil
    /\ CreateBegin(c)
    /\ CSR!NameServer(c)
    /\ UNCHANGED <<typeVars, claimSpecVars, createVars>>

(* The certificate is on its way ... *)
Certify(c) ==
    /\ running
    /\ CSR!CertStep(c)
    /\ UNCHANGED <<vars, typeVars, claimSpecVars, createVars>>

(* ... or there is none, or the user data cannot be generated: Create       *)
(* returns the error before there is a server.                              *)
Abort(c) ==
    /\ running
    /\ CreateAbort(c)
    /\ \/ CSR!CertError(c)
       \/ CSR!APIError(c)
       \/ call[c].pc = "certified" /\ CSR!CertFails(c) /\ UNCHANGED <<csr, signed>>
    /\ UNCHANGED <<typeVars, claimSpecVars, createVars>>

(* The server is requested, with the name the certificate is for. *)
Ask(c) == running /\ call[c].pc = "certified" /\ CSR!CertFails(c) /\ UNCHANGED <<csr, signed>>

Make(c, s) ==
    /\ Plan(c) \in offered
    /\ made' = [made EXCEPT ![s] =
                   [name |-> call[c].name, plan |-> Plan(c), size |-> StorageSize(Plan(c))]]

Launch(c, s, user) ==
    /\ Ask(c) /\ Make(c, s)
    /\ CreateServer(c, s, user)
    /\ returned' = [returned EXCEPT ![c] = NewNodeClaim(Plan(c), user, own[c])]
    /\ UNCHANGED <<typeVars, claimSpecVars>>

Reject(c) == Ask(c) /\ CreateRejected(c) /\ UNCHANGED <<typeVars, claimSpecVars, createVars>>

LoseAnswer(c, s, user) ==
    /\ Ask(c) /\ Make(c, s)
    /\ CreateAnswerLost(c, s, user)
    /\ UNCHANGED <<typeVars, claimSpecVars, returned>>

Persist(c) ==
    /\ running
    /\ PersistLaunch(c) \/ PersistFailed(c) \/ LaunchFromCache(c)
    /\ UNCHANGED launchVars

CreateStep(c) ==
    \/ Begin(c)
    \/ Certify(c)
    \/ Abort(c)
    \/ Reject(c)
    \/ Persist(c)
    \/ \E s \in Servers, user \in UserLabels : Launch(c, s, user) \/ LoseAnswer(c, s, user)

DeleteStep(c) == running /\ FinalizeStep(c) /\ UNCHANGED launchVars

-----------------------------------------------------------------------------
(* The process and its surroundings                                         *)

StartUp == Start /\ UNCHANGED <<vars, certVars, claimSpecVars, createVars>>

(* The process stops; the calls of Create under way go with it. *)
Restart ==
    /\ running /\ Stop
    /\ Crash
    /\ call' = [c \in Claims |-> CSR!NoCall]
    /\ UNCHANGED <<csr, signed, claimSpecVars, createVars>>

NewPlan(p) == PlanIntroduced(p) /\ UNCHANGED <<vars, certVars, claimSpecVars, createVars>>

Decide(n) == CSR!CSRClusterStep(n) /\ UNCHANGED <<vars, typeVars, claimSpecVars, createVars>>

LaunchInit ==
    /\ Init /\ TypesInit /\ CSR!CSRInit
    /\ req = [c \in Claims |-> Nil]
    /\ own = [c \in Claims |-> NoLabels]
    /\ made = [s \in Servers |-> Nil]
    /\ returned = [c \in Claims |-> Nil]

LaunchNext ==
    \/ StartUp
    \/ Restart
    \/ \E c \in Claims : Schedule(c) \/ CreateStep(c) \/ DeleteStep(c)
    \/ \E c \in Claims : req[c] # Nil /\ DeleteClaim(c) /\ UNCHANGED launchVars
    \/ \E s \in Servers : CloudStep(s) /\ UNCHANGED launchVars
    \/ \E n \in Names : Decide(n)
    \/ \E p \in Plans : NewPlan(p)

LaunchSpec == LaunchInit /\ [][LaunchNext]_allVars

(* That of ServerLifecycle, and the process is restarted until it runs.     *)
(* Nobody has to decide on a request, or to sign one.                       *)
LaunchFairness ==
    /\ WF_allVars(StartUp)
    /\ \A c \in Claims : WF_allVars(CreateStep(c)) /\ WF_allVars(DeleteStep(c))
    /\ \A s \in Servers :
          WF_allVars((Boot(s) \/ PowerOff(s)) /\ UNCHANGED launchVars)

LaunchFairSpec == LaunchSpec /\ LaunchFairness

-----------------------------------------------------------------------------
(* Properties                                                               *)

(* "respect the existing decision": generateKubeletCert never turns a       *)
(* request that somebody has denied into an approved one, although the      *)
(* denial may come between its Get and its UpdateApproval.                  *)
DenialIsRespected ==
    [][\A n \in Names : csr[n] = "denied" => csr'[n] \in {"denied", "removed"}]_allVars

(* No server is paid for that cannot join: each was made after the cluster  *)
(* had signed the certificate for its own name; so none has a name whose    *)
(* request was denied, timed out or was taken away before it was signed.    *)
CertifiedServers ==
    \A s \in Servers : server[s] # "none" => made[s].name \in signed

(* A claim describes its machine: it is of a plan Karpenter asked for, what *)
(* Create returned and what Get and List say of the server agree on its     *)
(* plan, its capacity type and its memory, across retries, restarts and     *)
(* lost answers, and the memory is what Karpenter scheduled with if the     *)
(* plan is genuine. A label differs only where the NodeClass the server was *)
(* made from, or the claim, sets that very label.                           *)
ClaimDescribesServer ==
    \A c \in Claims : pid[c] # Nil =>
        LET s == ServerUUID(pid[c])
            plan == made[s].plan
            listed == buildNodeClaim(plan)
            told == returned[c]
            set == DOMAIN labels[s] \cup DOMAIN own[c]
        IN  /\ req[c] # <<>> => \E i \in DOMAIN req[c] : req[c][i] = plan
            /\ told.type # listed.type => TypeKey \in set
            /\ told.capacityType # listed.capacityType => CapacityTypeKey \in set
            /\ told.memory = listed.memory
            /\ Genuine(plan) => told.memory = InstanceType(plan).memory

(* A server of a plan Karpenter has chosen has the disk that the plan       *)
(* bundles, also when another process made the choice: none creates servers *)
(* before it has read the plans.                                            *)
BundledStorage ==
    \A s \in Servers :
        server[s] # "none" /\ req[owner[s]] # <<>> /\ Details[made[s].plan].bundled > 0 =>
            made[s].size = Details[made[s].plan].bundled

(* Create always returns: it does not wait for ever for a certificate that  *)
(* nobody approves or signs, or whose request is gone.                      *)
CreateReturns == \A c \in Claims : pc[c] = "launch" ~> pc[c] # "launch"

-----------------------------------------------------------------------------
(* The inductive invariants of NodeLaunch_proofs                            *)

(* A name belongs to one call; there is no request of that name before the  *)
(* call makes it; a copy that is to be approved was pending; and who has a  *)
(* certificate, or has become a server, has one that was signed.            *)
CertInv ==
    /\ CSR!CSRTypeOK
    /\ \A c \in Claims :
          /\ call[c].pc = "idle" <=> call[c] = CSR!NoCall
          /\ call[c].pc # "idle" => call[c].name \in Names /\ call[c].name # Nil
          /\ call[c].pc \in {"ca", "create"} => csr[call[c].name] = "none"
          /\ call[c].pc = "approve" => call[c].fresh = "pending"
          /\ call[c].pc = "certified" => call[c].name \in signed
    /\ \A c, d \in Claims : c # d /\ call[c].pc # "idle" => call[c].name # call[d].name
    /\ \A s \in Servers : server[s] # "none" =>
          made[s].name \in Names /\ made[s].name \in signed
    /\ \A n \in Names : csr[n] = "signed" => n \in signed

LaunchTypeOK ==
    /\ known \subseteq offered /\ offered \subseteq Plans /\ ClassPlan \in offered
    /\ req \in [Claims -> {Nil} \cup Seq(Plans)]
    /\ made \in [Servers -> {Nil} \cup [name : Names, plan : Plans, size : Nat \cup {ClassSize}]]
    /\ own \in [Claims -> {NoLabels} \cup ClaimLabels]
    /\ returned \in [Claims -> {Nil} \cup {NewNodeClaim(p, class, claim) :
                           p \in Plans, class \in UserLabels, claim \in {NoLabels} \cup ClaimLabels}]

(* A requirement is of plans that are offered, and that the process, when   *)
(* it runs, knows; a claim at work has been given one; and what it holds    *)
(* was made and returned by its requirement.                                *)
PlanInv ==
    /\ LaunchTypeOK
    /\ \A c \in Claims :
          /\ req[c] # Nil /\ req[c] # <<>> =>
                /\ ChosenPlan(req[c]) \in offered
                /\ running => ChosenPlan(req[c]) \in known
                /\ \E i \in DOMAIN req[c] : req[c][i] = ChosenPlan(req[c])
          /\ pc[c] = "launch" \/ Held(c) # Nil => req[c] # Nil
          /\ Held(c) # Nil => /\ made[Held(c)].plan = Plan(c)
                              /\ returned[c] = NewNodeClaim(Plan(c), labels[Held(c)], own[c])
    /\ \A s \in Servers : server[s] # "none" =>
          /\ owner[s] \in Claims /\ req[owner[s]] # Nil
          /\ made[s].plan = Plan(owner[s])
          /\ req[owner[s]] # <<>> /\ Details[made[s].plan].bundled > 0 =>
                 made[s].size = Details[made[s].plan].bundled
=============================================================================
