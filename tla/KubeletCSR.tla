------------------------------ MODULE KubeletCSR ------------------------------
(***************************************************************************)
(* getCABundle and generateKubeletCert: Create reads the cluster's CA and  *)
(* asks for a client certificate in the name of the server it is about to  *)
(* make. It creates a CertificateSigningRequest, reads it back, approves   *)
(* it unless somebody else has decided, and polls for the certificate for  *)
(* a limited time.                                                         *)
(* Other approvers, the signer and whoever deletes requests act in between.*)
(*                                                                         *)
(* A request is changed by each of them once, so that its state also       *)
(* serves as its resourceVersion.                                          *)
(***************************************************************************)
EXTENDS Naturals

CONSTANTS
    Callers,       \* the calls of Create that may be under way, by NodeClaim
    Names,         \* the random names servers are given
    Nil,           \* no name, nothing read
    MaxPolls       \* polls before the timeout (90 s, one every 2 s)

VARIABLES
    csr,           \* name -> the request kubelet-<name>
    call,          \* caller -> its call of generateKubeletCert
    signed         \* the names the signer has ever signed for: a request that is
                   \* removed does not say whether it was signed before

csrVars == <<csr, call, signed>>

RequestStates == {"none", "pending", "approved", "denied", "signed", "removed"}

NoCall == [pc |-> "idle", name |-> Nil, fresh |-> Nil, polls |-> 0]

CSRInit ==
    /\ csr = [n \in Names |-> "none"]
    /\ call = [c \in Callers |-> NoCall]
    /\ signed = {}

Request(c) == csr[call[c].name]
Existing == {"pending", "approved", "denied", "signed"}

Step(c, pc) == call' = [call EXCEPT ![c].pc = pc]
SetRequest(c, state) == csr' = [csr EXCEPT ![call[c].name] = state]

(* generateKubeletCert returns an error. *)
CertFails(c) == call' = [call EXCEPT ![c] = NoCall]

Unused == {n \in Names : csr[n] = "none" /\ \A d \in Callers : call[d].name # n}

(* Create picks a random name that nobody has used; nothing has been told   *)
(* of any of these, so that it makes no difference which one it is.         *)
NameServer(c) ==
    /\ call[c] = NoCall /\ Unused # {}
    /\ call' = [call EXCEPT ![c] = [pc |-> "ca", name |-> CHOOSE n \in Unused : TRUE,
                                    fresh |-> Nil, polls |-> 0]]
    /\ UNCHANGED <<csr, signed>>

(* The CA bundle is read from the ConfigMap kube-root-ca.crt. *)
getCABundle(c) == call[c].pc = "ca" /\ Step(c, "create") /\ UNCHANGED <<csr, signed>>

CreateRequest(c) ==
    /\ call[c].pc = "create"
    /\ SetRequest(c, "pending")
    /\ Step(c, "get")
    /\ UNCHANGED signed

(* The request is read back: a denial ends the call, an approval is         *)
(* respected, and otherwise the copy is the one to be approved.             *)
RefetchRequest(c) ==
    /\ call[c].pc = "get" /\ Request(c) \in Existing \ {"denied"}
    /\ call' = [call EXCEPT ![c] =
                   [pc |-> IF Request(c) = "pending" THEN "approve" ELSE "poll",
                    name |-> @.name, fresh |-> Request(c), polls |-> 0]]
    /\ UNCHANGED <<csr, signed>>

RefetchRefused(c) ==
    /\ call[c].pc = "get" /\ Request(c) \notin Existing \ {"denied"}
    /\ CertFails(c)
    /\ UNCHANGED <<csr, signed>>

(* Mutant of ApproveRequest: an update without resourceVersion. *)
ApproveRequestUnlocked(c) ==
    /\ call[c].pc = "approve" /\ Request(c) \in Existing
    /\ SetRequest(c, "approved")
    /\ Step(c, "poll")
    /\ UNCHANGED signed

(* UpdateApproval of the copy succeeds if nobody has changed the request. *)
ApproveRequest(c) ==
    /\ call[c].pc = "approve" /\ Request(c) = call[c].fresh
    /\ SetRequest(c, "approved")
    /\ Step(c, "poll")
    /\ UNCHANGED signed

ApprovalConflict(c) ==
    /\ call[c].pc = "approve" /\ Request(c) # call[c].fresh
    /\ CertFails(c)
    /\ UNCHANGED <<csr, signed>>

(* Mutant of PollSigned: an approved request is taken for a signed one. *)
PollApproved(c) ==
    /\ call[c].pc = "poll" /\ Request(c) \in {"approved", "signed"}
    /\ Step(c, "certified")
    /\ UNCHANGED <<csr, signed>>

(* The poll finds the certificate ... *)
PollSigned(c) ==
    /\ call[c].pc = "poll" /\ Request(c) = "signed"
    /\ Step(c, "certified")
    /\ UNCHANGED <<csr, signed>>

(* Mutant of PollAgain: the poll has no timeout. *)
PollForEver(c) ==
    /\ call[c].pc = "poll" /\ Request(c) \in Existing \ {"signed"}
    /\ call' = [call EXCEPT ![c].polls = 1 - @]
    /\ UNCHANGED <<csr, signed>>

(* ... or the request without one, and is repeated ... *)
PollAgain(c) ==
    /\ call[c].pc = "poll" /\ Request(c) \in Existing \ {"signed"} /\ call[c].polls < MaxPolls
    /\ call' = [call EXCEPT ![c].polls = @ + 1]
    /\ UNCHANGED <<csr, signed>>

(* ... until the request is gone or the time is over. *)
PollEnds(c) ==
    /\ call[c].pc = "poll" /\ Request(c) # "signed"
    /\ Request(c) \notin Existing \/ call[c].polls = MaxPolls
    /\ CertFails(c)
    /\ UNCHANGED <<csr, signed>>

(* A call of the Kubernetes API fails, before or after it took effect. *)
APIError(c) ==
    /\ call[c].pc \in {"ca", "create", "get", "approve", "poll"}
    /\ CertFails(c) /\ UNCHANGED signed
    /\ \/ UNCHANGED csr
       \/ call[c].pc = "create" /\ SetRequest(c, "pending")
       \/ call[c].pc = "approve" /\ Request(c) = call[c].fresh /\ SetRequest(c, "approved")

(* What the caller's goroutine does: every step but the one that picks a    *)
(* name, and the failures.                                                  *)
CertStep(c) ==
    \/ getCABundle(c)
    \/ CreateRequest(c)
    \/ RefetchRequest(c)
    \/ ApproveRequest(c)
    \/ PollSigned(c)
    \/ PollAgain(c)

CertError(c) == RefetchRefused(c) \/ ApprovalConflict(c) \/ PollEnds(c)

-----------------------------------------------------------------------------
(* The cluster                                                              *)

Decide(n, from, to) ==
    /\ csr[n] \in from
    /\ csr' = [csr EXCEPT ![n] = to]
    /\ UNCHANGED call

OtherApproves(n) == Decide(n, {"pending"}, "approved") /\ UNCHANGED signed
OtherDenies(n) == Decide(n, {"pending"}, "denied") /\ UNCHANGED signed
Sign(n) == Decide(n, {"approved"}, "signed") /\ signed' = signed \cup {n}
RemoveRequest(n) == Decide(n, Existing, "removed") /\ UNCHANGED signed

CSRClusterStep(n) == OtherApproves(n) \/ OtherDenies(n) \/ Sign(n) \/ RemoveRequest(n)

CSRTypeOK ==
    /\ csr \in [Names -> RequestStates]
    /\ call \in [Callers -> [pc : {"idle", "ca", "create", "get", "approve", "poll", "certified"},
                             name : Names \cup {Nil}, fresh : RequestStates \cup {Nil},
                             polls : 0..MaxPolls]]
    /\ signed \subseteq Names
=============================================================================
