----------------------------- MODULE MachineLease -----------------------------
(***************************************************************************)
(* What the provider promises about machines, whatever calls it takes: an  *)
(* open claim leases at most one machine; a lease that is on record is     *)
(* never given up while its machine exists; and a machine without a lease  *)
(* is one whose lease was lost before it was recorded.                     *)
(* ServerLifecycle implements this specification.                          *)
(***************************************************************************)
CONSTANTS Claims, Machines, Nil

VARIABLES
    open,         \* the claims that are not closed yet
    held,         \* claim -> the machine it leases, or Nil
    recorded,     \* the claims whose lease is on record
    used,         \* the machines that were ever made
    exists,       \* the machines that exist
    orphans       \* the machines whose lease was lost

vars == <<open, held, recorded, used, exists, orphans>>

Init ==
    /\ open = Claims /\ held = [c \in Claims |-> Nil] /\ recorded = {}
    /\ used = {} /\ exists = {} /\ orphans = {}

(* A machine is new: none is ever made twice or brought back. *)
Make(m) == m \notin used /\ used' = used \cup {m} /\ exists' = exists \cup {m}

Acquire(c, m) ==
    /\ c \in open /\ held[c] = Nil
    /\ Make(m)
    /\ held' = [held EXCEPT ![c] = m]
    /\ UNCHANGED <<open, recorded, orphans>>

(* A machine is made and nobody hears of it. *)
MakeOrphan(m) ==
    /\ Make(m)
    /\ orphans' = orphans \cup {m}
    /\ UNCHANGED <<open, held, recorded>>

Record(c) ==
    /\ c \in open \ recorded /\ held[c] # Nil
    /\ recorded' = recorded \cup {c}
    /\ UNCHANGED <<open, held, used, exists, orphans>>

(* Leases that are not on record are forgotten. *)
Forget(lapsed) ==
    /\ lapsed \cap recorded = {}
    /\ held' = [c \in Claims |-> IF c \in lapsed THEN Nil ELSE held[c]]
    /\ orphans' = orphans \cup ({held[c] : c \in lapsed} \ {Nil})
    /\ UNCHANGED <<open, recorded, used, exists>>

Destroy(m) ==
    /\ m \in exists /\ exists' = exists \ {m}
    /\ UNCHANGED <<open, held, recorded, used, orphans>>

(* A claim whose lease is on record is closed when its machine is gone ... *)
Close(c) ==
    /\ c \in open \cap recorded /\ held[c] \notin exists
    /\ open' = open \ {c}
    /\ UNCHANGED <<held, recorded, used, exists, orphans>>

(* ... and another one at any time, upon which its lease is forgotten. *)
Abandon(c) ==
    /\ c \in open \ recorded
    /\ open' = open \ {c}
    /\ held' = [held EXCEPT ![c] = Nil]
    /\ orphans' = orphans \cup ({held[c]} \ {Nil})
    /\ UNCHANGED <<recorded, used, exists>>

Next ==
    \/ \E c \in Claims : Record(c) \/ Close(c) \/ Abandon(c)
    \/ \E m \in Machines : MakeOrphan(m) \/ Destroy(m) \/ \E c \in Claims : Acquire(c, m)
    \/ \E lapsed \in SUBSET Claims : Forget(lapsed)

Spec == Init /\ [][Next]_vars

-----------------------------------------------------------------------------
(* What the lease means                                                     *)

TypeOK ==
    /\ open \subseteq Claims /\ recorded \subseteq Claims
    /\ held \in [Claims -> Machines \cup {Nil}]
    /\ used \subseteq Machines /\ exists \subseteq used /\ orphans \subseteq used

(* No machine runs without somebody who answers for it, unless its lease    *)
(* was lost, and nobody answers for a machine of another.                   *)
Leased ==
    /\ \A m \in exists \ orphans : \E c \in open : held[c] = m
    /\ \A c, d \in Claims : held[c] = held[d] /\ held[c] # Nil => c = d

(* Made inductive: what is held was made, is no orphan, and a closed claim  *)
(* holds at most what is gone.                                              *)
LeasedInv ==
    /\ TypeOK /\ Leased
    /\ \A c \in Claims :
          /\ held[c] # Nil => held[c] \in used \ orphans
          /\ c \in recorded => held[c] # Nil
          /\ c \notin open => held[c] \notin exists
=============================================================================
