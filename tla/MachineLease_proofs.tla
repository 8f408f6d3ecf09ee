-------------------------- MODULE MachineLease_proofs --------------------------
(***************************************************************************)
(* What the abstract lease promises: that it is worth implementing. With   *)
(* LeaseRefinement_proofs it holds of Create, Delete, Get and List too.    *)
(***************************************************************************)
EXTENDS MachineLease, TLAPS

(* The lease of one claim begins. *)
LEMMA AcquireLeased ==
    ASSUME Nil \notin Machines, LeasedInv, NEW c \in Claims, NEW m \in Machines, Acquire(c, m)
    PROVE  LeasedInv'
<1> USE DEF LeasedInv, TypeOK, Leased
<1>1. /\ held' = [held EXCEPT ![c] = m] /\ m \notin used /\ held[c] = Nil /\ c \in open
      /\ used' = used \cup {m} /\ exists' = exists \cup {m}
      /\ UNCHANGED <<open, recorded, orphans>>
  BY DEF Acquire, Make
<1>2. TypeOK'
  BY <1>1
<1>3. ASSUME NEW x \in exists' \ orphans' PROVE \E d \in open' : held'[d] = x
  <2>1. CASE x = m
    BY <1>1, <2>1
  <2>2. CASE x # m
    <3>1. PICK d \in open : held[d] = x
      BY <1>1, <2>2
    <3>2. d # c
      BY <1>1, <1>3, <2>2, <3>1
    <3> QED BY <1>1, <3>1, <3>2
  <2> QED BY <2>1, <2>2
<1>4. \A d, e \in Claims : held'[d] = held'[e] /\ held'[d] # Nil => d = e
  BY <1>1
<1>5. \A d \in Claims :
          /\ held'[d] # Nil => held'[d] \in used' \ orphans'
          /\ d \in recorded' => held'[d] # Nil
          /\ d \notin open' => held'[d] \notin exists'
  BY <1>1
<1> QED
  BY <1>2, <1>3, <1>4, <1>5

(* Leases are lost, of the claims in L, none of which is on record. *)
LEMMA DroppedLeased ==
    ASSUME LeasedInv, NEW L \in SUBSET (Claims \ recorded),
           held' = [c \in Claims |-> IF c \in L THEN Nil ELSE held[c]],
           orphans' = orphans \cup ({held[c] : c \in L} \ {Nil}),
           open' = open \/ (L \cap open # {} /\ open' \in SUBSET open /\ open \ open' \subseteq L),
           UNCHANGED <<recorded, used, exists>>, Nil \notin Machines
    PROVE  LeasedInv'
<1> USE DEF LeasedInv, TypeOK, Leased
<1>0. open' \subseteq open /\ open \ open' \subseteq L
  OBVIOUS
<1>1. TypeOK'
  BY <1>0
<1>2. ASSUME NEW x \in exists' \ orphans' PROVE \E d \in open' : held'[d] = x
  <2>1. PICK d \in open : held[d] = x
    OBVIOUS
  <2>2. d \notin L
    BY <1>2, <2>1
  <2> QED BY <1>0, <2>1, <2>2
<1>3. \A d, e \in Claims : held'[d] = held'[e] /\ held'[d] # Nil => d = e
  OBVIOUS
<1>4. ASSUME NEW d \in Claims
      PROVE  /\ held'[d] # Nil => held'[d] \in used' \ orphans'
             /\ d \in recorded' => held'[d] # Nil
             /\ d \notin open' => held'[d] \notin exists'
  <2>1. held'[d] # Nil => held'[d] \in used' \ orphans'
    OBVIOUS
  <2>2. d \in recorded' => held'[d] # Nil
    OBVIOUS
  <2>3. d \notin open' => held'[d] \notin exists'
    BY <1>0
  <2> QED BY <2>1, <2>2, <2>3
<1> QED
  BY <1>1, <1>2, <1>3, <1>4

LEMMA LeasedNext ==
    ASSUME Nil \notin Machines, LeasedInv, [Next]_vars
    PROVE  LeasedInv'
<1>1. ASSUME NEW c \in Claims, Record(c) PROVE LeasedInv'
  BY <1>1 DEF Record, LeasedInv, TypeOK, Leased
<1>2. ASSUME NEW c \in Claims, Close(c) PROVE LeasedInv'
  BY <1>2 DEF Close, LeasedInv, TypeOK, Leased
<1>3. ASSUME NEW c \in Claims, Abandon(c) PROVE LeasedInv'
  <2> DEFINE L == {c}
  <2>1. /\ L \in SUBSET (Claims \ recorded)
        /\ held' = [d \in Claims |-> IF d \in L THEN Nil ELSE held[d]]
        /\ orphans' = orphans \cup ({held[d] : d \in L} \ {Nil})
        /\ L \cap open # {} /\ open' \in SUBSET open /\ open \ open' \subseteq L
        /\ UNCHANGED <<recorded, used, exists>>
    BY <1>3 DEF Abandon, LeasedInv, TypeOK
  <2> HIDE DEF L
  <2> QED BY <2>1, DroppedLeased
<1>4. ASSUME NEW L \in SUBSET Claims, Forget(L) PROVE LeasedInv'
  <2>1. /\ L \in SUBSET (Claims \ recorded)
        /\ held' = [d \in Claims |-> IF d \in L THEN Nil ELSE held[d]]
        /\ orphans' = orphans \cup ({held[d] : d \in L} \ {Nil})
        /\ open' = open
        /\ UNCHANGED <<recorded, used, exists>>
    BY <1>4 DEF Forget, LeasedInv, TypeOK
  <2> QED BY <2>1, DroppedLeased
<1>5. ASSUME NEW m \in Machines, MakeOrphan(m) PROVE LeasedInv'
  BY <1>5 DEF MakeOrphan, Make, LeasedInv, TypeOK, Leased
<1>6. ASSUME NEW m \in Machines, Destroy(m) PROVE LeasedInv'
  BY <1>6 DEF Destroy, LeasedInv, TypeOK, Leased
<1>7. CASE UNCHANGED vars
  BY <1>7 DEF vars, LeasedInv, TypeOK, Leased
<1> QED
  BY <1>1, <1>2, <1>3, <1>4, <1>5, <1>6, <1>7, AcquireLeased DEF Next

(* Of the lease alone, whatever implements it: a machine that exists and    *)
(* whose lease was not lost is held by an open claim, and by no other.      *)
THEOREM LeaseMeansLeased ==
    ASSUME Nil \notin Machines
    PROVE  Spec => []Leased
<1>1. Init => LeasedInv
  BY DEF Init, LeasedInv, TypeOK, Leased
<1>2. LeasedInv /\ [Next]_vars => LeasedInv'
  BY LeasedNext
<1>3. LeasedInv => Leased
  BY DEF LeasedInv
<1> QED
  BY <1>1, <1>2, <1>3, PTL DEF Spec
=============================================================================
