------------------------ MODULE NodeClassDrift_proofs ------------------------
(***************************************************************************)
(* Proofs about NodeClassDrift, for every set of claims and of specs and   *)
(* any number of edits, faults and crashes: what the hash tells apart, its *)
(* type invariant, that the stamp of a launched claim is the hash of the   *)
(* spec it was built from, that drift is never reported without a real     *)
(* difference, that the controller forgets no NodeClass it has to act on,  *)
(* and that it writes no status but that of the live spec.                 *)
(***************************************************************************)
EXTENDS NodeClassDrift, FiniteSetTheorems, TLAPS

(* Equivalent specs have the same hash. *)
LEMMA HashCongruence ==
    ASSUME NEW a, NEW b, Canon(a) = Canon(b)
    PROVE  Hash(a) = Hash(b)
  BY DEF Hash

(* Where x occurs in a list. *)
Places(list, x) == {i \in DOMAIN list : list[i] = x}

(* The elements that Odd keeps are those that occur an odd number of times; *)
(* a list has finitely many places.                                         *)
LEMMA OddPlaces ==
    ASSUME NEW T, NEW list \in Seq(T), NEW x
    PROVE  /\ IsFiniteSet(Places(list, x)) /\ Cardinality(Places(list, x)) \in Nat
           /\ x \in Odd(list) <=> Cardinality(Places(list, x)) % 2 = 1
<1>1. IsFiniteSet(DOMAIN list)
  <2>1. DOMAIN list = 1..Len(list) /\ Len(list) \in Int
    OBVIOUS
  <2> QED BY <2>1, FS_Interval
<1>2. IsFiniteSet(Places(list, x))
  BY <1>1, FS_Subset DEF Places
<1>3. Cardinality(Places(list, x)) \in Nat
  BY <1>2, FS_CardinalityType
<1>4. x \notin ToSet(list) => Places(list, x) = {}
  BY DEF ToSet, Places
<1>5. Cardinality({}) = 0
  BY FS_EmptySet
<1>6. x \in Odd(list) <=> x \in ToSet(list) /\ Cardinality(Places(list, x)) % 2 = 1
  BY DEF Odd, Places
<1>7. x \notin ToSet(list) => Cardinality(Places(list, x)) % 2 # 1
  <2>1. x \notin ToSet(list) => Cardinality(Places(list, x)) = 0
    BY <1>4, <1>5
  <2>2. 0 % 2 # 1
    OBVIOUS
  <2> HIDE DEF Places
  <2> QED BY <2>1, <2>2
<1> QED
  BY <1>2, <1>3, <1>6, <1>7

(* What a bijection is, element by element. *)
LEMMA BijectionElements ==
    ASSUME NEW D, NEW E, NEW p
    PROVE  p \in Bijection(D, E) <=>
             /\ p \in [D -> E]
             /\ \A i, j \in D : p[i] = p[j] => i = j
             /\ \A j \in E : \E i \in D : p[i] = j
  BY DEF Bijection, Injection, IsInjective, Surjection

(* A list b that is the list a and then x twice has the same odd elements. *)
LEMMA OddAppended ==
    ASSUME NEW T, NEW a \in Seq(T), NEW b \in Seq(T), NEW n \in Nat, NEW x,
           DOMAIN a = 1..n, DOMAIN b = 1..(n + 2),
           \A i \in 1..n : b[i] = a[i], b[n + 1] = x, b[n + 2] = x
    PROVE  Odd(b) = Odd(a)
<1>1. ASSUME NEW y, y # x PROVE y \in Odd(b) <=> y \in Odd(a)
  <2>1. {i \in DOMAIN b : b[i] = y} = {i \in DOMAIN a : a[i] = y}
    BY <1>1
  <2>2. Places(b, y) = Places(a, y)
    BY <2>1 DEF Places
  <2> QED BY <2>2, OddPlaces
<1>2. x \in Odd(b) <=> x \in Odd(a)
  <2>1. Places(b, x) = (Places(a, x) \cup {n + 1}) \cup {n + 2}
    BY DEF Places
  <2>2. n + 1 \notin Places(a, x) /\ n + 2 \notin Places(a, x) \cup {n + 1}
    BY DEF Places
  <2>3. IsFiniteSet(Places(a, x)) /\ Cardinality(Places(a, x)) \in Nat
    BY OddPlaces
  <2>4. /\ IsFiniteSet(Places(a, x) \cup {n + 1})
        /\ Cardinality(Places(a, x) \cup {n + 1}) = Cardinality(Places(a, x)) + 1
    BY <2>2, <2>3, FS_AddElement
  <2>5. Cardinality(Places(b, x)) = Cardinality(Places(a, x)) + 2
    <3>1. Cardinality((Places(a, x) \cup {n + 1}) \cup {n + 2}) =
              Cardinality(Places(a, x) \cup {n + 1}) + 1
      BY <2>2, <2>4, FS_AddElement
    <3> QED BY <2>1, <2>3, <2>4, <3>1
  <2>6. Cardinality(Places(b, x)) % 2 = 1 <=> Cardinality(Places(a, x)) % 2 = 1
    BY <2>3, <2>5
  <2> QED BY <2>6, OddPlaces
<1>3. \A y : y \in Odd(b) <=> y \in Odd(a)
  BY <1>1, <1>2
<1> QED
  BY <1>3

(* Reordering a list field does not change the hash: SlicesAsSets. *)
THEOREM HashIgnoresOrder ==
    ASSUME NEW s \in Specs, NEW p \in Bijection(DOMAIN s.taints, DOMAIN s.taints)
    PROVE  Hash([s EXCEPT !.taints = [i \in DOMAIN s.taints |-> s.taints[p[i]]]]) = Hash(s)
<1> DEFINE list == s.taints
           moved == [i \in DOMAIN list |-> list[p[i]]]
<1>1. s \in [zone : STRING, plan : STRING, labels : SUBSET STRING, taints : Seq(STRING)] /\ list \in Seq(STRING)
  BY SpecsAssumption
<1>2. p \in [DOMAIN list -> DOMAIN list]
  BY BijectionElements
<1>6. /\ \A i, j \in DOMAIN list : p[i] = p[j] => i = j
      /\ \A j \in DOMAIN list : \E i \in DOMAIN list : p[i] = j
  BY BijectionElements
<1>3. moved \in Seq(STRING)
  <2>1. DOMAIN list = 1..Len(list) /\ Len(list) \in Nat /\ \A i \in DOMAIN list : list[i] \in STRING
    BY <1>1
  <2>2. moved \in [1..Len(list) -> STRING]
    BY <1>2, <2>1
  <2> QED BY <2>1, <2>2
<1>4. ASSUME NEW x PROVE x \in Odd(moved) <=> x \in Odd(list)
  <2> DEFINE q == [i \in Places(moved, x) |-> p[i]]
  <2>1. q \in [Places(moved, x) -> Places(list, x)]
    BY <1>2 DEF Places
  <2>2. \A i, j \in Places(moved, x) : q[i] = q[j] => i = j
    BY <1>6 DEF Places
  <2>3. \A j \in Places(list, x) : \E i \in Places(moved, x) : q[i] = j
    BY <1>6 DEF Places
  <2> HIDE DEF q, moved, list
  <2>4. q \in Bijection(Places(moved, x), Places(list, x))
    BY <2>1, <2>2, <2>3, BijectionElements
  <2>5. Cardinality(Places(list, x)) = Cardinality(Places(moved, x))
    <3>1. IsFiniteSet(Places(moved, x))
      BY <1>3, OddPlaces
    <3> QED BY <2>4, <3>1, FS_Bijection DEF ExistsBijection
  <2> QED BY <1>1, <1>3, <2>5, OddPlaces
<1>5. Odd(moved) = Odd(list)
  BY <1>4
<1>7. moved = <<>> <=> list = <<>>
  <2>1. DOMAIN moved = DOMAIN list
    OBVIOUS
  <2> HIDE DEF moved, list
  <2> QED BY <1>1, <1>3, <2>1
<1> QED
  BY <1>1, <1>5, <1>7 DEF Hash, Canon

(* Appending an element twice. *)
LEMMA OddTwice ==
    ASSUME NEW T, NEW list \in Seq(T), NEW x \in T
    PROVE  Odd(list \o <<x, x>>) = Odd(list)
<1> DEFINE longer == list \o <<x, x>>
<1>1. /\ longer \in Seq(T) /\ Len(list) \in Nat
      /\ DOMAIN list = 1..Len(list) /\ DOMAIN longer = 1..(Len(list) + 2)
  OBVIOUS
<1>2. \A i \in 1..Len(list) : longer[i] = list[i]
  OBVIOUS
<1>3. longer[Len(list) + 1] = x /\ longer[Len(list) + 2] = x
  OBVIOUS
<1> HIDE DEF longer
<1>4. Odd(longer) = Odd(list)
  BY <1>1, <1>2, <1>3, OddAppended
<1> QED
  BY <1>4 DEF longer

(* The exclusive or of equal hashes is nothing: an element that is added    *)
(* twice to a list that is not empty leaves the hash as it was, while an    *)
(* empty list, no part of the hash, hashes differently once it has them.    *)
THEOREM HashDropsPairs ==
    ASSUME NEW s \in Specs, NEW x \in STRING
    PROVE  Hash([s EXCEPT !.taints = @ \o <<x, x>>]) = Hash(s) <=> s.taints # <<>>
<1>1. s \in [zone : STRING, plan : STRING, labels : SUBSET STRING, taints : Seq(STRING)] /\ s.taints \in Seq(STRING)
  BY SpecsAssumption
<1>2. Odd(s.taints \o <<x, x>>) = Odd(s.taints)
  BY <1>1, OddTwice
<1>3. s.taints \o <<x, x>> # <<>>
  BY <1>1
<1>4. CASE s.taints # <<>>
  BY <1>1, <1>2, <1>3, <1>4 DEF Hash, Canon
<1>5. CASE s.taints = <<>>
  <2> DEFINE longer == [s EXCEPT !.taints = @ \o <<x, x>>]
  <2>1. longer.taints # <<>>
    BY <1>1, <1>3
  <2> HIDE DEF longer
  <2>2. Canon(s).taints.hashed = FALSE /\ Canon(longer).taints.hashed = TRUE
    BY <1>5, <2>1 DEF Canon
  <2>3. Canon(s) # Canon(longer)
    BY <2>2
  <2>4. Hash(s) # Hash(longer)
    BY <2>3 DEF Hash
  <2> QED BY <1>5, <2>4 DEF longer
<1> QED
  BY <1>4, <1>5

(* The stamps Create and the controller write. *)
LEMMA StampType ==
    ASSUME NEW s \in Specs
    PROVE  /\ CurrentStamp(s) \in Stamps /\ LegacyStamp(s) \in Stamps
           /\ CurrentStamp(s).version = "v2" /\ CurrentStamp(s).hash = Hash(s)
  BY DEF CurrentStamp, LegacyStamp, Stamps

(* No claim record, class record, spec or stamp is None. *)
LEMMA RecordsAreNotNone ==
    ASSUME NEW s \in Specs, NEW g \in Nat
    PROVE  NewClass(s, g) \in ClassRecords
  BY DEF NewClass, ClassRecords

(* The updates the steps make of a NodeClass and of a NodeClaim. *)
LEMMA EditUpdate ==
    ASSUME NEW o \in ClassRecords, NEW s \in Specs, NEW g \in Nat
    PROVE  [o EXCEPT !.spec = s, !.gen = g] \in ClassRecords
  BY DEF ClassRecords

LEMMA DeleteUpdate ==
    ASSUME NEW o \in ClassRecords, NEW g \in Nat
    PROVE  [o EXCEPT !.deleting = TRUE, !.gen = g] \in ClassRecords
  BY DEF ClassRecords

LEMMA ControllerUpdates ==
    ASSUME NEW o \in ClassRecords
    PROVE  /\ [o EXCEPT !.finalizer = TRUE] \in ClassRecords
           /\ [o EXCEPT !.finalizer = FALSE] \in ClassRecords
           /\ Refused(o) \in ClassRecords
           /\ Published(o) \in ClassRecords
           /\ o.spec \in Specs
  BY DEF ClassRecords, Refused, Published

(* The status computed for a copy that is still the live NodeClass. *)
LEMMA StatusPatched ==
    ASSUME nc \in ClassRecords
    PROVE  /\ PatchStatus(Refused(nc)) => Write(Refused(nc))
           /\ PatchStatus(Published(nc)) => Write(Published(nc))
<1>1. /\ [nc EXCEPT !.ready = Refused(nc).ready, !.observed = Refused(nc).observed,
                    !.hash = Refused(nc).hash] = Refused(nc)
      /\ [nc EXCEPT !.ready = Published(nc).ready, !.observed = Published(nc).observed,
                    !.hash = Published(nc).hash] = Published(nc)
  BY DEF ClassRecords, Refused, Published
<1> QED
  BY <1>1 DEF PatchStatus

(* What the watch has yet to deliver. *)
Feed == Seq(ClassRecords \cup {None})

LEMMA WriteType ==
    ASSUME NEW o \in ClassRecords \cup {None}, feed \in Feed, Write(o)
    PROVE  nc' \in ClassRecords \cup {None} /\ feed' \in Feed
  BY DEF Write, Feed

(* Sending one more version, and delivering the first. *)
LEMMA Sent ==
    ASSUME NEW T, NEW s \in Seq(T), NEW x \in T
    PROVE  /\ ToSet(Append(s, x)) = ToSet(s) \cup {x}
           /\ Append(s, x) # <<>> /\ Append(s, x)[Len(Append(s, x))] = x
<1>1. /\ DOMAIN Append(s, x) = DOMAIN s \cup {Len(s) + 1}
      /\ Append(s, x)[Len(s) + 1] = x /\ Len(Append(s, x)) = Len(s) + 1
      /\ \A i \in DOMAIN s : Append(s, x)[i] = s[i]
  OBVIOUS
<1> QED
  BY <1>1 DEF ToSet

LEMMA Delivered ==
    ASSUME NEW T, NEW s \in Seq(T), s # <<>>
    PROVE  /\ Head(s) \in ToSet(s) /\ Head(s) \in T
           /\ Tail(s) \in Seq(T) /\ ToSet(Tail(s)) \subseteq ToSet(s)
           /\ Tail(s) = <<>> => Head(s) = s[Len(s)]
           /\ Tail(s) # <<>> => Tail(s)[Len(Tail(s))] = s[Len(s)]
<1>1. /\ Len(s) \in Nat /\ Len(s) # 0 /\ DOMAIN s = 1..Len(s) /\ Head(s) = s[1]
      /\ Tail(s) \in Seq(T) /\ Len(Tail(s)) = Len(s) - 1
      /\ DOMAIN Tail(s) = 1..(Len(s) - 1)
      /\ \A i \in 1..(Len(s) - 1) : Tail(s)[i] = s[i + 1]
  OBVIOUS
<1>2. Head(s) \in ToSet(s) /\ Head(s) \in T
  BY <1>1 DEF ToSet
<1>3. ToSet(Tail(s)) \subseteq ToSet(s)
  BY <1>1 DEF ToSet
<1>4. Tail(s) = <<>> => Len(s) = 1
  <2>1. Len(<<>>) = 0
    OBVIOUS
  <2>2. Tail(s) = <<>> => Len(Tail(s)) = 0
    BY <2>1, Zenon
  <2> QED BY <1>1, <2>2
<1>5. Tail(s) # <<>> => Len(s) - 1 \in 1..(Len(s) - 1)
  BY <1>1
<1> QED
  BY <1>1, <1>2, <1>3, <1>4, <1>5

LEMMA StampUpdate ==
    ASSUME NEW k \in ClaimRecords, NEW t \in Stamps
    PROVE  [k EXCEPT !.stamp = t] \in ClaimRecords
  BY DEF ClaimRecords

LEMMA PhaseUpdate ==
    ASSUME NEW k \in ClaimRecords
    PROVE  /\ [k EXCEPT !.phase = "pending"] \in ClaimRecords
           /\ [k EXCEPT !.phase = "launched"] \in ClaimRecords
           /\ [k EXCEPT !.phase = "gone"] \in ClaimRecords
  BY DEF ClaimRecords

LEMMA DriftUpdate ==
    ASSUME NEW k \in ClaimRecords, NEW d \in BOOLEAN
    PROVE  [k EXCEPT !.drifted = d] \in ClaimRecords
  BY DEF ClaimRecords

LEMMA TypeInit == Init => TypeOK
<1> SUFFICES ASSUME Init PROVE TypeOK
  OBVIOUS
<1>1. nc \in ClassRecords
  <2>1. PICK s \in Specs, f \in BOOLEAN : nc = [NewClass(s, 1) EXCEPT !.finalizer = f]
    BY DEF Init
  <2> QED
    BY <2>1 DEF NewClass, ClassRecords
<1>2. PICK b \in [Claims -> Specs] :
          /\ built = [c \in Claims |-> IF c \in LegacyClaims THEN b[c] ELSE None]
          /\ claim \in [Claims -> UNION {Starting(c, b[c], nc.spec) : c \in Claims}]
          /\ \A c \in Claims : claim[c] \in Starting(c, b[c], nc.spec)
  BY DEF Init
<1>3. ASSUME NEW c \in Claims PROVE claim[c] \in ClaimRecords
  <2>1. LegacyStamp(b[c]) \in Stamps
    BY StampType
  <2>2. claim[c] \in Starting(c, b[c], nc.spec)
    BY <1>2
  <2> HIDE DEF LegacyStamp
  <2>3. CASE c \in LegacyClaims
    <3>1. Starting(c, b[c], nc.spec) = LegacyRecords(b[c], nc.spec)
      BY <2>3, ClaimsAssumption DEF Starting
    <3> DEFINE d == LegacyHash(b[c]) # LegacyHash(nc.spec)
    <3>2. d \in BOOLEAN
      OBVIOUS
    <3> HIDE DEF d
    <3>3. /\ [phase |-> "launched", stamp |-> None, drifted |-> FALSE] \in ClaimRecords
          /\ [phase |-> "launched", stamp |-> LegacyStamp(b[c]), drifted |-> FALSE] \in ClaimRecords
          /\ [phase |-> "launched", stamp |-> LegacyStamp(b[c]), drifted |-> d] \in ClaimRecords
      BY <2>1, <3>2 DEF ClaimRecords
    <3> HIDE DEF ClaimRecords
    <3> QED BY <2>2, <3>1, <3>3 DEF LegacyRecords, d
  <2>4. CASE c \in StrandedClaims
    <3>1. Starting(c, b[c], nc.spec) = {StrandedRecord(b[c])}
      BY <2>4, ClaimsAssumption DEF Starting
    <3>2. StrandedRecord(b[c]) \in ClaimRecords
      BY <2>1 DEF StrandedRecord, ClaimRecords
    <3> QED BY <2>2, <3>1, <3>2
  <2>5. CASE c \in NewClaims
    <3>1. Starting(c, b[c], nc.spec) = {NoClaim}
      BY <2>5, ClaimsAssumption DEF Starting
    <3>2. NoClaim \in ClaimRecords
      BY DEF NoClaim, ClaimRecords
    <3> QED BY <2>2, <3>1, <3>2
  <2> QED BY <2>3, <2>4, <2>5 DEF Claims
<1>4. claim \in [Claims -> ClaimRecords]
  BY <1>2, <1>3
<1>5. built \in [Claims -> Specs \cup {None}] /\ changed \in [Claims -> BOOLEAN]
  BY <1>2 DEF Init
<1>6. launch \in [Claims -> [pc : {"idle", "stamp", "status"}, spec : Specs \cup {None}]]
  BY DEF Init, NotLaunching
<1>7. work \in [pc : {"idle", "got", "list", "patch"}, obj : ClassRecords \cup {None},
                todo : SUBSET Claims]
  BY DEF Init, Idle
<1>8. /\ ncCache = nc /\ feed = <<>> /\ claimCache = claim /\ queued = TRUE /\ timer = FALSE
      /\ gen = 1 /\ faults = 0 /\ crashes = 0
  BY DEF Init
<1>9. queued \in BOOLEAN /\ timer \in BOOLEAN
  BY <1>8
<1>10. gen \in 1..(MaxEdits + 1) /\ faults \in 0..MaxFaults /\ crashes \in 0..MaxCrashes
  BY <1>8, BoundsAssumption
<1>11. ncCache \in ClassRecords /\ feed \in Seq(ClassRecords \cup {None}) /\ claimCache \in [Claims -> ClaimRecords]
  BY <1>1, <1>4, <1>8
<1> QED
  BY <1>1, <1>4, <1>5, <1>6, <1>7, <1>9, <1>10, <1>11, Zenon DEF TypeOK

-----------------------------------------------------------------------------
(* Types. Some steps need StampInv: the reconciler at work has an object,   *)
(* and a launch under way has a spec.                                       *)

BaseInv == TypeOK /\ StampInv

LEMMA UserType ==
    ASSUME BaseInv, UserStep
    PROVE  TypeOK'
<1> USE BoundsAssumption DEF BaseInv, TypeOK, boundVars, queueVars, NoteSpec
<1>0. feed \in Feed
  BY DEF Feed
<1>1. ASSUME NEW s \in Specs, UserEdit(s) PROVE TypeOK'
  <2>1. nc' \in ClassRecords \cup {None} /\ feed' \in Feed
    <3>1. gen + 1 \in Nat /\ nc \in ClassRecords
      BY <1>1 DEF UserEdit
    <3>2. [nc EXCEPT !.spec = s, !.gen = gen + 1] \in ClassRecords
      BY <3>1, EditUpdate
    <3> QED BY <1>0, <1>1, <3>2, WriteType DEF UserEdit
  <2> QED BY <1>1, <2>1 DEF UserEdit, Feed
<1>2. ASSUME NEW s \in Specs, UserRecreate(s) PROVE TypeOK'
  <2>1. nc' \in ClassRecords \cup {None} /\ feed' \in Feed
    <3>1. NewClass(s, gen + 1) \in ClassRecords
      BY <1>2, RecordsAreNotNone DEF UserRecreate
    <3> QED BY <1>0, <1>2, <3>1, WriteType DEF UserRecreate
  <2> QED BY <1>2, <2>1 DEF UserRecreate, Feed
<1>3. CASE UserDelete
  <2>1. nc' \in ClassRecords \cup {None} /\ feed' \in Feed
    <3>1. gen + 1 \in Nat /\ nc \in ClassRecords
      BY <1>3 DEF UserDelete
    <3>2. [nc EXCEPT !.deleting = TRUE, !.gen = gen + 1] \in ClassRecords
      BY <3>1, DeleteUpdate
    <3> QED BY <1>0, <1>3, <3>2, WriteType DEF UserDelete
  <2> QED BY <1>3, <2>1 DEF UserDelete, Feed
<1>4. CASE OtherFinalizerRemoved
  <2>1. nc' \in ClassRecords \cup {None} /\ feed' \in Feed
    BY <1>0, <1>4, WriteType DEF OtherFinalizerRemoved
  <2> QED BY <1>4, <2>1 DEF OtherFinalizerRemoved, Feed
<1>5. ASSUME NEW c \in Claims, ClaimCreated(c) \/ ClaimDeleted(c) PROVE TypeOK'
  <2>1. claim' \in [Claims -> ClaimRecords]
    <3>1. /\ [claim[c] EXCEPT !.phase = "pending"] \in ClaimRecords
          /\ [claim[c] EXCEPT !.phase = "gone"] \in ClaimRecords
      BY PhaseUpdate
    <3> QED BY <1>5, <3>1 DEF ClaimCreated, ClaimDeleted
  <2> QED BY <1>5, <2>1 DEF ClaimCreated, ClaimDeleted, ncVars
<1> QED
  BY <1>1, <1>2, <1>3, <1>4, <1>5 DEF UserStep

LEMMA ReconcileType ==
    ASSUME BaseInv, ReconcileStep
    PROVE  TypeOK'
<1> DEFINE WorkType == [pc : {"idle", "got", "list", "patch"},
                        obj : ClassRecords \cup {None}, todo : SUBSET Claims]
<1>0. Idle \in WorkType
  BY DEF Idle
<1>10. feed \in Feed
  BY DEF BaseInv, TypeOK, Feed
<1> USE BoundsAssumption DEF BaseInv, TypeOK, boundVars, ncVars,
        ReturnAndRequeue, ReturnForGood, Unmodified
<1>1. CASE ReconcileBegin
  <2>1. work' \in WorkType
    BY <1>0, <1>1 DEF ReconcileBegin
  <2> QED BY <1>1, <2>1 DEF ReconcileBegin
<1>2. CASE handleDeletion
  <2>1. nc' \in ClassRecords \cup {None} /\ feed' \in Feed
    <3>1. CASE work.obj.finalizer /\ Unmodified
      <4>1. nc \in ClassRecords
        BY <1>2, <3>1 DEF handleDeletion, StampInv
      <4>2. [nc EXCEPT !.finalizer = FALSE] \in ClassRecords
        BY <4>1, ControllerUpdates
      <4>3. Write(None) \/ Write([nc EXCEPT !.finalizer = FALSE])
        BY <1>2, <3>1 DEF handleDeletion
      <4> QED BY <1>10, <4>2, <4>3, WriteType
    <3>2. CASE ~(work.obj.finalizer /\ Unmodified)
      BY <1>2, <1>10, <3>2 DEF handleDeletion
    <3> QED BY <3>1, <3>2
  <2> QED BY <1>0, <1>2, <2>1 DEF handleDeletion, Feed
<1>3. CASE AddFinalizer
  <2>1. (IF Unmodified THEN [nc EXCEPT !.finalizer = TRUE] ELSE nc) \in ClassRecords \cup {None}
    BY <1>3, ControllerUpdates DEF AddFinalizer, StampInv
  <2>2. nc' \in ClassRecords \cup {None} /\ feed' \in Feed
    BY <1>3, <1>10, <2>1, WriteType DEF AddFinalizer
  <2> QED BY <1>0, <1>3, <2>2 DEF AddFinalizer, Feed
<1>4. CASE MarkInvalid
  <2>1. nc' \in ClassRecords \cup {None} /\ feed' \in Feed
    <3>1. CASE Unmodified
      <4>1. nc \in ClassRecords /\ PatchStatus(Refused(nc))
        BY <1>4, <3>1 DEF MarkInvalid, Settled, StampInv
      <4> QED BY <1>10, <4>1, StatusPatched, ControllerUpdates, WriteType
    <3>2. CASE ~Unmodified
      BY <1>4, <1>10, <3>2 DEF MarkInvalid
    <3> QED BY <3>1, <3>2
  <2> QED BY <1>0, <1>4, <2>1 DEF MarkInvalid, Feed
<1>5. CASE MarkReady
  <2>1. nc' \in ClassRecords \cup {None} /\ feed' \in Feed
    <3>1. CASE UNCHANGED <<nc, feed>>
      BY <1>10, <3>1
    <3>2. CASE Unmodified /\ PatchStatus(Published(work.obj))
      <4>1. nc \in ClassRecords /\ PatchStatus(Published(nc))
        BY <1>5, <3>2 DEF MarkReady, Settled, StampInv
      <4> QED BY <1>10, <4>1, StatusPatched, ControllerUpdates, WriteType
    <3> QED BY <1>5, <3>1, <3>2 DEF MarkReady
  <2>2. work' \in WorkType
    BY <1>0, <1>5 DEF MarkReady
  <2> QED BY <1>5, <2>1, <2>2 DEF MarkReady, Feed
<1>6. CASE ListClaims
  <2>1. work' \in WorkType
    BY <1>6 DEF ListClaims
  <2> QED BY <1>6, <2>1 DEF ListClaims
<1>7. ASSUME NEW c \in Claims, RebaselineClaim(c) PROVE TypeOK'
  <2>1. work' \in WorkType
    BY <1>0, <1>7 DEF RebaselineClaim
  <2>2. CurrentStamp(work.obj.spec) \in Stamps
    <3>1. work.obj.spec \in Specs
      BY <1>7, ControllerUpdates DEF RebaselineClaim, StampInv
    <3> QED BY <3>1, StampType
  <2>3. claim' \in [Claims -> ClaimRecords]
    BY <1>7, <2>2, StampUpdate DEF RebaselineClaim
  <2> QED BY <1>7, <2>1, <2>3 DEF RebaselineClaim
<1>8. CASE ReconcileEnd
  BY <1>0, <1>8 DEF ReconcileEnd
<1>9. CASE ReconcileFails
  BY <1>0, <1>9 DEF ReconcileFails, Fault
<1> QED
  BY <1>1, <1>2, <1>3, <1>4, <1>5, <1>6, <1>7, <1>8, <1>9 DEF ReconcileStep

LEMMA ClaimType ==
    ASSUME BaseInv, NEW c \in Claims,
           SyncClaim(c) \/ CreateStep(c) \/ EvaluateDrift(c)
    PROVE  TypeOK'
<1> USE DEF BaseInv, TypeOK, boundVars, ncVars, queueVars
<1>1. CASE SyncClaim(c)
  BY <1>1 DEF SyncClaim
<1>2. CASE CreateBegin(c)
  <2>1. ncCache.spec \in Specs
    BY <1>2 DEF CreateBegin, ClassRecords
  <2> QED BY <1>2, <2>1 DEF CreateBegin
<1>3. CASE CreateFails(c)
  BY <1>3 DEF CreateFails, NotLaunching
<1>4. CASE PersistMetadata(c)
  <2>1. CurrentStamp(launch[c].spec) \in Stamps
    BY <1>4, StampType DEF PersistMetadata, StampInv
  <2>2. claim' \in [Claims -> ClaimRecords]
    BY <1>4, <2>1, StampUpdate DEF PersistMetadata, CreateStamp
  <2>3. launch' \in [Claims -> [pc : {"idle", "stamp", "status"}, spec : Specs \cup {None}]]
    <3>1. CASE Present(claim[c])
      BY <1>4, <3>1 DEF PersistMetadata
    <3>2. CASE ~Present(claim[c])
      BY <1>4, <3>2 DEF PersistMetadata, NotLaunching
    <3> QED BY <3>1, <3>2
  <2> QED BY <1>4, <2>2, <2>3 DEF PersistMetadata
<1>5. CASE PersistStatus(c)
  <2>1. claim' \in [Claims -> ClaimRecords]
    <3>1. [claim[c] EXCEPT !.phase = "launched"] \in ClaimRecords
      BY PhaseUpdate
    <3> QED BY <1>5, <3>1 DEF PersistStatus
  <2>2. launch' \in [Claims -> [pc : {"idle", "stamp", "status"}, spec : Specs \cup {None}]]
    BY <1>5 DEF PersistStatus, NotLaunching
  <2>3. built' \in [Claims -> Specs \cup {None}]
    BY <1>5 DEF PersistStatus
  <2> QED BY <1>5, <2>1, <2>2, <2>3 DEF PersistStatus
<1>6. CASE EvaluateDrift(c)
  <2>1. IsDrifted(claim[c], ncCache) \in BOOLEAN
    BY DEF IsDrifted
  <2>2. claim' \in [Claims -> ClaimRecords]
    BY <1>6, <2>1, DriftUpdate DEF EvaluateDrift
  <2> QED BY <1>6, <2>2 DEF EvaluateDrift
<1> QED
  BY <1>1, <1>2, <1>3, <1>4, <1>5, <1>6 DEF CreateStep

LEMMA TypeNext ==
    ASSUME BaseInv, [Next]_vars
    PROVE  TypeOK'
<1>1. CASE SyncClass
  <2>1. feed \in Seq(ClassRecords \cup {None}) /\ feed # <<>>
    BY <1>1 DEF SyncClass, BaseInv, TypeOK
  <2>2. Head(feed) \in ClassRecords \cup {None} /\ Tail(feed) \in Seq(ClassRecords \cup {None})
    BY <2>1, Delivered
  <2> QED
    BY <1>1, <2>2 DEF SyncClass, BaseInv, TypeOK, boundVars, EventPasses
<1>2. CASE TimerFires
  BY <1>2 DEF TimerFires, BaseInv, TypeOK, boundVars, ncVars
<1>3. CASE Crash
  <2>1. launch' \in [Claims -> [pc : {"idle", "stamp", "status"}, spec : Specs \cup {None}]]
    BY <1>3 DEF Crash, NotLaunching
  <2>2. work' \in [pc : {"idle", "got", "list", "patch"}, obj : ClassRecords \cup {None},
                   todo : SUBSET Claims]
    BY <1>3 DEF Crash, Idle
  <2>3. queued' \in BOOLEAN /\ timer' \in BOOLEAN
    BY <1>3 DEF Crash
  <2>4. feed' \in Seq(ClassRecords \cup {None})
    BY <1>3 DEF Crash
  <2> QED
    BY <1>3, <2>1, <2>2, <2>3, <2>4, BoundsAssumption DEF Crash, BaseInv, TypeOK, ncVars
<1>4. CASE UNCHANGED vars
  BY <1>4 DEF BaseInv, TypeOK, vars
<1> QED
  BY <1>1, <1>2, <1>3, <1>4, UserType, ReconcileType, ClaimType DEF Next
-----------------------------------------------------------------------------
(* The stamp of a claim that this version launches                          *)

(* Steps that touch neither claims nor launches, and at most shorten or end *)
(* the controller's list.                                                   *)
LEMMA StampFrame ==
    ASSUME StampInv, UNCHANGED <<claim, claimCache, launch, built>>,
           \A c \in NewClaims : c \notin work'.todo,
           work'.pc # "idle" => work'.obj # None
    PROVE  StampInv'
  BY DEF StampInv, StampMatchesBuild

LEMMA UserStamp ==
    ASSUME BaseInv, UserStep
    PROVE  StampInv'
<1>1. ASSUME NEW s \in Specs, UserEdit(s) \/ UserRecreate(s) PROVE StampInv'
  <2>1. UNCHANGED <<claim, claimCache, launch, built, work>>
    BY <1>1 DEF UserEdit, UserRecreate, queueVars
  <2> QED BY <2>1, StampFrame DEF BaseInv, StampInv
<1>2. CASE UserDelete \/ OtherFinalizerRemoved
  <2>1. UNCHANGED <<claim, claimCache, launch, built, work>>
    BY <1>2 DEF UserDelete, OtherFinalizerRemoved, queueVars
  <2> QED BY <2>1, StampFrame DEF BaseInv, StampInv
<1>3. ASSUME NEW c \in Claims, ClaimCreated(c) \/ ClaimDeleted(c) PROVE StampInv'
  <2>1. /\ UNCHANGED <<claimCache, launch, built, work>>
        /\ \/ claim[c].phase = "absent" /\ claim' = [claim EXCEPT ![c].phase = "pending"]
           \/ claim' = [claim EXCEPT ![c].phase = "gone"]
    BY <1>3 DEF ClaimCreated, ClaimDeleted, queueVars
  <2>2. \A d \in Claims :
            /\ claim'[d].stamp = claim[d].stamp
            /\ \/ claim'[d].phase = claim[d].phase
               \/ claim'[d].phase = "gone"
               \/ claim'[d].phase = "pending" /\ claim[d].phase = "absent"
    BY <2>1, SMTT(30) DEF BaseInv, TypeOK, ClaimRecords
  <2> QED BY <2>1, <2>2 DEF BaseInv, StampInv, StampMatchesBuild, Claims
<1> QED
  BY <1>1, <1>2, <1>3 DEF UserStep

LEMMA ReconcileStamp ==
    ASSUME BaseInv, ReconcileStep
    PROVE  StampInv'
<1> USE DEF ReturnAndRequeue, ReturnForGood, Idle
<1>1. CASE ReconcileBegin
  <2>1. /\ UNCHANGED <<claim, claimCache, launch, built>>
        /\ work'.todo \subseteq work.todo /\ (work'.pc # "idle" => work'.obj # None)
    BY <1>1 DEF ReconcileBegin, BaseInv, TypeOK
  <2> QED BY <2>1, StampFrame DEF BaseInv, StampInv
<1>2. CASE \/ handleDeletion \/ AddFinalizer \/ MarkInvalid \/ ReconcileEnd \/ ReconcileFails
  <2>1. UNCHANGED <<claim, claimCache, launch, built>> /\ work'.todo = {} /\ work'.pc = "idle"
    BY <1>2 DEF handleDeletion, AddFinalizer, MarkInvalid, ReconcileEnd, ReconcileFails
  <2> QED BY <2>1, StampFrame DEF BaseInv
<1>3. CASE MarkReady
  <2>1. /\ UNCHANGED <<claim, claimCache, launch, built>>
        /\ work'.todo \subseteq work.todo /\ (work'.pc # "idle" => work'.obj = work.obj)
        /\ work.pc # "idle"
    BY <1>3 DEF MarkReady, Settled, BaseInv, TypeOK
  <2> QED BY <2>1, StampFrame DEF BaseInv, StampInv
<1>4. CASE ListClaims
  <2>1. /\ UNCHANGED <<claim, claimCache, launch, built>>
        /\ work'.todo = {c \in Claims : NeedsRebaseline(claimCache[c])}
        /\ work'.obj = work.obj /\ work.pc # "idle"
    BY <1>4 DEF ListClaims, BaseInv, TypeOK
  <2>2. \A c \in NewClaims : ~NeedsRebaseline(claimCache[c])
    BY DEF BaseInv, StampInv, NeedsRebaseline
  <2> QED BY <2>1, <2>2, StampFrame DEF BaseInv, StampInv
<1>5. ASSUME NEW c \in Claims, RebaselineClaim(c) PROVE StampInv'
  <2>1. /\ c \notin NewClaims /\ work.pc # "idle"
        /\ UNCHANGED <<claimCache, launch, built>>
        /\ work'.todo \subseteq work.todo /\ (work'.pc # "idle" => work'.obj = work.obj)
    BY <1>5 DEF RebaselineClaim, BaseInv, TypeOK, StampInv
  <2>2. \A d \in NewClaims : claim'[d] = claim[d]
    BY <1>5, <2>1 DEF RebaselineClaim, BaseInv, TypeOK, Claims
  <2> QED BY <2>1, <2>2 DEF BaseInv, StampInv, StampMatchesBuild
<1> QED
  BY <1>1, <1>2, <1>3, <1>4, <1>5 DEF ReconcileStep

LEMMA ClaimStamp ==
    ASSUME BaseInv, NEW c \in Claims,
           SyncClaim(c) \/ CreateStep(c) \/ EvaluateDrift(c)
    PROVE  StampInv'
<1>0. ncCache # None => ncCache.spec # None
  <2>1. ncCache \in ClassRecords \cup {None}
    BY DEF BaseInv, TypeOK
  <2>2. ncCache # None => ncCache.spec \in Specs
    BY <2>1 DEF ClassRecords
  <2> QED BY <2>2, NoneAssumption
<1> USE DEF BaseInv, TypeOK, StampInv, StampMatchesBuild, queueVars, Claims
<1>1. CASE SyncClaim(c)
  BY <1>1 DEF SyncClaim
<1>2. CASE CreateBegin(c)
  BY <1>0, <1>2 DEF CreateBegin
<1>3. CASE CreateFails(c)
  BY <1>3 DEF CreateFails, NotLaunching
<1>4. CASE PersistMetadata(c)
  <2>1. /\ CurrentStamp(launch[c].spec).version = "v2"
        /\ CurrentStamp(launch[c].spec) \in Stamps
    BY <1>4, StampType DEF PersistMetadata
  <2>2. None \notin Stamps
    BY NoneAssumption
  <2>3. CASE Present(claim[c])
    BY <1>4, <2>1, <2>2, <2>3, SMTT(30) DEF PersistMetadata, CreateStamp, ClaimRecords
  <2>4. CASE ~Present(claim[c])
    BY <1>4, <2>4, SMTT(30) DEF PersistMetadata, NotLaunching
  <2> QED BY <2>3, <2>4
<1>5. CASE PersistStatus(c)
  <2>1. CASE Present(claim[c])
    <3>1. /\ claim'[c].phase = "launched" /\ claim'[c].stamp = claim[c].stamp
          /\ built'[c] = launch[c].spec /\ launch'[c].pc = "idle"
          /\ \A d \in Claims \ {c} :
                claim'[d] = claim[d] /\ built'[d] = built[d] /\ launch'[d] = launch[d]
          /\ UNCHANGED <<claimCache, work>>
      BY <1>5, <2>1 DEF PersistStatus, NotLaunching, ClaimRecords
    <3>2. c \in NewClaims => claim[c].stamp = CurrentStamp(launch[c].spec)
      BY <1>5, <2>1 DEF PersistStatus, Present
    <3>3. c \in NewClaims => claim[c].stamp # None /\ claim[c].stamp.version = "v2"
      BY <1>5, <3>2, StampType, NoneAssumption DEF PersistStatus
    <3> QED BY <3>1, <3>2, <3>3
  <2>2. CASE ~Present(claim[c])
    BY <1>5, <2>2 DEF PersistStatus, NotLaunching
  <2> QED BY <2>1, <2>2
<1>6. CASE EvaluateDrift(c)
  BY <1>6 DEF EvaluateDrift, ClaimRecords
<1> QED
  BY <1>1, <1>2, <1>3, <1>4, <1>5, <1>6 DEF CreateStep

LEMMA StampNext ==
    ASSUME BaseInv, [Next]_vars
    PROVE  StampInv'
<1>1. CASE SyncClass \/ TimerFires \/ UNCHANGED vars
  <2>1. UNCHANGED <<claim, claimCache, launch, built, work>>
    BY <1>1 DEF SyncClass, TimerFires, vars
  <2> QED BY <2>1, StampFrame DEF BaseInv, StampInv
<1>2. CASE Crash
  BY <1>2 DEF Crash, Idle, NotLaunching, BaseInv, TypeOK, StampInv, StampMatchesBuild, Claims
<1> QED
  BY <1>1, <1>2, UserStamp, ReconcileStamp, ClaimStamp DEF Next

LEMMA StampInit == Init => StampInv
<1> SUFFICES ASSUME Init PROVE StampInv
  OBVIOUS
<1>1. ASSUME NEW c \in NewClaims PROVE claim[c] = NoClaim
  <2>1. PICK b \in [Claims -> Specs] : claim[c] \in Starting(c, b[c], nc.spec)
    BY DEF Init, Claims
  <2>2. Starting(c, b[c], nc.spec) = {NoClaim}
    BY ClaimsAssumption DEF Starting
  <2> QED BY <2>1, <2>2
<1>2. /\ claimCache = claim /\ work = Idle
      /\ launch = [c \in Claims |-> NotLaunching]
  BY DEF Init
<1> QED
  BY <1>1, <1>2 DEF StampInv, StampMatchesBuild, NoClaim, Idle, NotLaunching, Claims

LEMMA BaseInvariant == Spec => []BaseInv
<1>1. Init => BaseInv
  BY TypeInit, StampInit DEF BaseInv
<1>2. BaseInv /\ [Next]_vars => BaseInv'
  BY TypeNext, StampNext DEF BaseInv
<1> QED
  BY <1>1, <1>2, PTL DEF Spec

(* Type correctness of NodeClassDrift. *)
THEOREM TypeCorrect == Spec => []TypeOK
<1>1. BaseInv => TypeOK
  BY DEF BaseInv
<1> QED
  BY <1>1, BaseInvariant, PTL

(* A claim that this version launched carries the hash of the spec its      *)
(* server was made from: re-baselining never races with Create.             *)
THEOREM StampMatchesBuildHolds == Spec => []StampMatchesBuild
<1>1. BaseInv => StampMatchesBuild
  BY DEF BaseInv, StampInv
<1> QED
  BY <1>1, BaseInvariant, PTL

-----------------------------------------------------------------------------
(* The watch                                                                *)

(* The cache holds, and the watch delivers, no version that was not there   *)
(* before but the one that is live, and the last to come is that one.       *)
LEMMA FeedStep ==
    ASSUME BaseInv, [Next]_vars
    PROVE  Versions' \subseteq Versions \cup {nc'} /\ (FeedInv => FeedInv')
<1>0. /\ feed \in Seq(ClassRecords \cup {None}) /\ nc' \in ClassRecords \cup {None}
  BY TypeNext DEF BaseInv, TypeOK
<1>1. ASSUME Write(nc'), UNCHANGED ncCache
      PROVE  Versions' \subseteq Versions \cup {nc'} /\ (FeedInv => FeedInv')
  <2>1. CASE nc' = nc
    BY <1>1, <2>1 DEF Write, Versions, FeedInv
  <2>2. CASE nc' # nc
    <3>1. feed' = Append(feed, nc')
      BY <1>1, <2>2 DEF Write
    <3>2. /\ ToSet(feed') = ToSet(feed) \cup {nc'}
          /\ feed' # <<>> /\ feed'[Len(feed')] = nc'
      BY <1>0, <3>1, Sent
    <3> QED BY <1>1, <3>2 DEF Versions, FeedInv
  <2> QED BY <2>1, <2>2
<1>2. CASE SyncClass
  <2>1. /\ feed # <<>> /\ feed' = Tail(feed) /\ ncCache' = Head(feed) /\ nc' = nc
    BY <1>2 DEF SyncClass
  <2>2. /\ Head(feed) \in ToSet(feed) /\ ToSet(Tail(feed)) \subseteq ToSet(feed)
        /\ Tail(feed) = <<>> => Head(feed) = feed[Len(feed)]
        /\ Tail(feed) # <<>> => Tail(feed)[Len(Tail(feed))] = feed[Len(feed)]
    BY <1>0, <2>1, Delivered
  <2> QED BY <2>1, <2>2 DEF Versions, FeedInv
<1>3. CASE Crash
  <2>1. /\ nc' = nc /\ ncCache' = nc /\ feed' = <<>>
    BY <1>3 DEF Crash
  <2>2. ToSet(<<>>) = {}
    BY DEF ToSet
  <2> QED BY <2>1, <2>2 DEF Versions, FeedInv
<1>4. CASE UNCHANGED <<nc, ncCache, feed>>
  BY <1>1, <1>4 DEF Write
<1>5. CASE UserStep
  <2>1. ASSUME NEW s \in Specs, UserEdit(s) \/ UserRecreate(s)
        PROVE  Write(nc') /\ UNCHANGED ncCache
    BY <2>1 DEF UserEdit, UserRecreate, Write
  <2>2. CASE UserDelete \/ OtherFinalizerRemoved
    <3>1. Write(nc') /\ UNCHANGED ncCache
      BY <2>2 DEF UserDelete, OtherFinalizerRemoved, Write
    <3> QED BY <1>1, <3>1
  <2>3. ASSUME NEW c \in Claims, ClaimCreated(c) \/ ClaimDeleted(c)
        PROVE  UNCHANGED <<nc, ncCache, feed>>
    BY <2>3 DEF ClaimCreated, ClaimDeleted, ncVars
  <2> QED BY <1>1, <1>4, <1>5, <2>1, <2>2, <2>3 DEF UserStep
<1>6. CASE handleDeletion \/ AddFinalizer \/ MarkInvalid \/ MarkReady
  <2>1. Write(nc') /\ UNCHANGED ncCache
    BY <1>6 DEF handleDeletion, AddFinalizer, MarkInvalid, MarkReady, PatchStatus, Write
  <2> QED BY <1>1, <2>1
<1>7. CASE \/ ReconcileBegin \/ ListClaims \/ ReconcileEnd \/ ReconcileFails
           \/ \E c \in Claims : RebaselineClaim(c)
  BY <1>4, <1>7 DEF ReconcileBegin, ListClaims, ReconcileEnd, ReconcileFails, RebaselineClaim,
     ncVars
<1>8. ASSUME NEW c \in Claims, SyncClaim(c) \/ CreateStep(c) \/ EvaluateDrift(c)
      PROVE  UNCHANGED <<nc, ncCache, feed>>
  BY <1>8 DEF SyncClaim, CreateStep, CreateBegin, CreateFails, PersistMetadata,
     PersistStatus, EvaluateDrift, ncVars
<1>9. CASE TimerFires \/ UNCHANGED vars
  BY <1>4, <1>9 DEF TimerFires, ncVars, vars
<1> QED
  BY <1>2, <1>3, <1>4, <1>5, <1>6, <1>7, <1>8, <1>9 DEF Next, ReconcileStep

LEMMA LiveAndCached == nc \in Versions /\ ncCache \in Versions
  BY DEF Versions

-----------------------------------------------------------------------------
(* Drift is genuine                                                         *)

(* What a step has to do for OriginInv when it changes no claim: copies of  *)
(* the NodeClass are replaced only by copies of it.                         *)
LEMMA OriginFrame ==
    ASSUME BaseInv, OriginInv, Versions' \subseteq Versions \cup {nc'}, FeedInv',
           UNCHANGED <<claim, launch, built>>,
           \A c \in Claims : changed[c] => changed'[c],
           \A c \in Claims : ~changed'[c] /\ Origin(c) # None /\ SameSpec(nc, Origin(c)) =>
               SameSpec(nc', Origin(c)),
           work'.obj \in {None, work.obj, ncCache}
    PROVE  OriginInv'
<1>1. \A c \in Claims : Origin(c)' = Origin(c)
  BY DEF Origin
<1>2. ASSUME NEW c \in LegacyClaims \cup NewClaims, ~changed'[c], Origin(c)' # None
      PROVE  /\ \A o \in Versions' : SameSpec(o, Origin(c)')
             /\ c \in LegacyClaims =>
                  /\ SameSpec(work.obj, Origin(c))'
                  /\ claim'[c].stamp # None /\ claim'[c].stamp.version = "v2" =>
                        claim'[c].stamp.hash = Hash(built'[c])
  <2>1. c \in Claims /\ ~changed[c] /\ Origin(c) # None /\ Origin(c)' = Origin(c)
    BY <1>1, <1>2 DEF Claims
  <2>2. /\ \A o \in Versions : SameSpec(o, Origin(c))
        /\ c \in LegacyClaims =>
              /\ SameSpec(work.obj, Origin(c))
              /\ claim[c].stamp # None /\ claim[c].stamp.version = "v2" =>
                    claim[c].stamp.hash = Hash(built[c])
    BY <1>2, <2>1 DEF OriginInv
  <2>3. SameSpec(nc', Origin(c))
    BY <1>2, <2>1, <2>2, LiveAndCached
  <2>4. \A o \in Versions' : SameSpec(o, Origin(c))
    BY <2>2, <2>3
  <2>5. c \in LegacyClaims => SameSpec(work'.obj, Origin(c))
    BY <2>2, LiveAndCached DEF SameSpec
  <2> QED
    BY <2>1, <2>2, <2>3, <2>4, <2>5 DEF SameSpec
<1> QED
  BY <1>2 DEF OriginInv

LEMMA UserOrigin ==
    ASSUME BaseInv, OriginInv, UserStep
    PROVE  OriginInv'
<1>0. Versions' \subseteq Versions \cup {nc'} /\ FeedInv'
  BY FeedStep DEF Next, OriginInv
<1> USE DEF BaseInv, TypeOK
<1>1. ASSUME NEW s \in Specs, UserEdit(s) \/ UserRecreate(s) PROVE OriginInv'
  <2>1. nc'.spec = s
    <3>1. CASE UserEdit(s)
      <4>1. nc \in ClassRecords /\ nc' = [nc EXCEPT !.spec = s, !.gen = gen + 1]
        BY <3>1 DEF UserEdit, Write
      <4> QED BY <4>1 DEF ClassRecords
    <3>2. CASE UserRecreate(s)
      <4>1. nc' = NewClass(s, gen + 1)
        BY <3>2 DEF UserRecreate, Write
      <4> QED BY <4>1 DEF NewClass
    <3> QED BY <1>1, <3>1, <3>2
  <2>2. /\ UNCHANGED <<claim, launch, built, ncCache, work>>
        /\ changed' = [c \in Claims |->
               changed[c] \/ (Origin(c) # None /\ Canon(Origin(c)) # Canon(s))]
    BY <1>1 DEF UserEdit, UserRecreate, NoteSpec, queueVars
  <2>3. \A c \in Claims :
           /\ changed[c] => changed'[c]
           /\ ~changed'[c] /\ Origin(c) # None => SameSpec(nc', Origin(c))
    BY <2>1, <2>2 DEF SameSpec
  <2> QED
    BY <1>0, <2>2, <2>3, OriginFrame
<1>2. CASE UserDelete \/ OtherFinalizerRemoved
  <2>0. nc \in ClassRecords /\ UNCHANGED <<claim, launch, built, ncCache, work, changed>>
    BY <1>2 DEF UserDelete, OtherFinalizerRemoved, queueVars
  <2>1a. nc' = None \/ nc' = [nc EXCEPT !.deleting = TRUE, !.gen = gen + 1]
    BY <1>2 DEF UserDelete, OtherFinalizerRemoved, Write
  <2>1b. nc' = None \/ nc'.spec = nc.spec
    BY <2>0, <2>1a DEF ClassRecords
  <2>1c. nc # None
    BY <1>2 DEF UserDelete, OtherFinalizerRemoved
  <2>1. nc' = None \/ (nc # None /\ nc'.spec = nc.spec)
    BY <2>1b, <2>1c
  <2>2. \A c \in Claims : SameSpec(nc, Origin(c)) => SameSpec(nc', Origin(c))
    BY <2>1 DEF SameSpec
  <2> QED
    BY <1>0, <2>0, <2>2, OriginFrame
<1>3. ASSUME NEW c \in Claims, ClaimCreated(c) \/ ClaimDeleted(c) PROVE OriginInv'
  <2> DEFINE Moves(d) ==
        /\ claim'[d].stamp = claim[d].stamp
        /\ \/ claim'[d].phase = claim[d].phase
           \/ claim'[d].phase = "gone"
           \/ d \in NewClaims /\ claim'[d].phase = "pending" /\ claim[d].phase = "absent"
  <2>0. UNCHANGED <<nc, ncCache, work, launch, built, changed>>
    BY <1>3 DEF ClaimCreated, ClaimDeleted, ncVars, queueVars
  <2>1a. ASSUME NEW d \in Claims, ClaimCreated(c) PROVE Moves(d)
    <3>1. c \in NewClaims /\ claim[c].phase = "absent"
          /\ claim' = [claim EXCEPT ![c].phase = "pending"]
      BY <2>1a DEF ClaimCreated
    <3> QED BY <3>1 DEF ClaimRecords
  <2>1b. ASSUME NEW d \in Claims, ClaimDeleted(c) PROVE Moves(d)
    <3>1. claim' = [claim EXCEPT ![c].phase = "gone"]
      BY <2>1b DEF ClaimDeleted
    <3> QED BY <3>1 DEF ClaimRecords
  <2>1. \A d \in Claims : Moves(d)
    BY <1>3, <2>1a, <2>1b
  <2>2. \A d \in Claims : Origin(d)' = Origin(d)
    BY <2>0 DEF Origin
  <2>3. Versions' \subseteq Versions
    BY <1>0, <2>0, LiveAndCached
  <2> QED
    BY <1>0, <2>0, <2>1, <2>2, <2>3, ClaimsAssumption DEF OriginInv, Claims
<1> QED
  BY <1>1, <1>2, <1>3 DEF UserStep

LEMMA ReconcileOrigin ==
    ASSUME BaseInv, OriginInv, ReconcileStep
    PROVE  OriginInv'
<1>0. Versions' \subseteq Versions \cup {nc'} /\ FeedInv'
  BY FeedStep DEF Next, OriginInv
<1> USE DEF BaseInv, TypeOK, ncVars
<1>1. CASE ReconcileBegin \/ ListClaims \/ ReconcileEnd \/ ReconcileFails
  <2>1. UNCHANGED <<nc, claim, launch, built, ncCache, changed>>
    BY <1>1 DEF ReconcileBegin, ListClaims, ReconcileEnd, ReconcileFails
  <2>2. \/ work' = Idle
        \/ work' = [work EXCEPT !.pc = "got", !.obj = ncCache]
        \/ work' = [work EXCEPT !.pc = "patch",
                               !.todo = {c \in Claims : NeedsRebaseline(claimCache[c])}]
    BY <1>1 DEF ReconcileBegin, ListClaims, ReconcileEnd, ReconcileFails, ReturnAndRequeue
  <2>2a. ASSUME work' = [work EXCEPT !.pc = "got", !.obj = ncCache] PROVE work'.obj = ncCache
    BY <2>2a
  <2>2b. ASSUME work' = [work EXCEPT !.pc = "patch",
                               !.todo = {c \in Claims : NeedsRebaseline(claimCache[c])}]
         PROVE work'.obj = work.obj
    BY <2>2b
  <2>2c. ASSUME work' = Idle PROVE work'.obj = None
    BY <2>2c DEF Idle
  <2>3. work'.obj \in {None, work.obj, ncCache}
    BY <2>2, <2>2a, <2>2b, <2>2c
  <2> QED BY <1>0, <2>1, <2>3, OriginFrame
<1>2. CASE handleDeletion \/ AddFinalizer \/ MarkInvalid \/ MarkReady
  <2>1. /\ UNCHANGED <<claim, launch, built, ncCache, changed>>
        /\ work'.obj \in {None, work.obj}
    BY <1>2 DEF handleDeletion, AddFinalizer, MarkInvalid, MarkReady, ReturnAndRequeue,
       ReturnForGood, Idle
  <2>2. nc' = None \/ (nc # None /\ nc'.spec = nc.spec)
    <3>1. nc' = nc \/ nc' = None \/ nc = work.obj
      BY <1>2 DEF handleDeletion, AddFinalizer, MarkInvalid, MarkReady, Unmodified, Write
    <3>2. work.obj # None
      BY <1>2 DEF handleDeletion, AddFinalizer, MarkInvalid, MarkReady, Settled, StampInv
    <3>3. \/ nc' \in {nc, None}
          \/ nc' = [nc EXCEPT !.finalizer = FALSE]
          \/ nc' = [nc EXCEPT !.finalizer = TRUE]
          \/ nc' = [nc EXCEPT !.ready = Refused(work.obj).ready,
                              !.observed = Refused(work.obj).observed,
                              !.hash = Refused(work.obj).hash]
          \/ nc' = [nc EXCEPT !.ready = Published(work.obj).ready,
                              !.observed = Published(work.obj).observed,
                              !.hash = Published(work.obj).hash]
      BY <1>2 DEF handleDeletion, AddFinalizer, MarkInvalid, MarkReady, PatchStatus, Write
    <3>4. ASSUME nc \in ClassRecords PROVE nc' = None \/ nc'.spec = nc.spec
      BY <3>3, <3>4 DEF ClassRecords
    <3>5. nc = None => nc' = None
      BY <3>1, <3>2
    <3>6. nc = None \/ nc \in ClassRecords
      OBVIOUS
    <3> HIDE DEF TypeOK, BaseInv
    <3> QED BY <3>4, <3>5, <3>6
  <2>3. \A c \in Claims : SameSpec(nc, Origin(c)) => SameSpec(nc', Origin(c))
    BY <2>2 DEF SameSpec
  <2> QED
    BY <1>0, <2>1, <2>3, OriginFrame
<1>3. ASSUME NEW c \in Claims, RebaselineClaim(c) PROVE OriginInv'
  <2>1. /\ UNCHANGED <<nc, ncCache, launch, built, changed>>
        /\ work'.obj \in {None, work.obj}
    BY <1>3 DEF RebaselineClaim, ReturnAndRequeue, Idle
  <2>2. \A d \in Claims : claim'[d].phase = claim[d].phase
    <3>1. claim' = claim \/ claim' = [claim EXCEPT ![c].stamp = CurrentStamp(work.obj.spec)]
      BY <1>3 DEF RebaselineClaim
    <3> QED BY <3>1 DEF ClaimRecords
  <2>3. \A d \in Claims : Origin(d)' = Origin(d)
    BY <2>1 DEF Origin
  <2>4. ASSUME NEW d \in LegacyClaims, ~changed[d]
        PROVE  claim'[d].stamp # None /\ claim'[d].stamp.version = "v2" =>
                   claim'[d].stamp.hash = Hash(built[d])
    <3>1. Origin(d) = built[d] /\ built[d] # None /\ d \in Claims
      BY DEF OriginInv, Origin, Claims
    <3>2. CASE claim'[d] = claim[d]
      BY <2>4, <3>1, <3>2 DEF OriginInv
    <3>3. CASE claim'[d] # claim[d]
      <4>1. claim'[d].stamp = CurrentStamp(work.obj.spec) /\ work.obj # None
        BY <1>3, <3>1, <3>3 DEF RebaselineClaim, ClaimRecords, StampInv
      <4>2. Canon(work.obj.spec) = Canon(built[d])
        BY <2>4, <3>1, <4>1 DEF OriginInv, SameSpec
      <4> QED
        BY <4>1, <4>2, HashCongruence DEF CurrentStamp
    <3> QED BY <3>2, <3>3
  <2>5. ASSUME NEW d \in LegacyClaims \cup NewClaims, ~changed[d], Origin(d) # None
        PROVE  /\ \A o \in Versions' : SameSpec(o, Origin(d)')
               /\ d \in LegacyClaims => SameSpec(work.obj, Origin(d))'
    <3>1. Versions' \subseteq Versions /\ Origin(d)' = Origin(d)
      BY <1>0, <2>1, <2>3, LiveAndCached DEF Claims
    <3> QED BY <2>1, <2>5, <3>1 DEF OriginInv, SameSpec
  <2> QED
    BY <1>0, <2>1, <2>2, <2>3, <2>4, <2>5 DEF OriginInv, Claims
<1> QED
  BY <1>1, <1>2, <1>3 DEF ReconcileStep

LEMMA ClaimOrigin ==
    ASSUME BaseInv, OriginInv, NEW c \in Claims,
           SyncClaim(c) \/ CreateStep(c) \/ EvaluateDrift(c)
    PROVE  OriginInv'
<1>0. Versions' \subseteq Versions \cup {nc'} /\ FeedInv'
  BY FeedStep DEF Next, OriginInv
<1>5. UNCHANGED nc /\ Versions' \subseteq Versions
  <2>1. UNCHANGED nc
    BY DEF SyncClaim, CreateStep, CreateBegin, CreateFails, PersistMetadata,
       PersistStatus, EvaluateDrift, ncVars
  <2> QED BY <1>0, <2>1, LiveAndCached
<1> USE DEF BaseInv, TypeOK, ncVars, queueVars
<1>1. CASE SyncClaim(c)
  <2>1. UNCHANGED <<nc, claim, launch, built, ncCache, changed, work>>
    BY <1>1 DEF SyncClaim
  <2> QED BY <1>0, <2>1, OriginFrame
<1>2. CASE EvaluateDrift(c)
  <2>1. /\ UNCHANGED <<nc, ncCache, launch, built, changed, work>>
        /\ \A d \in Claims : claim'[d].phase = claim[d].phase /\ claim'[d].stamp = claim[d].stamp
    BY <1>2 DEF EvaluateDrift, ClaimRecords
  <2>2. \A d \in Claims : Origin(d)' = Origin(d)
    BY <2>1 DEF Origin
  <2> QED BY <1>0, <1>5, <2>1, <2>2 DEF OriginInv, Claims
<1>3. CASE CreateBegin(c)
  <2>1. /\ UNCHANGED <<nc, ncCache, claim, built, work>>
        /\ c \notin LegacyClaims
        /\ launch'[c].pc # "idle" /\ launch'[c].spec = ncCache.spec /\ ncCache # None
        /\ changed'[c] = \E o \in ToSet(feed) : o # None /\ Canon(o.spec) # Canon(ncCache.spec)
        /\ claim[c].phase = "pending"
        /\ \A d \in Claims \ {c} : launch'[d] = launch[d] /\ changed'[d] = changed[d]
    BY <1>3 DEF CreateBegin, OriginInv
  <2>2. \A d \in Claims \ {c} : Origin(d)' = Origin(d)
    BY <2>1 DEF Origin
  <2>3. Origin(c)' = ncCache.spec
    BY <2>1 DEF Origin
  <2>4. ~changed'[c] => \A o \in Versions' : SameSpec(o, Origin(c)')
    <3>1. Versions \subseteq {ncCache} \cup ToSet(feed)
      <4>1. feed \in Seq(ClassRecords \cup {None})
        OBVIOUS
      <4>2. feed # <<>> => feed[Len(feed)] \in ToSet(feed)
        BY <4>1 DEF ToSet
      <4> QED BY <4>2 DEF Versions, OriginInv, FeedInv
    <3> QED BY <1>5, <2>1, <2>3, <3>1 DEF SameSpec
  <2>5. ASSUME NEW d \in (LegacyClaims \cup NewClaims) \ {c}, ~changed'[d], Origin(d)' # None
        PROVE  /\ \A o \in Versions' : SameSpec(o, Origin(d)')
               /\ d \in LegacyClaims =>
                    /\ SameSpec(work.obj, Origin(d))'
                    /\ claim'[d].stamp # None /\ claim'[d].stamp.version = "v2" =>
                          claim'[d].stamp.hash = Hash(built'[d])
    BY <1>5, <2>1, <2>2, <2>5 DEF OriginInv, SameSpec, Claims
  <2>6. \A d \in LegacyClaims :
           launch'[d].pc = "idle" /\ claim'[d].phase \in {"launched", "gone"} /\ built'[d] # None
    BY <2>1 DEF OriginInv, Claims
  <2>7. \A d \in NewClaims :
           /\ claim'[d].phase = "launched" => built'[d] # None
           /\ claim'[d].phase \in {"absent", "pending"} => built'[d] = None
           /\ launch'[d].pc # "idle" => built'[d] = None
    BY <2>1 DEF OriginInv, Claims
  <2>8. ASSUME NEW d \in LegacyClaims \cup NewClaims, ~changed'[d], Origin(d)' # None
        PROVE  /\ \A o \in Versions' : SameSpec(o, Origin(d)')
               /\ d \in LegacyClaims =>
                    /\ SameSpec(work.obj, Origin(d))'
                    /\ claim'[d].stamp # None /\ claim'[d].stamp.version = "v2" =>
                          claim'[d].stamp.hash = Hash(built'[d])
    <3>1. CASE d = c
      BY <2>1, <2>4, <2>8, <3>1
    <3>2. CASE d # c
      BY <2>5, <2>8, <3>2
    <3> QED BY <3>1, <3>2
  <2> QED
    BY <1>0, <2>6, <2>7, <2>8 DEF OriginInv
<1>4. CASE CreateFails(c) \/ PersistMetadata(c) \/ PersistStatus(c)
  <2>1. /\ UNCHANGED <<nc, ncCache, changed, work>>
        /\ launch[c].pc # "idle" /\ c \notin LegacyClaims
        /\ \A d \in Claims \ {c} :
              launch'[d] = launch[d] /\ claim'[d] = claim[d] /\ built'[d] = built[d]
    BY <1>4 DEF CreateFails, PersistMetadata, PersistStatus, OriginInv
  <2>2. \A d \in Claims \ {c} : Origin(d)' = Origin(d)
    BY <2>1 DEF Origin
  <2>3. c \in NewClaims =>
          /\ built[c] = None
          /\ Origin(c)' \in {None, Origin(c)}
          /\ claim'[c].phase = "launched" => built'[c] # None
          /\ claim'[c].phase \in {"absent", "pending"} => built'[c] = None
          /\ launch'[c].pc # "idle" => built'[c] = None
    <3> SUFFICES ASSUME c \in NewClaims
                 PROVE  /\ built[c] = None
                        /\ Origin(c)' \in {None, Origin(c)}
                        /\ claim'[c].phase = "launched" => built'[c] # None
                        /\ claim'[c].phase \in {"absent", "pending"} => built'[c] = None
                        /\ launch'[c].pc # "idle" => built'[c] = None
      OBVIOUS
    <3>1. /\ built[c] = None /\ launch[c].spec # None /\ Origin(c) = launch[c].spec
          /\ claim[c].phase \in {"pending", "gone"}
      BY <2>1 DEF OriginInv, StampInv, Origin
    <3>2. CASE CreateFails(c)
      BY <3>1, <3>2 DEF CreateFails, NotLaunching, Origin
    <3>3. CASE PersistMetadata(c)
      <4>1. claim'[c].phase = claim[c].phase
        BY <3>3 DEF PersistMetadata, ClaimRecords
      <4>2. built' = built /\ (launch'[c].pc = "idle" \/ launch'[c].spec = launch[c].spec)
        BY <3>3 DEF PersistMetadata, NotLaunching
      <4> QED BY <3>1, <4>1, <4>2 DEF Origin
    <3>4. CASE PersistStatus(c)
      <4>1. CASE Present(claim[c])
        BY <3>1, <3>4, <4>1 DEF PersistStatus, NotLaunching, Origin, ClaimRecords
      <4>2. CASE ~Present(claim[c])
        BY <3>1, <3>4, <4>2 DEF PersistStatus, NotLaunching, Origin, Present
      <4> QED BY <4>1, <4>2
    <3> QED BY <1>4, <3>2, <3>3, <3>4
  <2>4. ASSUME NEW d \in LegacyClaims \cup NewClaims, ~changed'[d], Origin(d)' # None
        PROVE  /\ \A o \in Versions' : SameSpec(o, Origin(d)')
               /\ d \in LegacyClaims =>
                    /\ SameSpec(work.obj, Origin(d))'
                    /\ claim'[d].stamp # None /\ claim'[d].stamp.version = "v2" =>
                          claim'[d].stamp.hash = Hash(built'[d])
    <3>1. Origin(d)' = Origin(d) /\ d \in Claims
      BY <2>1, <2>2, <2>3, <2>4 DEF Claims
    <3> QED
      BY <1>5, <2>1, <2>4, <3>1 DEF OriginInv, SameSpec
  <2> QED
    BY <1>0, <2>1, <2>3, <2>4 DEF OriginInv, Claims
<1> QED
  BY <1>1, <1>2, <1>3, <1>4 DEF CreateStep

LEMMA OriginNext ==
    ASSUME BaseInv, OriginInv, [Next]_vars
    PROVE  OriginInv'
<1>0. Versions' \subseteq Versions \cup {nc'} /\ FeedInv'
  BY FeedStep DEF OriginInv
<1>1. CASE SyncClass \/ TimerFires \/ UNCHANGED vars
  <2>1. UNCHANGED <<nc, claim, launch, built, changed, work>>
    BY <1>1 DEF SyncClass, TimerFires, vars, ncVars
  <2> QED BY <1>0, <2>1, OriginFrame
<1>2. CASE Crash
  <2>1. /\ UNCHANGED <<nc, claim, built, changed>>
        /\ ncCache' = nc /\ work'.obj = None
        /\ \A c \in Claims : launch'[c].pc = "idle"
    BY <1>2 DEF Crash, Idle, NotLaunching, ncVars
  <2>2. \A c \in Claims : Origin(c)' = built[c]
    BY <2>1 DEF Origin
  <2>3. \A c \in LegacyClaims \cup NewClaims : built[c] # None => Origin(c) = built[c]
    BY DEF OriginInv, Origin
  <2>4. Versions' \subseteq Versions
    BY <1>0, <2>1, LiveAndCached
  <2> QED BY <1>0, <2>1, <2>2, <2>3, <2>4 DEF OriginInv, SameSpec, Claims
<1> QED
  BY <1>1, <1>2, UserOrigin, ReconcileOrigin, ClaimOrigin DEF Next

LEMMA OriginInit == Init => OriginInv
<1> SUFFICES ASSUME Init PROVE OriginInv
  OBVIOUS
<1>1. /\ ncCache = nc /\ feed = <<>> /\ work.obj = None
      /\ \A c \in Claims : launch[c].pc = "idle"
      /\ changed = [c \in Claims |-> c \in LegacyClaims /\ Canon(built[c]) # Canon(nc.spec)]
  BY DEF Init, Idle, NotLaunching
<1>2. PICK b \in [Claims -> Specs] :
        /\ built = [c \in Claims |-> IF c \in LegacyClaims THEN b[c] ELSE None]
        /\ \A c \in Claims : claim[c] \in Starting(c, b[c], nc.spec)
  BY DEF Init
<1>3. ASSUME NEW c \in LegacyClaims
      PROVE  /\ built[c] # None /\ claim[c].phase = "launched"
             /\ claim[c].stamp # None => claim[c].stamp.version = "none"
  <2>1. c \in Claims /\ c \notin NewClaims /\ c \notin StrandedClaims
    BY ClaimsAssumption DEF Claims
  <2>2. claim[c] \in LegacyRecords(b[c], nc.spec)
    BY <1>2, <2>1 DEF Starting
  <2>3. built[c] \in Specs
    BY <1>2, <2>1
  <2>4. built[c] # None
    BY <2>3, NoneAssumption
  <2>5. claim[c].phase = "launched" /\ claim[c].stamp \in {None, LegacyStamp(b[c])}
    BY <2>2 DEF LegacyRecords
  <2> QED BY <2>4, <2>5 DEF LegacyStamp
<1>4. ASSUME NEW c \in NewClaims PROVE claim[c].phase = "absent" /\ built[c] = None
  <2>1. c \in Claims /\ c \notin LegacyClaims /\ c \notin StrandedClaims
    BY ClaimsAssumption DEF Claims
  <2>2. claim[c] = NoClaim
    BY <1>2, <2>1 DEF Starting
  <2> QED BY <1>2, <2>1, <2>2 DEF NoClaim
<1>5. \A c \in Claims : Origin(c) = built[c]
  BY <1>1 DEF Origin
<1>6. ASSUME NEW c \in LegacyClaims, ~changed[c]
      PROVE  /\ SameSpec(nc, built[c]) /\ SameSpec(work.obj, built[c])
             /\ ~(claim[c].stamp # None /\ claim[c].stamp.version = "v2")
  <2>1. Canon(built[c]) = Canon(nc.spec)
    BY <1>1, <1>6 DEF Claims
  <2>2. ~(claim[c].stamp # None /\ claim[c].stamp.version = "v2")
    BY <1>3
  <2> QED BY <1>1, <2>1, <2>2 DEF SameSpec
<1>7. Versions = {nc}
  BY <1>1 DEF Versions, ToSet
<1> QED
  BY <1>1, <1>3, <1>4, <1>5, <1>6, <1>7 DEF OriginInv, FeedInv, Claims

LEMMA OriginInvariant == Spec => [](BaseInv /\ OriginInv)
<1>1. Init => BaseInv /\ OriginInv
  BY TypeInit, StampInit, OriginInit DEF BaseInv
<1>2. BaseInv /\ OriginInv /\ [Next]_vars => BaseInv' /\ OriginInv'
  BY TypeNext, StampNext, OriginNext DEF BaseInv
<1> QED
  BY <1>1, <1>2, PTL DEF Spec

(* Only the disruption controller marks a claim as drifted. *)
LEMMA DriftMarked ==
    ASSUME TypeOK, [Next]_vars, NEW c \in Claims, ~claim[c].drifted, claim'[c].drifted
    PROVE  EvaluateDrift(c)
<1>0. claim \in [Claims -> ClaimRecords]
  BY DEF TypeOK
<1>1. ASSUME NEW d \in Claims, NEW p, claim' = [claim EXCEPT ![d].phase = p] PROVE FALSE
  BY <1>0, <1>1 DEF ClaimRecords
<1>2. ASSUME NEW d \in Claims, NEW p, claim' = [claim EXCEPT ![d].stamp = p] PROVE FALSE
  BY <1>0, <1>2 DEF ClaimRecords
<1>3. ASSUME NEW d \in Claims, EvaluateDrift(d), d # c PROVE FALSE
  BY <1>0, <1>3 DEF EvaluateDrift
<1>4. CASE UserStep
  BY <1>1, <1>4 DEF UserStep, UserEdit, UserRecreate, UserDelete, OtherFinalizerRemoved,
     ClaimCreated, ClaimDeleted
<1>5. CASE ReconcileStep
  BY <1>2, <1>5 DEF ReconcileStep, ReconcileBegin, handleDeletion, AddFinalizer, MarkInvalid,
     MarkReady, ListClaims, RebaselineClaim, ReconcileEnd, ReconcileFails
<1>6. ASSUME NEW d \in Claims, CreateStep(d) PROVE FALSE
  BY <1>1, <1>2, <1>6 DEF CreateStep, CreateBegin, CreateFails, PersistMetadata, PersistStatus
<1>7. CASE SyncClass \/ TimerFires \/ Crash \/ (\E d \in Claims : SyncClaim(d)) \/ UNCHANGED vars
  BY <1>7 DEF SyncClass, TimerFires, Crash, SyncClaim, vars
<1> QED
  BY <1>3, <1>4, <1>5, <1>6, <1>7 DEF Next

(* No claim is found to have drifted unless a spec that really differs from *)
(* the one its server was made from was live after the version of the       *)
(* NodeClass that Create read: the cache shows that version and later ones. *)
THEOREM DriftIsGenuineHolds == Spec => DriftIsGenuine
<1>1. ASSUME BaseInv, OriginInv, [Next]_vars, NEW c \in LegacyClaims \cup NewClaims,
             ~claim[c].drifted, claim'[c].drifted
      PROVE  changed[c]
  <2>1. c \in Claims
    BY DEF Claims
  <2>2. EvaluateDrift(c)
    BY <1>1, <2>1, DriftMarked DEF BaseInv
  <2>3. claim[c].phase = "launched" /\ claim' = [claim EXCEPT ![c].drifted = IsDrifted(claim[c], ncCache)]
    BY <2>2 DEF EvaluateDrift
  <2>4. IsDrifted(claim[c], ncCache)
    BY <1>1, <2>1, <2>3 DEF BaseInv, TypeOK, ClaimRecords
  <2>5. /\ ncCache # None /\ claim[c].stamp # None /\ claim[c].stamp.version = "v2"
        /\ claim[c].stamp.hash # Hash(ncCache.spec)
    BY <2>4 DEF IsDrifted
  <2>6. SUFFICES ASSUME ~changed[c] PROVE FALSE
    OBVIOUS
  <2>7. built[c] # None /\ Origin(c) = built[c]
    BY <1>1, <2>3 DEF BaseInv, StampInv, OriginInv, Origin
  <2>8. claim[c].stamp.hash = Hash(built[c])
    <3>1. CASE c \in NewClaims
      <4>1. claim[c].stamp = CurrentStamp(built[c])
        BY <1>1, <2>3, <3>1 DEF BaseInv, StampInv, StampMatchesBuild
      <4> QED BY <4>1 DEF CurrentStamp
    <3>2. CASE c \in LegacyClaims
      BY <1>1, <2>5, <2>6, <2>7, <3>2 DEF OriginInv
    <3> QED BY <3>1, <3>2
  <2>9. Canon(ncCache.spec) = Canon(built[c])
    BY <1>1, <2>5, <2>6, <2>7, LiveAndCached DEF OriginInv, SameSpec
  <2> QED
    BY <2>5, <2>8, <2>9, HashCongruence
<1>2. BaseInv /\ OriginInv /\ [Next]_vars =>
        [\A c \in LegacyClaims \cup NewClaims : ~claim[c].drifted /\ claim'[c].drifted => changed[c]]_vars
  BY <1>1
<1> QED
  BY <1>2, OriginInvariant, PTL DEF Spec, DriftIsGenuine

-----------------------------------------------------------------------------
(* No NodeClass is forgotten                                                *)

(* What the controller's writes keep of the NodeClass n. *)
Kept(n, m) ==
    m # None =>
        /\ n # None /\ m.gen = n.gen /\ (m.deleting <=> n.deleting)
        /\ n.deleting /\ ~n.finalizer => ~m.finalizer

(* Copies stay copies when the controller writes ... *)
LEMMA CopyKept ==
    ASSUME NEW o, NEW n, NEW m, NEW g, Copy(o, n, g), Kept(n, m)
    PROVE  Copy(o, m, g)
  BY DEF Copy, Kept

(* ... and when a new generation is handed out. *)
LEMMA CopyOutdated ==
    ASSUME NEW o, o \in ClassRecords \cup {None}, NEW n, NEW m, NEW g \in Nat,
           Copy(o, n, g), m.gen = g + 1
    PROVE  Copy(o, m, g + 1) /\ (o = None \/ o.gen # m.gen)
  BY DEF Copy, ClassRecords

(* Every version is a copy still when the controller has written. *)
LEMMA KeptVersions ==
    ASSUME WatchInv, Versions' \subseteq Versions \cup {nc'}, UNCHANGED gen, Kept(nc, nc')
    PROVE  \A o \in Versions' : Copy(o, nc', gen')
<1>1. \A o \in Versions : Copy(o, nc', gen)
  BY CopyKept DEF WatchInv
<1>2. Copy(nc, nc, gen)
  BY LiveAndCached DEF WatchInv
<1>3. Copy(nc', nc', gen)
  BY <1>2 DEF Copy, Kept
<1> QED
  BY <1>1, <1>3

(* Steps that leave the NodeClass, its cached copy and the controller alone.*)
LEMMA WatchFrame ==
    ASSUME WatchInv, Versions' \subseteq Versions \cup {nc'},
           UNCHANGED <<nc, gen, ncCache, queued, timer, work>>
    PROVE  WatchInv'
<1>1. \A o \in Versions' : Copy(o, nc', gen')
  BY LiveAndCached DEF WatchInv
<1> QED
  BY <1>1 DEF WatchInv, NotForgotten, EventPasses

(* Reconcile returns and will be called again. *)
LEMMA WatchRequeue ==
    ASSUME WatchInv, Versions' \subseteq Versions \cup {nc'},
           UNCHANGED <<gen, ncCache>>, Kept(nc, nc'), ReturnAndRequeue
    PROVE  WatchInv'
<1>1. \A o \in Versions' : Copy(o, nc', gen')
  BY KeptVersions
<1>2. work'.pc = "idle" /\ timer'
  BY DEF ReturnAndRequeue, Idle
<1> QED
  BY <1>1, <1>2 DEF WatchInv, NotForgotten

(* Reconcile goes on with its copy. *)
LEMMA WatchContinue ==
    ASSUME WatchInv, Versions' \subseteq Versions \cup {nc'},
           UNCHANGED <<gen, ncCache, queued>>, Kept(nc, nc'),
           work.pc # "idle", work'.pc # "idle", work'.obj = work.obj
    PROVE  WatchInv'
<1>1. \A o \in Versions' : Copy(o, nc', gen')
  BY KeptVersions
<1>3. Copy(work'.obj, nc', gen')
  BY CopyKept DEF WatchInv
<1>2. nc' # None => queued' \/ EventPasses(ncCache', nc') \/ work'.obj.gen = nc'.gen
  BY DEF WatchInv, EventPasses, Kept
<1> QED
  BY <1>1, <1>2, <1>3 DEF WatchInv, NotForgotten

LEMMA WatchInit == Init => WatchInv
<1> SUFFICES ASSUME Init PROVE WatchInv
  OBVIOUS
<1>1. ncCache = nc /\ gen = 1 /\ queued /\ work.pc = "idle" /\ nc.gen = 1
  <2>1. PICK s \in Specs, f \in BOOLEAN : nc = [NewClass(s, 1) EXCEPT !.finalizer = f]
    BY DEF Init
  <2>2. nc.gen = 1
    BY <2>1 DEF NewClass
  <2> QED BY <2>2 DEF Init, Idle
<1>2. Versions = {nc}
  BY DEF Init, Versions, ToSet
<1> QED
  BY <1>1, <1>2 DEF WatchInv, NotForgotten, Copy

(* A user hands out a new generation, or the NodeClass disappears. *)
LEMMA WatchUser ==
    ASSUME BaseInv, WatchInv, UserStep
    PROVE  WatchInv'
<1>0. /\ gen \in Nat /\ work.obj \in ClassRecords \cup {None}
      /\ Versions \subseteq ClassRecords \cup {None}
  BY BoundsAssumption DEF BaseInv, TypeOK, Versions, ToSet
<1>8. Versions' \subseteq Versions \cup {nc'}
  BY FeedStep DEF Next
<1>1. ASSUME gen' = gen + 1, nc'.gen = gen + 1, UNCHANGED <<ncCache, queueVars>>
      PROVE  WatchInv'
  <2>1. \A o \in Versions : Copy(o, nc', gen') /\ EventPasses(o, nc')
    BY <1>0, <1>1, CopyOutdated DEF WatchInv, EventPasses
  <2>2. Copy(nc', nc', gen')
    BY <1>0, <1>1 DEF Copy
  <2>3. work'.pc # "idle" => Copy(work'.obj, nc', gen')
    BY <1>0, <1>1, CopyOutdated DEF WatchInv, queueVars
  <2>4. EventPasses(ncCache', nc') /\ \A o \in Versions' : Copy(o, nc', gen')
    BY <1>1, <1>8, <2>1, <2>2, LiveAndCached
  <2> QED
    BY <2>3, <2>4 DEF WatchInv, NotForgotten
<1>2. ASSUME nc' = None, gen' \in {gen, gen + 1}, UNCHANGED <<ncCache, queueVars>>
      PROVE  WatchInv'
  <2>1. \A o \in Versions \cup {None} : Copy(o, nc', gen')
    BY <1>0, <1>2 DEF WatchInv, Copy, ClassRecords
  <2>2. work'.pc # "idle" => Copy(work'.obj, nc', gen')
    BY <1>0, <1>2 DEF WatchInv, Copy, ClassRecords, queueVars
  <2> QED
    BY <1>2, <1>8, <2>1, <2>2 DEF WatchInv, NotForgotten
<1>3. ASSUME NEW s \in Specs, UserEdit(s) PROVE WatchInv'
  <2>1. nc \in ClassRecords
    BY <1>0, <1>3, LiveAndCached DEF UserEdit
  <2>2. nc'.gen = gen + 1
    BY <1>3, <2>1 DEF UserEdit, Write, ClassRecords
  <2> QED BY <1>1, <1>3, <2>2 DEF UserEdit
<1>4. ASSUME NEW s \in Specs, UserRecreate(s) PROVE WatchInv'
  <2>1. nc'.gen = gen + 1
    BY <1>4 DEF UserRecreate, Write, NewClass
  <2> QED BY <1>1, <1>4, <2>1 DEF UserRecreate
<1>5. CASE UserDelete
  <2>1. nc \in ClassRecords
    BY <1>0, <1>5, LiveAndCached DEF UserDelete
  <2>2. nc'.gen = gen + 1 \/ nc' = None
    BY <1>5, <2>1 DEF UserDelete, Write, ClassRecords
  <2> QED BY <1>1, <1>2, <1>5, <2>2 DEF UserDelete
<1>6. CASE OtherFinalizerRemoved
  BY <1>2, <1>6 DEF OtherFinalizerRemoved, Write
<1>7. ASSUME NEW c \in Claims, ClaimCreated(c) \/ ClaimDeleted(c) PROVE WatchInv'
  BY <1>7, <1>8, WatchFrame DEF ClaimCreated, ClaimDeleted, ncVars, queueVars
<1> QED
  BY <1>3, <1>4, <1>5, <1>6, <1>7 DEF UserStep

(* The controller. It drops a NodeClass only when its copy has no finalizer *)
(* left and is being deleted: then so is the live object, or a newer one is *)
(* queued or about to be.                                                   *)
LEMMA WatchReconcile ==
    ASSUME BaseInv, WatchInv, ReconcileStep
    PROVE  WatchInv'
<1>0. /\ nc \in ClassRecords \cup {None} /\ ncCache \in ClassRecords \cup {None}
      /\ work \in [pc : {"idle", "got", "list", "patch"}, obj : ClassRecords \cup {None},
                    todo : SUBSET Claims]
      /\ work.pc # "idle" => work.obj \in ClassRecords /\ work.obj # None
      /\ Kept(nc, nc)
  BY DEF BaseInv, TypeOK, StampInv, Kept
<1>9. Versions' \subseteq Versions \cup {nc'}
  BY FeedStep DEF Next, ReconcileStep
<1>1. CASE ReconcileBegin
  <2>1. UNCHANGED <<nc, gen, ncCache, timer>>
    BY <1>1 DEF ReconcileBegin, ncVars
  <2>4. \A o \in Versions' : Copy(o, nc', gen')
    BY <1>0, <1>9, <2>1, KeptVersions
  <2>2. CASE ncCache = None
    <3>1. work' = Idle
      BY <1>1, <2>2 DEF ReconcileBegin
    <3> QED BY <2>1, <2>2, <2>4, <3>1 DEF WatchInv, NotForgotten, EventPasses, Idle
  <2>3. CASE ncCache # None
    <3>1. work'.pc = "got" /\ work'.obj = ncCache
      BY <1>0, <1>1, <2>3 DEF ReconcileBegin
    <3> QED BY <2>1, <2>4, <3>1, LiveAndCached DEF WatchInv, NotForgotten, EventPasses
  <2> QED BY <2>2, <2>3
<1>2. CASE handleDeletion
  <2>0. /\ work.obj \in ClassRecords /\ work.obj # None /\ work.obj.deleting /\ work.pc # "idle"
        /\ UNCHANGED <<gen, ncCache, queued>>
    BY <1>0, <1>2 DEF handleDeletion
  <2>1. CASE ~work.obj.finalizer /\ ReturnForGood /\ UNCHANGED nc
    <3>1. nc # None /\ (nc.deleting => nc.finalizer) => queued \/ EventPasses(ncCache, nc)
      BY <2>0, <2>1 DEF WatchInv, Copy
    <3>2. work'.pc = "idle"
      BY <2>1 DEF ReturnForGood, Idle
    <3>3. \A o \in Versions' : Copy(o, nc', gen')
      BY <1>0, <1>9, <2>0, <2>1, KeptVersions
    <3> QED BY <2>0, <2>1, <3>1, <3>2, <3>3 DEF WatchInv, NotForgotten, EventPasses
  <2>2. CASE Unmodified /\ nc' \in {None, [nc EXCEPT !.finalizer = FALSE]} /\ ReturnForGood
    <3>1. nc = work.obj
      BY <2>2 DEF Unmodified
    <3>2. nc' # None => nc'.gen = nc.gen /\ nc'.deleting /\ ~nc'.finalizer
      BY <2>0, <2>2, <3>1 DEF ClassRecords
    <3>3. Kept(nc, nc')
      BY <2>0, <3>1, <3>2 DEF Kept
    <3>4. \A o \in Versions' : Copy(o, nc', gen')
      BY <1>9, <2>0, <3>3, KeptVersions
    <3>5. work'.pc = "idle"
      BY <2>2 DEF ReturnForGood, Idle
    <3> QED BY <3>2, <3>4, <3>5 DEF WatchInv, NotForgotten
  <2>3. CASE ReturnAndRequeue /\ UNCHANGED nc
    BY <1>0, <1>9, <2>0, <2>3, WatchRequeue
  <2> QED BY <1>2, <2>1, <2>2, <2>3 DEF handleDeletion, Write
<1>3. CASE AddFinalizer
  <2>1. work.obj \in ClassRecords /\ work.obj # None /\ ~work.obj.deleting
    BY <1>0, <1>3 DEF AddFinalizer
  <2>2. Kept(nc, nc')
    BY <1>0, <1>3, <2>1 DEF AddFinalizer, Unmodified, Write, Kept, ClassRecords
  <2> QED BY <1>3, <1>9, <2>2, WatchRequeue DEF AddFinalizer
<1>4. CASE MarkInvalid
  <2>1. work.obj \in ClassRecords /\ work.obj # None
    BY <1>0, <1>4 DEF MarkInvalid, Settled
  <2>2. Kept(nc, nc')
    <3>1. CASE Unmodified
      <4>1. nc \in ClassRecords /\ PatchStatus(Refused(nc))
        BY <1>4, <2>1, <3>1 DEF MarkInvalid, Unmodified
      <4>2. nc' = Refused(nc)
        BY <4>1, StatusPatched DEF Write
      <4> QED BY <2>1, <3>1, <4>1, <4>2 DEF Unmodified, Refused, Kept, ClassRecords
    <3>2. CASE ~Unmodified
      BY <1>0, <1>4, <3>2 DEF MarkInvalid
    <3> QED BY <3>1, <3>2
  <2> QED BY <1>4, <1>9, <2>2, WatchRequeue DEF MarkInvalid
<1>5. CASE MarkReady
  <2>1. /\ work.obj \in ClassRecords /\ work.obj # None /\ work.pc = "got"
        /\ UNCHANGED <<gen, ncCache, queued>>
    BY <1>0, <1>5 DEF MarkReady, Settled
  <2>2. CASE work' = [work EXCEPT !.pc = "list"] /\ PatchStatus(Published(work.obj)) /\ Unmodified
    <3>3. nc \in ClassRecords /\ nc # None /\ PatchStatus(Published(nc))
      BY <2>1, <2>2 DEF Unmodified
    <3>4. nc' = Published(nc)
      BY <3>3, StatusPatched DEF Write
    <3>1. Kept(nc, nc')
      BY <3>3, <3>4 DEF Published, Kept, ClassRecords
    <3>2. work'.pc = "list" /\ work'.obj = work.obj
      BY <1>0, <2>2
    <3> QED BY <1>9, <2>1, <3>1, <3>2, WatchContinue
  <2>3. CASE work' = [work EXCEPT !.pc = "list"] /\ UNCHANGED nc
    <3>1. work'.pc = "list" /\ work'.obj = work.obj
      BY <1>0, <2>3
    <3> QED BY <1>0, <1>9, <2>1, <2>3, <3>1, WatchContinue
  <2>4. CASE ReturnAndRequeue /\ UNCHANGED nc
    BY <1>0, <1>9, <2>1, <2>4, WatchRequeue
  <2> QED BY <1>5, <2>2, <2>3, <2>4 DEF MarkReady
<1>6. CASE ListClaims
  <2>1. work'.pc = "patch" /\ work'.obj = work.obj /\ work.pc = "list"
    BY <1>0, <1>6 DEF ListClaims
  <2> QED BY <1>0, <1>6, <1>9, <2>1, WatchContinue DEF ListClaims, ncVars
<1>7. ASSUME NEW c \in Claims, RebaselineClaim(c) PROVE WatchInv'
  <2>1. \/ ReturnAndRequeue
        \/ work'.pc = "patch" /\ work'.obj = work.obj /\ work.pc = "patch"
    BY <1>0, <1>7 DEF RebaselineClaim
  <2> QED BY <1>0, <1>7, <1>9, <2>1, WatchContinue, WatchRequeue DEF RebaselineClaim, ncVars
<1>8. CASE ReconcileEnd \/ ReconcileFails
  BY <1>0, <1>8, <1>9, WatchRequeue DEF ReconcileEnd, ReconcileFails, ncVars
<1> QED
  BY <1>1, <1>2, <1>3, <1>4, <1>5, <1>6, <1>7, <1>8 DEF ReconcileStep

LEMMA WatchNext ==
    ASSUME BaseInv, WatchInv, [Next]_vars
    PROVE  WatchInv'
<1>0. Versions' \subseteq Versions \cup {nc'}
  BY FeedStep
<1>6. ASSUME UNCHANGED <<nc, gen>> PROVE \A o \in Versions' : Copy(o, nc', gen')
  BY <1>0, <1>6, LiveAndCached DEF WatchInv
<1>1. CASE SyncClass
  <2>1. /\ UNCHANGED <<nc, gen, timer, work>>
        /\ queued' <=> queued \/ EventPasses(ncCache, ncCache')
    BY <1>1 DEF SyncClass, BaseInv, TypeOK, EventPasses
  <2>2. EventPasses(ncCache, nc) => queued' \/ EventPasses(ncCache', nc)
    BY <2>1 DEF EventPasses
  <2> QED BY <1>6, <2>1, <2>2 DEF WatchInv, NotForgotten, EventPasses
<1>2. CASE TimerFires
  BY <1>2, <1>6 DEF TimerFires, ncVars, WatchInv, NotForgotten, EventPasses
<1>3. CASE Crash
  BY <1>3, <1>6 DEF Crash, Idle, WatchInv, NotForgotten
<1>4. ASSUME NEW c \in Claims, SyncClaim(c) \/ CreateStep(c) \/ EvaluateDrift(c) PROVE WatchInv'
  BY <1>0, <1>4, WatchFrame DEF SyncClaim, CreateStep, CreateBegin, CreateFails, PersistMetadata,
     PersistStatus, EvaluateDrift, ncVars, queueVars
<1>5. CASE UNCHANGED vars
  BY <1>0, <1>5, WatchFrame DEF vars
<1> QED
  BY <1>1, <1>2, <1>3, <1>4, <1>5, WatchUser, WatchReconcile DEF Next, BaseInv

(* A NodeClass that this controller has not let go of is queued, being      *)
(* reconciled, due, or changed in a way that passes the event filter.       *)
THEOREM NotForgottenHolds == Spec => []NotForgotten
<1>1. BaseInv /\ WatchInv /\ [Next]_vars => WatchInv'
  BY WatchNext
<1>2. WatchInv => NotForgotten
  BY DEF WatchInv
<1> QED
  BY <1>1, <1>2, WatchInit, BaseInvariant, PTL DEF Spec

-----------------------------------------------------------------------------
(* The status is that of the live spec                                      *)

(* Only MarkInvalid and MarkReady write the status of a NodeClass that      *)
(* stays there, and only to the copy they judged.                           *)
LEMMA StatusWritten ==
    ASSUME BaseInv, [Next]_vars, nc # None, nc' # None, nc'.observed # nc.observed
    PROVE  (MarkInvalid \/ MarkReady) /\ Unmodified
<1>0. nc \in ClassRecords
  BY DEF BaseInv, TypeOK
<1>1. CASE UserStep
  <2>1. ASSUME NEW s \in Specs, UserEdit(s) \/ UserRecreate(s) PROVE FALSE
    BY <1>0, <2>1 DEF UserEdit, UserRecreate, Write, ClassRecords
  <2>2. CASE UserDelete \/ OtherFinalizerRemoved
    BY <1>0, <2>2 DEF UserDelete, OtherFinalizerRemoved, Write, ClassRecords
  <2>3. ASSUME NEW c \in Claims, ClaimCreated(c) \/ ClaimDeleted(c) PROVE FALSE
    BY <2>3 DEF ClaimCreated, ClaimDeleted, ncVars
  <2> QED BY <1>1, <2>1, <2>2, <2>3 DEF UserStep
<1>2. CASE handleDeletion \/ AddFinalizer
  BY <1>0, <1>2 DEF handleDeletion, AddFinalizer, Write, ClassRecords
<1>3. CASE (MarkInvalid \/ MarkReady) /\ ~Unmodified
  BY <1>3 DEF MarkInvalid, MarkReady
<1>5. CASE \/ ReconcileBegin \/ ListClaims \/ ReconcileEnd \/ ReconcileFails
           \/ \E c \in Claims : RebaselineClaim(c)
  BY <1>5 DEF ReconcileBegin, ListClaims, ReconcileEnd, ReconcileFails, RebaselineClaim, ncVars
<1>6. CASE SyncClass \/ TimerFires \/ Crash \/ UNCHANGED vars
  BY <1>6 DEF SyncClass, TimerFires, Crash, ncVars, vars
<1>7. ASSUME NEW c \in Claims, SyncClaim(c) \/ CreateStep(c) \/ EvaluateDrift(c) PROVE FALSE
  BY <1>7 DEF SyncClaim, CreateStep, CreateBegin, CreateFails, PersistMetadata,
     PersistStatus, EvaluateDrift, ncVars
<1> QED
  BY <1>1, <1>2, <1>3, <1>5, <1>6, <1>7 DEF Next, ReconcileStep

(* A status that is written says of the spec live at that moment whether it *)
(* is valid, and which hash it has.                                         *)
THEOREM StatusIsOfLiveSpecHolds == Spec => StatusIsOfLiveSpec
<1>1. ASSUME BaseInv, [Next]_vars, nc # None, nc' # None, nc'.observed # nc.observed
      PROVE  /\ nc'.observed = nc.gen
             /\ nc'.ready = (IF validateSpec(nc.spec) THEN "True" ELSE "False")
             /\ validateSpec(nc.spec) => nc'.hash = Hash(nc.spec)
  <2>0. nc \in ClassRecords
    BY <1>1 DEF BaseInv, TypeOK
  <2>1. (MarkInvalid \/ MarkReady) /\ nc = work.obj
    BY <1>1, StatusWritten DEF Unmodified
  <2>2. CASE MarkInvalid
    <3>1. nc' = Refused(nc) /\ ~validateSpec(nc.spec)
      BY <1>1, <2>0, <2>1, <2>2, StatusPatched DEF MarkInvalid, Write
    <3> QED BY <2>0, <3>1 DEF Refused, ClassRecords
  <2>3. CASE MarkReady
    <3>1. nc' = Published(nc) /\ validateSpec(nc.spec)
      BY <1>1, <2>0, <2>1, <2>3, StatusPatched DEF MarkReady, Write
    <3> QED BY <2>0, <3>1 DEF Published, ClassRecords
  <2> QED BY <2>1, <2>2, <2>3
<1>2. BaseInv /\ [Next]_vars =>
        [nc # None /\ nc' # None /\ nc'.observed # nc.observed /\ nc'.observed # 0 =>
          /\ nc'.observed = nc.gen
          /\ nc'.ready = (IF validateSpec(nc.spec) THEN "True" ELSE "False")
          /\ validateSpec(nc.spec) => nc'.hash = Hash(nc.spec)]_vars
  BY <1>1
<1> QED
  BY <1>2, BaseInvariant, PTL DEF Spec, StatusIsOfLiveSpec
=============================================================================
