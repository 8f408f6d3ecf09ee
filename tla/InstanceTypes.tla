---------------------------- MODULE InstanceTypes ----------------------------
(***************************************************************************)
(* The instance types provider and the start-up of the process that fills  *)
(* it: the plans of the UpCloud API, read once before any controller runs, *)
(* as the instance types Karpenter schedules with; and what Create and     *)
(* buildNodeClaim make of a plan.                                          *)
(*                                                                         *)
(* Integers have their width: MaxInt and MiB stand for MaxInt64 and 2^20.  *)
(* Prices are left out: they only order the choice Karpenter makes.        *)
(***************************************************************************)
EXTENDS Integers, Sequences

CONSTANTS
    Plans,         \* the names of plans
    Details,       \* plan -> what GetPlans says of it, and what is in its name
    ClassPlan,     \* NodeClass.spec.plan
    ClassSize,     \* NodeClass.spec.storage.size
    MaxInt, MiB

ASSUME WidthAssumption == MaxInt \in Nat /\ MiB \in Nat \ {0}
ASSUME DetailsAssumption ==
    Details \in [Plans -> [spotName : BOOLEAN, memory : Int, bundled : Nat]]

VARIABLES
    running,       \* main.run has got as far as starting the controllers
    offered,       \* the plans the UpCloud API offers
    known          \* the plans in the provider's maps

typeVars == <<running, offered, known>>

-----------------------------------------------------------------------------
(* What is made of a plan                                                   *)

IsSpotPlan(p) == Details[p].spotName

CapacityType(p) == IF IsSpotPlan(p) THEN "spot" ELSE "on-demand"

Clamped(n) == IF n < 0 THEN 0 ELSE n

(* Two's complement: the product is cut to the width of an integer. *)
Wrap(n) == ((n + MaxInt + 1) % (2 * (MaxInt + 1))) - (MaxInt + 1)

(* The conversion of instance types: clamped, and saturated. *)
memoryBytes(mib) ==
    IF Clamped(mib) <= MaxInt \div MiB THEN Wrap(Clamped(mib) * MiB) ELSE MaxInt

(* "Genuine UpCloud plans always sit inside these bounds"; others the code  *)
(* clamps and saturates in one place and lets wrap around in the other.     *)
Genuine(p) == Details[p].memory \in 0..(MaxInt \div MiB)

(* buildInstanceTypeWithPrices: what Karpenter schedules with. *)
InstanceType(p) ==
    [type |-> p, capacityType |-> CapacityType(p), memory |-> memoryBytes(Details[p].memory)]

(* buildNodeClaim: what Get and List say of a server of plan p. *)
buildNodeClaim(p) ==
    [type |-> p, capacityType |-> CapacityType(p), memory |-> Wrap(Details[p].memory * MiB)]

(* The plan Create uses: the first value of the claim's requirement on the  *)
(* instance type, or else the plan of the NodeClass.                        *)
ChosenPlan(values) == IF Len(values) > 0 THEN values[1] ELSE ClassPlan

(* The size of the root disk: the plan's own, if the provider knows it. *)
StorageSize(p) ==
    IF p \in known /\ Details[p].bundled > 0 THEN Details[p].bundled ELSE ClassSize

-----------------------------------------------------------------------------
(* Start-up                                                                 *)

TypesInit ==
    /\ running = FALSE /\ known = {}
    /\ offered \in SUBSET Plans /\ ClassPlan \in offered

(* Mutant of Start: the error of Refresh is logged and not returned. *)
StartAnyway ==
    /\ ~running /\ running' = TRUE
    /\ known' \in {{}, offered}
    /\ UNCHANGED offered

(* Refresh fills both maps with what GetPlans returns. *)
Refresh == known' = offered /\ UNCHANGED offered

(* main.run: the controllers are started after Refresh. When reading the    *)
(* cluster, its endpoint or the plans fails, the process exits and is       *)
(* started again.                                                           *)
Start == ~running /\ running' = TRUE /\ Refresh

(* The process is gone, and its maps with it. *)
Stop == running' = FALSE /\ known' = {} /\ UNCHANGED offered

PlanIntroduced(p) ==
    /\ p \notin offered /\ offered' = offered \cup {p}
    /\ UNCHANGED <<running, known>>

(* What GetInstanceTypes offers Karpenter. *)
List == {InstanceType(p) : p \in known}

(* The instance-type requirements Karpenter may give a claim: of the types  *)
(* it is offered, in some order; or none.                                   *)
Requirements ==
    LET types == {t.type : t \in List}
    IN  {<<>>} \cup {<<p>> : p \in types}
        \cup {values \in types \X types : values[1] # values[2]}
=============================================================================
