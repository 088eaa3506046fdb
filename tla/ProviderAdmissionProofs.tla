----------------------- MODULE ProviderAdmissionProofs -----------------------
(***************************************************************************)
(* Proofs about ProviderAdmission for any finite set of threads and any     *)
(* limits.  AdmissionInv is inductive: an admission that overtakes a waiter *)
(* promotes it by one rank, and once its rank is Interactive nobody with a  *)
(* later sequence number comes before it.                                   *)
(***************************************************************************)
EXTENDS ProviderAdmission, FiniteSetTheorems, TLAPS

Running == {q \in Queries : state[q] = "running"}

AdmissionInv ==
    /\ TypeOK
    /\ PermitsMatchQueries
    /\ SequencesDistinct
    /\ OvertakenWasBoosted
    /\ OvertakingBounded

(* Sets of threads are finite.                                                *)
LEMMA FiniteQueries ==
    /\ IsFiniteSet(Waiting) /\ Cardinality(Waiting) \in Nat
    /\ IsFiniteSet(Running) /\ Cardinality(Running) \in Nat
<1>1. Waiting \in SUBSET Queries /\ Running \in SUBSET Queries
  BY DEF Waiting, Running
<1> QED
  BY <1>1, FS_Subset, FS_CardinalityType, ProviderAdmissionAssumption

(* Every action of a thread keeps the types and the bound on permits.         *)
LEMMA TypesStep ==
    ASSUME Types, Next
    PROVE  Types'
<1> USE ProviderAdmissionAssumption DEF Types
<1>1. ASSUME Stop PROVE Types'
  BY <1>1 DEF Stop, waiterVars
<1>2. ASSUME NEW q \in Queries, NEW p \in Priorities, Arrive(q, p) PROVE Types'
  BY <1>2 DEF Arrive
<1>3. ASSUME NEW q \in Queries, AdmitAtOnce(q) PROVE Types'
  BY <1>3 DEF AdmitAtOnce, PermitFree, waiterVars
<1>4. ASSUME NEW q \in Queries, Refuse(q) PROVE Types'
  BY <1>4 DEF Refuse, waiterVars
<1>5. ASSUME NEW q \in Queries, Enqueue(q) PROVE Types'
  BY <1>5 DEF Enqueue
<1>6. ASSUME NEW q \in Queries, Admit(q) PROVE Types'
  BY <1>6 DEF Admit, PermitFree
<1>7. ASSUME NEW q \in Queries, Withdraw(q) PROVE Types'
  BY <1>7 DEF Withdraw, waiterVars
<1>8. ASSUME NEW q \in Queries, Release(q) PROVE Types'
  BY <1>8 DEF Release, RunningAfterDrop, waiterVars
<1> QED
  BY <1>1, <1>2, <1>3, <1>4, <1>5, <1>6, <1>7, <1>8 DEF Next, Enter

(* What each action does to the two sets of threads that are counted.         *)
LEMMA QueueBoundStep ==
    ASSUME TypeOK, Next
    PROVE  Cardinality(Waiting') <= MaxQueuedQueries
<1> USE DEF TypeOK, Types
<1>1. ASSUME Waiting' \subseteq Waiting PROVE Cardinality(Waiting') <= MaxQueuedQueries
  <2>1. Cardinality(Waiting') \in Nat /\ Cardinality(Waiting') <= Cardinality(Waiting)
    BY <1>1, FiniteQueries, FS_Subset, FS_CardinalityType
  <2> QED
    BY <2>1, FiniteQueries, ProviderAdmissionAssumption
<1>2. ASSUME NEW q \in Queries, Enqueue(q) PROVE Cardinality(Waiting') <= MaxQueuedQueries
  <2>1. Waiting' = Waiting \union {q} /\ q \notin Waiting
    BY <1>2 DEF Enqueue, Waiting
  <2>2. Cardinality(Waiting) < MaxQueuedQueries
    BY <1>2, FiniteQueries, ProviderAdmissionAssumption DEF Enqueue, Saturated
  <2>3. Cardinality(Waiting \union {q}) = Cardinality(Waiting) + 1
    BY <2>1, FiniteQueries, FS_AddElement
  <2> QED
    BY <2>1, <2>2, <2>3, FiniteQueries, ProviderAdmissionAssumption
<1>3. ASSUME Stop PROVE Waiting' \subseteq Waiting
  BY <1>3 DEF Stop, Waiting
<1>4. ASSUME NEW q \in Queries, NEW p \in Priorities, Arrive(q, p) PROVE Waiting' \subseteq Waiting
  BY <1>4 DEF Arrive, Waiting
<1>5. ASSUME NEW q \in Queries, AdmitAtOnce(q) \/ Refuse(q) \/ Admit(q) \/ Withdraw(q) \/ Release(q)
      PROVE  Waiting' \subseteq Waiting
  BY <1>5 DEF AdmitAtOnce, Refuse, Admit, Withdraw, Release, Waiting
<1> QED
  BY <1>1, <1>2, <1>3, <1>4, <1>5 DEF Next, Enter

LEMMA PermitsStep ==
    ASSUME TypeOK, PermitsMatchQueries, Next
    PROVE  PermitsMatchQueries'
<1> USE DEF TypeOK, Types
<1>0. running = Cardinality(Running)
  BY DEF PermitsMatchQueries, Running
<1>1. ASSUME running' = running, Running' = Running PROVE PermitsMatchQueries'
  BY <1>0, <1>1 DEF PermitsMatchQueries, Running
<1>2. ASSUME NEW q \in Queries, state[q] # "running", running' = running + 1,
             Running' = Running \union {q}
      PROVE  PermitsMatchQueries'
  <2>1. Cardinality(Running \union {q}) = Cardinality(Running) + 1
    BY <1>2, FiniteQueries, FS_AddElement DEF Running
  <2> QED
    BY <1>0, <1>2, <2>1 DEF PermitsMatchQueries, Running
<1>3. ASSUME Stop PROVE running' = running /\ Running' = Running
  BY <1>3 DEF Stop, Running
<1>4. ASSUME NEW q \in Queries, NEW p \in Priorities, Arrive(q, p)
      PROVE  running' = running /\ Running' = Running
  BY <1>4 DEF Arrive, Running
<1>5. ASSUME NEW q \in Queries, Refuse(q) \/ Enqueue(q) \/ Withdraw(q)
      PROVE  running' = running /\ Running' = Running
  BY <1>5 DEF Refuse, Enqueue, Withdraw, Running
<1>6. ASSUME NEW q \in Queries, AdmitAtOnce(q) \/ Admit(q)
      PROVE  state[q] # "running" /\ running' = running + 1 /\ Running' = Running \union {q}
  BY <1>6 DEF AdmitAtOnce, Admit, BestWaiter, Waiting, Running
<1>7. ASSUME NEW q \in Queries, Release(q) PROVE PermitsMatchQueries'
  <2>1. Running' = Running \ {q} /\ q \in Running
    BY <1>7 DEF Release, Running
  <2>2. Cardinality(Running \ {q}) = Cardinality(Running) - 1
    BY <2>1, FiniteQueries, FS_RemoveElement
  <2>3. Cardinality(Running) # 0
    BY <2>1, FiniteQueries, FS_EmptySet
  <2>4. running' = running - 1
    BY <1>0, <1>7, <2>3, FiniteQueries DEF Release, RunningAfterDrop
  <2> QED
    BY <1>0, <2>1, <2>2, <2>4 DEF PermitsMatchQueries, Running
<1> QED
  BY <1>1, <1>2, <1>3, <1>4, <1>5, <1>6, <1>7 DEF Next, Enter

(* Sequence numbers, and the balance of promotions and overtakings.           *)
LEMMA QueueStep ==
    ASSUME Types, SequencesDistinct, OvertakenWasBoosted, OvertakingBounded, Next
    PROVE  SequencesDistinct' /\ OvertakenWasBoosted' /\ OvertakingBounded'
<1> DEFINE Goal == SequencesDistinct' /\ OvertakenWasBoosted' /\ OvertakingBounded'
<1> USE DEF Types, SequencesDistinct, OvertakenWasBoosted, OvertakingBounded, Waiting, Interactive,
            Priorities
<1>1. ASSUME Stop PROVE Goal
  BY <1>1 DEF Stop, waiterVars
<1>2. ASSUME NEW q \in Queries, NEW p \in Priorities, Arrive(q, p) PROVE Goal
  BY <1>2 DEF Arrive
<1>3. ASSUME NEW q \in Queries, AdmitAtOnce(q) PROVE Goal
  BY <1>3 DEF AdmitAtOnce, waiterVars
<1>4. ASSUME NEW q \in Queries, Refuse(q) PROVE Goal
  BY <1>4 DEF Refuse, waiterVars
<1>5. ASSUME NEW q \in Queries, Enqueue(q) PROVE Goal
  BY <1>5 DEF Enqueue
<1>6. ASSUME NEW q \in Queries, Admit(q) PROVE Goal
  <2>1. SequencesDistinct'
    BY <1>6 DEF Admit
  <2>2. OvertakenWasBoosted'
    BY <1>6 DEF Admit, BestWaiter
  <2>3. ASSUME NEW v \in Queries, state'[v] = "queued"
        PROVE  overtaken'[v] <= Interactive - priority'[v]
    <3>1. v \in Waiting /\ v # q /\ q \in Waiting
      BY <1>6, <2>3 DEF Admit, BestWaiter
    <3>2. CASE sequence[v] < sequence[q]
      <4>1. EffectiveRank(q) > EffectiveRank(v)
        BY <1>6, <3>1, <3>2 DEF Admit, BestWaiter, Before, EffectiveRank
      <4>2. priority[v] + boost[v] < Interactive
        BY <3>1, <4>1 DEF EffectiveRank
      <4>3. overtaken'[v] = overtaken[v] + 1 /\ priority'[v] = priority[v]
        BY <1>6, <3>1, <3>2 DEF Admit
      <4> QED
        BY <3>1, <4>2, <4>3
    <3>3. CASE ~(sequence[v] < sequence[q])
      BY <1>6, <3>1, <3>3 DEF Admit
    <3> QED
      BY <3>2, <3>3
  <2> QED
    BY <2>1, <2>2, <2>3
<1>7. ASSUME NEW q \in Queries, Withdraw(q) PROVE Goal
  BY <1>7 DEF Withdraw, waiterVars
<1>8. ASSUME NEW q \in Queries, Release(q) PROVE Goal
  BY <1>8 DEF Release, waiterVars
<1> QED
  BY <1>1, <1>2, <1>3, <1>4, <1>5, <1>6, <1>7, <1>8 DEF Next, Enter

LEMMA InitInv == Init => AdmissionInv
<1> SUFFICES ASSUME Init PROVE AdmissionInv
  OBVIOUS
<1>1. Types
  <2>1. stopped \in BOOLEAN
    BY Zenon DEF Init
  <2> QED
    BY <2>1, ProviderAdmissionAssumption DEF Init, Types, Priorities
<1>2. Waiting = {} /\ {q \in Queries : state[q] = "running"} = {}
  BY DEF Init, Waiting
<1>3. TypeOK /\ PermitsMatchQueries
  BY <1>1, <1>2, FS_EmptySet, ProviderAdmissionAssumption DEF Init, TypeOK, PermitsMatchQueries
<1>4. SequencesDistinct /\ OvertakenWasBoosted /\ OvertakingBounded
  BY <1>2 DEF Init, SequencesDistinct, OvertakenWasBoosted, OvertakingBounded
<1> QED
  BY <1>3, <1>4 DEF AdmissionInv

LEMMA NextInv == AdmissionInv /\ [Next]_vars => AdmissionInv'
<1> SUFFICES ASSUME AdmissionInv, [Next]_vars PROVE AdmissionInv'
  OBVIOUS
<1>1. CASE Next
  BY <1>1, TypesStep, QueueBoundStep, PermitsStep, QueueStep DEF AdmissionInv, TypeOK
<1>2. CASE UNCHANGED vars
  BY <1>2 DEF vars, AdmissionInv, TypeOK, Types, PermitsMatchQueries, SequencesDistinct,
              OvertakenWasBoosted, OvertakingBounded, Waiting, EffectiveRank
<1> QED
  BY <1>1, <1>2

(* The limits of the configuration hold for any number of threads (admit).    *)
THEOREM LimitsHold == Spec => []TypeOK
<1>1. AdmissionInv => TypeOK
  BY DEF AdmissionInv
<1> QED
  BY <1>1, InitInv, NextInv, PTL DEF Spec

(* running_queries always equals the number of permits that are held, so      *)
(* shutdown's wait for zero waits for every query (QueryPermit).              *)
THEOREM PermitsAccounted == Spec => []PermitsMatchQueries
<1>1. AdmissionInv => PermitsMatchQueries
  BY DEF AdmissionInv
<1> QED
  BY <1>1, InitInv, NextInv, PTL DEF Spec

(* A waiter is overtaken by later arrivals at most twice (Background), once   *)
(* (in between) or never (Interactive), whatever arrives and however many     *)
(* threads there are (best_waiter, age_waiters).                              *)
THEOREM AgingBoundsOvertaking == Spec => []OvertakingBounded
<1>1. AdmissionInv => OvertakingBounded
  BY DEF AdmissionInv
<1> QED
  BY <1>1, InitInv, NextInv, PTL DEF Spec
=============================================================================
