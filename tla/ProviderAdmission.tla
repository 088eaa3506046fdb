-------------------------- MODULE ProviderAdmission --------------------------
(***************************************************************************)
(* Admission of queries to the precise providers: PoolInner::admit, the     *)
(* waiters it queues, best_waiter, age_waiters and QueryPermit of           *)
(* crates/chakra-provider-pool/src/lib.rs.                                  *)
(*                                                                         *)
(* The state lock is held from a waiter's check of `stopped` to its         *)
(* admission, so a round of the wait loop is one step; between the first    *)
(* check of `stopped` and the first lock anything may happen.               *)
(***************************************************************************)
EXTENDS Integers, FiniteSets

CONSTANTS
    Queries,               \* threads that call enrich_with_context
    MaxConcurrentQueries,
    MaxQueuedQueries,
    MaxRequests            \* bound: calls of admit

ASSUME ProviderAdmissionAssumption ==
    /\ IsFiniteSet(Queries)
    /\ MaxConcurrentQueries \in Nat \ {0}
    /\ MaxQueuedQueries \in Nat \ {0}
    /\ MaxRequests \in Nat

(* ProviderRequestPriority::index; Interactive is the highest.                *)
Priorities == 0 .. 2
Interactive == 2

VARIABLES
    running,        \* running_queries
    nextSequence,
    stopped,
    state,          \* where each thread is
    \* Its Waiter, while queued.
    priority, sequence, boost,
    overtaken,      \* history: later arrivals admitted since it queued
    requests        \* calls of admit so far (for the bound)

waiterVars == <<priority, sequence, boost, overtaken>>
vars == <<running, nextSequence, stopped, state, priority, sequence, boost, overtaken, requests>>

Init ==
    /\ running = 0 /\ nextSequence = 0 /\ stopped = FALSE /\ requests = 0
    /\ state = [q \in Queries |-> "idle"]
    /\ priority = [q \in Queries |-> 0]
    /\ sequence = [q \in Queries |-> 0]
    /\ boost = [q \in Queries |-> 0]
    /\ overtaken = [q \in Queries |-> 0]

Waiting == {q \in Queries : state[q] = "queued"}

(* Faulty: off by one.                                                        *)
PermitFreeAtLimit == running <= MaxConcurrentQueries

PermitFree == running < MaxConcurrentQueries

EffectiveRank(q) ==
    IF priority[q] + boost[q] > Interactive THEN Interactive ELSE priority[q] + boost[q]

-----------------------------------------------------------------------------
(* `stopped` and the caller's operation are checked before anything else.     *)
Arrive(q, p) ==
    /\ state[q] = "idle" /\ ~stopped /\ requests < MaxRequests
    /\ requests' = requests + 1
    /\ state' = [state EXCEPT ![q] = "checked"]
    /\ priority' = [priority EXCEPT ![q] = p]
    /\ UNCHANGED <<running, nextSequence, stopped, sequence, boost, overtaken>>

AdmitAtOnce(q) ==
    /\ state[q] = "checked"
    /\ PermitFree /\ Waiting = {}
    /\ running' = running + 1
    /\ state' = [state EXCEPT ![q] = "running"]
    /\ UNCHANGED <<nextSequence, stopped, waiterVars, requests>>

Saturated == Cardinality(Waiting) >= MaxQueuedQueries

Refuse(q) ==
    /\ state[q] = "checked"
    /\ ~(PermitFree /\ Waiting = {}) /\ Saturated
    /\ state' = [state EXCEPT ![q] = "idle"]
    /\ UNCHANGED <<running, nextSequence, stopped, waiterVars, requests>>

Enqueue(q) ==
    /\ state[q] = "checked"
    /\ ~(PermitFree /\ Waiting = {}) /\ ~Saturated
    /\ state' = [state EXCEPT ![q] = "queued"]
    /\ sequence' = [sequence EXCEPT ![q] = nextSequence]
    /\ nextSequence' = nextSequence + 1
    /\ boost' = [boost EXCEPT ![q] = 0]
    /\ overtaken' = [overtaken EXCEPT ![q] = 0]
    /\ UNCHANGED <<running, stopped, priority, requests>>

(* Faulty: among equals the newest waiter wins.                               *)
NewestBefore(v, q) ==
    \/ EffectiveRank(v) > EffectiveRank(q)
    \/ EffectiveRank(v) = EffectiveRank(q) /\ sequence[v] >= sequence[q]

(* best_waiter's order: rank, then arrival.                                   *)
Before(v, q) ==
    \/ EffectiveRank(v) > EffectiveRank(q)
    \/ EffectiveRank(v) = EffectiveRank(q) /\ sequence[v] <= sequence[q]

BestWaiter(q) == q \in Waiting /\ \A v \in Waiting : Before(q, v)

Admit(q) ==
    /\ ~stopped /\ BestWaiter(q) /\ PermitFree
    /\ state' = [state EXCEPT ![q] = "running"]
    /\ boost' = [v \in Queries |-> IF v \in Waiting \ {q} THEN boost[v] + 1 ELSE boost[v]]
    /\ overtaken' = [v \in Queries |-> IF v \in Waiting /\ sequence[v] < sequence[q]
                                       THEN overtaken[v] + 1 ELSE overtaken[v]]
    /\ running' = running + 1
    /\ UNCHANGED <<nextSequence, stopped, priority, sequence, requests>>

(* Stopped, Cancelled or QueueTimeout.                                        *)
Withdraw(q) ==
    /\ state[q] = "queued"
    /\ state' = [state EXCEPT ![q] = "idle"]
    /\ UNCHANGED <<running, nextSequence, stopped, waiterVars, requests>>

(* Faulty: a permit that is never given back.                                 *)
RunningKept == running

(* saturating_sub.                                                            *)
RunningAfterDrop == IF running > 0 THEN running - 1 ELSE 0

(* The query is over, however it went: QueryPermit is dropped.                *)
Release(q) ==
    /\ state[q] = "running"
    /\ running' = RunningAfterDrop
    /\ state' = [state EXCEPT ![q] = "idle"]
    /\ UNCHANGED <<nextSequence, stopped, waiterVars, requests>>

Stop ==
    /\ ~stopped
    /\ stopped' = TRUE
    /\ UNCHANGED <<running, nextSequence, state, waiterVars, requests>>

Enter(q) == AdmitAtOnce(q) \/ Refuse(q) \/ Enqueue(q)

(* What the wait loop does by itself: it polls, so a stop is noticed.         *)
Poll(q) == Admit(q) \/ (stopped /\ Withdraw(q))

Next ==
    \/ Stop
    \/ \E q \in Queries :
        \/ \E p \in Priorities : Arrive(q, p)
        \/ Enter(q) \/ Admit(q) \/ Withdraw(q) \/ Release(q)

(* Admitted queries are bounded by their own deadlines, so they end.          *)
Fairness == \A q \in Queries : WF_vars(Enter(q)) /\ WF_vars(Poll(q)) /\ WF_vars(Release(q))

Spec == Init /\ [][Next]_vars /\ Fairness

-----------------------------------------------------------------------------
(* Properties.                                                                *)

Types ==
    /\ running \in 0 .. MaxConcurrentQueries
    /\ nextSequence \in Nat /\ requests \in 0 .. MaxRequests /\ stopped \in BOOLEAN
    /\ state \in [Queries -> {"idle", "checked", "queued", "running"}]
    /\ priority \in [Queries -> Priorities]
    /\ sequence \in [Queries -> Nat]
    /\ boost \in [Queries -> Nat] /\ overtaken \in [Queries -> Nat]

(* Types, and the two configured limits: never more permits than              *)
(* max_concurrent_queries nor more waiters than max_queued_queries.           *)
TypeOK ==
    /\ Types
    /\ Cardinality(Waiting) <= MaxQueuedQueries

(* Every permit is held by exactly one query that runs: the count shutdown    *)
(* waits for is the truth, whatever mix of fast admissions, queueing,         *)
(* withdrawals and releases led there.                                        *)
PermitsMatchQueries == running = Cardinality({q \in Queries : state[q] = "running"})

(* "A Background waiter reaches top rank after two admissions. Once tied,      *)
(* bounded FIFO sequence ordering prevents newer interactive arrivals from    *)
(* overtaking it": later arrivals are admitted before a waiter at most as     *)
(* often as its priority is below Interactive.                                *)
OvertakingBounded ==
    \A q \in Queries : state[q] = "queued" => overtaken[q] <= Interactive - priority[q]

(* Every queued query is admitted, or withdraws.                              *)
WaitersLeaveQueue == \A q \in Queries : state[q] = "queued" ~> state[q] # "queued"

(* Parts of the inductive invariant behind OvertakingBounded: arrival numbers *)
(* are distinct, and each admission that overtook a waiter also promoted it.  *)
SequencesDistinct ==
    /\ \A q \in Waiting : sequence[q] < nextSequence
    /\ \A q, v \in Waiting : q # v => sequence[q] # sequence[v]

OvertakenWasBoosted == \A q \in Waiting : overtaken[q] <= boost[q]
=============================================================================
