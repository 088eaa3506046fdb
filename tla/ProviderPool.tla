---------------------------- MODULE ProviderPool ----------------------------
(***************************************************************************)
(* Lifecycle of the precise providers: PoolInner::activate, reserve_capacity, *)
(* evict_provider, release_reservation, the reaper and ProviderPool::shutdown *)
(* of crates/chakra-provider-pool/src/lib.rs.                               *)
(*                                                                         *)
(* A step is what happens under one lock; calls of a provider's factory and  *)
(* shutdown happen under none.  Admission is reduced to its permits (module  *)
(* ProviderAdmission looks at its queue), times to whether a backoff has     *)
(* expired: which idle slot is the oldest is left open.                     *)
(***************************************************************************)
EXTENDS Integers, FiniteSets, Functions

CONSTANTS
    Queries,                       \* threads that call enrich_with_context
    Slots,                         \* ProviderSlots of all workspaces
    WorkspaceOf,                   \* the workspace of a slot
    Reservation,                   \* reserved_memory_bytes of its registration
    MaxActive, MaxMemory,          \* limits of the pool
    MaxWorkspaceActive, MaxWorkspaceMemory,
    MaxConcurrentQueries,
    MaxRequests                    \* bound: calls of enrich_with_context and reaper passes

Workspaces == Range(WorkspaceOf)

Usages == [active : Nat, memory : Nat]

(* validate: positive limits, and every reservation fits both.  Threads and   *)
(* slots are as many as one likes, but finitely many, and some slot exists.   *)
ASSUME ProviderPoolAssumption ==
    /\ IsFiniteSet(Queries) /\ "reaper" \notin Queries /\ "owner" \notin Queries
    /\ MaxActive \in Nat \ {0} /\ MaxWorkspaceActive \in Nat \ {0}
    /\ MaxMemory \in Nat \ {0} /\ MaxWorkspaceMemory \in Nat \ {0}
    /\ MaxConcurrentQueries \in Nat \ {0} /\ MaxRequests \in Nat
    /\ IsFiniteSet(Slots) /\ Slots # {} /\ DOMAIN WorkspaceOf = Slots
    /\ Reservation \in [Slots -> (1 .. MaxMemory) \intersect (1 .. MaxWorkspaceMemory)]

Evictors == Queries \union {"reaper", "owner"}

VARIABLES
    stopped,
    running,     \* running_queries
    total,       \* active_providers and reserved_memory_bytes
    usage,       \* workspace_usage
    slot,        \* SlotRuntime of each slot
    bound,       \* workspaces that providers_for has made slots for
    processes,   \* live children of each slot
    pc, on,      \* where each query is, and the slot it asks for
    eviction,    \* the evict_provider call each actor is in
    owner,       \* the thread in ProviderPool::shutdown
    todo,        \* the slots it has still to evict
    pass,        \* the slots the reaper has still to look at in this pass
    requests     \* calls and reaper passes so far (for the bound)

ledgerVars == <<total, usage>>
vars == <<stopped, running, total, usage, slot, bound, processes, pc, on, eviction, owner, todo, pass,
          requests>>

NoEviction == [victim |-> "none", stage |-> "none"]

(* What `on` is for an idle query, which asks for no slot.                     *)
AnySlot == CHOOSE s \in Slots : TRUE

Empty == [provider |-> FALSE, activating |-> FALSE, inFlight |-> 0, error |-> FALSE,
          backoff |-> FALSE]

Init ==
    /\ stopped = FALSE /\ running = 0
    /\ total = [active |-> 0, memory |-> 0]
    /\ usage = [w \in Workspaces |-> [active |-> 0, memory |-> 0]]
    /\ slot = [s \in Slots |-> Empty]
    /\ bound = {}
    /\ processes = [s \in Slots |-> 0]
    /\ pc = [q \in Queries |-> "idle"]
    /\ on = [q \in Queries |-> AnySlot]
    /\ eviction = [a \in Evictors |-> NoEviction]
    /\ owner = "serving" /\ todo = {} /\ pass = {} /\ requests = 0

Go(q, place) == pc' = [pc EXCEPT ![q] = place]

(* The call is over and its locals are gone.                                  *)
Forget(q) == on' = [on EXCEPT ![q] = AnySlot]

SlotOf(q) == slot[on[q]]

-----------------------------------------------------------------------------
(* The ledger.                                                                *)

FitsPool(s) == total.active < MaxActive /\ total.memory + Reservation[s] <= MaxMemory

FitsWorkspace(s) ==
    LET used == usage[WorkspaceOf[s]]
    IN  used.active < MaxWorkspaceActive /\ used.memory + Reservation[s] <= MaxWorkspaceMemory

Plus(used, s) == [active |-> used.active + 1, memory |-> used.memory + Reservation[s]]

(* saturating_sub.                                                            *)
Minus(used, s) ==
    [active |-> IF used.active > 0 THEN used.active - 1 ELSE 0,
     memory |-> IF used.memory > Reservation[s] THEN used.memory - Reservation[s] ELSE 0]

Charge(s) ==
    /\ total' = Plus(total, s)
    /\ usage' = [usage EXCEPT ![WorkspaceOf[s]] = Plus(@, s)]

(* Faulty: the memory is not given back.                                      *)
ReleaseCountOnly(s) ==
    /\ total' = [total EXCEPT !.active = @ - 1]
    /\ usage' = [usage EXCEPT ![WorkspaceOf[s]].active = @ - 1]

ReleaseReservation(s) ==
    /\ total' = Minus(total, s)
    /\ usage' = [usage EXCEPT ![WorkspaceOf[s]] = Minus(@, s)]

-----------------------------------------------------------------------------
(* providers_for and the start and end of enrich_with_context.                *)

BindWorkspace(w) ==
    /\ ~stopped /\ w \notin bound
    /\ bound' = bound \union {w}
    /\ UNCHANGED <<stopped, running, ledgerVars, slot, processes, pc, on, eviction, owner, todo, pass,
                   requests>>

Request(q, s) ==
    /\ pc[q] = "idle" /\ ~stopped /\ WorkspaceOf[s] \in bound /\ requests < MaxRequests
    /\ requests' = requests + 1
    /\ on' = [on EXCEPT ![q] = s]
    /\ Go(q, "admit")
    /\ UNCHANGED <<stopped, running, ledgerVars, slot, bound, processes, eviction, owner, todo, pass>>

(* Admitted, even after a stop that came since `stopped` was read; or not.    *)
Admit(q) ==
    /\ pc[q] = "admit"
    /\ \/ running < MaxConcurrentQueries /\ running' = running + 1 /\ Go(q, "activate") /\ UNCHANGED on
       \/ UNCHANGED running /\ Go(q, "idle") /\ Forget(q)
    /\ UNCHANGED <<stopped, ledgerVars, slot, bound, processes, eviction, owner, todo, pass,
                   requests>>

(* The lease was dropped before it: QueryPermit is dropped last.              *)
Return(q) ==
    /\ pc[q] = "return"
    /\ running' = running - 1
    /\ Go(q, "idle") /\ Forget(q)
    /\ UNCHANGED <<stopped, ledgerVars, slot, bound, processes, eviction, owner, todo, pass,
                   requests>>

-----------------------------------------------------------------------------
(* activate: the loop until the slot is leased or claimed.                    *)

(* The caller's operation is aborted, or the pool stopped; otherwise the slot *)
(* is locked next.                                                            *)
ActivateCheck(q) ==
    /\ pc[q] = "activate"
    /\ \/ Go(q, "return")
       \/ ~stopped /\ Go(q, "lookup")
    /\ UNCHANGED <<stopped, running, ledgerVars, slot, bound, processes, on, eviction, owner,
                   todo, pass, requests>>

Lookup(q) ==
    /\ pc[q] = "lookup"
    /\ \/ /\ SlotOf(q).provider /\ SlotOf(q).error
          /\ Go(q, "return") /\ UNCHANGED slot
       \/ /\ SlotOf(q).provider /\ ~SlotOf(q).error
          /\ slot' = [slot EXCEPT ![on[q]].inFlight = @ + 1]
          /\ Go(q, "leased")
       \/ /\ ~SlotOf(q).provider /\ SlotOf(q).backoff
          /\ Go(q, "return") /\ UNCHANGED slot
       \/ /\ ~SlotOf(q).provider /\ ~SlotOf(q).backoff /\ SlotOf(q).activating
          /\ Go(q, "activate") /\ UNCHANGED slot
       \/ /\ ~SlotOf(q).provider /\ ~SlotOf(q).backoff /\ ~SlotOf(q).activating
          /\ slot' = [slot EXCEPT ![on[q]].activating = TRUE]
          /\ Go(q, "reserve")
    /\ UNCHANGED <<stopped, running, ledgerVars, bound, processes, on, eviction, owner, todo, pass,
                   requests>>

BackoffExpires(s) ==
    /\ slot[s].backoff
    /\ slot' = [slot EXCEPT ![s].backoff = FALSE]
    /\ UNCHANGED <<stopped, running, ledgerVars, bound, processes, pc, on, eviction, owner, todo, pass,
                   requests>>

-----------------------------------------------------------------------------
(* reserve_capacity: charge the ledger, or evict and try again.               *)

(* Faulty: only the pool's own limits are looked at.                          *)
FitsPoolOnly(s) == FitsPool(s)

(* Faulty: children are counted, their memory is not.                         *)
FitsByCount(s) ==
    /\ total.active < MaxActive
    /\ usage[WorkspaceOf[s]].active < MaxWorkspaceActive

Fits(s) == FitsPool(s) /\ FitsWorkspace(s)

(* `stopped` is read before the lock is taken, so a stop may come in between. *)
ReserveCheck(q) ==
    /\ pc[q] = "reserve" /\ ~stopped
    /\ Go(q, "charge")
    /\ UNCHANGED <<stopped, running, ledgerVars, slot, bound, processes, on, eviction, owner, todo,
                   pass, requests>>

Reserve(q) ==
    /\ pc[q] = "charge" /\ Fits(on[q])
    /\ Charge(on[q])
    /\ Go(q, "start")
    /\ UNCHANGED <<stopped, running, slot, bound, processes, on, eviction, owner, todo, pass, requests>>

Evictable(s) == slot[s].provider /\ slot[s].inFlight = 0 /\ ~slot[s].activating

(* oldest_evictable_slot's candidates: those of the same workspace when it is *)
(* the workspace's limit that stands in the way.                              *)
Victims(s) ==
    {v \in Slots \ {s} : /\ Evictable(v)
                         /\ ~FitsWorkspace(s) => WorkspaceOf[v] = WorkspaceOf[s]}

ReserveByEviction(q) ==
    /\ pc[q] = "charge" /\ ~Fits(on[q])
    /\ \E v \in Victims(on[q]) : eviction' = [eviction EXCEPT ![q] = [victim |-> v, stage |-> "take"]]
    /\ Go(q, "evict")
    /\ UNCHANGED <<stopped, running, ledgerVars, slot, bound, processes, on, owner, todo, pass, requests>>

(* Faulty: the slot stays claimed.                                            *)
StillClaimed(s) == [slot EXCEPT ![s].error = TRUE]

Unclaimed(s) == [slot EXCEPT ![s].activating = FALSE, ![s].error = TRUE]

(* Stopped, nothing to evict, or the victim would not shut down.              *)
ReserveFails(q) ==
    /\ \/ pc[q] = "refused"
       \/ pc[q] = "reserve" /\ stopped
       \/ pc[q] = "charge" /\ ~Fits(on[q]) /\ Victims(on[q]) = {}
    /\ slot' = Unclaimed(on[q])
    /\ Go(q, "return")
    /\ UNCHANGED <<stopped, running, ledgerVars, bound, processes, on, eviction, owner, todo, pass,
                   requests>>

-----------------------------------------------------------------------------
(* activate: the factory, and what is done with its result.                   *)

(* The child runs when the factory returns.  A pool that stopped meanwhile    *)
(* does not want it any more.                                                 *)
StartSucceeds(q) ==
    /\ pc[q] = "start"
    /\ processes' = [processes EXCEPT ![on[q]] = @ + 1]
    /\ slot' = [slot EXCEPT ![on[q]] =
                    IF stopped THEN [@ EXCEPT !.activating = FALSE]
                    ELSE [provider |-> TRUE, activating |-> FALSE, inFlight |-> 1,
                          error |-> FALSE, backoff |-> FALSE]]
    /\ Go(q, IF stopped THEN "discard" ELSE "leased")
    /\ UNCHANGED <<stopped, running, ledgerVars, bound, on, eviction, owner, todo, pass, requests>>

(* An incompatible adapter: `activating` keeps everyone else away.            *)
StartIncompatible(q) ==
    /\ pc[q] = "start"
    /\ processes' = [processes EXCEPT ![on[q]] = @ + 1]
    /\ Go(q, "reject")
    /\ UNCHANGED <<stopped, running, ledgerVars, slot, bound, on, eviction, owner, todo, pass, requests>>

(* The factory fails; only an abort of the caller does not count against the   *)
(* provider.                                                                  *)
StartFails(q) ==
    /\ pc[q] = "start"
    /\ \E aborted \in BOOLEAN :
        slot' = [slot EXCEPT ![on[q]].activating = FALSE, ![on[q]].error = ~aborted,
                             ![on[q]].backoff = IF aborted THEN @ ELSE TRUE]
    /\ ReleaseReservation(on[q])
    /\ Go(q, "return")
    /\ UNCHANGED <<stopped, running, bound, processes, on, eviction, owner, todo, pass, requests>>

(* The unwanted provider is shut down; if that fails it is retained with its   *)
(* reservation, as an error.                                                  *)
Discard(q) ==
    /\ pc[q] \in {"discard", "reject"}
    /\ \/ /\ processes' = [processes EXCEPT ![on[q]] = @ - 1]
          /\ ReleaseReservation(on[q])
          /\ slot' = IF pc[q] = "discard" THEN slot
                     ELSE [slot EXCEPT ![on[q]].activating = FALSE, ![on[q]].error = TRUE,
                                       ![on[q]].backoff = TRUE]
       \/ /\ slot' = [slot EXCEPT ![on[q]].provider = TRUE, ![on[q]].activating = FALSE,
                                  ![on[q]].error = TRUE,
                                  ![on[q]].backoff = IF pc[q] = "reject" THEN TRUE ELSE @]
          /\ UNCHANGED <<processes, ledgerVars>>
    /\ Go(q, "return")
    /\ UNCHANGED <<stopped, running, bound, on, eviction, owner, todo, pass, requests>>

(* The query has run: ProviderLease is dropped.                               *)
DropLease(q) ==
    /\ pc[q] = "leased"
    /\ slot' = [slot EXCEPT ![on[q]].inFlight = IF @ > 0 THEN @ - 1 ELSE 0]
    /\ Go(q, "return")
    /\ UNCHANGED <<stopped, running, ledgerVars, bound, processes, on, eviction, owner, todo, pass,
                   requests>>

-----------------------------------------------------------------------------
(* evict_provider, called by a query, the reaper or shutdown.                 *)

(* How the caller goes on: a query tries again, or gives up after an error.   *)
Evicted(a, failed) ==
    /\ eviction' = [eviction EXCEPT ![a] = NoEviction]
    /\ pc' = IF a \in Queries THEN [pc EXCEPT ![a] = IF failed THEN "refused" ELSE "reserve"] ELSE pc
    /\ owner' = IF a = "owner" /\ failed THEN "sweeping_failed" ELSE owner

(* Faulty: a query that started since the victim was chosen does not count.   *)
TakeAnyProvider(a, s) == slot[s].provider

MayTake(a, s) == slot[s].provider /\ (a = "owner" \/ (slot[s].inFlight = 0 /\ ~slot[s].activating))

EvictTake(a) ==
    LET s == eviction[a].victim
    IN  /\ eviction[a].stage = "take"
        /\ \/ /\ MayTake(a, s)
              /\ slot' = [slot EXCEPT ![s].provider = FALSE, ![s].activating = TRUE]
              /\ eviction' = [eviction EXCEPT ![a].stage = "shutdown"]
              /\ UNCHANGED <<pc, owner>>
           \/ ~MayTake(a, s) /\ UNCHANGED slot /\ Evicted(a, FALSE)
        /\ UNCHANGED <<stopped, running, ledgerVars, bound, processes, on, todo, pass, requests>>

(* provider.shutdown() returns.                                               *)
EvictShutdown(a) ==
    LET s == eviction[a].victim
    IN  /\ eviction[a].stage = "shutdown"
        /\ \/ /\ processes' = [processes EXCEPT ![s] = @ - 1]
              /\ slot' = [slot EXCEPT ![s].activating = FALSE, ![s].error = FALSE]
              /\ eviction' = [eviction EXCEPT ![a].stage = "release"]
              /\ UNCHANGED <<pc, owner>>
           \/ /\ slot' = [slot EXCEPT ![s].provider = TRUE, ![s].activating = FALSE,
                                      ![s].error = TRUE]
              /\ Evicted(a, TRUE)
              /\ UNCHANGED processes
        /\ UNCHANGED <<stopped, running, ledgerVars, bound, on, todo, pass, requests>>

(* The slot is open again before its reservation is returned.                 *)
EvictRelease(a) ==
    /\ eviction[a].stage = "release"
    /\ ReleaseReservation(eviction[a].victim)
    /\ Evicted(a, FALSE)
    /\ UNCHANGED <<stopped, running, slot, bound, processes, on, todo, pass, requests>>

Evict(a) == EvictTake(a) \/ EvictShutdown(a) \/ EvictRelease(a)

-----------------------------------------------------------------------------
(* reaper_loop and ProviderPool::shutdown.                                    *)

(* A pass looks at the slots one by one; a stop does not end it.  One that    *)
(* finds nothing to do changes nothing and is left out.                       *)
StartPass ==
    /\ ~stopped /\ pass = {} /\ eviction["reaper"] = NoEviction /\ requests < MaxRequests
    /\ \E s \in Slots : Evictable(s)
    /\ requests' = requests + 1
    /\ pass' = {s \in Slots : WorkspaceOf[s] \in bound}
    /\ UNCHANGED <<stopped, running, ledgerVars, slot, bound, processes, pc, on, eviction, owner, todo>>

Reap(s) ==
    /\ s \in pass /\ eviction["reaper"] = NoEviction
    /\ pass' = pass \ {s}
    /\ \/ UNCHANGED eviction
       \/ /\ Evictable(s)
          /\ eviction' = [eviction EXCEPT !["reaper"] = [victim |-> s, stage |-> "take"]]
    /\ UNCHANGED <<stopped, running, ledgerVars, slot, bound, processes, pc, on, owner, todo,
                   requests>>

Reaper == (\E s \in Slots : Reap(s)) \/ Evict("reaper")

Shutdown ==
    /\ owner = "serving"
    /\ stopped' = TRUE
    /\ owner' = "draining"
    /\ todo' = {s \in Slots : WorkspaceOf[s] \in bound}
    /\ UNCHANGED <<running, ledgerVars, slot, bound, processes, pc, on, eviction, pass, requests>>

(* Faulty: shutdown does not wait for queries.                                *)
DrainSkipped == TRUE

Drained == running = 0

(* All admitted queries have returned, or the timeout passed; the reaper is   *)
(* joined.                                                                    *)
Drain ==
    /\ owner = "draining" /\ pass = {} /\ eviction["reaper"] = NoEviction
    /\ \/ Drained /\ owner' = "sweeping"
       \/ ~Drained /\ owner' = "sweeping_failed"
    /\ UNCHANGED <<stopped, running, ledgerVars, slot, bound, processes, pc, on, eviction, todo, pass,
                   requests>>

Sweep ==
    /\ owner \in {"sweeping", "sweeping_failed"} /\ eviction["owner"] = NoEviction
    /\ \/ \E s \in todo :
            /\ todo' = todo \ {s}
            /\ eviction' = [eviction EXCEPT !["owner"] = [victim |-> s, stage |-> "take"]]
            /\ UNCHANGED owner
       \/ /\ todo = {}
          /\ owner' = IF owner = "sweeping" THEN "ok" ELSE "failed"
          /\ UNCHANGED <<todo, eviction>>
    /\ UNCHANGED <<stopped, running, ledgerVars, slot, bound, processes, pc, on, pass, requests>>

-----------------------------------------------------------------------------
Query(q) ==
    \/ Admit(q) \/ ActivateCheck(q) \/ Lookup(q) \/ ReserveCheck(q) \/ Reserve(q) \/ ReserveByEviction(q)
    \/ ReserveFails(q) \/ StartSucceeds(q) \/ StartIncompatible(q) \/ StartFails(q)
    \/ Discard(q) \/ DropLease(q) \/ Return(q) \/ Evict(q)

Owner == Drain \/ Sweep \/ Evict("owner")

Next ==
    \/ \E w \in Workspaces : BindWorkspace(w)
    \/ \E q \in Queries : Query(q) \/ \E s \in Slots : Request(q, s)
    \/ \E s \in Slots : BackoffExpires(s)
    \/ StartPass \/ Reaper \/ Shutdown \/ Owner

(* Threads keep running, and the provider calls they make return.             *)
Fairness ==
    /\ \A q \in Queries : WF_vars(Query(q))
    /\ WF_vars(Reaper) /\ WF_vars(Owner)

Spec == Init /\ [][Next]_vars /\ Fairness

-----------------------------------------------------------------------------
(* Properties.                                                                *)

Sum(f) == FoldFunction(+, 0, f)

Idle == (\A q \in Queries : pc[q] = "idle") /\ (\A a \in Evictors : eviction[a] = NoEviction)

(* Types, and that no counter of permits or children goes below zero.         *)
TypeOK ==
    /\ stopped \in BOOLEAN /\ running \in 0 .. MaxConcurrentQueries
    /\ total \in Usages /\ usage \in [Workspaces -> Usages]
    /\ slot \in [Slots -> [provider : BOOLEAN, activating : BOOLEAN, inFlight : Nat,
                           error : BOOLEAN, backoff : BOOLEAN]]
    /\ bound \subseteq Workspaces /\ todo \subseteq Slots /\ pass \subseteq Slots
    /\ processes \in [Slots -> Nat]
    /\ pc \in [Queries -> {"idle", "admit", "activate", "lookup", "reserve", "charge", "evict", "refused",
                           "start", "discard", "reject", "leased", "return"}]
    /\ on \in [Queries -> Slots]
    /\ eviction \in [Evictors -> [victim : Slots \union {"none"},
                                  stage : {"none", "take", "shutdown", "release"}]]
    /\ owner \in {"serving", "draining", "sweeping", "sweeping_failed", "ok", "failed"}
    /\ requests \in 0 .. MaxRequests

(* However activations, evictions and failed shutdowns interleave, a slot     *)
(* never has two children, and the slots that have one are within the limits  *)
(* on active providers, global and per workspace (reserve_capacity).          *)
ChildrenWithinLimits ==
    /\ \A s \in Slots : processes[s] <= 1
    /\ Cardinality({s \in Slots : processes[s] # 0}) <= MaxActive
    /\ \A w \in Workspaces :
        Cardinality({s \in Slots : processes[s] # 0 /\ WorkspaceOf[s] = w}) <= MaxWorkspaceActive

(* So is the memory that is set aside for the children alive: a saturating    *)
(* release_reservation that came twice or too early would let them exceed it. *)
MemoryWithinLimits ==
    LET memory(S) == Sum([s \in S |-> processes[s] * Reservation[s]])
    IN  /\ memory(Slots) <= MaxMemory
        /\ \A w \in Workspaces :
            memory({s \in Slots : WorkspaceOf[s] = w}) <= MaxWorkspaceMemory

(* When nothing is under way, exactly the children that are alive are         *)
(* reserved for, each by the slot that will shut it down: no error path of    *)
(* activate or evict_provider leaks a reservation or loses a provider.        *)
NothingLeaks ==
    Idle => /\ \A s \in Slots : processes[s] = IF slot[s].provider THEN 1 ELSE 0
            /\ total.active = Sum(processes)
            /\ total.memory = Sum([s \in Slots |-> processes[s] * Reservation[s]])
            /\ \A s \in Slots : slot[s].inFlight = 0 /\ ~slot[s].activating

(* "Providers ... may be reclaimed only while they have no in-flight query":  *)
(* until shutdown gives up waiting, a leased provider stays in its slot and   *)
(* is counted as in flight, though its slot may have been chosen as a victim  *)
(* before the lease.                                                          *)
LeasedIsNotReclaimed ==
    owner \in {"serving", "draining", "sweeping"} =>
        \A s \in Slots :
            LET leases == {q \in Queries : pc[q] = "leased" /\ on[q] = s}
            IN  /\ slot[s].inFlight = Cardinality(leases)
                /\ leases # {} => slot[s].provider /\ processes[s] = 1

(* When ProviderPool::shutdown succeeds no child is left, and no query that   *)
(* is still under way can start one ("stops admission, waits boundedly for    *)
(* admitted work, then joins the reaper and every provider-owned worker").    *)
ShutdownLeavesNothing == owner = "ok" => \A s \in Slots : processes[s] = 0

(* Every query returns, that is, each thread is out of enrich_with_context    *)
(* again and again: nobody waits for a slot, for capacity or for an eviction  *)
(* for ever.                                                                  *)
QueriesReturn == \A q \in Queries : []<>(pc[q] = "idle")
=============================================================================
