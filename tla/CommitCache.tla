------------------------------ MODULE CommitCache ------------------------------
(* CommitSnapshotCache of chakra-workspace/src/snapshot_cache.rs: the bounded    *)
(* cache of commit indexes that every worktree of one registry shares.           *)
(* Concurrent requests for one key wait for a single builder.                    *)
(*                                                                               *)
(* A key is the fingerprint of repository, commit, formats and budgets; within   *)
(* one registry it is told apart by the commit. `ready` lists the cached keys    *)
(* from the least to the most recently used, which is the order of `last_used`.  *)
(* The waiting loop polls its cancellation and rechecks the state every          *)
(* WAIT_POLL, so waiting is no step of its own: a waiter takes the next step      *)
(* that the state allows.                                                        *)
EXTENDS SequencesExt, FiniteSets, Naturals

CONSTANTS
    Callers,           \* threads that ask for a commit index
    Commits,
    MaxMemoryEntries

ASSUME CacheAssumption == MaxMemoryEntries \in Nat \ {0}

VARIABLES
    ready,             \* CacheState.ready
    building,          \* CacheState.building
    call               \* what each caller is doing in load_or_build

cacheVars == <<ready, building, call>>

NoCall == [step |-> "none"]

Call(step, commit) == [step |-> step, commit |-> commit]

CacheInit ==
    /\ ready = <<>>
    /\ building = {}
    /\ call = [c \in Callers |-> NoCall]

-------------------------------------------------------------------------------
(* Moves a key to the most recently used end, as an assignment of the next clock *)
(* value to `last_used` does.                                                    *)
Touch(keys, k) ==
    LET place  == CHOOSE i \in DOMAIN keys : keys[i] = k
        others == IF Contains(keys, k) THEN RemoveAt(keys, place) ELSE keys
    IN Append(others, k)

(* evict_memory: the least recently used keys go while there are too many.       *)
EvictMemory(keys) ==
    IF Len(keys) > MaxMemoryEntries
    THEN SubSeq(keys, Len(keys) - MaxMemoryEntries + 1, Len(keys))
    ELSE keys

(* load_or_build is called; a caller that is cancelled already gets its error     *)
(* before it looks at the cache.                                                 *)
LoadOrBuild(c, k) ==
    \E step \in {"lookup", "failed"} : call' = [call EXCEPT ![c] = Call(step, k)]

Cached(c) == call[c].commit \in ToSet(ready)

Hit(c) ==
    /\ call[c].step = "lookup"
    /\ Cached(c)
    /\ ready' = Touch(ready, call[c].commit)
    /\ call' = [call EXCEPT ![c].step = "loaded"]
    /\ UNCHANGED building

(* Faulty: a key is taken for free although somebody builds it.                  *)
NobodyAsked(k) == TRUE

NobodyBuilds(k) == k \notin building

(* building.insert returned true: this caller is the builder.                    *)
Claim(c) ==
    /\ call[c].step = "lookup"
    /\ ~Cached(c)
    /\ NobodyBuilds(call[c].commit)
    /\ building' = building \union {call[c].commit}
    /\ call' = [call EXCEPT ![c].step = "building"]
    /\ UNCHANGED ready

(* A caller that has to wait checks its cancellation in every round.              *)
CancelWait(c) ==
    /\ call[c].step = "lookup"
    /\ ~Cached(c)
    /\ ~NobodyBuilds(call[c].commit)
    /\ call' = [call EXCEPT ![c].step = "failed"]
    /\ UNCHANGED <<ready, building>>

(* load_or_build_owner returned an index, restored from disk or built.            *)
BuildSucceeds(c) ==
    /\ call[c].step = "building"
    /\ building' = building \ {call[c].commit}
    /\ ready' = EvictMemory(Touch(ready, call[c].commit))
    /\ call' = [call EXCEPT ![c].step = "loaded"]

(* Faulty: the early return of a failed builder forgets its claim.               *)
BuildingAfterError(k) == building

BuildingAfterFailure(k) == building \ {k}

(* load_or_build_owner failed or was cancelled; nothing is cached.               *)
BuildFails(c) ==
    /\ call[c].step = "building"
    /\ building' = BuildingAfterFailure(call[c].commit)
    /\ call' = [call EXCEPT ![c].step = "failed"]
    /\ UNCHANGED ready

(* What a caller does by itself; nothing obliges anyone to cancel.                *)
CacheStep(c) ==
    \/ Hit(c)
    \/ Claim(c)
    \/ BuildSucceeds(c)
    \/ BuildFails(c)

-------------------------------------------------------------------------------
CacheTypeOK ==
    /\ ready \in Seq(Commits)
    /\ Len(ready) <= MaxMemoryEntries
    /\ building \in SUBSET Commits
    /\ call \in [Callers -> {NoCall} \union
                   [step : {"lookup", "building", "loaded", "failed"}, commit : Commits]]

(* "Concurrent requests for the same key share a single builder": at any time a   *)
(* key has at most one builder, the `building` set names exactly the keys that    *)
(* have one, and a key is never built while it is cached.                         *)
NoDuplicateBuild ==
    /\ building = {call[c].commit : c \in {d \in Callers : call[d].step = "building"}}
    /\ \A c, d \in Callers :
          call[c].step = "building" /\ call[d].step = "building"
             /\ call[c].commit = call[d].commit => c = d
    /\ building \intersect ToSet(ready) = {}
===============================================================================
