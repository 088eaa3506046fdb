--------------------------- MODULE WorkspaceRegistry ---------------------------
(* WorkspaceRegistry and WorkspaceRuntime of chakra-workspace/src/lib.rs: the     *)
(* process-local owner of the worktrees of one repository, composed with the      *)
(* commit cache that its registrations share.                                     *)
(*                                                                               *)
(* Threads call register, unregister and shutdown; one step is one critical       *)
(* section of the registry lock or one call made outside it. An engine is         *)
(* created by every successful start and outlives its registration, since         *)
(* callers keep clones of it: `engines` numbers them in the order of creation.    *)
(* The live index of an engine is here a thread that publishes Fresh or Stale     *)
(* as it likes while it runs; LiveIndex and LiveWorker say when it may.           *)
EXTENDS CommitCache

CONSTANTS
    Workspaces,        \* materialized worktrees
    Repositories,
    RepositoryOf,      \* the repository of each worktree
    MaxWorkspaces,
    MaxLayerCompositionAttempts,
    None,              \* no repository yet
    MaxRegistrations,  \* bound: calls of register that get a reservation
    MaxHeadMoves       \* bound: moves of HEAD

ASSUME RegistryAssumption ==
    /\ RepositoryOf \in [Workspaces -> Repositories]
    /\ None \notin Repositories
    /\ MaxWorkspaces \in Nat \ {0}
    /\ MaxLayerCompositionAttempts \in Nat \ {0}
    /\ MaxRegistrations \in Nat
    /\ MaxHeadMoves \in Nat

Threads == Callers

VARIABLES
    repository,        \* RegistryState.repository
    entries,           \* RegistryState.entries: the registered worktrees' state
    runtime,           \* the engine owned by a Ready entry, 0 for none
    shutDown,          \* RegistryState.shut_down
    engines,           \* every engine that was started
    op,                \* what each thread is doing in the registry
    head,              \* HEAD of each worktree
    moves,             \* how often HEAD moved
    registrations      \* how many reservations were made

registryVars == <<repository, entries, runtime, shutDown, engines, op>>
envVars == <<head, moves, registrations>>
vars == <<registryVars, envVars, cacheVars>>

(* `stopped` says that WorkspaceRuntime::shutdown has run to its end.              *)
Engine(w) ==
    [workspace |-> w, live |-> TRUE, fresh |-> FALSE, stopped |-> FALSE]

(* A call in progress: `engine` is the engine just started or being stopped,      *)
(* `queue` holds the ones still to be stopped.                                    *)
Op(kind, step, w, queue) ==
    [kind |-> kind, step |-> step, workspace |-> w, attempt |-> 1, engine |-> 0,
     queue |-> queue]

Idle == Op("none", "idle", None, {})

Init ==
    /\ repository = None
    /\ entries = [w \in Workspaces |-> "absent"]
    /\ runtime = [w \in Workspaces |-> 0]
    /\ shutDown = FALSE
    /\ engines = <<>>
    /\ op = [t \in Threads |-> Idle]
    /\ head \in [Workspaces -> Commits]
    /\ moves = 0
    /\ registrations = 0
    /\ CacheInit

Registered == {w \in Workspaces : entries[w] # "absent"}
InTransition == {w \in Workspaces : entries[w] \in {"Starting", "Stopping"}}

Goto(t, step) == op' = [op EXCEPT ![t].step = step]
Return(t) == op' = [op EXCEPT ![t] = Idle]

-------------------------------------------------------------------------------
(* register                                                                      *)

RightRepository(w) == repository \in {None, RepositoryOf[w]}

(* reserve: refused after a shutdown, for another repository, for a worktree      *)
(* that has an entry, and at the limit; the refusals change nothing.              *)
Reserve(t, w) ==
    /\ op[t] = Idle
    /\ registrations < MaxRegistrations
    /\ ~shutDown
    /\ RightRepository(w)
    /\ entries[w] = "absent"
    /\ Cardinality(Registered) < MaxWorkspaces
    /\ repository' = RepositoryOf[w]
    /\ entries' = [entries EXCEPT ![w] = "Starting"]
    /\ op' = [op EXCEPT ![t] = Op("register", "resolve", w, {})]
    /\ registrations' = registrations + 1
    /\ UNCHANGED <<runtime, shutDown, engines, head, moves, cacheVars>>

(* Faulty: a rollback forgets the repository although worktrees remain.           *)
RepositoryForgotten(w) == None

RepositoryAfterRollback(w) ==
    IF Registered \subseteq {w} THEN None ELSE repository

(* rollback_reservation after a failed start.                                     *)
RollbackReservation(t) ==
    LET w == op[t].workspace IN
    /\ repository' = RepositoryAfterRollback(w)
    /\ entries' = [entries EXCEPT ![w] = "absent"]
    /\ Return(t)
    /\ UNCHANGED <<runtime, shutDown, engines>>

(* start_once resolves HEAD and asks the cache for the index of that commit.       *)
ResolveHead(t) ==
    /\ op[t].step = "resolve"
    /\ LoadOrBuild(t, head[op[t].workspace])
    /\ Goto(t, "load")
    /\ UNCHANGED <<repository, entries, runtime, shutDown, engines, envVars, ready, building>>

ResolveFails(t) ==
    /\ op[t].step = "resolve"
    /\ RollbackReservation(t)
    /\ UNCHANGED <<envVars, cacheVars>>

LoadFails(t) ==
    /\ op[t].step = "load"
    /\ call[t].step = "failed"
    /\ call' = [call EXCEPT ![t] = NoCall]
    /\ RollbackReservation(t)
    /\ UNCHANGED <<envVars, ready, building>>

(* compose_worktree, the Git diff, and the check that the diff's base commit is    *)
(* the one the cached index belongs to.                                           *)
Compose(t) ==
    /\ op[t].step = "load"
    /\ call[t].step = "loaded"
    /\ head[op[t].workspace] = call[t].commit
    /\ call' = [call EXCEPT ![t] = NoCall]
    /\ Goto(t, "start")
    /\ UNCHANGED <<repository, entries, runtime, shutDown, engines, envVars, ready, building>>

(* HEAD moved, or the diff failed: LayerComposition, which `start` retries.        *)
ComposeUnstable(t) ==
    /\ op[t].step = "load"
    /\ call[t].step = "loaded"
    /\ call' = [call EXCEPT ![t] = NoCall]
    /\ IF op[t].attempt < MaxLayerCompositionAttempts
       THEN /\ op' = [op EXCEPT ![t].step = "resolve", ![t].attempt = @ + 1]
            /\ UNCHANGED <<repository, entries, runtime, shutDown, engines>>
       ELSE RollbackReservation(t)
    /\ UNCHANGED <<envVars, ready, building>>

(* compose_worktree or the indexer failed for another reason: no retry.            *)
ComposeFails(t) ==
    /\ op[t].step = "load"
    /\ call[t].step = "loaded"
    /\ call' = [call EXCEPT ![t] = NoCall]
    /\ RollbackReservation(t)
    /\ UNCHANGED <<envVars, ready, building>>

(* The engine is created, its first revision published Stale and its live index    *)
(* started.                                                                       *)
StartLive(t) ==
    /\ op[t].step = "start"
    /\ engines' = Append(engines, Engine(op[t].workspace))
    /\ op' = [op EXCEPT ![t].step = "finish", ![t].engine = Len(engines) + 1]
    /\ UNCHANGED <<repository, entries, runtime, shutDown, envVars, cacheVars>>

(* The live index did not start; nobody has a clone of the engine yet.             *)
StartLiveFails(t) ==
    /\ op[t].step = "start"
    /\ RollbackReservation(t)
    /\ UNCHANGED <<envVars, cacheVars>>

(* finish_registration. A shutdown refuses to run while an entry is Starting, so   *)
(* the rejection is a second line of defence.                                     *)
FinishRegistration(t) ==
    /\ op[t].step = "finish"
    /\ IF shutDown
       THEN /\ entries' = [entries EXCEPT ![op[t].workspace] = "absent"]
            /\ op' = [op EXCEPT ![t].step = "join", ![t].queue = {op[t].engine}]
            /\ UNCHANGED runtime
       ELSE /\ entries' = [entries EXCEPT ![op[t].workspace] = "Ready"]
            /\ runtime' = [runtime EXCEPT ![op[t].workspace] = op[t].engine]
            /\ Return(t)
    /\ UNCHANGED <<repository, shutDown, engines, envVars, cacheVars>>

-------------------------------------------------------------------------------
(* unregister and shutdown                                                       *)

(* Faulty: unregister gives the worktree free before its live index has stopped.    *)
EntryReleased == "absent"

EntryTaken == "Stopping"

(* unregister takes the runtime of a Ready entry; any other entry is refused.       *)
Unregister(t, w) ==
    /\ op[t] = Idle
    /\ entries[w] = "Ready"
    /\ entries' = [entries EXCEPT ![w] = EntryTaken]
    /\ runtime' = [runtime EXCEPT ![w] = 0]
    /\ op' = [op EXCEPT ![t] = Op("unregister", "join", w, {runtime[w]})]
    /\ UNCHANGED <<repository, shutDown, engines, envVars, cacheVars>>

(* Faulty: a shutdown that does not wait for starts and stops in progress.          *)
ReadyToClose == TRUE

NoTransitions == InTransition = {}

(* shutdown closes the registry and takes every runtime. A second call, and one     *)
(* that meets a transition, returns without a step. Dropping the registry is the    *)
(* same loop over the same runtimes with nobody left to call.                       *)
Shutdown(t) ==
    /\ op[t] = Idle
    /\ ~shutDown
    /\ NoTransitions
    /\ shutDown' = TRUE
    /\ entries' = [w \in Workspaces |-> "absent"]
    /\ runtime' = [w \in Workspaces |-> 0]
    /\ LET taken == {runtime[w] : w \in {v \in Workspaces : entries[v] = "Ready"}} IN
       op' = [op EXCEPT ![t] = IF taken = {} THEN Idle
                               ELSE Op("shutdown", "join", None, taken)]
    /\ UNCHANGED <<repository, engines, envVars, cacheVars>>

(* Faulty: the live index is told to stop and not joined.                          *)
JoinSkipped(e) == engines

Joined(e) == [engines EXCEPT ![e].live = FALSE]

(* WorkspaceRuntime::shutdown: first the live index is stopped and joined ...        *)
Join(t) ==
    /\ op[t].step = "join"
    /\ \E e \in op[t].queue :
          /\ engines' = Joined(e)
          /\ op' = [op EXCEPT ![t].step = "revoke", ![t].engine = e, ![t].queue = @ \ {e}]
    /\ UNCHANGED <<repository, entries, runtime, shutDown, envVars, cacheVars>>

(* ... then mark_engine_stale publishes Stale, and the next runtime follows. Its     *)
(* attempts can only be lost to a callback that the watcher had already started,     *)
(* whose publication is Stale too: the engine is Stale when it returns or gives up.   *)
Revoke(t) ==
    /\ op[t].step = "revoke"
    /\ engines' = [engines EXCEPT ![op[t].engine].stopped = TRUE, ![op[t].engine].fresh = FALSE]
    /\ op' = [op EXCEPT ![t] =
                 IF op[t].queue # {} THEN [@ EXCEPT !.step = "join"]
                 ELSE IF op[t].kind = "unregister" THEN [@ EXCEPT !.step = "remove"]
                 ELSE Idle]
    /\ UNCHANGED <<repository, entries, runtime, shutDown, envVars, cacheVars>>

(* unregister removes the entry; the repository stays.                              *)
RemoveEntry(t) ==
    /\ op[t].step = "remove"
    /\ entries' = [entries EXCEPT ![op[t].workspace] = "absent"]
    /\ Return(t)
    /\ UNCHANGED <<repository, runtime, shutDown, engines, envVars, cacheVars>>

(* workspace and route: the engine that answers a query for a worktree, or for none  *)
(* in particular when exactly one is Ready; 0 is an error. Nothing changes.           *)
Route(requested) ==
    LET ReadyEntries == {w \in Workspaces : entries[w] = "Ready"} IN
    IF requested \in ReadyEntries THEN runtime[requested]
    ELSE IF requested = None /\ Cardinality(ReadyEntries) = 1
         THEN runtime[CHOOSE w \in ReadyEntries : TRUE]
         ELSE 0

-------------------------------------------------------------------------------
(* Live indexes, watcher callbacks and Git                                        *)

(* A running live index publishes a Fresh reconciliation.                           *)
LivePublishesFresh(e) ==
    /\ engines[e].live
    /\ engines' = [engines EXCEPT ![e].fresh = TRUE]
    /\ UNCHANGED <<repository, entries, runtime, shutDown, op, envVars, cacheVars>>

(* A watcher callback revokes freshness. The watcher is dropped by the worker, but   *)
(* a callback that it had already started may publish after the join.               *)
CallbackPublishesStale(e) ==
    /\ engines' = [engines EXCEPT ![e].fresh = FALSE]
    /\ UNCHANGED <<repository, entries, runtime, shutDown, op, envVars, cacheVars>>

MoveHead(w) ==
    /\ moves < MaxHeadMoves
    /\ moves' = moves + 1
    /\ \E commit \in Commits : head' = [head EXCEPT ![w] = commit]
    /\ UNCHANGED <<registryVars, registrations, cacheVars>>

-------------------------------------------------------------------------------
(* Steps a thread takes inside a call it made.                                    *)
ThreadStep(t) ==
    \/ ResolveHead(t) \/ ResolveFails(t)
    \/ CacheStep(t) /\ UNCHANGED <<registryVars, envVars>>
    \/ LoadFails(t)
    \/ Compose(t) \/ ComposeUnstable(t) \/ ComposeFails(t)
    \/ StartLive(t) \/ StartLiveFails(t)
    \/ FinishRegistration(t)
    \/ Join(t) \/ Revoke(t) \/ RemoveEntry(t)

Next ==
    \/ \E t \in Threads :
          \/ \E w \in Workspaces : Reserve(t, w) \/ Unregister(t, w)
          \/ Shutdown(t)
          \/ ThreadStep(t)
          \/ CancelWait(t) /\ UNCHANGED <<registryVars, envVars>>
    \/ \E e \in DOMAIN engines : LivePublishesFresh(e) \/ CallbackPublishesStale(e)
    \/ \E w \in Workspaces : MoveHead(w)

(* Threads run; nothing obliges anyone to call or to cancel, a live index to publish *)
(* or HEAD to move.                                                                *)
Spec == Init /\ [][Next]_vars /\ \A t \in Threads : WF_vars(ThreadStep(t))

-------------------------------------------------------------------------------
States == {"absent", "Starting", "Ready", "Stopping"}

Steps == {"idle", "resolve", "load", "start", "finish", "join", "revoke", "remove"}

TypeOK ==
    /\ CacheTypeOK
    /\ repository \in Repositories \union {None}
    /\ entries \in [Workspaces -> States]
    /\ Cardinality(Registered) <= MaxWorkspaces
    /\ runtime \in [Workspaces -> Nat]
    /\ shutDown \in BOOLEAN
    /\ engines \in Seq([workspace : Workspaces, live : BOOLEAN, fresh : BOOLEAN,
                          stopped : BOOLEAN])
    /\ op \in [Threads -> [kind : {"none", "register", "unregister", "shutdown"},
                           step : Steps, workspace : Workspaces \union {None},
                           attempt : 1..MaxLayerCompositionAttempts, engine : Nat,
                           queue : SUBSET Nat]]
    /\ head \in [Workspaces -> Commits]
    /\ moves \in 0..MaxHeadMoves
    /\ registrations \in 0..MaxRegistrations

(* The Starting and Stopping reservations prevent duplicate owners: however           *)
(* registrations, removals and rollbacks of one worktree interleave, at most one       *)
(* live index watches it, and a query is only routed to an engine that is watched,     *)
(* of the worktree it asked for.                                                       *)
OneOwnerPerWorktree ==
    /\ \A d, e \in DOMAIN engines :
          engines[d].live /\ engines[e].live /\ engines[d].workspace = engines[e].workspace
             => d = e
    /\ \A w \in Workspaces \union {None} : Route(w) # 0 =>
          /\ engines[Route(w)].live
          /\ w # None => engines[Route(w)].workspace = w

(* "Any previously cloned engine is atomically marked stale after its watcher joins,   *)
(* so it cannot continue claiming current filesystem facts after removal."             *)
StoppedIsNeverFresh ==
    \A e \in DOMAIN engines : engines[e].stopped => ~engines[e].fresh

(* The registry is scoped to one repository: whatever registrations are rolled back    *)
(* or removed meanwhile, all entries belong to the recorded one.                       *)
OneRepository ==
    \A w \in Registered : repository = RepositoryOf[w]

(* shutdown "permanently closes this registry": once the call that closed it has       *)
(* returned, nothing is registered, watched or Fresh, and no registration that was     *)
(* under way slips in behind it.                                                       *)
ShutdownIsFinal ==
    shutDown /\ (\A t \in Threads : op[t].kind # "shutdown") =>
       /\ Registered = {}
       /\ \A e \in DOMAIN engines : ~engines[e].live /\ ~engines[e].fresh

(* Every call of the registry returns: a registration that waits for another one's     *)
(* build of the same commit is not left behind when that build fails or is cancelled.  *)
(* (Registrations are bounded: an endless stream of new callers that claim the commit  *)
(* and fail could keep one waiter from its turn.)                                      *)
CallsReturn ==
    \A t \in Threads : op[t].step # "idle" ~> op[t].step = "idle"
===============================================================================
