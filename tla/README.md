# Verification of Crystal Chakra

Crystal Chakra keeps an in-memory symbol graph of a Git worktree and answers agent
queries from it. The promise that is hard to keep is *freshness*: a query that asks
for it must be answered from a graph that describes the worktree as it was after the
query arrived, while editors write files, HEAD moves, the watcher loses events,
callers give up and the process shuts down. A second promise is *boundedness*:
language-server children and the queries on them stay within configured limits
whatever fails.

This directory models the parts of the code that carry those two promises, checks
them with TLC on small instances and proves nearly all of their safety properties
with TLAPS for all instances. Paths below are relative to `crates/`.

## 1. Inventory

| Component | State | Operations | Hard behaviour |
|---|---|---|---|
| Revision publication, `chakra-engine/src/engine.rs` | one `ArcSwap` slot with the current `WorkspaceSnapshot`; a counter of cold builds | `begin_update`, edits of `UpdateBuilder`, `publish` | publishers race between load and compare-and-swap; freshness is inherited by builders |
| Stable reconciliation, `chakra-language/src/live/mod.rs` (`reconcile`, `stable_scan`, `publish_fresh`) | event epoch, publication gate, source cache, reconciliation ledgers | one reconciliation: scan, verify, diff, compose, publish | files and HEAD change between any two reads; events race publication |
| Freshness barrier, `live/barrier.rs` | requested/completed generations, waiters, outcomes, the worker's operation | `register`, `complete`, `finish_waiter`, `abandon_worker`, `stop` | late waiters, cancellation of the last waiter, answers up to a generation |
| Live worker, `live/mod.rs` (`run_worker`), `scheduler.rs` | bounded channel, two-class queue, debounce window, checkpoint flag | receive, drain, debounce, pop, reconcile, serve demand, start, stop | lost signals at full bounds, wakeups, starvation, shutdown anywhere in the loop |
| Watch set, `live/mod.rs` (`refresh_watches`) | watched directories, `watcher_degraded`, `indexed_paths`, error ledgers; the backend's own watches | refresh, reinstall, publish, fail, cancel | the watches move before the candidate that needs them is published; the backend drops a watch when its directory is removed |
| Provider admission, `chakra-provider-pool/src/lib.rs` (`admit`) | running permits, waiters with priority, sequence and boost | admit, queue, age, withdraw, release | priority against starvation; permits on every exit path |
| Provider pool, same file | slots, reservations per pool and workspace, children | `activate`, `reserve_capacity`, `evict_provider`, reaper, `shutdown` | decisions under one lock used under another; shutdown against late starts |
| Workspace registry, `chakra-workspace/src/lib.rs` | the repository, an entry per worktree (absent, starting, ready, stopping), the runtimes | `register`, `unregister`, `workspace`, `shutdown` | a start runs without the lock: it races a shutdown, a second registration of its root, HEAD; engines outlive their registration |
| Commit cache, `chakra-workspace/src/snapshot_cache.rs` | ready commit graphs in the order of their use, commits being built | `load_or_build`, eviction | one builder for many callers; failed and cancelled builders |
| Provider worker and LSP transport, `chakra-provider-worker`, `chakra-lsp` | one session, open documents, known revision, outstanding requests | start, synchronise, ask, restart, retry, stop | late and missing answers, a dying child, an operation that expires between two documents |
| rust-analyzer provider, `chakra-provider-rust-analyzer/src/worker.rs` | a session, documents, barrier and result cache of its own | as the provider worker, with a wait for quiescence | as the provider worker; not built on it and not modelled |
| Lazy facts, `chakra-engine/src/lazy.rs` | bounded store with in-flight entries | get or compute, evict | coalesced waiters, cancellation of the owner. Only the conformance tests create one |
| Indexer, language adapters, graph, query, Git, domain, MCP, CLI, conformance | values | sequential transformations and I/O | none that needs interleaving |

How they interact: the watcher's callback thread revokes freshness through the
engine, advances the epoch and offers an event to the worker's channel. A query
thread registers a generation in the barrier, offers a signal to the same channel
and waits on a condition variable. The worker owns everything else: it debounces
events, reconciles, publishes through the engine under the publication gate the
callback also takes, and answers generations. The registry starts and joins live
indexes and hands out clones of their engines; all of them take the graph of their
base commit from one cache. Query threads enter the provider pool, which admits
them, starts or evicts providers, and is swept by a reaper thread and by shutdown.
Each provider is an owner thread behind a bounded command channel that tells one
language server the documents of the revision a request is about (rust-analyzer's is
a separate implementation of the same design).

`PROJECT.json` lists every component with its status and every hazard at its line.

## 2. Modules

| Module | Models |
|---|---|
| `Engine` | `WorkspaceEngine` and `UpdateBuilder` |
| `PublishedLog`, `EngineRefinement` | what the engine promises, an append-only log that accepts an update only on the revision it started from, and the refinement mapping |
| `LiveIndex` | one worktree, the reconciliation that reads it and the callers of `require_fresh` |
| `LiveWorker` | the worker's loop, channel and queue, its senders, its start and stop |
| `WatchSet` | the watch set and its ledgers across reconciliations |
| `ProviderAdmission` | `admit` and `QueryPermit` |
| `ProviderPool` | slots, capacity, eviction, reaper and shutdown |
| `ProviderService`, `ProviderPoolRefinement` | what the pool promises: children appear only in combinations the budgets allow and disappear only while nobody uses them, until shutdown gives up; the mapping hides ledger, claims and eviction stages |
| `CommitCache` | `load_or_build` and the memory bound of the shared cache |
| `WorkspaceRegistry` | register, unregister, route and shutdown, composed with `CommitCache` (it extends it: a registration's call of the cache is a step of both) |
| `WorktreeOwnership`, `WorkspaceRefinement` | what the registry promises: a worktree is watched by one live index at a time, served by the one that watches it, dismissed before it is stopped; the mapping hides reservations, retries, rollbacks and the cache |
| `ProviderWorker` | the owner thread of a provider, its command channel, its session, the server at the other end |
| `EngineProofs`, `LiveIndexProofs`, `LiveWorkerProofs`, `WatchSetProofs`, `ProviderAdmissionProofs`, `ProviderPoolProofs`, `WorkspaceRegistryProofs`, `ProviderWorkerProofs` | theorems, a module for each component |
| `MC*` | symmetry sets and function-valued constants for TLC |

Definitions whose comment starts with *Faulty* are wrong variants of the definition
after them. No specification uses them; `PROJECT.json` pairs each with the property
that has to fail when it replaces the right one.

### Engine

`current` is the `ArcSwap` slot; `ptr` stands for the address of an `Arc`, which is
what `compare_and_swap` and `Arc::ptr_eq` compare. `publish` is three steps, because
another thread may run between them: load and compare the revision (`PublishLoad`,
or `PublishStale` on a conflict), swap (`PublishSwap`, or `PublishLose`), count
(`CountColdBuild`). `touched` records whether the builder's graph is another
allocation than its base's (`graph_replaced`). `history` keeps what was published.
Status, provider state and provider inputs are plain assignments and left out.

### LiveIndex

A file is its version: odd versions exist, even ones do not, so a removal and
re-creation is visible. Git lists and the worker stats one path after another, so the
inventory, the bodies, the second inventory and the identities are each read in one
step per file, with `ChangeFile` and `MoveHead` possible between any two. `asof` is a
history variable: the contents of the disk when the covered generation was read.
`InvalidateMarkStale` and `InvalidateAdvanceEpoch` are the two halves of the callback,
holding `gate`. After the scan, `reconcile` composes the layers in steps between which
HEAD may move: `Diff` resolves HEAD and lists the changes against it (`base`),
`BuildCommit` builds the commit index of that commit when the published one is of
another (`built`), `TakeGate` takes the publication gate and compares the epoch again,
`VerifyLayers` repeats the diff under the gate and `DiscardCandidate` drops a
candidate for which it differs; `PublishFresh` publishes whichever commit graph was
built or kept. `heads` is a history variable: the commits HEAD named since the worker
took the gate. Commits are numbers, and HEAD may return to an earlier one.
`stable_scan` and `reconcile` retry up to `StableScanLimit` times each. The
retained-body cache does not appear: a body is reused exactly when its identity is
unchanged, and versions are identities. A conflict in `publish_fresh` is retried
there; giving up is `PublishConflict`.

### LiveWorker

The callback sends in two steps, as the code does: `SendEvent` tries the channel, and
an event it could not send stays in `sending` until `CountDrop` counts it, so that a
reconciliation may start between the two. (For an event that reports a watcher error
the count and the advance of the epoch are one step.) Reconciliation is cut down to
what the loop depends on: the counters sampled when it starts, the epoch and the
generation its scan covers, and its outcome. Event hints
are dropped, since every scan verifies every file; an event keeps its epoch and
whether it is uncertain. The debounce window folds one signal a step, since other
threads send while it does. The channel, each queue class and one drain have the
same bound in the code (`EVENT_QUEUE_CAPACITY`) and in the model (`Capacity`).
`QUEUE_AGING_AFTER` is elapsed time, so which of the two classes `pop` serves is a
nondeterministic choice when a checkpoint waits behind edits. That an endless stream
of edits cannot starve a checkpoint is aging's doing and not shown here: the runs
bound the events.

### WatchSet

Directories are numbers, ordered as the sorted set orders paths, with the root first;
the directories between the root and one that holds sources are left out. `watched` is
the program's record of its watches and `installed` what the backend really has: it
drops the watch of a directory that is removed (which the code knows:
`absent_watch_is_already_removed`) and does not restore it. `exists` are the
directories on disk, `present` those with sources, and the history variable `removed`
those that went since a watch was last installed on them. `dirty` is
`watch_set_dirty`, `seenErrors` is `reconciled_watcher_errors`. A failed
reconciliation has status Degraded and freshness Stale in the code; the model calls
the pair `Failed` to tell it from a Degraded publication. `raced` records an event
after the scan, which the epoch check turns into a discard.

### ProviderAdmission

The wait loop polls under the state lock, so each of its iterations is one step:
leave because of a stop or an abort, or take a permit as the best waiter.
`overtaken` is a history variable that counts the later arrivals admitted before a
waiter.

### ProviderPool

One step per critical section. `slot` is `SlotRuntime`, `total` and `usage` are the
ledgers of `PoolState`, `processes` counts the children that really run. An eviction
is three steps (take, shut down, release) by a query, the reaper or the owner; its
shutdown call may fail, and then the provider is retained with its reservation.
`Discard` covers a start that finishes after a stop and an incompatible adapter.
`Reservation` and `WorkspaceOf` give each slot its memory and worktree; a query that
is not under way is `on` an arbitrary slot. `ReserveByEviction` merges the check of the
ledger with the scan for a victim, which locks one slot after another; the victim is
taken in a later step, which looks again.
`BackoffExpires` lets `retry_after` pass; the exponent does not matter to it.
`PooledProvider::shutdown` is not on the production path and is left out.

### WorkspaceRegistry and CommitCache

A step is one critical section of the registry lock or one call made outside it.
`entries` is the state of a root in `RegistryState.entries`, `runtime` the engine
owned by a ready entry. Every successful start appends to `engines`, which is never
shortened, because callers keep clones; a live engine publishes Fresh or Stale as it
likes (`LivePublishesFresh`, `CallbackPublishesStale`), since `LiveIndex` says when
it may. `WorkspaceRuntime::shutdown` is `Join` and then `Revoke`, which is
`mark_engine_stale`: once the worker is joined only the watcher's callback can still
publish, and only Stale, so giving up after its conflicts is harmless. `Revoke` does
not model giving up, so the model does not test that argument. `resolve`,
`load` and `start` are the stages of `start_once`, repeated when HEAD moved in
between, up to `MaxLayerCompositionAttempts` times. Refused calls change nothing and
are left out. In the cache, `ready` lists commits by last use. A waiter polls, so it
takes its next step when the state allows one; a cancellation is `CancelWait`. The
disk store behind the cache is opt-in and only decides whether a build succeeds.

### ProviderWorker

The pipe to the server is first-in first-out, so `overlay` is what the server has
once it has read everything, and a question is answered from the overlay it was sent
after; `Receive` delivers any outstanding answer, also a late one, in any order.
`Client::request` is `Ask` and the steps while `waiting`: it takes the answer with
its own id, drops others, and ends when the operation expires (`GiveUp`) or the
process is gone. Every `check_operation` and every write may fail, and a write that
fails may have been delivered. `Abandon` follows the code's looks at the operation:
before the delta, before each of its documents and inputs, and not after the last of
them (`inputs` says whether build inputs are still to come). `torn` is a history
variable: the session was left out of step by a synchronization abandoned between two
documents, or by one that failed in the second attempt. `InStep` relates
`opened_versions` and `known_workspace` to the overlay. Document versions, URIs,
progress, metrics and readiness waits of single adapters are left out; a request
asks up to `MaxQuestions` questions about one target document. `OpenDocument` opens
documents that the hooks synchronize. The code does not test that (`worker.rs:926`):
a hook may open another path (`.tf.json`, `.gradle.kts`), which no delta ever updates
and about which the properties say nothing. `wait_for_events` is
called while the session is taken out of the worker, so it pumps nothing; its second
attempt is unreachable and not modelled.

## 3. Runs

Passing runs. `CHECK_DEADLOCK FALSE` is set where the modelled threads may really
rest (no more requests, or stopped).

| Run | Bounds | Shows |
|---|---|---|
| `engine` | 2 publishers, 2 graphs, 2 allocations, 1 project model | updates are never lost, changed graphs are Fresh only by claim, conflicts are justified, cold builds are counted exactly, and `ImplementsLog` |
| `live_index` | 2 files, 2 changes of files or HEAD, 1 event, 1 waiter, 1 attempt | no torn graph; `require_fresh` sees what preceded it; Fresh never lags an epoch; nobody is stranded below `completed`; overlay and commit graph are of one commit, which HEAD still named under the gate. Two files are what tearing needs, two changes what a change and its reversal need. 5.0 million states |
| `worker` | capacity 1, 3 events of which the second is uncertain, 1 waiter, 1 failure, startup timeout | an event that was dropped forces a full reread once its drop is counted; a window taken for complete is complete; checkpoint flag and queue agree; checkpoints are taken; shutdown joins; every `require_fresh` returns and the last event is reconciled unless a signal of that kind was refused. Capacity 1 makes every bound bite; 3 events make a gap |
| `watch_set` | 2 directories and the root, limit 2, 3 errors | gaps are recorded and Ready is fully watched, but for directories removed since they were last watched. Limit 2 is below the 3 wanted, so truncation happens. 0.84 million states |
| `admission` | 3 callers, 5 requests, 1 permit, 2 places, 3 priorities | exact permits, bounded overtaking; queued queries leave the queue |
| `pool` | 2 queries, 3 slots: two of one worktree, which has room for one child, and one of another; reservations 1, 2 and 2 of a memory limit of 3, so the second and third slot are kept apart by memory alone while the first and third fit together; 3 calls and reaper passes. 0.92 million states | budgets in children and in memory, no leak, no eviction of a leased provider, clean shutdown, queries return; the pool implements `ProviderService` |
| `workspace` | 2 threads, 3 worktrees of 2 repositories, 2 commits, cache for 1, 2 registered at a time, 3 registrations, 1 move of HEAD | one live index per worktree, routes reach it, removed engines stay Stale, one repository, nothing survives a shutdown, one builder per commit, calls return; the registry implements `WorktreeOwnership` |
| `provider_worker` | 2 documents (both edited at once and edited back, one deleted and created), 3 revisions, 2 calls, 2 questions a session, command channel of 1 | outside torn sessions a Ready answer was computed from its own revision and the record of open documents is the server's; requests and shutdown end. 0.68 million states |

Each run's limits are those of its `.cfg`. In `worker`, `EveryWaiterReturns` and
`EventsAreReconciled` exempt a behaviour in which a signal of their kind was refused
by a full channel or class (`refused`, a history variable): what then remains is the
generation counter and the caller's deadline, which is what the next table is about,
or no wakeup at all. `TypeOK` is left out of the runs `engine`, `live_index`,
`worker`, `admission`, `pool`, `workspace` and `provider_worker`: section 5 proves it.
In `live_index` a failed attempt ends the reconciliation, and the next reconciliation
starts where a retry would, with reset counters; with one file and `StableScanLimit =
2` (2.5 million states) TLC finds no error either, nor any in the strengthenings the
proofs use, and the theorems of section 5 hold for every limit. One project model
makes `set_project_model` a step without effect in `engine`; `EngineProofs` covers any
number of them.

Runs that find a disagreement between the code and what its comments or decision
records say:

| Run | Statement | What happens |
|---|---|---|
| `worker_wakeup` | "The generation counter is the durable source of demand" (`live/mod.rs:794`) | a refused barrier signal and a superseded event: `continue` skips the check, the worker sleeps on a waiting caller until its deadline |
| `worker_start` | "a failed start cannot detach a watcher thread" (ADR 0005) | a timed-out start loses its Shutdown to a full channel and joins a worker that never ends |
| `live_index_skipped` | "every file identity" (`live/mod.rs:1026`) | a file that vanished when it was inspected and came back is published as missing and never verified |
| `provider_sync` | "the server consumed the current document generation before answering" (`chakra-provider-worker/src/worker.rs:298`) | two documents are edited, and the operation expires after the first was sent; the session and `known_workspace` stay as they were; a request about a revision with the earlier contents has an empty delta and is answered Ready from the abandoned ones. This run has a third call |

`WaiterSeesEarlierChanges`, which holds, exempts the files a scan skipped: listed, but
without a body that was read. `live_index_skipped` asks the same for those of them that
were never observed; `AnswersMatchRevision` and `SessionInStep`, which hold, exempt a
session whose synchronization was abandoned or failed twice. `DroppedEventForcesReread`
allows one thing: the reconciliation that starts after `try_send` failed and before
the drop is counted (`live/mod.rs:511-522`) samples the old count, and may trust
retained bodies; every later one owes the full reread.

Other observations, without a run:

- A directory that is removed and recreated with the same sources between two
  reconciliations has lost its watch in the backend, while the path set and `watched`
  are what they were: neither the condition of the refresh (`live/mod.rs:1054`) nor
  its difference against the record (`live/mod.rs:1661`) notices, and Ready is
  published over an unwatched directory that nothing records. `GapIsRecorded` and
  `ReadyIsWatched` exempt the directories in `removed` for this reason and show that
  there is no other way to an unrecorded gap. ADR 0005:116 says that the watches are
  recomputed only when the path set changes or after an error, and barriers stay
  authoritative, since they scan; what is lost is the invalidation by events until
  then. A directory that stays away is harmless: its sources leave the path set.
- "the next barrier reinstalls it" (`live/mod.rs:1061`): `watcher_degraded` is not
  among the conditions for a refresh (`live/mod.rs:1054`), so a gap that a discarded
  candidate left may survive a publication of unchanged paths. It stays recorded,
  which is what `GapIsRecorded` says.
- "a replaced model is only `Fresh` once the publisher re-confirms"
  (`chakra-engine/src/engine.rs:283`), but `set_project_model` keeps the inherited
  freshness. Its two callers outside tests, the live index and the workspace registry,
  set freshness themselves.
- A second `WorkspaceRegistry::shutdown` returns Ok while the first still joins
  runtimes (`chakra-workspace/src/lib.rs:289`); `ShutdownIsFinal` is about the call
  that closed it.
- A builder that panics in `load_or_build` leaves its commit in `building`; no
  modelled thread panics.
- The Java references of the Kotlin provider open a document after their last request
  and still confirm the barrier without a round-trip.

## 4. Fairness

Only threads are fair: the worker's, the callback's once it started sending, a
caller's once it registered, the owner's once it began to stop. Nothing obliges an
editor to write, a caller to arrive, a deadline to pass, a step to fail or the owner
to shut down. `ProviderAdmission` assumes that an admitted query ends, which its own
deadline guarantees. The registry's threads are fair within a call (`ThreadStep`),
and neither callers nor cancellations are owed; registrations are bounded, because
an endless stream of callers that each claim a commit and fail could keep one waiter
from its turn. In `ProviderWorker` only the worker's own steps are fair: the server
owes no answer and no delivery, and what bounds a wait is the operation, which may
end at every check and ends every wait (`WaitIsOver`). `ProviderPool` assumes that
provider calls return, as their contract with timeouts demands, and bounds the
reaper's passes by the requests: `reserve_capacity` loops without looking at the
deadline, so a reaper that took the chosen victim in every round could keep one
query busy; the run shows that nothing else can. Weak fairness is enough everywhere,
since no thread's step is disabled by another for ever without the waiting being the
subject of the property.

## 5. Proofs

| Theorem | Property | Argument |
|---|---|---|
| `EngineProofs!TypeCorrect`, `NoLostUpdate`, `FreshnessIsClaimed` | `TypeOK`, `LinearHistory`, `FreshGraphWasClaimed` | `EngineInv` adds that addresses are unique along the history, that a builder's base revision was published with the graph it remembers, and that a builder with a changed graph is Fresh only after a claim. The first is what makes comparing addresses as good as comparing revisions |
| `EngineProofs!ColdBuildsAreCounted`, `ConflictsAreJustified` | `ColdBuildsCounted`, `ConflictIsJustified` | `CountInv` adds that a publisher with an increment in flight has succeeded and that such publishers are finitely many, so a swap adds one to both sides and a `fetch_add` moves one; a loser's base is older than the head, and addresses are unique |
| `EngineProofs!EngineImplementsLog` | `ImplementsLog` | a swap is a commit, both conflicts are rejections, everything else stutters |
| `LiveIndexProofs!TypeCorrect` | `TypeOK` | with `LoopInv`: attempts stay below their limit while another one may follow |
| `LiveIndexProofs!NeverTorn` | `SnapshotNotTorn` | `ScanInv`: between the covered generation and publication, each file that was observed has at `asof` the version it was observed with, once verified. Versions only grow, so equality before and after pins the instant between |
| `LiveIndexProofs!RequireFreshIsFresh` | `WaiterSeesEarlierChanges` | `WaiterInv` adds that a waiter's registration precedes the `asof` of every scan that covers it; together with `ScanInv` and the monotonicity of versions |
| `LiveIndexProofs!EventsRevokeFreshness` | `FreshCoversEpoch` | `EpochInv`: while the callback holds the gate the snapshot is Stale; while the worker holds it, from the comparison of epochs to the publication, no event is counted |
| `LiveIndexProofs!WaitersAnswered` | `NoStrandedWaiter` | `BarrierInv` orders generations: registered keys never exceed `requested`, completed ones never exceed it |
| `LiveIndexProofs!LayersConsistent` | `LayersMatchCommit` | `LayersInv`: what was built, or kept because the published commit was the diff's, is the commit of the diff; the second diff under the gate puts that commit among those HEAD named there |
| `WatchSetProofs!TypeCorrect` | `TypeOK` | what a refresh wants is finite, so the desired set exists and respects the limit (`DesiredWithinLimit`), and the backend is only moved towards it |
| `WatchSetProofs!GapsAreRecorded`, `ReadyMeansWatched` | `GapIsRecorded`, `ReadyIsWatched` | `WatchInv`: the record exceeds the backend by removed directories only, a candidate that lost a directory since its scan lost a removed one, a candidate differs from the published paths only once the watches were moved to it, and a failed refresh is always dirty. Both theorems have the exemption of their properties |
| `ProviderAdmissionProofs!LimitsHold`, `PermitsAccounted` | `TypeOK`, `PermitsMatchQueries` | permits equal the cardinality of the admitted set; callers are a finite set |
| `ProviderAdmissionProofs!AgingBoundsOvertaking` | `OvertakingBounded` | `OvertakenWasBoosted`: every overtaking gave the waiter a boost, sequences are distinct, and a waiter at the top rank is only preceded by older ones |
| `LiveWorkerProofs!TypeCorrect`, `DropsForceReread` | `TypeOK`, `DroppedEventForcesReread` | `LostInv`: a dropped event joins `Counted` in the step that raises `doubts`, and a reconciliation settles only the doubts it sampled when it started, so an unsettled drop keeps `doubts` above `seenDoubts` across every scan, failure and cancellation. That the drop and its count are two steps is why the property speaks of counted drops |
| `LiveWorkerProofs!WindowsAreComplete`, `CheckpointsAgree` | `CertainWindowIsComplete`, `OneCheckpointStaged` | `WindowInv`: a window that stays certain has grown by exactly one epoch at a time from the reconciled one |
| `ProviderPoolProofs!TypeCorrect`, `LeasesAreKept`, `ShutdownIsComplete` | `TypeOK`, `LeasedIsNotReclaimed`, `ShutdownLeavesNothing` | `PoolInv`: a child is in its slot or in the hands of exactly one thread, namely the query that claimed the slot (`ClaimInv`), a query whose provider came too late (`DiscardInv`) or the evictor that took it (`EvictInv`). In an orderly sweep what is not reached yet is in `todo` and no query is in a place where it could start a child (`SweepInv`) |
| `ProviderPoolProofs!LimitsHold` | `ChildrenWithinLimits` | `LedgerInv`: the ledger's counts are the cardinality of a set of reservation tokens, one for each slot with a provider and each thread with a reservation in hand, so `saturating_sub` never meets zero; every child has a token of its own |
| `ProviderPoolProofs!MemoryHolds` | `MemoryWithinLimits` | `MemoryInv`, a part of `LedgerInv`: reserved memory is the sum of the tokens' reservations, so the saturating subtraction is exact, and the children's memory is covered by their tokens |
| `ProviderPoolProofs!LeavesNothingBehind` | `NothingLeaks` | `FlagsInv`: `activating` stands only while a query or an evictor claims the slot and `in_flight` is the number of leases, always; when nothing is under way only the tokens of slots are left, one for each child |
| `ProviderPoolProofs!PoolImplementsService` | `ImplementsService` | a successful factory call is a start and, by `LimitsHold` and `MemoryHolds` after the step, an affordable one; a shutdown call stops a child without users (`NobodyUses`: no lease without a provider in the slot, until shutdown gives up); the last step of an orderly sweep closes; everything else is invisible |
| `WorkspaceRegistryProofs!TypeCorrect`, `BuildsAreShared` | `TypeOK`, `NoDuplicateBuild` | `CacheInv`: the commits being built are those of the callers that build them; none of them is cached, and eviction keeps `ready` within its bound |
| `WorkspaceRegistryProofs!RegistryIsScoped`, `WorktreesHaveOneOwner`, `StoppedEnginesAreStale`, `ShutdownClosesForGood` | `OneRepository`, `OneOwnerPerWorktree`, `StoppedIsNeverFresh`, `ShutdownIsFinal` | `RegistryInv`: a starting or stopping entry belongs to exactly one call (`EntryInv`), a live engine to exactly one entry or call, and a joined one that is not yet revoked to the call that joined it (`EngineInv`) |
| `WorkspaceRegistryProofs!RegistryImplementsOwnership` | `ImplementsOwnership` | a start finds nobody watching, because its reservation keeps every other engine away (`OneOwnerPerWorktree` after the step); an engine that is joined belongs to a stopping or absent entry, so no query is routed to it; with no transition under way every live engine is the routed one, which is what closing asks; reservations, cache and retries are invisible |
| `ProviderWorkerProofs!TypeCorrect`, `ReadyAnswersAreExact`, `RecordOfDocumentsIsExact` | `TypeOK`, `AnswersMatchRevision`, `SessionInStep` | `SyncInv`: during a delta the documents not in `todo` have the requested revision's contents and the others those of the known one; `ViewInv`: an outstanding question has an earlier id than the current one, or was asked from the current overlay. Both properties exempt torn sessions |

Assumptions: the named `ASSUME` of each module (positive limits, finitely many
callers, documents, slots and query threads, at least one slot, distinct initial
values where needed). The theorems hold for any number of files, waiters, publishers,
graphs, directories, worktrees, commits, documents and threads and for any limits.

`MemoryWithinLimits` and `NothingLeaks` sum with a fold over the slots. The library's
induction over finite sets takes an operator and cannot be cited, so the sum is
characterized by its equation on all subsets (`SumIs`), and what it obeys
(`SumsUnfold`, `SumsAgree`, `SumsTakeOut`, `SumsCovered`) is proved by a smallest
counterexample: the strict subset order of a finite set is well-founded, so a set of
subsets that violate the claim has a minimal element, and taking one element out of it
gives the contradiction.

Every invariant, action property and refinement that a passing run checks is proved.
Only model-checked: liveness (`CheckpointEventuallyTaken`, `ShutdownJoins`,
`EveryWaiterReturns`, `EventsAreReconciled`, `WaitersLeaveQueue`, `QueriesReturn`,
`CallsReturn`, `WorkerReturns`), which needs `WF` and `ENABLED` and is outside this
prover's reach.

## 6. Not modelled

The models cover the code whose correctness depends on interleaving, failure and
order: `live/`, `engine.rs`, the provider pool, the registry and its cache, the
shared provider worker. That is a small share of the repository by lines. Most of it is
sequential: twelve tree-sitter adapters, the graph and its queries, Git output
parsing, the hooks of nine language servers, the CLI and the conformance corpus. They
turn large values into large values, their difficulty is in the data and not in the
control, and a model of them small enough to check would be the identity.

- The rust-analyzer provider has an owner thread of its own, 1600 lines that repeat
  the design of `chakra-provider-worker` and add a wait for quiescence, a result cache
  and call hierarchies. It needs a module of its own, and nothing proved about
  `ProviderWorker` speaks of it. Its `synchronize_documents` looks at the operation
  between two documents in the same way (`worker.rs:744`), so what `provider_sync`
  shows has to be expected there.
- Parsing, graph construction, queries, diff projection, JSON. What concurrency needs
  of them is in `LiveIndex`.
- `lazy.rs`: a concurrent store, but only the conformance tests create one.
- The disk store behind the commit cache: opt-in, and to the registry an outcome of a
  build.
- The operating system's watcher and Git are environment: they appear by what they may
  answer or report, never by how. So is the language server, behind `Receive` and
  `ServerDies`.
- Elapsed time appears as the choice that a timeout, backoff or aging limit has
  passed.
- Mutex poisoning and panics: the code recovers the guard or refuses, and no modelled
  thread panics.
- Integer overflow of generations, epochs and sequences: `u64` counters with checked
  or saturating additions, out of reach of any run of the program.

## 7. Plan

1. `PriorityWorkQueue` as an algorithm against a reference order, with aging; provider
   input deltas against recomputation.
2. `LiveWorker` shown to schedule only what `LiveIndex` allows (refinement of the
   reconciliation points).
3. Composition of `ProviderPool` with `ProviderWorker`: a lease on a provider whose
   session dies.
4. The rust-analyzer provider's worker, with its result cache. The commit cache's disk
   store: temporary directory, rename, eviction, a crash between them.
5. Proofs: an abstract specification of a reconciled view, implemented by `LiveIndex`.
