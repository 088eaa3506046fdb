----------------------------- MODULE LiveIndex -----------------------------
(***************************************************************************)
(* The freshness protocol of the live index: reconcile, stable_scan,        *)
(* publish_fresh and invalidate_for_event of                                *)
(* crates/chakra-language/src/live/mod.rs together with BarrierShared of    *)
(* live/barrier.rs.                                                         *)
(*                                                                         *)
(* Four kinds of actors interleave: the user's editor and git, which change *)
(* the worktree at any moment; the filesystem watcher's callback; queries   *)
(* that wait for a fresh revision; and the one worker, which observes the   *)
(* worktree file by file, several times over, before it publishes.  When    *)
(* the worker starts a reconciliation, and why, is left open here (module   *)
(* LiveWorker decides it): whatever holds, holds for every schedule.        *)
(*                                                                         *)
(* A file's state is a version number that every change increments; odd     *)
(* versions exist on disk, even ones do not.  A FileIdentity identifies a   *)
(* version, so a cached body reused under an equal identity is the body a   *)
(* read would return.  A commit is a number from 1; that HEAD names none yet   *)
(* is one of them.                                                           *)
(***************************************************************************)
EXTENDS Integers, FiniteSets

CONSTANTS
    Files,            \* source paths
    Waiters,          \* threads that call require_fresh
    StableScanLimit,  \* MAX_STABLE_SCAN_ATTEMPTS, for both loops that use it
    MaxChanges,       \* bound: changes of files and moves of HEAD
    MaxEpoch,         \* bound: watcher events
    MaxGeneration     \* bound: require_fresh calls

ASSUME LiveIndexAssumption ==
    /\ StableScanLimit \in Nat \ {0}
    /\ MaxChanges \in Nat
    /\ MaxEpoch \in Nat
    /\ MaxGeneration \in Nat

VARIABLES
    \* The worktree.
    disk,        \* version of each file
    changes,     \* changes of files and moves of HEAD so far (for the bound)
    head,        \* the commit HEAD names
    \* The engine's published snapshot.
    snap,
    \* MetricsState::event_epoch and the publication gate's owner.
    epoch, gate,
    \* BarrierState.
    requested, completed,
    target,      \* key of each waiter in `waiters`, 0 when it has none
    operation,   \* does the waiter's own OperationContext still check out
    outcome,     \* its entry of `outcomes`
    workerOp,    \* worker_operation
    since,       \* history: the disk when the waiter registered
    \* Locals of reconcile and stable_scan.
    phase, todo, scanAttempts, attempts, generation, cancellable,
    scanEpoch, inventory, verified, observed, body, covered, base,
    built,       \* the commit of the commit index in `commit`, 0 for None
    asof,        \* history: the disk when `covered` was read
    missing,     \* history: version at which the scan last missed a file
    heads        \* history: commits HEAD named while the worker had the gate

worktreeVars == <<disk, changes, head>>
waiterVars == <<requested, target, operation, since>>
barrierVars == <<requested, completed, target, operation, outcome, workerOp, since>>
loopVars == <<scanAttempts, attempts, generation, cancellable>>
scanVars == <<scanEpoch, inventory, verified, observed, body, covered, base, built, asof, missing,
              heads>>
vars == <<disk, changes, head, snap, epoch, gate, requested, completed, target, operation, outcome,
          workerOp, since, phase, todo, scanAttempts, attempts, generation, cancellable,
          scanEpoch, inventory, verified, observed, body, covered, base, built, asof, missing, heads>>

Present(version) == version % 2 = 1

Absent == [f \in Files |-> 0]

Phases == {"idle", "scan", "inventory", "read", "cover", "verify_inventory", "verify",
           "diff", "compose", "gate", "layers", "publish", "done", "failed", "report"}

(* What reconcile publishes.  graph[f] is the version of an indexed file; for  *)
(* a file that is not indexed it is a version at which the scan found it       *)
(* missing.  `skipped` are the unreadable paths of the coverage summary,      *)
(* `unseen` those among them whose identity was never observed; base is the   *)
(* commit of the layers, commit the one the commit graph was built from.      *)
(* Before the first reconciliation nothing has been read.                     *)
Snapshots ==
    [freshness : {"Fresh", "Stale"}, graph : [Files -> Nat], skipped : SUBSET Files,
     unseen : SUBSET Files, epoch : Nat, base : Nat, commit : Nat]

Init ==
    /\ disk \in [Files -> {0, 1}]
    /\ changes = 0
    /\ head = 1
    /\ snap = [freshness |-> "Stale", graph |-> Absent, skipped |-> Files, unseen |-> Files,
               epoch |-> 0, base |-> 1, commit |-> 1]
    /\ epoch = 0
    /\ gate = "free"
    /\ requested = 0 /\ completed = 0
    /\ target = [w \in Waiters |-> 0]
    /\ operation = [w \in Waiters |-> TRUE]
    /\ outcome = [w \in Waiters |-> "none"]
    /\ workerOp = "none"
    /\ since = [w \in Waiters |-> Absent]
    /\ phase = "idle" /\ todo = {}
    /\ scanAttempts = 0 /\ attempts = 0 /\ generation = 0 /\ cancellable = FALSE
    /\ scanEpoch = 0 /\ inventory = {} /\ verified = {} /\ observed = Absent /\ body = Absent
    /\ covered = 0 /\ base = 0 /\ built = 0 /\ asof = Absent /\ missing = Absent /\ heads = {}

(* The locals of an attempt go out of scope.                                  *)
DropScan ==
    /\ scanEpoch' = 0 /\ inventory' = {} /\ verified' = {} /\ observed' = Absent
    /\ body' = Absent /\ covered' = 0 /\ base' = 0 /\ built' = 0 /\ asof' = Absent
    /\ missing' = Absent /\ heads' = {}

DropLoops == scanAttempts' = 0 /\ attempts' = 0 /\ generation' = 0 /\ cancellable' = FALSE

-----------------------------------------------------------------------------
(* The environment: a write, creation or removal of one file; a move of HEAD. *)

ChangeFile(f) ==
    /\ changes < MaxChanges
    /\ changes' = changes + 1
    /\ \E v \in {disk[f] + 1, disk[f] + 2} :
        /\ Present(disk[f]) \/ v = disk[f] + 1
        /\ disk' = [disk EXCEPT ![f] = v]
    /\ UNCHANGED <<head, snap, epoch, gate, barrierVars, phase, todo, loopVars, scanVars>>

(* A new commit, or a checkout or reset to an earlier one.                    *)
MoveHead ==
    /\ changes < MaxChanges
    /\ changes' = changes + 1
    /\ \E commit \in 1 .. changes + 2 : commit # head /\ head' = commit
    /\ heads' = IF gate = "worker" THEN heads \union {head'} ELSE heads
    /\ UNCHANGED <<disk, snap, epoch, gate, barrierVars, phase, todo, loopVars, scanEpoch,
                   inventory, verified, observed, body, covered, base, built, asof, missing>>

-----------------------------------------------------------------------------
(* The watcher callback, invalidate_for_event: under the publication gate,    *)
(* freshness is revoked first and the epoch advances second.                  *)

InvalidateMarkStale ==
    /\ gate = "free" /\ epoch < MaxEpoch
    /\ gate' = "callback"
    /\ snap' = [snap EXCEPT !.freshness = "Stale"]
    /\ UNCHANGED <<worktreeVars, epoch, barrierVars, phase, todo, loopVars, scanVars>>

InvalidateAdvanceEpoch ==
    /\ gate = "callback"
    /\ gate' = "free"
    /\ epoch' = epoch + 1
    /\ UNCHANGED <<worktreeVars, snap, barrierVars, phase, todo, loopVars, scanVars>>

-----------------------------------------------------------------------------
(* Queries: register, the caller's cancellation or deadline, finish_waiter.   *)

(* Waiters a reconciliation that is under way could still serve.              *)
Active == {w \in Waiters : target[w] > completed /\ operation[w]}

Register(w) ==
    /\ target[w] = 0 /\ requested < MaxGeneration
    /\ requested' = requested + 1
    /\ target' = [target EXCEPT ![w] = requested + 1]
    /\ operation' = [operation EXCEPT ![w] = TRUE]
    /\ since' = [since EXCEPT ![w] = disk]
    /\ UNCHANGED <<worktreeVars, snap, epoch, gate, completed, outcome, workerOp,
                   phase, todo, loopVars, scanVars>>

CancelWaiter(w) ==
    /\ target[w] # 0 /\ operation[w]
    /\ operation' = [operation EXCEPT ![w] = FALSE]
    /\ UNCHANGED <<worktreeVars, snap, epoch, gate, requested, completed, target, outcome,
                   workerOp, since, phase, todo, loopVars, scanVars>>

(* require_fresh returns, on its own cancellation or with an outcome, and     *)
(* cancels the worker's operation when nobody is left to observe it.          *)
FinishWaiter(w) ==
    /\ target[w] # 0
    /\ ~operation[w] \/ outcome[w] # "none"
    /\ target' = [target EXCEPT ![w] = 0]
    /\ outcome' = [outcome EXCEPT ![w] = "none"]
    /\ workerOp' = IF Active \ {w} = {} /\ workerOp = "live" THEN "cancelled" ELSE workerOp
    /\ since' = [since EXCEPT ![w] = Absent]
    /\ UNCHANGED <<worktreeVars, snap, epoch, gate, requested, completed, operation,
                   phase, todo, loopVars, scanVars>>

-----------------------------------------------------------------------------
(* reconcile: its start, and what its loops fall back to.                     *)

(* pending_generation: the newest registered key, or `completed` with none.   *)
IsPendingGeneration(g) ==
    \/ (\A w \in Waiters : target[w] = 0) /\ g = completed
    \/ \E w \in Waiters : target[w] = g /\ g # 0 /\ \A v \in Waiters : target[v] <= g

(* With `barrier` (cancel_when_unobserved) the worker's operation is shared   *)
(* with the waiters, cancelled from the start if none of them is left.        *)
StartReconcile(barrier) ==
    /\ phase = "idle"
    /\ \E g \in 0 .. requested : IsPendingGeneration(g) /\ generation' = g
    /\ cancellable' = barrier
    /\ workerOp' = IF ~barrier THEN workerOp
                   ELSE IF Active = {} THEN "cancelled" ELSE "live"
    /\ phase' = "scan"
    /\ scanAttempts' = 0 /\ attempts' = 0
    /\ UNCHANGED <<worktreeVars, snap, epoch, gate, waiterVars, completed, outcome, todo,
                   scanVars>>

OperationOk == ~cancellable \/ workerOp # "cancelled"

(* commit_changed: the diff found another commit than the published layers.   *)
CommitChanged == base # snap.base

(* operation.check() fails: the reconciliation is abandoned unpublished.      *)
Abandon ==
    /\ \/ phase \in {"scan", "read", "verify", "diff", "layers"}
       \/ phase = "compose" /\ CommitChanged
    /\ ~OperationOk
    /\ gate' = IF gate = "worker" THEN "free" ELSE gate
    /\ phase' = "idle"
    /\ todo' = {}
    /\ workerOp' = "none"
    /\ DropLoops /\ DropScan
    /\ UNCHANGED <<worktreeVars, snap, epoch, waiterVars, completed, outcome>>

(* Faulty: one attempt too many.                                              *)
RetryScanOnceMore ==
    /\ scanAttempts' = scanAttempts + 1
    /\ phase' = IF scanAttempts < StableScanLimit THEN "scan" ELSE "failed"
    /\ todo' = {}
    /\ DropScan
    /\ UNCHANGED <<attempts, generation, cancellable>>

(* `continue` in stable_scan; the last attempt fails the reconciliation.      *)
RetryScan ==
    /\ scanAttempts' = scanAttempts + 1
    /\ phase' = IF scanAttempts + 1 < StableScanLimit THEN "scan" ELSE "failed"
    /\ todo' = {}
    /\ DropScan
    /\ UNCHANGED <<attempts, generation, cancellable>>

(* `continue` in reconcile.                                                  *)
RetryReconcile ==
    /\ attempts' = attempts + 1
    /\ scanAttempts' = 0
    /\ phase' = IF attempts + 1 < StableScanLimit THEN "scan" ELSE "failed"
    /\ DropScan
    /\ UNCHANGED <<todo, generation, cancellable>>

-----------------------------------------------------------------------------
(* stable_scan, one attempt: inventory, bodies, covered generation, second     *)
(* inventory, identities, epoch.  Git lists and the worker stats one path     *)
(* after another, so each pass takes a step per file.                         *)

BeginScan ==
    /\ phase = "scan" /\ OperationOk
    /\ scanEpoch' = epoch
    /\ phase' = "inventory" /\ todo' = Files
    /\ UNCHANGED <<worktreeVars, snap, epoch, gate, barrierVars, loopVars, inventory,
                   verified, observed, body, covered, base, built, asof, missing, heads>>

InventoryFile(f) ==
    /\ phase = "inventory" /\ f \in todo
    /\ inventory' = IF Present(disk[f]) THEN inventory \union {f} ELSE inventory
    /\ todo' = IF todo = {f} THEN inventory' ELSE todo \ {f}
    /\ phase' = IF todo = {f} THEN "read" ELSE "inventory"
    /\ UNCHANGED <<worktreeVars, snap, epoch, gate, barrierVars, loopVars,
                   scanEpoch, verified, observed, body, covered, base, built, asof, missing, heads>>

(* One path of scan_discovered_sources: a path that no longer exists is       *)
(* skipped without being observed; an existing one is observed, and its body  *)
(* is loaded or, when the read fails, skipped.                                *)
ReadFile(f) ==
    /\ phase = "read" /\ f \in todo /\ OperationOk
    /\ todo' = todo \ {f}
    /\ \/ /\ ~Present(disk[f])
          /\ missing' = [missing EXCEPT ![f] = disk[f]]
          /\ UNCHANGED <<observed, body>>
       \/ /\ Present(disk[f])
          /\ observed' = [observed EXCEPT ![f] = disk[f]]
          /\ \E loaded \in BOOLEAN :
                body' = IF loaded THEN [body EXCEPT ![f] = disk[f]] ELSE body
          /\ UNCHANGED missing
    /\ UNCHANGED <<worktreeVars, snap, epoch, gate, barrierVars, phase, loopVars,
                   scanEpoch, inventory, verified, covered, base, built, asof, heads>>

(* covered_generation is read between the bodies and their verification.      *)
Cover ==
    /\ phase = "read" /\ todo = {}
    /\ \E g \in 0 .. requested : IsPendingGeneration(g) /\ covered' = g
    /\ asof' = disk
    /\ phase' = "verify_inventory" /\ todo' = Files
    /\ UNCHANGED <<worktreeVars, snap, epoch, gate, barrierVars, loopVars,
                   scanEpoch, inventory, verified, observed, body, base, built, missing, heads>>

VerifyInventoryFile(f) ==
    /\ phase = "verify_inventory" /\ f \in todo
    /\ todo' = todo \ {f}
    /\ verified' = IF Present(disk[f]) THEN verified \union {f} ELSE verified
    /\ missing' = IF Present(disk[f]) THEN missing ELSE [missing EXCEPT ![f] = disk[f]]
    /\ UNCHANGED <<worktreeVars, snap, epoch, gate, barrierVars, phase, loopVars,
                   scanEpoch, inventory, observed, body, covered, base, built, asof, heads>>

InventoryStable == verified = inventory

CompareInventories ==
    /\ phase = "verify_inventory" /\ todo = {}
    /\ IF InventoryStable
       THEN /\ phase' = "verify" /\ todo' = {f \in Files : observed[f] # 0}
            /\ UNCHANGED <<loopVars, scanVars>>
       ELSE RetryScan
    /\ UNCHANGED <<worktreeVars, snap, epoch, gate, barrierVars>>

(* Faulty: an identity that changed is not noticed.                           *)
IdentityAssumedUnchanged(f) == TRUE

IdentityUnchanged(f) == disk[f] = observed[f]

VerifyFile(f) ==
    /\ phase = "verify" /\ f \in todo /\ OperationOk
    /\ IF IdentityUnchanged(f)
       THEN /\ todo' = todo \ {f}
            /\ UNCHANGED <<phase, loopVars, scanVars>>
       ELSE RetryScan
    /\ UNCHANGED <<worktreeVars, snap, epoch, gate, barrierVars>>

EndScan ==
    /\ phase = "verify" /\ todo = {}
    /\ IF scanEpoch = epoch
       THEN phase' = "diff" /\ UNCHANGED <<todo, loopVars, scanVars>>
       ELSE RetryScan
    /\ UNCHANGED <<worktreeVars, snap, epoch, gate, barrierVars>>

(* A git subprocess or a read fails, or a body changes while it is read.      *)
ScanError ==
    /\ phase \in {"inventory", "read", "verify_inventory"} /\ todo # {}
    /\ RetryScan
    /\ UNCHANGED <<worktreeVars, snap, epoch, gate, barrierVars>>

-----------------------------------------------------------------------------
(* reconcile after the scan: the layers are composed, and under the gate they *)
(* are verified and published.                                                *)

(* diff_for_graph resolves HEAD, lists the changes against that commit, and    *)
(* fails unless HEAD names it still: `base` is HEAD at the instant it ends.   *)
Diff ==
    /\ phase = "diff" /\ OperationOk
    /\ base' = head
    /\ phase' = "compose"
    /\ UNCHANGED <<worktreeVars, snap, epoch, gate, barrierVars, todo, loopVars, scanEpoch,
                   inventory, verified, observed, body, covered, built, asof, missing, heads>>

(* The commit index is built again only for another commit than the published *)
(* one, and of the commit of the diff, wherever HEAD is by now.               *)
BuildCommit ==
    /\ phase = "compose"
    /\ built' = IF CommitChanged THEN base ELSE 0
    /\ phase' = "gate"
    /\ UNCHANGED <<worktreeVars, snap, epoch, gate, barrierVars, todo, loopVars, scanEpoch,
                   inventory, verified, observed, body, covered, base, asof, missing, heads>>

(* diff_for_graph, or the construction of the commit index, fails.            *)
ComposeError ==
    /\ phase = "diff" \/ (phase = "compose" /\ CommitChanged)
    /\ OperationOk
    /\ RetryReconcile
    /\ UNCHANGED <<worktreeVars, snap, epoch, gate, barrierVars>>

(* Faulty: the epoch is not compared again under the gate.                    *)
EpochAssumedUnmoved == TRUE

EpochUnmoved == scanEpoch = epoch

(* The guard of the publication gate lives until the iteration ends.          *)
TakeGate ==
    /\ phase = "gate" /\ gate = "free"
    /\ IF EpochUnmoved
       THEN /\ gate' = "worker" /\ phase' = "layers" /\ heads' = {head}
            /\ UNCHANGED <<todo, loopVars, scanEpoch, inventory, verified, observed, body,
                           covered, base, built, asof, missing>>
       ELSE RetryReconcile /\ UNCHANGED gate
    /\ UNCHANGED <<worktreeVars, snap, epoch, barrierVars>>

(* Faulty: the second diff is left out.                                       *)
HeadAssumedUnmoved == TRUE

(* The second diff, under the gate, equals the first.                         *)
LayersVerified == head = base

VerifyLayers ==
    /\ phase = "layers" /\ OperationOk
    /\ LayersVerified
    /\ phase' = "publish"
    /\ UNCHANGED <<worktreeVars, snap, epoch, gate, barrierVars, todo, loopVars, scanVars>>

(* The second diff differs, for one of its files if not for its commit, or    *)
(* fails.                                                                     *)
DiscardCandidate ==
    /\ phase = "layers" /\ OperationOk
    /\ RetryReconcile
    /\ gate' = "free"
    /\ UNCHANGED <<worktreeVars, snap, epoch, barrierVars>>

(* set_graph_layers with the commit graph that was built, or set_layers,      *)
(* which leaves the published one alone.                                      *)
PublishFresh ==
    /\ phase = "publish"
    /\ snap' = [freshness |-> "Fresh", epoch |-> scanEpoch,
                graph |-> [f \in Files |-> IF body[f] # 0 THEN body[f] ELSE missing[f]],
                skipped |-> {f \in inventory : body[f] = 0},
                unseen |-> {f \in inventory : observed[f] = 0},
                base |-> base, commit |-> IF built # 0 THEN built ELSE snap.commit]
    /\ phase' = "done" /\ gate' = "free"
    /\ UNCHANGED <<worktreeVars, epoch, barrierVars, todo, loopVars, scanVars>>

(* publish_fresh gives up after MAX_PUBLISH_ATTEMPTS conflicts with another    *)
(* publisher of the engine: an error, not another attempt.                    *)
PublishConflict ==
    /\ phase = "publish"
    /\ phase' = "failed" /\ gate' = "free"
    /\ DropScan
    /\ UNCHANGED <<worktreeVars, snap, epoch, barrierVars, todo, loopVars>>

(* Faulty: the newest waiter at completion is released, not at the scan.       *)
ReleasedNow(w, g) == target[w] # 0 /\ target[w] <= requested

(* Faulty: range(..generation) instead of range(..=generation).               *)
ReleasedBelow(w, g) == target[w] # 0 /\ target[w] < g

Released(w, g) == target[w] # 0 /\ target[w] <= g

(* BarrierShared::complete.                                                  *)
Complete(g, result) ==
    /\ outcome' = [w \in Waiters |->
                     IF Released(w, g) /\ outcome[w] = "none" THEN result ELSE outcome[w]]
    /\ completed' = IF g > completed THEN g ELSE completed
    /\ workerOp' = "none"
    /\ phase' = "idle"
    /\ DropLoops /\ DropScan
    /\ UNCHANGED <<worktreeVars, snap, epoch, gate, waiterVars, todo>>

CompleteOk == phase = "done" /\ Complete(covered, "ok")

(* mark_failed_reconciliation, outside the gate.                              *)
MarkFailed ==
    /\ phase = "failed"
    /\ snap' = [snap EXCEPT !.freshness = "Stale"]
    /\ phase' = "report"
    /\ UNCHANGED <<worktreeVars, epoch, gate, barrierVars, todo, loopVars, scanVars>>

CompleteErr == phase = "report" /\ Complete(generation, "err")

Environment == MoveHead \/ \E f \in Files : ChangeFile(f)

Callback == InvalidateMarkStale \/ InvalidateAdvanceEpoch

Queries == \E w \in Waiters : Register(w) \/ CancelWaiter(w) \/ FinishWaiter(w)

Scan ==
    \/ BeginScan \/ Cover \/ CompareInventories \/ EndScan \/ ScanError
    \/ \E f \in Files :
        InventoryFile(f) \/ ReadFile(f) \/ VerifyInventoryFile(f) \/ VerifyFile(f)

Worker ==
    \/ \E barrier \in BOOLEAN : StartReconcile(barrier)
    \/ Abandon \/ Scan \/ Diff \/ BuildCommit \/ ComposeError \/ TakeGate \/ VerifyLayers
    \/ DiscardCandidate \/ PublishFresh \/ PublishConflict \/ CompleteOk \/ MarkFailed \/ CompleteErr

Next == Environment \/ Callback \/ Queries \/ Worker

Spec == Init /\ [][Next]_vars

-----------------------------------------------------------------------------
(* Types, and that neither of the two retry loops of reconcile runs more       *)
(* often than MAX_STABLE_SCAN_ATTEMPTS.                                       *)
TypeOK ==
    /\ disk \in [Files -> Nat] /\ changes \in Nat /\ head \in Nat \ {0}
    /\ snap \in Snapshots
    /\ epoch \in Nat /\ gate \in {"free", "callback", "worker"}
    /\ requested \in Nat /\ completed \in Nat
    /\ target \in [Waiters -> Nat] /\ operation \in [Waiters -> BOOLEAN]
    /\ outcome \in [Waiters -> {"none", "ok", "err"}]
    /\ workerOp \in {"none", "live", "cancelled"}
    /\ since \in [Waiters -> [Files -> Nat]]
    /\ phase \in Phases /\ todo \in SUBSET Files
    /\ scanAttempts \in 0 .. StableScanLimit /\ attempts \in 0 .. StableScanLimit
    /\ generation \in Nat /\ cancellable \in BOOLEAN
    /\ scanEpoch \in Nat /\ covered \in Nat /\ base \in Nat /\ built \in Nat
    /\ inventory \in SUBSET Files /\ verified \in SUBSET Files
    /\ observed \in [Files -> Nat] /\ body \in [Files -> Nat]
    /\ asof \in [Files -> Nat] /\ missing \in [Files -> Nat]
    /\ heads \in SUBSET Nat

(* What is published is not torn: the files of the graph, read one after       *)
(* another while the worktree was changing, all have the version they had at  *)
(* one instant, and a file it lacks was absent after that instant or skipped. *)
SnapshotNotTorn ==
    phase = "done" =>
        \A f \in Files \ snap.skipped :
            \/ Present(snap.graph[f]) /\ snap.graph[f] = asof[f]
            \/ ~Present(snap.graph[f]) /\ snap.graph[f] >= asof[f]

(* require_fresh that reports Ok: the published graph reflects every change    *)
(* of every file made before the call, except for a file the scan skipped.    *)
WaiterSeesEarlierChanges ==
    \A w \in Waiters : outcome[w] = "ok" =>
        \A f \in Files \ snap.skipped : snap.graph[f] >= since[w][f]

(* invalidate_for_event: "an observed epoch can never coexist with an older    *)
(* graph still labeled Fresh".                                               *)
FreshCoversEpoch == snap.freshness = "Fresh" => snap.epoch = epoch

(* A waiter whose generation is completed has its outcome.  The worker takes   *)
(* `completed` for "no demand", so one without would wait until its deadline. *)
NoStrandedWaiter ==
    \A w \in Waiters : target[w] # 0 /\ target[w] <= completed => outcome[w] # "none"

(* The commit graph and the overlay description in one snapshot always speak  *)
(* of the same commit, and that commit is one HEAD named while the worker     *)
(* had the gate, however HEAD moves while reconcile composes them.            *)
LayersMatchCommit ==
    /\ snap.commit = snap.base
    /\ phase = "done" => snap.base \in heads

-----------------------------------------------------------------------------
(* Strengthenings under which the properties above are inductive.             *)

(* Both retry loops stop in time.                                            *)
LoopInv ==
    phase \notin {"failed", "report"} =>
        scanAttempts < StableScanLimit /\ attempts < StableScanLimit

(* Generations are handed out in order, and outcomes only to registered       *)
(* waiters.                                                                   *)
BarrierInv ==
    /\ completed <= requested /\ covered <= requested /\ generation <= requested
    /\ \A w \in Waiters : target[w] <= requested
    /\ \A w \in Waiters : outcome[w] # "none" => target[w] # 0
    /\ NoStrandedWaiter

UnderGate == phase \in {"layers", "publish"}

(* Freshness is revoked while the callback holds the gate; no event is        *)
(* counted while the worker holds it.                                         *)
EpochInv ==
    /\ FreshCoversEpoch
    /\ gate = "callback" => snap.freshness = "Stale"
    /\ gate = "worker" <=> UnderGate
    /\ UnderGate => scanEpoch = epoch

(* What was built, or kept, is the commit of the diff; what the second diff   *)
(* saw under the gate is a commit HEAD named there.                           *)
LayersInv ==
    /\ gate = "worker" <=> UnderGate
    /\ phase \in {"gate", "layers", "publish"} =>
          IF built # 0 THEN built = base ELSE base = snap.base
    /\ phase \in {"compose", "gate", "layers", "publish"} => base # 0
    /\ phase = "layers" => head \in heads
    /\ phase = "publish" => base \in heads
    /\ LayersMatchCommit

AfterCover == phase \in {"verify_inventory", "verify", "diff", "compose", "gate", "layers",
                        "publish", "done"}
AfterVerify == phase \in {"diff", "compose", "gate", "layers", "publish", "done"}

(* What the passes of a scan establish about the instant `asof`.              *)
ScanInv ==
    /\ phase \in {"idle", "scan", "inventory"} => observed = Absent /\ body = Absent
    /\ phase = "read" => todo \subseteq inventory /\ \A f \in todo : body[f] = 0
    /\ \A f \in Files :
        /\ body[f] # 0 => body[f] = observed[f]
        /\ observed[f] # 0 => f \in inventory /\ Present(observed[f])
        /\ observed[f] <= disk[f]
        /\ AfterCover => /\ observed[f] <= asof[f]
                         /\ asof[f] <= disk[f]
        /\ phase = "verify_inventory" /\ f \notin todo /\ f \notin verified
              => ~Present(missing[f]) /\ missing[f] >= asof[f]
        /\ (phase = "verify" \/ AfterVerify) /\ f \notin inventory
              => ~Present(missing[f]) /\ missing[f] >= asof[f]
        /\ phase = "verify" /\ f \notin todo /\ observed[f] # 0 => observed[f] = asof[f]
        /\ AfterVerify /\ observed[f] # 0 => observed[f] = asof[f]
    /\ SnapshotNotTorn

(* Who registered before `covered` was read registered before `asof`.         *)
WaiterInv ==
    /\ \A w \in Waiters : \A f \in Files : since[w][f] <= disk[f]
    /\ AfterCover => \A w \in Waiters :
          (target[w] # 0 /\ target[w] <= covered) \/ outcome[w] = "ok"
              => \A f \in Files : since[w][f] <= asof[f]
    /\ WaiterSeesEarlierChanges

(* The comment in reconcile: RequireFresh "still verifies the complete Git     *)
(* inventory and every file identity".  So only a file whose identity was     *)
(* verified, and whose body could not be read, may be missing from the graph. *)
WaiterSeesEveryEarlierChange ==
    \A w \in Waiters : outcome[w] = "ok" =>
        \A f \in Files \ (snap.skipped \ snap.unseen) : snap.graph[f] >= since[w][f]
=============================================================================
