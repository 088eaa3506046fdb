-------------------------- MODULE LiveIndexProofs --------------------------
(***************************************************************************)
(* Proofs about LiveIndex for any sets of files and waiters and any bounds. *)
(* LiveInv is inductive; each of its parts has one lemma with one step per  *)
(* action.  The heart of the argument is ScanInv: a file observed before    *)
(* the instant `asof` and verified unchanged after it had that version at   *)
(* the instant, because versions only grow; WaiterInv adds that a waiter    *)
(* the reconciliation will release had registered by then.                  *)
(***************************************************************************)
EXTENDS LiveIndex, TLAPS

(* A failed attempt of stable_scan drops its locals and counts itself.         *)
LEMMA RetryScanTypes ==
    ASSUME TypeOK, scanAttempts < StableScanLimit, RetryScan,
           UNCHANGED <<worktreeVars, snap, epoch, gate, barrierVars>>
    PROVE  TypeOK'
<1>1. /\ scanEpoch' \in Nat /\ covered' \in Nat /\ base' \in Nat
      /\ built' \in Nat /\ heads' \in SUBSET Nat
      /\ inventory' \in SUBSET Files /\ verified' \in SUBSET Files
      /\ observed' \in [Files -> Nat] /\ body' \in [Files -> Nat]
      /\ asof' \in [Files -> Nat] /\ missing' \in [Files -> Nat]
  BY DEF RetryScan, DropScan, Absent
<1>2. /\ scanAttempts' \in 0 .. StableScanLimit /\ attempts' \in 0 .. StableScanLimit
      /\ generation' \in Nat /\ phase' \in Phases /\ todo' \in SUBSET Files
  BY LiveIndexAssumption DEF RetryScan, TypeOK, Phases
<1>3. cancellable' \in BOOLEAN
  BY Zenon DEF RetryScan, TypeOK
<1> QED
  BY <1>1, <1>2, <1>3 DEF TypeOK, worktreeVars, barrierVars

(* Every action keeps the types; the loops' bound keeps the attempt counters.   *)
LEMMA TypeStep ==
    ASSUME TypeOK, LoopInv, Next
    PROVE  TypeOK'
<1> USE LiveIndexAssumption DEF worktreeVars, waiterVars, barrierVars, loopVars, scanVars, Absent
<1>1. ASSUME NEW f \in Files, ChangeFile(f) PROVE TypeOK'
  BY <1>1 DEF ChangeFile, TypeOK, LoopInv, Snapshots, Phases
<1>2. ASSUME MoveHead PROVE TypeOK'
  BY <1>2 DEF MoveHead, TypeOK, LoopInv, Snapshots, Phases
<1>3. ASSUME InvalidateMarkStale PROVE TypeOK'
  BY <1>3 DEF InvalidateMarkStale, TypeOK, LoopInv, Snapshots, Phases
<1>4. ASSUME InvalidateAdvanceEpoch PROVE TypeOK'
  BY <1>4 DEF InvalidateAdvanceEpoch, TypeOK, LoopInv, Snapshots, Phases
<1>5. ASSUME NEW w \in Waiters, Register(w) PROVE TypeOK'
  BY <1>5 DEF Register, TypeOK, LoopInv, Snapshots, Phases
<1>6. ASSUME NEW w \in Waiters, CancelWaiter(w) PROVE TypeOK'
  BY <1>6 DEF CancelWaiter, TypeOK, LoopInv, Snapshots, Phases
<1>7. ASSUME NEW w \in Waiters, FinishWaiter(w) PROVE TypeOK'
  BY <1>7 DEF FinishWaiter, TypeOK, LoopInv, Snapshots, Phases
<1>8. ASSUME NEW barrier \in BOOLEAN, StartReconcile(barrier) PROVE TypeOK'
  BY <1>8 DEF StartReconcile, TypeOK, LoopInv, Snapshots, Phases
<1>9. ASSUME Abandon PROVE TypeOK'
  <2>0. cancellable' \in BOOLEAN
    BY <1>9, Zenon DEF Abandon, DropLoops
  <2>1. /\ scanAttempts' \in 0 .. StableScanLimit /\ attempts' \in 0 .. StableScanLimit
        /\ generation' \in Nat
    BY <1>9 DEF Abandon, DropLoops
  <2>2. /\ scanEpoch' \in Nat /\ covered' \in Nat /\ base' \in Nat
        /\ built' \in Nat /\ heads' \in SUBSET Nat
        /\ inventory' \in SUBSET Files /\ verified' \in SUBSET Files
        /\ observed' \in [Files -> Nat] /\ body' \in [Files -> Nat]
        /\ asof' \in [Files -> Nat] /\ missing' \in [Files -> Nat]
    BY <1>9 DEF Abandon, DropScan
  <2>3. /\ completed' \in Nat /\ outcome' \in [Waiters -> {"none", "ok", "err"}]
        /\ workerOp' = "none" /\ phase' = "idle" /\ todo' \in SUBSET Files
        /\ UNCHANGED <<disk, changes, head, snap, epoch, requested, target, operation, since>>
        /\ gate' \in {"free", "callback", "worker"}
    BY <1>9 DEF Abandon, TypeOK
  <2> QED
    BY <2>0, <2>1, <2>2, <2>3 DEF TypeOK, Phases
<1>10. ASSUME BeginScan PROVE TypeOK'
  BY <1>10 DEF BeginScan, TypeOK, LoopInv, Snapshots, Phases
<1>11. ASSUME NEW f \in Files, InventoryFile(f) PROVE TypeOK'
  BY <1>11 DEF InventoryFile, TypeOK, LoopInv, Snapshots, Phases
<1>12. ASSUME NEW f \in Files, ReadFile(f) PROVE TypeOK'
  BY <1>12 DEF ReadFile, TypeOK, LoopInv, Snapshots, Phases
<1>13. ASSUME Cover PROVE TypeOK'
  BY <1>13 DEF Cover, TypeOK, LoopInv, Snapshots, Phases
<1>14. ASSUME NEW f \in Files, VerifyInventoryFile(f) PROVE TypeOK'
  BY <1>14 DEF VerifyInventoryFile, TypeOK, LoopInv, Snapshots, Phases
<1>15. ASSUME CompareInventories PROVE TypeOK'
  <2>1. CASE InventoryStable
    BY <1>15, <2>1 DEF CompareInventories, TypeOK, Phases
  <2>2. CASE ~InventoryStable
    BY <1>15, <2>2, RetryScanTypes DEF CompareInventories, LoopInv
  <2> QED
    BY <2>1, <2>2
<1>16. ASSUME NEW f \in Files, VerifyFile(f) PROVE TypeOK'
  <2>1. CASE IdentityUnchanged(f)
    BY <1>16, <2>1 DEF VerifyFile, TypeOK, Phases
  <2>2. CASE ~IdentityUnchanged(f)
    BY <1>16, <2>2, RetryScanTypes DEF VerifyFile, LoopInv
  <2> QED
    BY <2>1, <2>2
<1>17. ASSUME EndScan PROVE TypeOK'
  <2>1. CASE scanEpoch = epoch
    BY <1>17, <2>1 DEF EndScan, TypeOK, Phases
  <2>2. CASE scanEpoch # epoch
    BY <1>17, <2>2, RetryScanTypes DEF EndScan, LoopInv
  <2> QED
    BY <2>1, <2>2
<1>18. ASSUME ScanError PROVE TypeOK'
  BY <1>18, RetryScanTypes DEF ScanError, LoopInv
<1>19. ASSUME Diff PROVE TypeOK'
  BY <1>19 DEF Diff, TypeOK, LoopInv, Snapshots, Phases
<1>20. ASSUME ComposeError PROVE TypeOK'
  BY <1>20 DEF ComposeError, RetryReconcile, DropScan, TypeOK, LoopInv, Snapshots, Phases
<1>21. ASSUME PublishFresh PROVE TypeOK'
  BY <1>21 DEF PublishFresh, TypeOK, Snapshots, Phases
<1>22. ASSUME DiscardCandidate PROVE TypeOK'
  BY <1>22 DEF DiscardCandidate, RetryReconcile, DropScan, TypeOK, LoopInv, Snapshots, Phases
<1>23. ASSUME CompleteOk PROVE TypeOK'
  <2>0. cancellable' \in BOOLEAN
    BY <1>23, Zenon DEF CompleteOk, Complete, DropLoops
  <2>1. /\ scanAttempts' \in 0 .. StableScanLimit /\ attempts' \in 0 .. StableScanLimit
        /\ generation' \in Nat
    BY <1>23 DEF CompleteOk, Complete, DropLoops
  <2>2. /\ scanEpoch' \in Nat /\ covered' \in Nat /\ base' \in Nat
        /\ built' \in Nat /\ heads' \in SUBSET Nat
        /\ inventory' \in SUBSET Files /\ verified' \in SUBSET Files
        /\ observed' \in [Files -> Nat] /\ body' \in [Files -> Nat]
        /\ asof' \in [Files -> Nat] /\ missing' \in [Files -> Nat]
    BY <1>23 DEF CompleteOk, Complete, DropScan
  <2>3. /\ completed' \in Nat /\ outcome' \in [Waiters -> {"none", "ok", "err"}]
        /\ workerOp' = "none" /\ phase' = "idle" /\ todo' \in SUBSET Files
        /\ UNCHANGED <<disk, changes, head, snap, epoch, gate, requested, target, operation, since>>
    BY <1>23 DEF CompleteOk, Complete, TypeOK
  <2> QED
    BY <2>0, <2>1, <2>2, <2>3 DEF TypeOK, Phases
<1>24. ASSUME MarkFailed PROVE TypeOK'
  BY <1>24 DEF MarkFailed, TypeOK, LoopInv, Snapshots, Phases
<1>25. ASSUME CompleteErr PROVE TypeOK'
  <2>0. cancellable' \in BOOLEAN
    BY <1>25, Zenon DEF CompleteErr, Complete, DropLoops
  <2>1. /\ scanAttempts' \in 0 .. StableScanLimit /\ attempts' \in 0 .. StableScanLimit
        /\ generation' \in Nat
    BY <1>25 DEF CompleteErr, Complete, DropLoops
  <2>2. /\ scanEpoch' \in Nat /\ covered' \in Nat /\ base' \in Nat
        /\ built' \in Nat /\ heads' \in SUBSET Nat
        /\ inventory' \in SUBSET Files /\ verified' \in SUBSET Files
        /\ observed' \in [Files -> Nat] /\ body' \in [Files -> Nat]
        /\ asof' \in [Files -> Nat] /\ missing' \in [Files -> Nat]
    BY <1>25 DEF CompleteErr, Complete, DropScan
  <2>3. /\ completed' \in Nat /\ outcome' \in [Waiters -> {"none", "ok", "err"}]
        /\ workerOp' = "none" /\ phase' = "idle" /\ todo' \in SUBSET Files
        /\ UNCHANGED <<disk, changes, head, snap, epoch, gate, requested, target, operation, since>>
    BY <1>25 DEF CompleteErr, Complete, TypeOK
  <2> QED
    BY <2>0, <2>1, <2>2, <2>3 DEF TypeOK, Phases
<1>26. ASSUME PublishConflict PROVE TypeOK'
  BY <1>26 DEF PublishConflict, DropScan, TypeOK, LoopInv, Snapshots, Phases
<1>27. ASSUME BuildCommit PROVE TypeOK'
  BY <1>27 DEF BuildCommit, CommitChanged, TypeOK, LoopInv, Snapshots, Phases
<1>28. ASSUME TakeGate PROVE TypeOK'
  BY <1>28 DEF TakeGate, EpochUnmoved, RetryReconcile, DropScan, TypeOK, LoopInv, Snapshots, Phases
<1>29. ASSUME VerifyLayers PROVE TypeOK'
  BY <1>29 DEF VerifyLayers, LayersVerified, TypeOK, LoopInv, Snapshots, Phases
<1> QED
  BY <1>1, <1>2, <1>3, <1>4, <1>5, <1>6, <1>7, <1>8, <1>9, <1>10, <1>11, <1>12, <1>13, <1>14, <1>15, <1>16, <1>17, <1>18, <1>19, <1>20, <1>21, <1>22, <1>23, <1>24, <1>25, <1>26,
     <1>27, <1>28, <1>29
     DEF Next, Environment, Callback, Queries, Worker, Scan

(* An attempt is only retried while attempts remain.                         *)
LEMMA LoopStep ==
    ASSUME TypeOK, LoopInv, Next
    PROVE  LoopInv'
<1> USE LiveIndexAssumption DEF worktreeVars, waiterVars, barrierVars, loopVars, scanVars, Absent
<1>1. ASSUME NEW f \in Files, ChangeFile(f) PROVE LoopInv'
  BY <1>1 DEF ChangeFile, TypeOK, LoopInv
<1>2. ASSUME MoveHead PROVE LoopInv'
  BY <1>2 DEF MoveHead, TypeOK, LoopInv
<1>3. ASSUME InvalidateMarkStale PROVE LoopInv'
  BY <1>3 DEF InvalidateMarkStale, TypeOK, LoopInv
<1>4. ASSUME InvalidateAdvanceEpoch PROVE LoopInv'
  BY <1>4 DEF InvalidateAdvanceEpoch, TypeOK, LoopInv
<1>5. ASSUME NEW w \in Waiters, Register(w) PROVE LoopInv'
  BY <1>5 DEF Register, TypeOK, LoopInv
<1>6. ASSUME NEW w \in Waiters, CancelWaiter(w) PROVE LoopInv'
  BY <1>6 DEF CancelWaiter, TypeOK, LoopInv
<1>7. ASSUME NEW w \in Waiters, FinishWaiter(w) PROVE LoopInv'
  BY <1>7 DEF FinishWaiter, TypeOK, LoopInv
<1>8. ASSUME NEW barrier \in BOOLEAN, StartReconcile(barrier) PROVE LoopInv'
  BY <1>8 DEF StartReconcile, TypeOK, LoopInv
<1>9. ASSUME Abandon PROVE LoopInv'
  BY <1>9 DEF Abandon, DropLoops, DropScan, TypeOK, LoopInv
<1>10. ASSUME BeginScan PROVE LoopInv'
  BY <1>10 DEF BeginScan, TypeOK, LoopInv
<1>11. ASSUME NEW f \in Files, InventoryFile(f) PROVE LoopInv'
  BY <1>11 DEF InventoryFile, TypeOK, LoopInv
<1>12. ASSUME NEW f \in Files, ReadFile(f) PROVE LoopInv'
  BY <1>12 DEF ReadFile, TypeOK, LoopInv
<1>13. ASSUME Cover PROVE LoopInv'
  BY <1>13 DEF Cover, TypeOK, LoopInv
<1>14. ASSUME NEW f \in Files, VerifyInventoryFile(f) PROVE LoopInv'
  BY <1>14 DEF VerifyInventoryFile, TypeOK, LoopInv
<1>15. ASSUME CompareInventories PROVE LoopInv'
  BY <1>15 DEF CompareInventories, InventoryStable, RetryScan, DropScan, TypeOK, LoopInv
<1>16. ASSUME NEW f \in Files, VerifyFile(f) PROVE LoopInv'
  BY <1>16 DEF VerifyFile, IdentityUnchanged, RetryScan, DropScan, TypeOK, LoopInv
<1>17. ASSUME EndScan PROVE LoopInv'
  BY <1>17 DEF EndScan, RetryScan, DropScan, TypeOK, LoopInv
<1>18. ASSUME ScanError PROVE LoopInv'
  BY <1>18 DEF ScanError, RetryScan, DropScan, TypeOK, LoopInv
<1>19. ASSUME Diff PROVE LoopInv'
  BY <1>19 DEF Diff, TypeOK, LoopInv
<1>20. ASSUME ComposeError PROVE LoopInv'
  BY <1>20 DEF ComposeError, RetryReconcile, DropScan, TypeOK, LoopInv
<1>21. ASSUME PublishFresh PROVE LoopInv'
  BY <1>21 DEF PublishFresh, EpochUnmoved, TypeOK, LoopInv
<1>22. ASSUME DiscardCandidate PROVE LoopInv'
  BY <1>22 DEF DiscardCandidate, RetryReconcile, DropScan, TypeOK, LoopInv
<1>23. ASSUME CompleteOk PROVE LoopInv'
  BY <1>23 DEF CompleteOk, Complete, Released, DropLoops, DropScan, TypeOK, LoopInv
<1>24. ASSUME MarkFailed PROVE LoopInv'
  BY <1>24 DEF MarkFailed, TypeOK, LoopInv
<1>25. ASSUME CompleteErr PROVE LoopInv'
  BY <1>25 DEF CompleteErr, Complete, Released, DropLoops, DropScan, TypeOK, LoopInv
<1>26. ASSUME PublishConflict PROVE LoopInv'
  BY <1>26 DEF PublishConflict, DropScan, TypeOK, LoopInv
<1>27. ASSUME BuildCommit PROVE LoopInv'
  BY <1>27 DEF BuildCommit, CommitChanged, TypeOK, LoopInv
<1>28. ASSUME TakeGate PROVE LoopInv'
  BY <1>28 DEF TakeGate, EpochUnmoved, RetryReconcile, DropScan, TypeOK, LoopInv
<1>29. ASSUME VerifyLayers PROVE LoopInv'
  BY <1>29 DEF VerifyLayers, LayersVerified, TypeOK, LoopInv
<1> QED
  BY <1>1, <1>2, <1>3, <1>4, <1>5, <1>6, <1>7, <1>8, <1>9, <1>10, <1>11, <1>12, <1>13, <1>14, <1>15, <1>16, <1>17, <1>18, <1>19, <1>20, <1>21, <1>22, <1>23, <1>24, <1>25, <1>26,
     <1>27, <1>28, <1>29
     DEF Next, Environment, Callback, Queries, Worker, Scan

(* complete() answers everyone it counts as completed; later keys are larger.  *)
LEMMA BarrierStep ==
    ASSUME TypeOK, BarrierInv, Next
    PROVE  BarrierInv'
<1> USE DEF worktreeVars, waiterVars, barrierVars, loopVars, scanVars, Absent
<1>1. ASSUME NEW f \in Files, ChangeFile(f) PROVE BarrierInv'
  BY <1>1 DEF ChangeFile, TypeOK, BarrierInv, NoStrandedWaiter, IsPendingGeneration
<1>2. ASSUME MoveHead PROVE BarrierInv'
  BY <1>2 DEF MoveHead, TypeOK, BarrierInv, NoStrandedWaiter, IsPendingGeneration
<1>3. ASSUME InvalidateMarkStale PROVE BarrierInv'
  BY <1>3 DEF InvalidateMarkStale, TypeOK, BarrierInv, NoStrandedWaiter, IsPendingGeneration
<1>4. ASSUME InvalidateAdvanceEpoch PROVE BarrierInv'
  BY <1>4 DEF InvalidateAdvanceEpoch, TypeOK, BarrierInv, NoStrandedWaiter, IsPendingGeneration
<1>5. ASSUME NEW w \in Waiters, Register(w) PROVE BarrierInv'
  BY <1>5 DEF Register, TypeOK, BarrierInv, NoStrandedWaiter, IsPendingGeneration
<1>6. ASSUME NEW w \in Waiters, CancelWaiter(w) PROVE BarrierInv'
  BY <1>6 DEF CancelWaiter, TypeOK, BarrierInv, NoStrandedWaiter, IsPendingGeneration
<1>7. ASSUME NEW w \in Waiters, FinishWaiter(w) PROVE BarrierInv'
  BY <1>7 DEF FinishWaiter, TypeOK, BarrierInv, NoStrandedWaiter, IsPendingGeneration
<1>8. ASSUME NEW barrier \in BOOLEAN, StartReconcile(barrier) PROVE BarrierInv'
  BY <1>8 DEF StartReconcile, TypeOK, BarrierInv, NoStrandedWaiter, IsPendingGeneration
<1>9. ASSUME Abandon PROVE BarrierInv'
  BY <1>9 DEF Abandon, DropLoops, DropScan, TypeOK, BarrierInv, NoStrandedWaiter, IsPendingGeneration
<1>10. ASSUME BeginScan PROVE BarrierInv'
  BY <1>10 DEF BeginScan, TypeOK, BarrierInv, NoStrandedWaiter, IsPendingGeneration
<1>11. ASSUME NEW f \in Files, InventoryFile(f) PROVE BarrierInv'
  BY <1>11 DEF InventoryFile, TypeOK, BarrierInv, NoStrandedWaiter, IsPendingGeneration
<1>12. ASSUME NEW f \in Files, ReadFile(f) PROVE BarrierInv'
  BY <1>12 DEF ReadFile, TypeOK, BarrierInv, NoStrandedWaiter, IsPendingGeneration
<1>13. ASSUME Cover PROVE BarrierInv'
  BY <1>13 DEF Cover, TypeOK, BarrierInv, NoStrandedWaiter, IsPendingGeneration
<1>14. ASSUME NEW f \in Files, VerifyInventoryFile(f) PROVE BarrierInv'
  BY <1>14 DEF VerifyInventoryFile, TypeOK, BarrierInv, NoStrandedWaiter, IsPendingGeneration
<1>15. ASSUME CompareInventories PROVE BarrierInv'
  BY <1>15 DEF CompareInventories, InventoryStable, RetryScan, DropScan, TypeOK, BarrierInv, NoStrandedWaiter, IsPendingGeneration
<1>16. ASSUME NEW f \in Files, VerifyFile(f) PROVE BarrierInv'
  BY <1>16 DEF VerifyFile, IdentityUnchanged, RetryScan, DropScan, TypeOK, BarrierInv, NoStrandedWaiter, IsPendingGeneration
<1>17. ASSUME EndScan PROVE BarrierInv'
  BY <1>17 DEF EndScan, RetryScan, DropScan, TypeOK, BarrierInv, NoStrandedWaiter, IsPendingGeneration
<1>18. ASSUME ScanError PROVE BarrierInv'
  BY <1>18 DEF ScanError, RetryScan, DropScan, TypeOK, BarrierInv, NoStrandedWaiter, IsPendingGeneration
<1>19. ASSUME Diff PROVE BarrierInv'
  BY <1>19 DEF Diff, TypeOK, BarrierInv, NoStrandedWaiter, IsPendingGeneration
<1>20. ASSUME ComposeError PROVE BarrierInv'
  BY <1>20 DEF ComposeError, RetryReconcile, DropScan, TypeOK, BarrierInv, NoStrandedWaiter, IsPendingGeneration
<1>21. ASSUME PublishFresh PROVE BarrierInv'
  BY <1>21 DEF PublishFresh, EpochUnmoved, TypeOK, BarrierInv, NoStrandedWaiter, IsPendingGeneration
<1>22. ASSUME DiscardCandidate PROVE BarrierInv'
  BY <1>22 DEF DiscardCandidate, RetryReconcile, DropScan, TypeOK, BarrierInv, NoStrandedWaiter, IsPendingGeneration
<1>23. ASSUME CompleteOk PROVE BarrierInv'
  BY <1>23 DEF CompleteOk, Complete, Released, DropLoops, DropScan, TypeOK, BarrierInv, NoStrandedWaiter, IsPendingGeneration
<1>24. ASSUME MarkFailed PROVE BarrierInv'
  BY <1>24 DEF MarkFailed, TypeOK, BarrierInv, NoStrandedWaiter, IsPendingGeneration
<1>25. ASSUME CompleteErr PROVE BarrierInv'
  BY <1>25 DEF CompleteErr, Complete, Released, DropLoops, DropScan, TypeOK, BarrierInv, NoStrandedWaiter, IsPendingGeneration
<1>26. ASSUME PublishConflict PROVE BarrierInv'
  BY <1>26 DEF PublishConflict, DropScan, TypeOK, BarrierInv, NoStrandedWaiter, IsPendingGeneration
<1>27. ASSUME BuildCommit PROVE BarrierInv'
  BY <1>27 DEF BuildCommit, CommitChanged, TypeOK, BarrierInv, NoStrandedWaiter, IsPendingGeneration
<1>28. ASSUME TakeGate PROVE BarrierInv'
  BY <1>28 DEF TakeGate, EpochUnmoved, RetryReconcile, DropScan, TypeOK, BarrierInv, NoStrandedWaiter, IsPendingGeneration
<1>29. ASSUME VerifyLayers PROVE BarrierInv'
  BY <1>29 DEF VerifyLayers, LayersVerified, TypeOK, BarrierInv, NoStrandedWaiter, IsPendingGeneration
<1> QED
  BY <1>1, <1>2, <1>3, <1>4, <1>5, <1>6, <1>7, <1>8, <1>9, <1>10, <1>11, <1>12, <1>13, <1>14, <1>15, <1>16, <1>17, <1>18, <1>19, <1>20, <1>21, <1>22, <1>23, <1>24, <1>25, <1>26,
     <1>27, <1>28, <1>29
     DEF Next, Environment, Callback, Queries, Worker, Scan

(* The gate orders every event before or after a fresh publication.           *)
LEMMA EpochStep ==
    ASSUME TypeOK, EpochInv, Next
    PROVE  EpochInv'
<1> USE DEF worktreeVars, waiterVars, barrierVars, loopVars, scanVars, Absent
<1>1. ASSUME NEW f \in Files, ChangeFile(f) PROVE EpochInv'
  BY <1>1 DEF ChangeFile, TypeOK, Snapshots, EpochInv, UnderGate, FreshCoversEpoch
<1>2. ASSUME MoveHead PROVE EpochInv'
  BY <1>2 DEF MoveHead, TypeOK, Snapshots, EpochInv, UnderGate, FreshCoversEpoch
<1>3. ASSUME InvalidateMarkStale PROVE EpochInv'
  BY <1>3 DEF InvalidateMarkStale, TypeOK, Snapshots, EpochInv, UnderGate, FreshCoversEpoch
<1>4. ASSUME InvalidateAdvanceEpoch PROVE EpochInv'
  BY <1>4 DEF InvalidateAdvanceEpoch, TypeOK, Snapshots, EpochInv, UnderGate, FreshCoversEpoch
<1>5. ASSUME NEW w \in Waiters, Register(w) PROVE EpochInv'
  BY <1>5 DEF Register, TypeOK, Snapshots, EpochInv, UnderGate, FreshCoversEpoch
<1>6. ASSUME NEW w \in Waiters, CancelWaiter(w) PROVE EpochInv'
  BY <1>6 DEF CancelWaiter, TypeOK, Snapshots, EpochInv, UnderGate, FreshCoversEpoch
<1>7. ASSUME NEW w \in Waiters, FinishWaiter(w) PROVE EpochInv'
  BY <1>7 DEF FinishWaiter, TypeOK, Snapshots, EpochInv, UnderGate, FreshCoversEpoch
<1>8. ASSUME NEW barrier \in BOOLEAN, StartReconcile(barrier) PROVE EpochInv'
  BY <1>8 DEF StartReconcile, TypeOK, Snapshots, EpochInv, UnderGate, FreshCoversEpoch
<1>9. ASSUME Abandon PROVE EpochInv'
  BY <1>9 DEF Abandon, DropLoops, DropScan, TypeOK, Snapshots, EpochInv, UnderGate, FreshCoversEpoch
<1>10. ASSUME BeginScan PROVE EpochInv'
  BY <1>10 DEF BeginScan, TypeOK, Snapshots, EpochInv, UnderGate, FreshCoversEpoch
<1>11. ASSUME NEW f \in Files, InventoryFile(f) PROVE EpochInv'
  BY <1>11 DEF InventoryFile, TypeOK, Snapshots, EpochInv, UnderGate, FreshCoversEpoch
<1>12. ASSUME NEW f \in Files, ReadFile(f) PROVE EpochInv'
  BY <1>12 DEF ReadFile, TypeOK, Snapshots, EpochInv, UnderGate, FreshCoversEpoch
<1>13. ASSUME Cover PROVE EpochInv'
  BY <1>13 DEF Cover, TypeOK, Snapshots, EpochInv, UnderGate, FreshCoversEpoch
<1>14. ASSUME NEW f \in Files, VerifyInventoryFile(f) PROVE EpochInv'
  BY <1>14 DEF VerifyInventoryFile, TypeOK, Snapshots, EpochInv, UnderGate, FreshCoversEpoch
<1>15. ASSUME CompareInventories PROVE EpochInv'
  BY <1>15 DEF CompareInventories, InventoryStable, RetryScan, DropScan, TypeOK, Snapshots, EpochInv, UnderGate, FreshCoversEpoch
<1>16. ASSUME NEW f \in Files, VerifyFile(f) PROVE EpochInv'
  BY <1>16 DEF VerifyFile, IdentityUnchanged, RetryScan, DropScan, TypeOK, Snapshots, EpochInv, UnderGate, FreshCoversEpoch
<1>17. ASSUME EndScan PROVE EpochInv'
  BY <1>17 DEF EndScan, RetryScan, DropScan, TypeOK, Snapshots, EpochInv, UnderGate, FreshCoversEpoch
<1>18. ASSUME ScanError PROVE EpochInv'
  BY <1>18 DEF ScanError, RetryScan, DropScan, TypeOK, Snapshots, EpochInv, UnderGate, FreshCoversEpoch
<1>19. ASSUME Diff PROVE EpochInv'
  BY <1>19 DEF Diff, TypeOK, Snapshots, EpochInv, UnderGate, FreshCoversEpoch
<1>20. ASSUME ComposeError PROVE EpochInv'
  BY <1>20 DEF ComposeError, RetryReconcile, DropScan, TypeOK, Snapshots, EpochInv, UnderGate, FreshCoversEpoch
<1>21. ASSUME PublishFresh PROVE EpochInv'
  BY <1>21 DEF PublishFresh, EpochUnmoved, TypeOK, Snapshots, EpochInv, UnderGate, FreshCoversEpoch
<1>22. ASSUME DiscardCandidate PROVE EpochInv'
  BY <1>22 DEF DiscardCandidate, RetryReconcile, DropScan, TypeOK, Snapshots, EpochInv, UnderGate, FreshCoversEpoch
<1>23. ASSUME CompleteOk PROVE EpochInv'
  BY <1>23 DEF CompleteOk, Complete, Released, DropLoops, DropScan, TypeOK, Snapshots, EpochInv, UnderGate, FreshCoversEpoch
<1>24. ASSUME MarkFailed PROVE EpochInv'
  BY <1>24 DEF MarkFailed, TypeOK, Snapshots, EpochInv, UnderGate, FreshCoversEpoch
<1>25. ASSUME CompleteErr PROVE EpochInv'
  BY <1>25 DEF CompleteErr, Complete, Released, DropLoops, DropScan, TypeOK, Snapshots, EpochInv, UnderGate, FreshCoversEpoch
<1>26. ASSUME PublishConflict PROVE EpochInv'
  BY <1>26 DEF PublishConflict, DropScan, TypeOK, Snapshots, EpochInv, UnderGate, FreshCoversEpoch
<1>27. ASSUME BuildCommit PROVE EpochInv'
  BY <1>27 DEF BuildCommit, CommitChanged, TypeOK, Snapshots, EpochInv, UnderGate, FreshCoversEpoch
<1>28. ASSUME TakeGate PROVE EpochInv'
  BY <1>28 DEF TakeGate, EpochUnmoved, RetryReconcile, DropScan, TypeOK, Snapshots, EpochInv, UnderGate, FreshCoversEpoch
<1>29. ASSUME VerifyLayers PROVE EpochInv'
  BY <1>29 DEF VerifyLayers, LayersVerified, TypeOK, Snapshots, EpochInv, UnderGate, FreshCoversEpoch
<1> QED
  BY <1>1, <1>2, <1>3, <1>4, <1>5, <1>6, <1>7, <1>8, <1>9, <1>10, <1>11, <1>12, <1>13, <1>14, <1>15, <1>16, <1>17, <1>18, <1>19, <1>20, <1>21, <1>22, <1>23, <1>24, <1>25, <1>26,
     <1>27, <1>28, <1>29
     DEF Next, Environment, Callback, Queries, Worker, Scan

(* The passes of a scan pin each file's version to the instant `asof`.         *)
LEMMA ScanStep ==
    ASSUME TypeOK, TypeOK', ScanInv, Next
    PROVE  ScanInv'
<1> USE DEF worktreeVars, waiterVars, barrierVars, loopVars, scanVars, Absent
<1>1. ASSUME NEW f \in Files, ChangeFile(f) PROVE ScanInv'
  BY <1>1 DEF ChangeFile, TypeOK, Snapshots, ScanInv, AfterCover, AfterVerify, SnapshotNotTorn
<1>2. ASSUME MoveHead PROVE ScanInv'
  BY <1>2 DEF MoveHead, TypeOK, Snapshots, ScanInv, AfterCover, AfterVerify, SnapshotNotTorn
<1>3. ASSUME InvalidateMarkStale PROVE ScanInv'
  BY <1>3 DEF InvalidateMarkStale, TypeOK, Snapshots, ScanInv, AfterCover, AfterVerify, SnapshotNotTorn
<1>4. ASSUME InvalidateAdvanceEpoch PROVE ScanInv'
  BY <1>4 DEF InvalidateAdvanceEpoch, TypeOK, Snapshots, ScanInv, AfterCover, AfterVerify, SnapshotNotTorn
<1>5. ASSUME NEW w \in Waiters, Register(w) PROVE ScanInv'
  BY <1>5 DEF Register, TypeOK, Snapshots, ScanInv, AfterCover, AfterVerify, SnapshotNotTorn
<1>6. ASSUME NEW w \in Waiters, CancelWaiter(w) PROVE ScanInv'
  BY <1>6 DEF CancelWaiter, TypeOK, Snapshots, ScanInv, AfterCover, AfterVerify, SnapshotNotTorn
<1>7. ASSUME NEW w \in Waiters, FinishWaiter(w) PROVE ScanInv'
  BY <1>7 DEF FinishWaiter, TypeOK, Snapshots, ScanInv, AfterCover, AfterVerify, SnapshotNotTorn
<1>8. ASSUME NEW barrier \in BOOLEAN, StartReconcile(barrier) PROVE ScanInv'
  BY <1>8 DEF StartReconcile, TypeOK, Snapshots, ScanInv, AfterCover, AfterVerify, SnapshotNotTorn
<1>9. ASSUME Abandon PROVE ScanInv'
  BY <1>9 DEF Abandon, DropLoops, DropScan, TypeOK, Snapshots, ScanInv, AfterCover, AfterVerify, SnapshotNotTorn
<1>10. ASSUME BeginScan PROVE ScanInv'
  BY <1>10 DEF BeginScan, TypeOK, Snapshots, ScanInv, AfterCover, AfterVerify, SnapshotNotTorn
<1>11. ASSUME NEW f \in Files, InventoryFile(f) PROVE ScanInv'
  BY <1>11 DEF InventoryFile, TypeOK, Snapshots, ScanInv, AfterCover, AfterVerify, SnapshotNotTorn
<1>12. ASSUME NEW f \in Files, ReadFile(f) PROVE ScanInv'
  <2>1. /\ phase = "read" /\ phase' = "read" /\ f \in inventory /\ inventory' = inventory
        /\ todo' = todo \ {f} /\ todo \subseteq inventory /\ disk' = disk
        /\ todo \subseteq Files /\ \A g \in todo : body[g] = 0
        /\ disk[f] \in Nat
    BY <1>12 DEF ReadFile, ScanInv, TypeOK
  <2>2. \A g \in Files : g # f => observed'[g] = observed[g] /\ body'[g] = body[g]
    BY <1>12 DEF ReadFile, TypeOK
  <2>3. \/ observed'[f] = observed[f] /\ body'[f] = body[f]
        \/ /\ observed'[f] = disk[f] /\ Present(disk[f])
           /\ body'[f] \in {disk[f], body[f]}
    BY <1>12 DEF ReadFile, TypeOK
  <2>4. ASSUME NEW g \in Files
        PROVE  /\ body'[g] # 0 => body'[g] = observed'[g]
               /\ observed'[g] # 0 => g \in inventory /\ Present(observed'[g])
               /\ observed'[g] <= disk[g]
    <3>1. /\ body[g] # 0 => body[g] = observed[g]
          /\ observed[g] # 0 => g \in inventory /\ Present(observed[g])
          /\ observed[g] <= disk[g] /\ disk[g] \in Nat
      BY DEF ScanInv, TypeOK
    <3>2. CASE g # f
      BY <2>2, <3>1, <3>2
    <3>3. CASE g = f
      <4>1. body[f] = 0
        BY <1>12 DEF ReadFile, ScanInv
      <4> QED
        BY <2>1, <2>3, <3>1, <3>3, <4>1
    <3> QED
      BY <3>2, <3>3
  <2>5. todo' \subseteq inventory' /\ \A g \in todo' : body'[g] = 0
    BY <2>1, <2>2
  <2> QED
    BY <2>1, <2>4, <2>5 DEF ScanInv, AfterCover, AfterVerify, SnapshotNotTorn
<1>13. ASSUME Cover PROVE ScanInv'
  BY <1>13 DEF Cover, TypeOK, Snapshots, ScanInv, AfterCover, AfterVerify, SnapshotNotTorn
<1>14. ASSUME NEW f \in Files, VerifyInventoryFile(f) PROVE ScanInv'
  BY <1>14 DEF VerifyInventoryFile, TypeOK, Snapshots, ScanInv, AfterCover, AfterVerify, SnapshotNotTorn
<1>15. ASSUME CompareInventories PROVE ScanInv'
  BY <1>15 DEF CompareInventories, InventoryStable, RetryScan, DropScan, TypeOK, Snapshots, ScanInv, AfterCover, AfterVerify, SnapshotNotTorn
<1>16. ASSUME NEW f \in Files, VerifyFile(f) PROVE ScanInv'
  <2>1. CASE IdentityUnchanged(f)
    <3>1. /\ phase = "verify" /\ phase' = "verify" /\ todo' = todo \ {f}
          /\ disk' = disk /\ UNCHANGED scanVars /\ disk[f] = observed[f]
      BY <1>16, <2>1 DEF VerifyFile, IdentityUnchanged
    <3>2. observed[f] = asof[f]
      <4>1. observed[f] <= asof[f] /\ asof[f] <= disk[f]
        BY <3>1 DEF ScanInv, AfterCover
      <4>2. observed[f] \in Nat /\ asof[f] \in Nat
        BY DEF TypeOK
      <4> QED
        BY <3>1, <4>1, <4>2
    <3> QED
      BY <3>1, <3>2 DEF ScanInv, AfterCover, AfterVerify, SnapshotNotTorn
  <2>2. CASE ~IdentityUnchanged(f)
    BY <1>16, <2>2 DEF VerifyFile, RetryScan, DropScan, TypeOK, Snapshots, ScanInv,
       AfterCover, AfterVerify, SnapshotNotTorn
  <2> QED
    BY <2>1, <2>2
<1>17. ASSUME EndScan PROVE ScanInv'
  BY <1>17 DEF EndScan, RetryScan, DropScan, TypeOK, Snapshots, ScanInv, AfterCover, AfterVerify, SnapshotNotTorn
<1>18. ASSUME ScanError PROVE ScanInv'
  BY <1>18 DEF ScanError, RetryScan, DropScan, TypeOK, Snapshots, ScanInv, AfterCover, AfterVerify, SnapshotNotTorn
<1>19. ASSUME Diff PROVE ScanInv'
  BY <1>19 DEF Diff, TypeOK, Snapshots, ScanInv, AfterCover, AfterVerify, SnapshotNotTorn
<1>20. ASSUME ComposeError PROVE ScanInv'
  BY <1>20 DEF ComposeError, RetryReconcile, DropScan, TypeOK, Snapshots, ScanInv, AfterCover, AfterVerify, SnapshotNotTorn
<1>21. ASSUME PublishFresh PROVE ScanInv'
  BY <1>21 DEF PublishFresh, EpochUnmoved, TypeOK, Snapshots, ScanInv, AfterCover, AfterVerify, SnapshotNotTorn
<1>22. ASSUME DiscardCandidate PROVE ScanInv'
  BY <1>22 DEF DiscardCandidate, RetryReconcile, DropScan, TypeOK, Snapshots, ScanInv, AfterCover, AfterVerify, SnapshotNotTorn
<1>23. ASSUME CompleteOk PROVE ScanInv'
  BY <1>23 DEF CompleteOk, Complete, Released, DropLoops, DropScan, TypeOK, Snapshots, ScanInv, AfterCover, AfterVerify, SnapshotNotTorn
<1>24. ASSUME MarkFailed PROVE ScanInv'
  BY <1>24 DEF MarkFailed, TypeOK, Snapshots, ScanInv, AfterCover, AfterVerify, SnapshotNotTorn
<1>25. ASSUME CompleteErr PROVE ScanInv'
  BY <1>25 DEF CompleteErr, Complete, Released, DropLoops, DropScan, TypeOK, Snapshots, ScanInv, AfterCover, AfterVerify, SnapshotNotTorn
<1>26. ASSUME PublishConflict PROVE ScanInv'
  BY <1>26 DEF PublishConflict, DropScan, TypeOK, Snapshots, ScanInv, AfterCover, AfterVerify, SnapshotNotTorn
<1>27. ASSUME BuildCommit PROVE ScanInv'
  BY <1>27 DEF BuildCommit, CommitChanged, TypeOK, Snapshots, ScanInv, AfterCover, AfterVerify, SnapshotNotTorn
<1>28. ASSUME TakeGate PROVE ScanInv'
  BY <1>28 DEF TakeGate, EpochUnmoved, RetryReconcile, DropScan, TypeOK, Snapshots, ScanInv, AfterCover, AfterVerify, SnapshotNotTorn
<1>29. ASSUME VerifyLayers PROVE ScanInv'
  BY <1>29 DEF VerifyLayers, LayersVerified, TypeOK, Snapshots, ScanInv, AfterCover, AfterVerify, SnapshotNotTorn
<1> QED
  BY <1>1, <1>2, <1>3, <1>4, <1>5, <1>6, <1>7, <1>8, <1>9, <1>10, <1>11, <1>12, <1>13, <1>14, <1>15, <1>16, <1>17, <1>18, <1>19, <1>20, <1>21, <1>22, <1>23, <1>24, <1>25, <1>26,
     <1>27, <1>28, <1>29
     DEF Next, Environment, Callback, Queries, Worker, Scan

(* A released waiter registered before `asof`, which the graph reflects.      *)
LEMMA WaiterStep ==
    ASSUME TypeOK, TypeOK', BarrierInv, ScanInv, ScanInv', WaiterInv, Next
    PROVE  WaiterInv'
<1> USE DEF worktreeVars, waiterVars, barrierVars, loopVars, scanVars, Absent
<1>1. ASSUME NEW f \in Files, ChangeFile(f) PROVE WaiterInv'
  BY <1>1 DEF ChangeFile, TypeOK, Snapshots, WaiterInv, AfterCover, WaiterSeesEarlierChanges
<1>2. ASSUME MoveHead PROVE WaiterInv'
  BY <1>2 DEF MoveHead, TypeOK, Snapshots, WaiterInv, AfterCover, WaiterSeesEarlierChanges
<1>3. ASSUME InvalidateMarkStale PROVE WaiterInv'
  BY <1>3 DEF InvalidateMarkStale, TypeOK, Snapshots, WaiterInv, AfterCover, WaiterSeesEarlierChanges
<1>4. ASSUME InvalidateAdvanceEpoch PROVE WaiterInv'
  BY <1>4 DEF InvalidateAdvanceEpoch, TypeOK, Snapshots, WaiterInv, AfterCover, WaiterSeesEarlierChanges
<1>5. ASSUME NEW w \in Waiters, Register(w) PROVE WaiterInv'
  BY <1>5 DEF Register, TypeOK, Snapshots, BarrierInv, WaiterInv, AfterCover,
     WaiterSeesEarlierChanges
<1>6. ASSUME NEW w \in Waiters, CancelWaiter(w) PROVE WaiterInv'
  BY <1>6 DEF CancelWaiter, TypeOK, Snapshots, WaiterInv, AfterCover, WaiterSeesEarlierChanges
<1>7. ASSUME NEW w \in Waiters, FinishWaiter(w) PROVE WaiterInv'
  BY <1>7 DEF FinishWaiter, TypeOK, Snapshots, WaiterInv, AfterCover, WaiterSeesEarlierChanges
<1>8. ASSUME NEW barrier \in BOOLEAN, StartReconcile(barrier) PROVE WaiterInv'
  BY <1>8 DEF StartReconcile, TypeOK, Snapshots, WaiterInv, AfterCover, WaiterSeesEarlierChanges
<1>9. ASSUME Abandon PROVE WaiterInv'
  BY <1>9 DEF Abandon, DropLoops, DropScan, TypeOK, Snapshots, WaiterInv, AfterCover, WaiterSeesEarlierChanges
<1>10. ASSUME BeginScan PROVE WaiterInv'
  BY <1>10 DEF BeginScan, TypeOK, Snapshots, WaiterInv, AfterCover, WaiterSeesEarlierChanges
<1>11. ASSUME NEW f \in Files, InventoryFile(f) PROVE WaiterInv'
  BY <1>11 DEF InventoryFile, TypeOK, Snapshots, WaiterInv, AfterCover, WaiterSeesEarlierChanges
<1>12. ASSUME NEW f \in Files, ReadFile(f) PROVE WaiterInv'
  BY <1>12 DEF ReadFile, TypeOK, Snapshots, WaiterInv, AfterCover, WaiterSeesEarlierChanges
<1>13. ASSUME Cover PROVE WaiterInv'
  BY <1>13 DEF Cover, TypeOK, Snapshots, WaiterInv, AfterCover, WaiterSeesEarlierChanges
<1>14. ASSUME NEW f \in Files, VerifyInventoryFile(f) PROVE WaiterInv'
  BY <1>14 DEF VerifyInventoryFile, TypeOK, Snapshots, WaiterInv, AfterCover, WaiterSeesEarlierChanges
<1>15. ASSUME CompareInventories PROVE WaiterInv'
  BY <1>15 DEF CompareInventories, InventoryStable, RetryScan, DropScan, TypeOK, Snapshots, WaiterInv, AfterCover, WaiterSeesEarlierChanges
<1>16. ASSUME NEW f \in Files, VerifyFile(f) PROVE WaiterInv'
  BY <1>16 DEF VerifyFile, IdentityUnchanged, RetryScan, DropScan, TypeOK, Snapshots, WaiterInv, AfterCover, WaiterSeesEarlierChanges
<1>17. ASSUME EndScan PROVE WaiterInv'
  BY <1>17 DEF EndScan, RetryScan, DropScan, TypeOK, Snapshots, WaiterInv, AfterCover, WaiterSeesEarlierChanges
<1>18. ASSUME ScanError PROVE WaiterInv'
  BY <1>18 DEF ScanError, RetryScan, DropScan, TypeOK, Snapshots, WaiterInv, AfterCover, WaiterSeesEarlierChanges
<1>19. ASSUME Diff PROVE WaiterInv'
  BY <1>19 DEF Diff, TypeOK, Snapshots, WaiterInv, AfterCover, WaiterSeesEarlierChanges
<1>20. ASSUME ComposeError PROVE WaiterInv'
  BY <1>20 DEF ComposeError, RetryReconcile, DropScan, TypeOK, Snapshots, WaiterInv, AfterCover, WaiterSeesEarlierChanges
<1>21. ASSUME PublishFresh PROVE WaiterInv'
  <2>1. /\ phase = "publish" /\ phase' = "done" /\ UNCHANGED <<disk, since, target, covered, outcome, asof>>
    BY <1>21 DEF PublishFresh
  <2>2. \A f \in Files \ snap'.skipped : snap'.graph[f] >= asof[f]
    <3> SUFFICES ASSUME NEW f \in Files \ snap'.skipped PROVE snap'.graph[f] >= asof[f]
      OBVIOUS
    <3>1. snap'.graph[f] = asof[f] \/ snap'.graph[f] >= asof[f]
      BY <2>1 DEF ScanInv, SnapshotNotTorn
    <3>2. asof[f] \in Nat /\ snap'.graph[f] \in Nat
      BY DEF TypeOK, Snapshots
    <3> QED
      BY <3>1, <3>2
  <2>3. \A w \in Waiters : outcome'[w] = "ok" => \A f \in Files : since'[w][f] <= asof[f]
    BY <2>1 DEF WaiterInv, AfterCover
  <2>4. WaiterSeesEarlierChanges'
    <3> SUFFICES ASSUME NEW w \in Waiters, outcome'[w] = "ok", NEW f \in Files \ snap'.skipped
                 PROVE  snap'.graph[f] >= since'[w][f]
      BY DEF WaiterSeesEarlierChanges
    <3>1. asof[f] \in Nat /\ snap'.graph[f] \in Nat /\ since'[w][f] \in Nat
      BY DEF TypeOK, Snapshots
    <3> QED
      BY <2>2, <2>3, <3>1
  <2> QED
    BY <2>1, <2>4 DEF WaiterInv, AfterCover
<1>22. ASSUME DiscardCandidate PROVE WaiterInv'
  BY <1>22 DEF DiscardCandidate, RetryReconcile, DropScan, TypeOK, Snapshots, WaiterInv, AfterCover, WaiterSeesEarlierChanges
<1>23. ASSUME CompleteOk PROVE WaiterInv'
  <2>1. /\ phase = "done" /\ phase' = "idle" /\ UNCHANGED <<disk, since, target, snap>>
        /\ \A w \in Waiters : outcome'[w] = "ok" =>
              outcome[w] = "ok" \/ (target[w] # 0 /\ target[w] <= covered)
    BY <1>23 DEF CompleteOk, Complete, Released
  <2>2. \A f \in Files \ snap.skipped : snap.graph[f] >= asof[f]
    <3> SUFFICES ASSUME NEW f \in Files \ snap.skipped PROVE snap.graph[f] >= asof[f]
      OBVIOUS
    <3>1. snap.graph[f] = asof[f] \/ snap.graph[f] >= asof[f]
      BY <2>1 DEF ScanInv, SnapshotNotTorn
    <3>2. asof[f] \in Nat /\ snap.graph[f] \in Nat
      BY DEF TypeOK, Snapshots
    <3> QED
      BY <3>1, <3>2
  <2>3. WaiterSeesEarlierChanges'
    <3> SUFFICES ASSUME NEW w \in Waiters, outcome'[w] = "ok", NEW f \in Files \ snap.skipped
                 PROVE  snap.graph[f] >= since[w][f]
      BY <2>1 DEF WaiterSeesEarlierChanges
    <3>1. since[w][f] <= asof[f]
      BY <2>1 DEF WaiterInv, AfterCover
    <3>2. asof[f] \in Nat /\ snap.graph[f] \in Nat /\ since[w][f] \in Nat
      BY DEF TypeOK, Snapshots
    <3> QED
      BY <2>2, <3>1, <3>2
  <2> QED
    BY <2>1, <2>3 DEF WaiterInv, AfterCover
<1>24. ASSUME MarkFailed PROVE WaiterInv'
  BY <1>24 DEF MarkFailed, TypeOK, Snapshots, WaiterInv, AfterCover, WaiterSeesEarlierChanges
<1>25. ASSUME CompleteErr PROVE WaiterInv'
  BY <1>25 DEF CompleteErr, Complete, Released, DropLoops, DropScan, TypeOK, Snapshots, WaiterInv, AfterCover, WaiterSeesEarlierChanges
<1>26. ASSUME PublishConflict PROVE WaiterInv'
  BY <1>26 DEF PublishConflict, DropScan, TypeOK, Snapshots, WaiterInv, AfterCover, WaiterSeesEarlierChanges
<1>27. ASSUME BuildCommit PROVE WaiterInv'
  BY <1>27 DEF BuildCommit, CommitChanged, TypeOK, Snapshots, WaiterInv, AfterCover, WaiterSeesEarlierChanges
<1>28. ASSUME TakeGate PROVE WaiterInv'
  BY <1>28 DEF TakeGate, EpochUnmoved, RetryReconcile, DropScan, TypeOK, Snapshots, WaiterInv, AfterCover, WaiterSeesEarlierChanges
<1>29. ASSUME VerifyLayers PROVE WaiterInv'
  BY <1>29 DEF VerifyLayers, LayersVerified, TypeOK, Snapshots, WaiterInv, AfterCover, WaiterSeesEarlierChanges
<1> QED
  BY <1>1, <1>2, <1>3, <1>4, <1>5, <1>6, <1>7, <1>8, <1>9, <1>10, <1>11, <1>12, <1>13, <1>14, <1>15, <1>16, <1>17, <1>18, <1>19, <1>20, <1>21, <1>22, <1>23, <1>24, <1>25, <1>26,
     <1>27, <1>28, <1>29
     DEF Next, Environment, Callback, Queries, Worker, Scan

(* The second diff, under the gate, pins the commit that was composed to HEAD.  *)
LEMMA LayersStep ==
    ASSUME TypeOK, LayersInv, Next
    PROVE  LayersInv'
<1> USE DEF worktreeVars, waiterVars, barrierVars, loopVars, scanVars, Absent
<1>1. ASSUME NEW f \in Files, ChangeFile(f) PROVE LayersInv'
  BY <1>1 DEF ChangeFile, TypeOK, Snapshots, LayersInv, UnderGate, LayersMatchCommit
<1>2. ASSUME MoveHead PROVE LayersInv'
  BY <1>2 DEF MoveHead, TypeOK, Snapshots, LayersInv, UnderGate, LayersMatchCommit
<1>3. ASSUME InvalidateMarkStale PROVE LayersInv'
  BY <1>3 DEF InvalidateMarkStale, TypeOK, Snapshots, LayersInv, UnderGate, LayersMatchCommit
<1>4. ASSUME InvalidateAdvanceEpoch PROVE LayersInv'
  BY <1>4 DEF InvalidateAdvanceEpoch, TypeOK, Snapshots, LayersInv, UnderGate, LayersMatchCommit
<1>5. ASSUME NEW w \in Waiters, Register(w) PROVE LayersInv'
  BY <1>5 DEF Register, TypeOK, Snapshots, LayersInv, UnderGate, LayersMatchCommit
<1>6. ASSUME NEW w \in Waiters, CancelWaiter(w) PROVE LayersInv'
  BY <1>6 DEF CancelWaiter, TypeOK, Snapshots, LayersInv, UnderGate, LayersMatchCommit
<1>7. ASSUME NEW w \in Waiters, FinishWaiter(w) PROVE LayersInv'
  BY <1>7 DEF FinishWaiter, TypeOK, Snapshots, LayersInv, UnderGate, LayersMatchCommit
<1>8. ASSUME NEW barrier \in BOOLEAN, StartReconcile(barrier) PROVE LayersInv'
  BY <1>8 DEF StartReconcile, TypeOK, Snapshots, LayersInv, UnderGate, LayersMatchCommit
<1>9. ASSUME Abandon PROVE LayersInv'
  BY <1>9 DEF Abandon, DropLoops, DropScan, TypeOK, Snapshots, LayersInv, UnderGate, LayersMatchCommit
<1>10. ASSUME BeginScan PROVE LayersInv'
  BY <1>10 DEF BeginScan, TypeOK, Snapshots, LayersInv, UnderGate, LayersMatchCommit
<1>11. ASSUME NEW f \in Files, InventoryFile(f) PROVE LayersInv'
  BY <1>11 DEF InventoryFile, TypeOK, Snapshots, LayersInv, UnderGate, LayersMatchCommit
<1>12. ASSUME NEW f \in Files, ReadFile(f) PROVE LayersInv'
  BY <1>12 DEF ReadFile, TypeOK, Snapshots, LayersInv, UnderGate, LayersMatchCommit
<1>13. ASSUME Cover PROVE LayersInv'
  BY <1>13 DEF Cover, TypeOK, Snapshots, LayersInv, UnderGate, LayersMatchCommit
<1>14. ASSUME NEW f \in Files, VerifyInventoryFile(f) PROVE LayersInv'
  BY <1>14 DEF VerifyInventoryFile, TypeOK, Snapshots, LayersInv, UnderGate, LayersMatchCommit
<1>15. ASSUME CompareInventories PROVE LayersInv'
  BY <1>15 DEF CompareInventories, InventoryStable, RetryScan, DropScan, TypeOK, Snapshots, LayersInv, UnderGate, LayersMatchCommit
<1>16. ASSUME NEW f \in Files, VerifyFile(f) PROVE LayersInv'
  BY <1>16 DEF VerifyFile, IdentityUnchanged, RetryScan, DropScan, TypeOK, Snapshots, LayersInv, UnderGate, LayersMatchCommit
<1>17. ASSUME EndScan PROVE LayersInv'
  BY <1>17 DEF EndScan, RetryScan, DropScan, TypeOK, Snapshots, LayersInv, UnderGate, LayersMatchCommit
<1>18. ASSUME ScanError PROVE LayersInv'
  BY <1>18 DEF ScanError, RetryScan, DropScan, TypeOK, Snapshots, LayersInv, UnderGate, LayersMatchCommit
<1>19. ASSUME Diff PROVE LayersInv'
  BY <1>19 DEF Diff, TypeOK, Snapshots, LayersInv, UnderGate, LayersMatchCommit
<1>20. ASSUME ComposeError PROVE LayersInv'
  BY <1>20 DEF ComposeError, RetryReconcile, DropScan, TypeOK, Snapshots, LayersInv, UnderGate, LayersMatchCommit
<1>21. ASSUME PublishFresh PROVE LayersInv'
  BY <1>21 DEF PublishFresh, EpochUnmoved, TypeOK, Snapshots, LayersInv, UnderGate, LayersMatchCommit
<1>22. ASSUME DiscardCandidate PROVE LayersInv'
  BY <1>22 DEF DiscardCandidate, RetryReconcile, DropScan, TypeOK, Snapshots, LayersInv, UnderGate, LayersMatchCommit
<1>23. ASSUME CompleteOk PROVE LayersInv'
  BY <1>23 DEF CompleteOk, Complete, Released, DropLoops, DropScan, TypeOK, Snapshots, LayersInv, UnderGate, LayersMatchCommit
<1>24. ASSUME MarkFailed PROVE LayersInv'
  BY <1>24 DEF MarkFailed, TypeOK, Snapshots, LayersInv, UnderGate, LayersMatchCommit
<1>25. ASSUME CompleteErr PROVE LayersInv'
  BY <1>25 DEF CompleteErr, Complete, Released, DropLoops, DropScan, TypeOK, Snapshots, LayersInv, UnderGate, LayersMatchCommit
<1>26. ASSUME PublishConflict PROVE LayersInv'
  BY <1>26 DEF PublishConflict, DropScan, TypeOK, Snapshots, LayersInv, UnderGate, LayersMatchCommit
<1>27. ASSUME BuildCommit PROVE LayersInv'
  BY <1>27 DEF BuildCommit, CommitChanged, TypeOK, Snapshots, LayersInv, UnderGate, LayersMatchCommit
<1>28. ASSUME TakeGate PROVE LayersInv'
  BY <1>28 DEF TakeGate, EpochUnmoved, RetryReconcile, DropScan, TypeOK, Snapshots, LayersInv, UnderGate, LayersMatchCommit
<1>29. ASSUME VerifyLayers PROVE LayersInv'
  BY <1>29 DEF VerifyLayers, LayersVerified, TypeOK, Snapshots, LayersInv, UnderGate, LayersMatchCommit
<1> QED
  BY <1>1, <1>2, <1>3, <1>4, <1>5, <1>6, <1>7, <1>8, <1>9, <1>10, <1>11, <1>12, <1>13, <1>14, <1>15, <1>16, <1>17, <1>18, <1>19, <1>20, <1>21, <1>22, <1>23, <1>24, <1>25, <1>26,
     <1>27, <1>28, <1>29
     DEF Next, Environment, Callback, Queries, Worker, Scan

(* The whole inductive invariant.                                            *)
LiveInv ==
    /\ TypeOK /\ LoopInv /\ BarrierInv /\ EpochInv /\ ScanInv /\ WaiterInv
    /\ LayersInv

(* It holds before the first event, query or reconciliation.                  *)
LEMMA InitInv == Init => LiveInv
<1> SUFFICES ASSUME Init PROVE LiveInv
  OBVIOUS
<1> USE LiveIndexAssumption DEF Init, Absent
<1>1. cancellable \in BOOLEAN /\ operation \in [Waiters -> BOOLEAN]
  BY Zenon
<1>2. TypeOK
  BY <1>1 DEF TypeOK, Snapshots, Phases
<1>3. LoopInv /\ LayersInv
  BY DEF LoopInv, LayersInv, UnderGate, LayersMatchCommit
<1>4. BarrierInv /\ EpochInv
  BY DEF BarrierInv, NoStrandedWaiter, EpochInv, UnderGate, FreshCoversEpoch
<1>5. ScanInv
  BY <1>2 DEF ScanInv, AfterCover, AfterVerify, SnapshotNotTorn, TypeOK
<1>6. WaiterInv
  BY <1>2 DEF WaiterInv, AfterCover, WaiterSeesEarlierChanges, TypeOK
<1> QED
  BY <1>2, <1>3, <1>4, <1>5, <1>6 DEF LiveInv

(* Every step preserves it, and so does stuttering.                           *)
LEMMA NextInv == LiveInv /\ [Next]_vars => LiveInv'
<1> SUFFICES ASSUME LiveInv, [Next]_vars PROVE LiveInv'
  OBVIOUS
<1>1. CASE Next
  <2>1. TypeOK' /\ LoopInv'
    BY <1>1, TypeStep, LoopStep DEF LiveInv
  <2>2. BarrierInv' /\ EpochInv' /\ LayersInv'
    BY <1>1, BarrierStep, EpochStep, LayersStep DEF LiveInv
  <2>3. ScanInv'
    BY <1>1, <2>1, ScanStep DEF LiveInv
  <2>4. WaiterInv'
    BY <1>1, <2>1, <2>3, WaiterStep DEF LiveInv
  <2> QED
    BY <2>1, <2>2, <2>3, <2>4 DEF LiveInv
<1>2. CASE UNCHANGED vars
  <2> USE <1>2 DEF vars
  <2>1. TypeOK' /\ LoopInv' /\ LayersInv'
    BY DEF LiveInv, TypeOK, LoopInv, LayersInv, UnderGate, LayersMatchCommit
  <2>2. BarrierInv' /\ EpochInv'
    BY DEF LiveInv, BarrierInv, NoStrandedWaiter, EpochInv, UnderGate, FreshCoversEpoch
  <2>3. ScanInv'
    BY DEF LiveInv, ScanInv, AfterCover, AfterVerify, SnapshotNotTorn
  <2>4. WaiterInv'
    BY DEF LiveInv, WaiterInv, AfterCover, WaiterSeesEarlierChanges
  <2> QED
    BY <2>1, <2>2, <2>3, <2>4 DEF LiveInv
<1> QED
  BY <1>1, <1>2

(* The live index's state stays well typed.                                   *)
THEOREM TypeCorrect == Spec => []TypeOK
<1>1. LiveInv => TypeOK
  BY DEF LiveInv
<1> QED
  BY <1>1, InitInv, NextInv, PTL DEF Spec

(* No reconciliation publishes a torn mixture of file versions.               *)
THEOREM NeverTorn == Spec => []SnapshotNotTorn
<1>1. LiveInv => SnapshotNotTorn
  BY DEF LiveInv, ScanInv
<1> QED
  BY <1>1, InitInv, NextInv, PTL DEF Spec

(* require_fresh keeps its promise to every query, whatever the schedule.     *)
THEOREM RequireFreshIsFresh == Spec => []WaiterSeesEarlierChanges
<1>1. LiveInv => WaiterSeesEarlierChanges
  BY DEF LiveInv, WaiterInv
<1> QED
  BY <1>1, InitInv, NextInv, PTL DEF Spec

(* A snapshot labelled Fresh has seen every event counted so far.             *)
THEOREM EventsRevokeFreshness == Spec => []FreshCoversEpoch
<1>1. LiveInv => FreshCoversEpoch
  BY DEF LiveInv, EpochInv
<1> QED
  BY <1>1, InitInv, NextInv, PTL DEF Spec

(* A completed generation leaves no registered waiter without its outcome.    *)
THEOREM WaitersAnswered == Spec => []NoStrandedWaiter
<1>1. LiveInv => NoStrandedWaiter
  BY DEF LiveInv, BarrierInv
<1> QED
  BY <1>1, InitInv, NextInv, PTL DEF Spec

(* The layers of one snapshot describe one commit, one that HEAD named under    *)
(* the gate; without the second diff it could be a commit HEAD left before.   *)
THEOREM LayersConsistent == Spec => []LayersMatchCommit
<1>1. LiveInv => LayersMatchCommit
  BY DEF LiveInv, LayersInv
<1> QED
  BY <1>1, InitInv, NextInv, PTL DEF Spec
=============================================================================
