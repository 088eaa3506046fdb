--------------------------- MODULE WatchSetProofs ---------------------------
(***************************************************************************)
(* Proofs about WatchSet for any finite set of directories, any limit and   *)
(* any number of errors.  TypeOK, which bounds the record by the limit, and  *)
(* WatchInv are inductive, each on its own; the facts about numbers behind   *)
(* them are that a refresh asks for no more than the limit, and that what is  *)
(* there of a set within the limit is watched completely.                    *)
(***************************************************************************)
EXTENDS WatchSet, FiniteSetTheorems, TLAPS

(* A set within what is wanted is finite, and its size a number.             *)
LEMMA WantedFinite ==
    ASSUME NEW paths \in SUBSET Directories, NEW S, S \subseteq Wanted(paths)
    PROVE  /\ S \subseteq Nat /\ IsFiniteSet(S) /\ Cardinality(S) \in Nat
           /\ S \subseteq Wanted(Directories)
<1>1. paths \subseteq Nat /\ IsFiniteSet(paths)
  BY WatchSetAssumption, FS_Subset
<1>2. Wanted(paths) = paths \union {Root}
  BY DEF Wanted
<1>3. IsFiniteSet(paths \union {Root})
  BY <1>1, FS_AddElement
<1>4. IsFiniteSet(S) /\ Cardinality(S) \in Nat
  BY <1>2, <1>3, FS_Subset, FS_CardinalityType
<1> QED
  BY <1>1, <1>2, <1>4 DEF Wanted, Root

(* What can be watched of `paths` are the wanted directories that are there.  *)
LEMMA WatchableWanted ==
    ASSUME NEW paths
    PROVE  /\ Watchable(paths) \subseteq Wanted(paths)
           /\ Wanted(paths) \ Watchable(paths) = (paths \ exists) \ {Root}
  BY DEF Watchable, Wanted

(* desired_watch_directories drops nothing unless it reports truncation.      *)
LEMMA DesiredComplete ==
    ASSUME NEW paths \in SUBSET Directories, ~Truncated(paths)
    PROVE  Desired(paths) = Watchable(paths)
<1> DEFINE W == Watchable(paths)
<1>1. /\ W \subseteq Nat /\ IsFiniteSet(W) /\ Cardinality(W) \in Nat
      /\ Cardinality(W) <= WatchLimit
  <2>1. W \subseteq Wanted(paths)
    BY WatchableWanted
  <2>2. W \subseteq Nat /\ IsFiniteSet(W) /\ Cardinality(W) \in Nat
    BY <2>1, WantedFinite
  <2> QED
    BY <2>2, WatchSetAssumption DEF Truncated
<1>2. ASSUME NEW d \in W
      PROVE  Cardinality({e \in W : e < d}) < WatchLimit
  <2> HIDE DEF W
  <2> DEFINE Below == {e \in W : e < d}
  <2>1. Below \in SUBSET W /\ d \notin Below
    BY <1>1
  <2>2. /\ Cardinality(Below) <= Cardinality(W)
        /\ Cardinality(W) = Cardinality(Below) => W = Below
        /\ IsFiniteSet(Below)
    BY <1>1, <2>1, FS_Subset
  <2>3. Cardinality(Below) \in Nat
    BY <2>2, FS_CardinalityType
  <2>4. Cardinality(Below) # Cardinality(W)
    BY <2>1, <2>2
  <2> HIDE DEF Below
  <2>5. Cardinality(Below) < WatchLimit
    BY <1>1, <2>2, <2>3, <2>4, WatchSetAssumption
  <2> QED
    BY <2>5 DEF Below
<1> QED
  BY <1>2 DEF Desired

(* Among the numbers of a finite set one is the largest.                      *)
LEMMA LargestExists ==
    ASSUME NEW S, IsFiniteSet(S), S \subseteq Nat, S # {}
    PROVE  \E m \in S : \A e \in S : e <= m
<1> DEFINE Beyond(x) == {y \in S : y > x}
           T == {Beyond(x) : x \in S}
<1>1. T \subseteq FiniteSubsetsOf(S) /\ T # {}
  <2>1. \A x \in S : Beyond(x) \in SUBSET S /\ IsFiniteSet(Beyond(x))
    BY FS_Subset
  <2> QED
    BY <2>1 DEF FiniteSubsetsOf
<1>2. PICK U \in T : \A V \in T : <<V, U>> \notin StrictSubsetOrdering(S)
  <2> HIDE DEF T
  <2>1. IsWellFoundedOn(StrictSubsetOrdering(S), FiniteSubsetsOf(S))
    BY FS_StrictSubsetOrderingWellFounded
  <2> QED
    BY <1>1, <2>1, WFMin
<1>3. PICK m \in S : U = Beyond(m)
  OBVIOUS
<1>4. ASSUME NEW e \in S, ~(e <= m)
      PROVE  FALSE
  <2>1. m \in Nat /\ e \in Nat /\ e > m
    BY <1>4
  <2>2. \A z \in S : z \in Nat /\ (z > e => z > m)
    BY <2>1
  <2>3. Beyond(e) \subseteq Beyond(m)
    BY <2>2, Zenon
  <2>4. e \in Beyond(m)
    BY <2>1, Zenon
  <2>5. ~(e > e)
    BY <2>1
  <2>6. e \notin Beyond(e)
    BY <2>5, Zenon
  <2>7. Beyond(e) \in SUBSET S /\ Beyond(m) \in SUBSET S /\ Beyond(e) \in T
    OBVIOUS
  <2> HIDE DEF Beyond
  <2>8. <<Beyond(e), Beyond(m)>> \in StrictSubsetOrdering(S)
    BY <2>3, <2>4, <2>6, <2>7 DEF StrictSubsetOrdering
  <2> QED
    BY <1>2, <1>3, <2>7, <2>8
<1> QED
  BY <1>4

(* desired_watch_directories never asks for more than the limit: below the    *)
(* last directory it keeps there are fewer than WatchLimit.                   *)
LEMMA DesiredWithinLimit ==
    ASSUME NEW paths \in SUBSET Directories
    PROVE  /\ Desired(paths) \subseteq Wanted(paths)
           /\ Cardinality(Desired(paths)) <= WatchLimit
<1>1. Desired(paths) \subseteq Wanted(paths)
  BY WatchableWanted DEF Desired
<1>2. Desired(paths) \subseteq Nat /\ IsFiniteSet(Desired(paths))
  BY <1>1, WantedFinite
<1>3. CASE Desired(paths) = {}
  BY <1>1, <1>3, FS_EmptySet, WatchSetAssumption
<1>4. CASE Desired(paths) # {}
  <2>1. PICK m \in Desired(paths) : \A e \in Desired(paths) : e <= m
    BY <1>2, <1>4, LargestExists
  <2> DEFINE Below == {e \in Watchable(paths) : e < m}
             Rest == Desired(paths) \ {m}
  <2>2. Cardinality(Below) < WatchLimit
    BY <2>1 DEF Desired
  <2>3. Rest \subseteq Below
    <3> SUFFICES ASSUME NEW e \in Desired(paths), e # m
                 PROVE  e \in Watchable(paths) /\ e < m
      OBVIOUS
    <3>1. e \in Watchable(paths)
      BY DEF Desired
    <3>2. e \in Nat /\ m \in Nat /\ e <= m
      BY <1>2, <2>1
    <3> QED
      BY <3>1, <3>2
  <2>4. IsFiniteSet(Below) /\ Cardinality(Below) \in Nat
    BY WatchableWanted, WantedFinite
  <2> HIDE DEF Below
  <2>5. Cardinality(Rest) <= Cardinality(Below)
    BY <2>3, <2>4, FS_Subset
  <2>6. Cardinality(Rest) = Cardinality(Desired(paths)) - 1
    BY <1>2, <2>1, FS_RemoveElement
  <2>7. Cardinality(Desired(paths)) \in Nat
    BY <1>2, FS_CardinalityType
  <2> HIDE DEF Rest
  <2>8. Cardinality(Desired(paths)) <= WatchLimit
    BY <2>2, <2>4, <2>5, <2>6, <2>7, WatchSetAssumption
  <2> QED
    BY <1>1, <2>8
<1> QED
  BY <1>3, <1>4

(* What a refresh does to the watches and to the count of errors.             *)
LEMMA RefreshBounded ==
    ASSUME TypeOK, NEW force, NEW paths \in SUBSET Directories,
           NEW failed, NEW stuck \in SUBSET installed,
           RefreshWatches(force, paths, failed, stuck)
    PROVE  /\ watched' \subseteq Wanted(Directories) /\ Cardinality(watched') <= WatchLimit
           /\ installed' \subseteq Wanted(Directories) /\ removed' \subseteq Directories
           /\ errors' \in errors .. MaxErrors
<1>1. Desired(paths) \subseteq Wanted(paths) /\ Cardinality(Desired(paths)) <= WatchLimit
  BY DesiredWithinLimit
<1>2. IsFiniteSet(Desired(paths)) /\ Cardinality(Desired(paths)) \in Nat
  BY <1>1, WantedFinite
<1>3. Kept(force, paths) \subseteq Desired(paths)
  BY DEF Kept
<1>4. watched' \subseteq Desired(paths) /\ failed \subseteq Desired(paths)
  BY <1>3 DEF RefreshWatches
<1>5. Cardinality(failed) \in Nat /\ Cardinality(watched') \in Nat
      /\ Cardinality(watched') <= Cardinality(Desired(paths))
  BY <1>2, <1>4, FS_Subset, FS_CardinalityType
<1>6. watched' \subseteq Wanted(Directories)
  BY <1>1, <1>4, WantedFinite
<1>7. installed' \subseteq Wanted(Directories) /\ removed' \subseteq Directories
  <2>1. Desired(paths) \subseteq Wanted(Directories)
    BY <1>1, WantedFinite
  <2> QED
    BY <2>1 DEF RefreshWatches, TypeOK
<1>8. Cardinality(stuck) \in Nat
  BY WantedFinite DEF TypeOK
<1>9. errors + Cardinality(stuck) + Cardinality(failed) <= MaxErrors
      /\ \/ errors' = errors + Cardinality(stuck)
         \/ errors' = errors + Cardinality(stuck) + Cardinality(failed)
  BY DEF RefreshWatches
<1>10. errors \in Nat /\ MaxErrors \in Nat
  BY WatchSetAssumption DEF TypeOK
<1>11. errors' \in errors .. MaxErrors
  BY <1>5, <1>8, <1>9, <1>10
<1>12. Cardinality(watched') <= WatchLimit
  BY <1>1, <1>2, <1>5, WatchSetAssumption
<1> QED
  BY <1>6, <1>7, <1>11, <1>12

LEMMA InitTyped == Init => TypeOK
<1> SUFFICES ASSUME Init PROVE TypeOK
  OBVIOUS
<1>1. Cardinality({}) = 0 /\ 0 <= WatchLimit /\ 0 \in 0 .. MaxErrors /\ 0 \in 0 .. 0
  BY FS_EmptySet, WatchSetAssumption
<1> QED
  BY <1>1 DEF Init, TypeOK

LEMMA NextTyped == TypeOK /\ [Next]_vars => TypeOK'
<1> SUFFICES ASSUME TypeOK, [Next]_vars PROVE TypeOK'
  OBVIOUS
<1> USE DEF TypeOK, disk, candidate
<1>0. /\ errors \in Nat /\ MaxErrors \in Nat
      /\ \A n \in errors .. MaxErrors : n \in 0 .. MaxErrors /\ 0 .. errors \subseteq 0 .. n
      /\ 0 \in 0 .. errors /\ errors \in 0 .. errors
  BY WatchSetAssumption
<1>1. CASE Startup
  <2>1. PICK failed \in SUBSET (Desired(indexed) \ {Root}) : RefreshWatches(FALSE, indexed, failed, {})
    BY <1>1 DEF Startup
  <2>2. /\ watched' \subseteq Wanted(Directories) /\ Cardinality(watched') <= WatchLimit
        /\ installed' \subseteq Wanted(Directories) /\ removed' \subseteq Directories
        /\ errors' \in errors .. MaxErrors
    <3>1. indexed \in SUBSET Directories /\ {} \in SUBSET installed
      OBVIOUS
    <3> HIDE DEF TypeOK
    <3> QED
      BY <2>1, <3>1, RefreshBounded
  <2>3. degraded' \in BOOLEAN /\ phase' = "idle"
    BY <1>1, <2>1 DEF RefreshWatches, Startup
  <2> QED
    BY <1>0, <1>1, <2>2, <2>3 DEF Startup
<1>2. ASSUME NEW d \in Directories, AddSources(d) \/ RemoveSources(d) \/ RemoveDirectory(d)
      PROVE  TypeOK'
  BY <1>2 DEF AddSources, RemoveSources, RemoveDirectory
<1>3. CASE WatcherError
  <2>1. errors + 1 \in errors .. MaxErrors
    BY <1>0, <1>3 DEF WatcherError
  <2>2. raced' \in BOOLEAN
    BY <1>3, Zenon DEF WatcherError
  <2> QED
    BY <1>0, <1>3, <2>1, <2>2 DEF WatcherError
<1>4. CASE StartReconcile
  <2>1. (errors > seenErrors) \in BOOLEAN
    OBVIOUS
  <2>2. reinstall' \in BOOLEAN
    BY <1>4, <2>1, Zenon DEF StartReconcile
  <2> QED
    BY <1>0, <1>4, <2>2 DEF StartReconcile
<1>5. CASE Scan
  BY <1>5 DEF Scan
<1>6. CASE KeepWatches
  BY <1>6 DEF KeepWatches
<1>7. CASE Refresh
  <2>1. PICK failed \in SUBSET Desired(next), stuck \in SUBSET installed :
            RefreshWatches(reinstall, next, failed, stuck)
    BY <1>7 DEF Refresh
  <2>2. degraded' \in BOOLEAN /\ phase' \in {"idle", "publish", "failed"}
    BY <2>1 DEF RefreshWatches
  <2>3. /\ watched' \subseteq Wanted(Directories) /\ Cardinality(watched') <= WatchLimit
        /\ installed' \subseteq Wanted(Directories) /\ removed' \subseteq Directories
        /\ errors' \in errors .. MaxErrors
    BY <2>1, RefreshBounded
  <2> QED
    BY <1>0, <1>7, <2>2, <2>3 DEF Refresh
<1>8. CASE Discard
  BY <1>8 DEF Discard
<1>9. CASE Publish
  BY <1>0, <1>9 DEF Publish, StatusOfWatches, LeaveReconcile
<1>10. CASE Fail
  BY <1>0, <1>10 DEF Fail, DegradedAfterFailure, LeaveReconcile
<1>11. CASE Abandon
  BY <1>0, <1>11 DEF Abandon, DegradedAfterFailure, LeaveReconcile
<1>12. CASE UNCHANGED vars
  BY <1>12 DEF vars
<1> QED
  BY <1>1, <1>2, <1>3, <1>4, <1>5, <1>6, <1>7, <1>8, <1>9, <1>10, <1>11, <1>12 DEF Next

(* The types, and with them the promise of MAX_WATCHED_DIRECTORIES: whatever  *)
(* refreshes fail or are discarded, the recorded watches stay within the      *)
(* limit (desired_watch_directories, refresh_watches).                        *)
THEOREM TypeCorrect == Spec => []TypeOK
  BY InitTyped, NextTyped, PTL DEF Spec

(* A refresh that does not mark the watcher degraded leaves no gap but those   *)
(* of removed directories; one that ends the reconciliation is the only other  *)
(* kind, and either keeps the record within the backend but for them.          *)
LEMMA RefreshCovers ==
    ASSUME watched \ installed \subseteq removed,
           NEW force, NEW paths \in SUBSET Directories, paths \ exists \subseteq removed,
           NEW failed, NEW stuck,
           RefreshWatches(force, paths, failed, stuck)
    PROVE  /\ watched' \ installed' \subseteq removed'
           /\ \/ phase' = "failed"
              \/ /\ phase' = IF phase = "starting" THEN "idle" ELSE "publish"
                 /\ ~degraded' => Wanted(paths) \ (installed' \union removed') = {}
<1> DEFINE kept == Kept(force, paths)
           missing == Desired(paths) \ kept
           held == installed \ ((watched \ kept) \ stuck)
<1>1. kept \subseteq Desired(paths) /\ kept \subseteq watched
  BY DEF Kept
<1>2. kept \ held \subseteq removed
  BY <1>1
<1>3. CASE Root \in failed
  <2>1. watched' = kept /\ installed' = held /\ removed' = removed /\ phase' = "failed"
    BY <1>3 DEF RefreshWatches
  <2> QED
    BY <1>2, <2>1
<1>4. CASE Root \notin failed
  <2>1. /\ watched' = kept \union (missing \ failed)
        /\ installed' = held \union (missing \ failed)
        /\ removed' = removed \ (missing \ failed)
        /\ phase' = IF phase = "starting" THEN "idle" ELSE "publish"
    BY <1>4 DEF RefreshWatches
  <2>2. degraded' = (Truncated(paths) \/ failed # {} \/ stuck # {})
    BY <1>4 DEF RefreshWatches
  <2> HIDE DEF kept, held
  <2>3. watched' \ installed' \subseteq removed'
    BY <1>2, <2>1
  <2>4. ASSUME ~degraded' PROVE Wanted(paths) \ (installed' \union removed') = {}
    <3>1. ~Truncated(paths) /\ failed = {}
      BY <2>2, <2>4, Zenon
    <3>2. Desired(paths) = Watchable(paths)
      BY <3>1, DesiredComplete
    <3>3. Desired(paths) \subseteq installed' \union removed'
      BY <1>1, <1>2, <2>1, <3>1
    <3>4. (Wanted(paths) \ Desired(paths)) \subseteq removed \ Desired(paths)
      BY <3>2, WatchableWanted
    <3>5. removed \ Desired(paths) \subseteq removed'
      BY <2>1
    <3> QED
      BY <3>3, <3>4, <3>5
  <2> QED
    BY <2>1, <2>3, <2>4
<1> QED
  BY <1>3, <1>4

LEMMA InitInv == Init => WatchInv
  BY DEF Init, WatchInv

LEMMA NextInv == WatchInv /\ [Next]_vars => WatchInv'
<1> SUFFICES ASSUME WatchInv, [Next]_vars PROVE WatchInv'
  OBVIOUS
<1> USE DEF WatchInv, disk, candidate
<1>1. CASE Startup
  <2>1. PICK failed \in SUBSET (Desired(indexed) \ {Root}) : RefreshWatches(FALSE, indexed, failed, {})
    BY <1>1 DEF Startup
  <2>2. phase' = "idle" /\ indexed' = indexed
    BY <1>1, <2>1 DEF Startup, RefreshWatches
  <2>3. /\ watched' \ installed' \subseteq removed'
        /\ ~degraded' => Wanted(indexed) \ (installed' \union removed') = {}
    BY <1>1, <2>1, <2>2, RefreshCovers DEF Startup
  <2> QED
    BY <1>1, <2>2, <2>3 DEF Startup, Gap, Wanted
<1>2. ASSUME NEW d \in Directories, AddSources(d) \/ RemoveSources(d) \/ RemoveDirectory(d)
      PROVE  WatchInv'
  BY <1>2 DEF AddSources, RemoveSources, RemoveDirectory, Gap, Wanted
<1>3. CASE WatcherError
  BY <1>3 DEF WatcherError, Gap, Wanted
<1>4. CASE StartReconcile
  BY <1>4 DEF StartReconcile, Gap, Wanted
<1>5. CASE Scan
  BY <1>5 DEF Scan, Gap, Wanted
<1>6. CASE KeepWatches
  BY <1>6 DEF KeepWatches, RefreshNeeded, Gap, Wanted
<1>7. CASE Refresh
  <2>1. PICK failed \in SUBSET Desired(next), stuck \in SUBSET installed :
            RefreshWatches(reinstall, next, failed, stuck)
    BY <1>7 DEF Refresh
  <2>2. /\ watched' \ installed' \subseteq removed'
        /\ \/ phase' = "failed"
           \/ /\ phase' = "publish"
              /\ ~degraded' => Wanted(next) \ (installed' \union removed') = {}
    BY <1>7, <2>1, RefreshCovers DEF Refresh
  <2> QED
    BY <1>7, <2>2 DEF Refresh, Gap, Wanted
<1>8. CASE Discard
  BY <1>8 DEF Discard, Gap, Wanted
<1>9. CASE Publish
  BY <1>9 DEF Publish, LeaveReconcile, Gap, Wanted
<1>10. CASE Fail
  BY <1>10 DEF Fail, DegradedAfterFailure, LeaveReconcile, Gap, Wanted
<1>11. CASE Abandon
  BY <1>11 DEF Abandon, DegradedAfterFailure, LeaveReconcile, Gap, Wanted
<1>12. CASE UNCHANGED vars
  BY <1>12 DEF vars, Gap, Wanted
<1> QED
  BY <1>1, <1>2, <1>3, <1>4, <1>5, <1>6, <1>7, <1>8, <1>9, <1>10, <1>11, <1>12 DEF Next

(* Whatever candidates are discarded, fail or are cancelled after they moved  *)
(* the watches, an unwatched source directory is recorded in watcher_degraded *)
(* (reconcile), unless it was removed since it was last watched.              *)
THEOREM GapsAreRecorded == Spec => []GapIsRecorded
<1>1. WatchInv => GapIsRecorded
  BY DEF WatchInv, GapIsRecorded
<1> QED
  BY <1>1, InitInv, NextInv, PTL DEF Spec

(* A revision is published as Ready only with all its directories watched,    *)
(* those removed since they were last watched apart (publish_fresh).          *)
THEOREM ReadyMeansWatched == Spec => ReadyIsWatched
<1>1. WatchInv /\ [Next]_vars => [Publish /\ status' = "Ready" => Gap(indexed)' = {}]_vars
  <2> SUFFICES ASSUME WatchInv, Publish, status' = "Ready" PROVE Gap(indexed)' = {}
    OBVIOUS
  <2>1. ~degraded
    BY DEF Publish, StatusOfWatches
  <2> QED
    BY <2>1 DEF WatchInv, Publish, LeaveReconcile, Gap, Wanted, disk
<1> QED
  BY <1>1, InitInv, NextInv, PTL DEF Spec, ReadyIsWatched
=============================================================================
