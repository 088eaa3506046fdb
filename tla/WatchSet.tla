------------------------------ MODULE WatchSet ------------------------------
(***************************************************************************)
(* How a reconciliation keeps the filesystem watches in step with the      *)
(* indexed paths: refresh_watches, desired_watch_directories and the part   *)
(* of reconcile in crates/chakra-language/src/live/mod.rs that decides when *)
(* to call them.  The watch set is changed before the candidate it belongs  *)
(* to is published, and a candidate may be discarded, fail or be cancelled. *)
(*                                                                         *)
(* The record of the watches (`watched`) is kept apart from the watches the *)
(* backend holds (`installed`): it drops the watch of a directory that is    *)
(* removed, and does not restore it when the directory comes back.          *)
(*                                                                         *)
(* A path stands for the directory that holds it; directories are numbered  *)
(* in the order of the BTreeSet, 0 being the repository root, which exists   *)
(* as long as the program runs.  The directories between the root and one   *)
(* that holds sources, watched along with it, are left out, and so is the   *)
(* stop of the worker, after which nothing reads this state.                *)
(***************************************************************************)
EXTENDS Integers, FiniteSets

CONSTANTS
    Directories,   \* numbers of the directories that may hold sources
    WatchLimit,    \* MAX_WATCHED_DIRECTORIES
    MaxErrors      \* bound: watch calls that fail

ASSUME WatchSetAssumption ==
    /\ Directories \subseteq Nat \ {0}
    /\ IsFiniteSet(Directories)
    /\ WatchLimit \in Nat \ {0}
    /\ MaxErrors \in Nat

Root == 0

VARIABLES
    exists,       \* directories on disk
    present,      \* those that hold sources
    removed,      \* history: removed since a watch was last installed on them
    indexed,      \* indexed_paths of the published revision
    watched,      \* BTreeSet of the watched directories, the program's record
    installed,    \* the watches the backend holds
    degraded,     \* watcher_degraded
    status,       \* its WorkspaceStatus; "Failed" is Degraded with freshness Stale
    errors,       \* MetricsState::watcher_errors
    seenErrors,   \* reconciled_watcher_errors
    \* Locals of reconcile.
    phase,
    sampled,      \* watcher_errors when it started
    reinstall,    \* force_reinstall_watches
    dirty,        \* watch_set_dirty
    next,         \* next_paths of the candidate
    raced         \* has the event epoch moved since the candidate was scanned

disk == <<exists, present, removed>>
candidate == <<sampled, reinstall, dirty, next>>
vars == <<exists, present, removed, indexed, watched, installed, degraded, status,
          errors, seenErrors, phase, sampled, reinstall, dirty, next, raced>>

Init ==
    /\ exists \in SUBSET Directories
    /\ present \in SUBSET exists
    /\ removed = {}
    /\ indexed = present
    /\ watched = {} /\ installed = {} /\ degraded = FALSE /\ status = "Stale"
    /\ errors = 0 /\ seenErrors = 0
    /\ phase = "starting" /\ sampled = 0 /\ reinstall = FALSE /\ dirty = FALSE /\ next = {}
    /\ raced = FALSE

Wanted(paths) == {Root} \union paths

(* desired_watch_directories: the root and the directories that are there     *)
(* (is_dir), then as many of them as the limit admits.                        *)
Watchable(paths) == Wanted(paths \intersect exists)

(* Faulty: the root is not counted against the limit.                         *)
DesiredBesideRoot(paths) ==
    {d \in Watchable(paths) :
        Cardinality({e \in Watchable(paths) \ {Root} : e < d}) < WatchLimit}

Desired(paths) ==
    {d \in Watchable(paths) : Cardinality({e \in Watchable(paths) : e < d}) < WatchLimit}

Truncated(paths) == Cardinality(Watchable(paths)) > WatchLimit

(* refresh_watches: obsolete watches are dropped, missing ones installed, by   *)
(* the program's record.  `failed` are the watch calls that failed; a failure  *)
(* on the root, the first of them, ends the call with an error.  `stuck` are   *)
(* the unwatch calls that failed: errors, and forgotten all the same while the *)
(* backend keeps them.  That the backend has no such watch is no error.        *)
Kept(force, paths) == IF force THEN {} ELSE watched \intersect Desired(paths)

RefreshWatches(force, paths, failed, stuck) ==
    LET kept == Kept(force, paths)
        missing == Desired(paths) \ kept
        held == installed \ ((watched \ kept) \ stuck)
    IN  /\ failed \subseteq missing
        /\ stuck \subseteq installed \intersect (watched \ kept)
        /\ errors + Cardinality(stuck) + Cardinality(failed) <= MaxErrors
        /\ IF Root \in failed
           THEN /\ failed = {Root}
                /\ watched' = kept
                /\ installed' = held
                /\ errors' = errors + Cardinality(stuck)
                /\ phase' = "failed"
                /\ UNCHANGED <<degraded, removed>>
           ELSE /\ watched' = kept \union (missing \ failed)
                /\ installed' = held \union (missing \ failed)
                /\ removed' = removed \ (missing \ failed)
                /\ errors' = errors + Cardinality(stuck) + Cardinality(failed)
                /\ degraded' = (Truncated(paths) \/ failed # {} \/ stuck # {})
                /\ phase' = IF phase = "starting" THEN "idle" ELSE "publish"

-----------------------------------------------------------------------------
(* The registration before the loop, and the worktree.                        *)

Startup ==
    /\ phase = "starting"
    /\ \E failed \in SUBSET (Desired(indexed) \ {Root}) : RefreshWatches(FALSE, indexed, failed, {})
    /\ UNCHANGED <<exists, present, indexed, status, seenErrors, candidate, raced>>

(* Sources appear, in a directory that may be new or come back, or go.        *)
AddSources(d) ==
    /\ d \notin present
    /\ exists' = exists \union {d}
    /\ present' = present \union {d}
    /\ UNCHANGED <<removed, indexed, watched, installed, degraded, status, errors, seenErrors,
                   phase, candidate, raced>>

RemoveSources(d) ==
    /\ d \in present
    /\ present' = present \ {d}
    /\ UNCHANGED <<exists, removed, indexed, watched, installed, degraded, status, errors,
                   seenErrors, phase, candidate, raced>>

(* A directory goes, and the watch on it with it: the record does not change. *)
RemoveDirectory(d) ==
    /\ d \in exists
    /\ exists' = exists \ {d}
    /\ present' = present \ {d}
    /\ installed' = installed \ {d}
    /\ removed' = removed \union {d}
    /\ UNCHANGED <<indexed, watched, degraded, status, errors, seenErrors,
                   phase, candidate, raced>>

(* The backend reports an error to the callback, which revokes freshness and  *)
(* advances the epoch.  stable_scan repeats itself when that happens to it.   *)
WatcherError ==
    /\ errors < MaxErrors
    /\ errors' = errors + 1
    /\ status' = IF status \in {"Ready", "Degraded"} THEN "Stale" ELSE status
    /\ raced' = (raced \/ phase \in {"compare", "publish"})
    /\ UNCHANGED <<disk, indexed, watched, installed, degraded, seenErrors, phase, candidate>>

-----------------------------------------------------------------------------
(* reconcile.                                                                 *)

StartReconcile ==
    /\ phase = "idle"
    /\ sampled' = errors
    /\ reinstall' = (errors > seenErrors)
    /\ dirty' = FALSE
    /\ phase' = "scan"
    /\ UNCHANGED <<disk, indexed, watched, installed, degraded, status, errors, seenErrors,
                   next, raced>>

Scan ==
    /\ phase = "scan"
    /\ next' = present
    /\ phase' = "compare"
    /\ UNCHANGED <<disk, indexed, watched, installed, degraded, status, errors, seenErrors,
                   sampled, reinstall, dirty, raced>>

(* Faulty: a candidate discarded after it moved the watches is forgotten.     *)
RefreshUnlessSame(paths) == paths # indexed \/ reinstall

RefreshNeeded(paths) == paths # indexed \/ reinstall \/ dirty

KeepWatches ==
    /\ phase = "compare" /\ ~RefreshNeeded(next)
    /\ phase' = "publish"
    /\ UNCHANGED <<disk, indexed, watched, installed, degraded, status, errors, seenErrors,
                   candidate, raced>>

Refresh ==
    /\ phase = "compare" /\ RefreshNeeded(next)
    /\ dirty' = TRUE
    /\ \E failed \in SUBSET Desired(next), stuck \in SUBSET installed :
            RefreshWatches(reinstall, next, failed, stuck)
    /\ UNCHANGED <<exists, present, indexed, status, seenErrors, sampled, reinstall, next, raced>>

(* `continue`: an event or an unstable diff discards the candidate.           *)
Discard ==
    /\ phase = "publish"
    /\ phase' = "scan"
    /\ raced' = FALSE
    /\ next' = {}
    /\ UNCHANGED <<disk, indexed, watched, installed, degraded, status, errors, seenErrors,
                   sampled, reinstall, dirty>>

(* Faulty: a flag left by an earlier refresh does not reach the status.       *)
StatusOfCoverage == IF Truncated(next) THEN "Degraded" ELSE "Ready"

(* Indexing degradation, the other cause, has nothing to do with watches.     *)
StatusOfWatches == IF degraded THEN "Degraded" ELSE "Ready"

LeaveReconcile ==
    /\ phase' = "idle" /\ sampled' = 0 /\ reinstall' = FALSE /\ dirty' = FALSE /\ next' = {}
    /\ raced' = FALSE

Publish ==
    /\ phase = "publish" /\ ~raced
    /\ status' = StatusOfWatches
    /\ indexed' = next
    /\ seenErrors' = sampled
    /\ LeaveReconcile
    /\ UNCHANGED <<disk, watched, installed, degraded, errors>>

DegradedAfterFailure == dirty \/ degraded

(* The scan, the refresh or all attempts fail: mark_failed_reconciliation.    *)
Fail ==
    /\ phase \in {"scan", "compare", "publish", "failed"}
    /\ degraded' = DegradedAfterFailure
    /\ status' = "Failed"
    /\ LeaveReconcile
    /\ UNCHANGED <<disk, indexed, watched, installed, errors, seenErrors>>

(* The last caller gave up: nothing is published.                             *)
Abandon ==
    /\ phase \in {"scan", "compare", "publish"}
    /\ degraded' = DegradedAfterFailure
    /\ LeaveReconcile
    /\ UNCHANGED <<disk, indexed, watched, installed, status, errors, seenErrors>>

Next ==
    \/ Startup \/ WatcherError \/ StartReconcile \/ Scan \/ KeepWatches \/ Refresh
    \/ Discard \/ Publish \/ Fail \/ Abandon
    \/ \E d \in Directories : AddSources(d) \/ RemoveSources(d) \/ RemoveDirectory(d)

Spec == Init /\ [][Next]_vars

-----------------------------------------------------------------------------
(* Properties.                                                                *)

(* Types; the record of the watches stays within MAX_WATCHED_DIRECTORIES.     *)
TypeOK ==
    /\ exists \subseteq Directories /\ present \subseteq exists
    /\ removed \subseteq Directories /\ indexed \subseteq Directories
    /\ watched \subseteq Wanted(Directories) /\ Cardinality(watched) <= WatchLimit
    /\ installed \subseteq Wanted(Directories)
    /\ degraded \in BOOLEAN /\ status \in {"Stale", "Ready", "Degraded", "Failed"}
    /\ errors \in 0 .. MaxErrors /\ seenErrors \in 0 .. errors /\ sampled \in 0 .. errors
    /\ phase \in {"starting", "idle", "scan", "compare", "publish", "failed"}
    /\ reinstall \in BOOLEAN /\ dirty \in BOOLEAN /\ raced \in BOOLEAN /\ next \subseteq Directories

(* Directories of the sources `paths` that no watch covers, for a reason the   *)
(* program could know of.  A directory removed since it was last watched is    *)
(* exempt, and must be: when it is recreated before the next scan the paths    *)
(* are those of the last publication, and neither the condition of the refresh *)
(* nor its difference against the record sees that the watch is gone.          *)
Gap(paths) == Wanted(paths) \ (installed \union removed)

(* Between reconciliations a source directory is unwatched only while         *)
(* watcher_degraded is set: no discarded, failed or cancelled candidate        *)
(* leaves a gap that nothing records.                                         *)
GapIsRecorded ==
    phase = "idle" /\ ~degraded => Gap(indexed) = {}

(* A revision published as Ready has a watch on every directory of its        *)
(* sources, removed ones apart ("a later successful watch-set refresh can      *)
(* return the workspace to Ready").                                           *)
ReadyIsWatched ==
    [][Publish /\ status' = "Ready" => Gap(indexed)' = {}]_vars

(* The strengthening under which the two properties above are inductive: the   *)
(* record exceeds the backend by removed directories only, a candidate that    *)
(* lost a directory lost a removed one, a candidate under way differs from     *)
(* the published paths only once the watches were moved to it, and a failed    *)
(* refresh is always a recorded one.                                          *)
WatchInv ==
    /\ exists \subseteq Directories /\ present \subseteq exists
    /\ indexed \subseteq Directories /\ next \subseteq Directories
    /\ watched \ installed \subseteq removed
    /\ phase = "starting" => indexed \ exists \subseteq removed
    /\ phase = "compare" => next \ exists \subseteq removed
    /\ phase \in {"starting", "idle"} => ~dirty
    /\ phase = "failed" => dirty
    /\ phase \in {"idle", "scan", "compare", "publish"} /\ ~dirty /\ ~degraded => Gap(indexed) = {}
    /\ phase = "publish" /\ ~degraded => Gap(next) = {}

=============================================================================
