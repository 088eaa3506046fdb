-------------------------- MODULE WorktreeOwnership --------------------------
(***************************************************************************)
(* What the workspace registry promises: a worktree is watched by one live   *)
(* index at a time and served by the one that watches it; only an index that *)
(* watches claims to be current, and one that stopped never watches again.   *)
(* Closing happens between transitions and ends service for good.            *)
(***************************************************************************)
EXTENDS Integers

CONSTANT Worktrees

VARIABLES
    watching,     \* per worktree: the live indexes that watch it
    serving,      \* per worktree: the index that answers its queries, 0 for none
    retired,      \* indexes that have stopped
    current,      \* indexes whose published graph claims to be current
    closed

ownershipVars == <<watching, serving, retired, current, closed>>

OwnershipInit ==
    /\ watching = [w \in Worktrees |-> {}]
    /\ serving = [w \in Worktrees |-> 0]
    /\ retired = {} /\ current = {} /\ closed = FALSE

(* A new index starts to watch a worktree that nobody watches.                *)
Watch(w) ==
    /\ ~closed /\ watching[w] = {}
    /\ \E e \in watching'[w] \ (retired \union UNION {watching[v] : v \in Worktrees}) :
          watching' = [watching EXCEPT ![w] = {e}]
    /\ UNCHANGED <<serving, retired, current, closed>>

Serve(w) ==
    /\ ~closed /\ serving[w] = 0
    /\ \E e \in watching[w] : serving' = [serving EXCEPT ![w] = e]
    /\ UNCHANGED <<watching, retired, current, closed>>

Dismiss(w) ==
    /\ serving[w] # 0
    /\ serving' = [serving EXCEPT ![w] = 0]
    /\ UNCHANGED <<watching, retired, current, closed>>

Unwatch(w) ==
    /\ watching[w] # {} /\ serving[w] = 0
    /\ watching' = [watching EXCEPT ![w] = {}]
    /\ retired' = retired \union watching[w]
    /\ UNCHANGED <<serving, current, closed>>

Claim(e) ==
    /\ current' = current \union {e}
    /\ UNCHANGED <<watching, serving, retired, closed>>

Retract(e) ==
    /\ current' = current \ {e}
    /\ UNCHANGED <<watching, serving, retired, closed>>

(* Nothing is being started or stopped when the registry closes.              *)
Close ==
    /\ ~closed /\ closed' = TRUE
    /\ \A w \in Worktrees : watching[w] = IF serving[w] = 0 THEN {} ELSE {serving[w]}
    /\ serving' = [w \in Worktrees |-> 0]
    /\ UNCHANGED <<watching, retired, current>>

OwnershipNext ==
    \/ \E w \in Worktrees :
          \/ Watch(w) \/ Serve(w) \/ Dismiss(w) \/ Unwatch(w)
          \/ \E e \in watching[w] : Claim(e)
    \/ \E e \in current : Retract(e)
    \/ Close

OwnershipSpec == OwnershipInit /\ [][OwnershipNext]_ownershipVars
=============================================================================
