------------------------- MODULE WorkspaceRefinement -------------------------
(***************************************************************************)
(* WorkspaceRegistry implements WorktreeOwnership.  Reservations, the commit *)
(* cache, retries and rollbacks are hidden: what is left is which engines    *)
(* have a running live index, which of them queries are routed to, and which *)
(* claim to be Fresh.                                                        *)
(***************************************************************************)
EXTENDS WorkspaceRegistry

Watching ==
    [w \in Workspaces |-> {e \in DOMAIN engines : engines[e].live /\ engines[e].workspace = w}]

Retired == {e \in DOMAIN engines : ~engines[e].live}

Current == {e \in DOMAIN engines : engines[e].fresh}

Ownership == INSTANCE WorktreeOwnership WITH
    Worktrees <- Workspaces, watching <- Watching, serving <- runtime,
    retired <- Retired, current <- Current, closed <- shutDown

(* The registry implements exclusive ownership of worktrees: however           *)
(* registrations, rollbacks, removals and a shutdown interleave, a live index  *)
(* starts only where none runs, is stopped only after queries are no longer    *)
(* routed to its engine, and nothing starts once the registry has closed.     *)
ImplementsOwnership == Ownership!OwnershipSpec
=============================================================================
