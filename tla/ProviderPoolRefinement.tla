----------------------- MODULE ProviderPoolRefinement -----------------------
(***************************************************************************)
(* ProviderPool implements ProviderService.  The ledger, the claims on slots *)
(* and the stages of an eviction are hidden: what is left is which children  *)
(* are alive, which query has a lease on which of them, and whether shutdown *)
(* finished in order or gave up.                                            *)
(***************************************************************************)
EXTENDS ProviderPool

Here(w) == {s \in Slots : WorkspaceOf[s] = w}

SetAside(S, T) == Sum([s \in T |-> IF s \in S THEN Reservation[s] ELSE 0])

(* The sets of slots whose children fit both budgets of reserve_capacity.     *)
WithinBudgets ==
    {S \in SUBSET Slots :
        /\ Cardinality(S) <= MaxActive /\ SetAside(S, Slots) <= MaxMemory
        /\ \A w \in Workspaces : /\ Cardinality(S \intersect Here(w)) <= MaxWorkspaceActive
                                 /\ SetAside(S, Here(w)) <= MaxWorkspaceMemory}

Leased == [q \in Queries |-> IF pc[q] = "leased" THEN {on[q]} ELSE {}]

Mode == CASE owner = "ok" -> "closed"
          [] owner \in {"sweeping_failed", "failed"} -> "forced"
          [] OTHER -> "open"

Service == INSTANCE ProviderService WITH
    Users <- Queries, Providers <- Slots, Affordable <- WithinBudgets,
    child <- processes, using <- Leased, mode <- Mode

(* The pool implements the service: whatever activations, evictions, failed   *)
(* starts and a shutdown do to one another, a child appears only within the   *)
(* budgets and where there was none, and disappears only while no query has a *)
(* lease on it, until ProviderPool::shutdown gives up draining.               *)
ImplementsService == Service!ServiceSpec
=============================================================================
