------------------------------ MODULE MCWorkspace ------------------------------
(* A small instance of WorkspaceRegistry for TLC: two worktrees of one repository *)
(* and one of another.                                                            *)
EXTENDS WorkspaceRefinement, TLC

CONSTANTS w1, w2, w3

MCRepositoryOf == w1 :> "r1" @@ w2 :> "r1" @@ w3 :> "r2"
===============================================================================
