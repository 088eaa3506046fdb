-------------------------- MODULE MCProviderWorker --------------------------
(* Two documents: both are edited in one revision, which a later one may revert, *)
(* and the second is deleted and created.                                      *)
EXTENDS ProviderWorker

CONSTANTS d1, d2, a, b

Both(first, second) == [d \in Documents |-> IF d = d1 THEN first ELSE second]

MCWorkspaces == {Both(a, a), Both(b, b), Both(b, Absent)}

=============================================================================
