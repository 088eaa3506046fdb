---------------------------- MODULE MCLiveIndex ----------------------------
(* Files and waiters are interchangeable.                                    *)
EXTENDS LiveIndex, TLC

Symmetry == Permutations(Files) \union Permutations(Waiters)
=============================================================================
