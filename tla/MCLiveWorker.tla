---------------------------- MODULE MCLiveWorker ----------------------------
(* Small instances of LiveWorker for TLC.                                     *)
EXTENDS LiveWorker, TLC

WaiterSymmetry == Permutations(Waiters)
=============================================================================
