----------------------------- MODULE MCWatchSet -----------------------------
(* Small instances of WatchSet for TLC: directories are compared by number,   *)
(* so they are not interchangeable and there is no symmetry to use.           *)
EXTENDS WatchSet

=============================================================================
