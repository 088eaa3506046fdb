-------------------------- MODULE EngineRefinement --------------------------
(***************************************************************************)
(* The two-step publication of Engine implements the atomic append-only log *)
(* of PublishedLog.  A revision number is a position in the log, so a log   *)
(* entry is what a reader sees of a snapshot besides its revision.          *)
(***************************************************************************)
EXTENDS Engine

Published ==
    [graph : Graphs, model : Models, freshness : Freshnesses, cold : BOOLEAN]

View(s) ==
    [graph |-> s.graph, model |-> s.model, freshness |-> s.freshness, cold |-> s.cold]

LogView == [i \in 1 .. Len(history) |-> View(history[i])]

(* A publisher's attempt is open from begin_update until publish returns.     *)
Attempt ==
    [p \in Publishers |-> IF pc[p] \in {"building", "swapping"} THEN builder[p].base + 1 ELSE 0]

Log == INSTANCE PublishedLog WITH
    Clients <- Publishers, Entries <- Published, First <- View(InitialSnapshot),
    log <- LogView, opened <- Attempt

(* The engine implements the append-only log: the load and the swap of        *)
(* publish together look like one atomic commit, and every Conflict is one    *)
(* the log would report.                                                      *)
ImplementsLog == Log!LogSpec
=============================================================================
