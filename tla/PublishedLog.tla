---------------------------- MODULE PublishedLog ----------------------------
(***************************************************************************)
(* What the engine promises its publishers and readers: an append-only log  *)
(* of workspace states with optimistic concurrency.  An attempt is opened   *)
(* against the head of the log; it commits, atomically, only while that     *)
(* head is still the head, and fails only when it no longer is.             *)
(***************************************************************************)
EXTENDS Integers, Sequences

CONSTANTS Clients, Entries, First

VARIABLES
    log,      \* the states published so far, oldest first
    opened    \* per client: length of the log its attempt is based on, 0 if none

logVars == <<log, opened>>

LogInit ==
    /\ log = <<First>>
    /\ opened = [c \in Clients |-> 0]

Open(c) ==
    /\ opened[c] = 0
    /\ opened' = [opened EXCEPT ![c] = Len(log)]
    /\ UNCHANGED log

Commit(c) ==
    /\ opened[c] = Len(log)
    /\ \E e \in Entries : log' = Append(log, e)
    /\ opened' = [opened EXCEPT ![c] = 0]

Reject(c) ==
    /\ opened[c] # 0
    /\ opened[c] < Len(log)
    /\ opened' = [opened EXCEPT ![c] = 0]
    /\ UNCHANGED log

LogNext == \E c \in Clients : Open(c) \/ Commit(c) \/ Reject(c)

LogSpec == LogInit /\ [][LogNext]_logVars
=============================================================================
