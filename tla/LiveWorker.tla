----------------------------- MODULE LiveWorker -----------------------------
(***************************************************************************)
(* The scheduling loop of the live index worker: run_worker, stage_signal   *)
(* and track_reconcile_outcome of crates/chakra-language/src/live/mod.rs,   *)
(* the PriorityWorkQueue it stages signals in, the senders of its bounded   *)
(* channel (watcher callback, require_fresh, the owner) and the start and   *)
(* stop of the thread.                                                      *)
(*                                                                         *)
(* A reconciliation is reduced to the points at which it touches what this  *)
(* loop depends on: the counters it samples when it starts, the epoch and   *)
(* generation its scan covers, and how it ends.  Module LiveIndex looks     *)
(* inside it.  The three capacities of the code, of the channel, of a class *)
(* of the queue and of one drain, are the same number there and here.       *)
(***************************************************************************)
EXTENDS Integers, FiniteSets, Sequences, FiniteSetsExt

CONSTANTS
    Waiters,        \* threads that call require_fresh
    Capacity,       \* EVENT_QUEUE_CAPACITY and the two bounds defined by it
    FullInterval,   \* LiveIndexOptions::full_reconcile_interval
    MayTimeOut,     \* may the startup timeout expire before the worker is ready
    MaxEpoch,       \* bound: watcher events
    UncertainEvents,\* bound: the events the backend may report as uncertain or as errors
    MaxGeneration,  \* bound: require_fresh calls
    MaxFailures     \* bound: reconciliations that end in an error

ASSUME LiveWorkerAssumption ==
    /\ Capacity \in Nat \ {0}
    /\ FullInterval \in Nat \ {0}
    /\ MayTimeOut \in BOOLEAN
    /\ UncertainEvents \subseteq Nat
    /\ MaxEpoch \in Nat /\ MaxGeneration \in Nat /\ MaxFailures \in Nat

VARIABLES
    channel,      \* the sync_channel of WorkerSignal
    \* The watcher callback and what it counts.
    epoch,        \* MetricsState::event_epoch
    sending,      \* the event whose try_send, or whose count, is still to come
    doubts,       \* watcher_errors + dropped_watcher_events
    lost,         \* history: dropped events that no full reread made up for
    refused,      \* history: the kinds of signals a full channel or class refused
    \* BarrierState and the callers of require_fresh.
    requested, completed,
    target,       \* key of each waiter in `waiters`, 0 when it has none
    sent,         \* has the waiter's try_send returned
    operation,    \* does the waiter's own OperationContext still check out
    answered,     \* has the waiter an entry in `outcomes`
    workerOp,     \* worker_operation
    stop,         \* BarrierState::shutdown
    owner,        \* the thread that starts and stops the worker
    \* Locals of run_worker.
    phase, budget,
    edits, checkpoints,    \* the two classes of the queue that are used
    checkpointPending, sinceFull, reconciled, seenDoubts, cached,
    window,       \* the debounced events: latest epoch, uncertainty, history
    \* Locals of reconcile.
    job, failures

dropVars == <<doubts, lost, refused>>
channelVars == <<channel, epoch, sending, doubts, lost, refused>>
callerVars == <<requested, target, sent, operation>>
barrierVars == <<requested, completed, target, sent, operation, answered, workerOp, stop>>
queueVars == <<edits, checkpoints, checkpointPending>>
ledgerVars == <<sinceFull, reconciled, seenDoubts, cached>>
workerVars == <<phase, budget, queueVars, ledgerVars, window, job, failures>>
vars == <<channel, epoch, sending, doubts, lost, refused, requested, completed, target, sent, operation,
          answered, workerOp, stop, owner, phase, budget, edits, checkpoints, checkpointPending,
          sinceFull, reconciled, seenDoubts, cached, window, job, failures>>

(* A WorkerSignal.  Hints are dropped: whatever they name, the scan verifies  *)
(* every file; `uncertain` is what an event adds to the policy.               *)
Filesystem(e, u) == [kind |-> "filesystem", epoch |-> e, uncertain |-> u]
Barrier == [kind |-> "barrier", epoch |-> 0, uncertain |-> FALSE]
Shutdown == [kind |-> "shutdown", epoch |-> 0, uncertain |-> FALSE]

SignalsOf(kinds) == [kind : kinds, epoch : 0 .. MaxEpoch, uncertain : BOOLEAN]

Signals == SignalsOf({"filesystem", "barrier", "shutdown"})

NoEvent == Filesystem(0, FALSE)

NoWindow == [latest |-> 0, uncertain |-> FALSE, events |-> {}]

NoJob == [then |-> "top", generation |-> 0, cancellable |-> FALSE, full |-> FALSE,
          doubts |-> 0, lost |-> {}, epoch |-> 0, covered |-> 0]

Phases == {"starting", "top", "drain", "pop", "debounce", "debounce_drain", "debounce_fold", "post",
           "scan", "cover", "publish", "stopped"}

Init ==
    /\ channel = <<>> /\ epoch = 0 /\ sending = NoEvent
    /\ doubts = 0 /\ lost = {} /\ refused = {}
    /\ requested = 0 /\ completed = 0
    /\ target = [w \in Waiters |-> 0]
    /\ sent = [w \in Waiters |-> FALSE]
    /\ operation = [w \in Waiters |-> TRUE]
    /\ answered = [w \in Waiters |-> FALSE]
    /\ workerOp = "none" /\ stop = FALSE
    /\ owner = "starting" /\ phase = "starting" /\ budget = 0
    /\ edits = <<>> /\ checkpoints = 0 /\ checkpointPending = FALSE
    /\ sinceFull = 0 /\ reconciled = 0 /\ seenDoubts = 0 /\ cached = FALSE
    /\ window = NoWindow /\ job = NoJob /\ failures = 0

Connected == phase # "stopped"

Room == Len(channel) < Capacity

-----------------------------------------------------------------------------
(* The watcher callback: invalidate_for_event, then try_send, and when that    *)
(* finds no room the count of the drop, in a step of its own.  An event the    *)
(* backend reports as an error is counted before its epoch advances; the two   *)
(* are one step here, its signal being uncertain in any case.                  *)

Observe(uncertain, error) ==
    /\ Connected /\ sending = NoEvent /\ epoch < MaxEpoch
    /\ error => uncertain
    /\ uncertain => epoch + 1 \in UncertainEvents
    /\ epoch' = epoch + 1
    /\ sending' = Filesystem(epoch + 1, uncertain)
    /\ doubts' = IF error THEN doubts + 1 ELSE doubts
    /\ UNCHANGED <<channel, lost, refused, barrierVars, owner, workerVars>>

SendEvent ==
    /\ sending.kind = "filesystem" /\ sending # NoEvent
    /\ \/ /\ ~Connected
          /\ sending' = NoEvent
          /\ UNCHANGED <<channel, dropVars>>
       \/ /\ Connected /\ Room
          /\ sending' = NoEvent
          /\ channel' = Append(channel, sending)
          /\ UNCHANGED dropVars
       \/ /\ Connected /\ ~Room
          /\ sending' = [sending EXCEPT !.kind = "dropped"]
          /\ lost' = lost \union {sending.epoch}
          /\ refused' = refused \union {"filesystem"}
          /\ UNCHANGED <<channel, doubts>>
    /\ UNCHANGED <<epoch, barrierVars, owner, workerVars>>

CountDrop ==
    /\ sending.kind = "dropped"
    /\ sending' = NoEvent
    /\ doubts' = doubts + 1
    /\ UNCHANGED <<channel, epoch, lost, refused, barrierVars, owner, workerVars>>

Callback == SendEvent \/ CountDrop

(* The drops that are in dropped_watcher_events.                              *)
Counted == lost \ (IF sending.kind = "dropped" THEN {sending.epoch} ELSE {})

-----------------------------------------------------------------------------
(* require_fresh_with_context: register, try_send, wait, finish_waiter.       *)

(* The keys above `completed` whose callers still want them.                  *)
Active == {w \in Waiters : target[w] > completed /\ operation[w]}

Register(w) ==
    /\ owner \notin {"starting", "timed_out"}
    /\ ~stop /\ target[w] = 0 /\ requested < MaxGeneration
    /\ requested' = requested + 1
    /\ target' = [target EXCEPT ![w] = requested + 1]
    /\ operation' = [operation EXCEPT ![w] = TRUE]
    /\ UNCHANGED <<channelVars, completed, sent, answered, workerOp, stop, owner, workerVars>>

(* A full channel is not an error: the demand stays in the generation.        *)
SendBarrier(w) ==
    /\ target[w] # 0 /\ ~sent[w]
    /\ sent' = [sent EXCEPT ![w] = TRUE]
    /\ \/ /\ Connected
          /\ IF Room THEN channel' = Append(channel, Barrier) /\ UNCHANGED dropVars
                     ELSE /\ refused' = refused \union {"barrier"}
                          /\ UNCHANGED <<channel, doubts, lost>>
          /\ UNCHANGED stop
       \/ /\ ~Connected
          /\ stop' = TRUE
          /\ UNCHANGED <<channel, dropVars>>
    /\ UNCHANGED <<epoch, sending, requested, completed, target, operation,
                   answered, workerOp, owner, workerVars>>

(* The caller's deadline passes or its request is cancelled.                  *)
CancelWaiter(w) ==
    /\ target[w] # 0 /\ operation[w]
    /\ operation' = [operation EXCEPT ![w] = FALSE]
    /\ UNCHANGED <<channelVars, requested, completed, target, sent, answered, workerOp, stop,
                   owner, workerVars>>

FinishWaiter(w) ==
    /\ target[w] # 0 /\ sent[w]
    /\ ~operation[w] \/ answered[w] \/ stop
    /\ target' = [target EXCEPT ![w] = 0]
    /\ sent' = [sent EXCEPT ![w] = FALSE]
    /\ answered' = [answered EXCEPT ![w] = FALSE]
    /\ workerOp' = IF Active \ {w} = {} /\ workerOp = "live" THEN "cancelled" ELSE workerOp
    /\ UNCHANGED <<channelVars, requested, completed, operation, stop, owner, workerVars>>

(* The first element of pending_generation's pair.                            *)
PendingGeneration ==
    LET keys == {target[w] : w \in Waiters} \ {0}
    IN  IF keys = {} THEN completed ELSE Max(keys)

(* Faulty: the newest demand is taken for the one just completed.             *)
OlderDemandPending == PendingGeneration > completed + 1

DemandPending == PendingGeneration > completed

(* complete: an outcome for every key up to generation.                       *)
CompleteUpTo(generation) ==
    /\ answered' = [w \in Waiters |-> answered[w] \/ target[w] \in 1 .. generation]
    /\ completed' = Max({completed, generation})
    /\ workerOp' = "none"

-----------------------------------------------------------------------------
(* The queue.                                                                 *)

(* Faulty: a staged checkpoint does not keep the worker from blocking.        *)
NoEditStaged == edits = <<>>

QueueIsEmpty == edits = <<>> /\ checkpoints = 0

(* stage_signal: a full class rejects; a rejected event counts as dropped, a   *)
(* barrier does not.  Both happen on the worker's own thread.                 *)
Stage(signal) ==
    \/ /\ Len(edits) < Capacity
       /\ edits' = Append(edits, signal)
       /\ UNCHANGED dropVars
    \/ /\ Len(edits) >= Capacity
       /\ refused' = refused \union {signal.kind}
       /\ IF signal.kind = "filesystem"
          THEN doubts' = doubts + 1 /\ lost' = lost \union {signal.epoch}
          ELSE UNCHANGED <<doubts, lost>>
       /\ UNCHANGED edits

(* The end of run_worker, or its return before the loop: staged work is       *)
(* cancelled, the receiver is dropped and with it what the channel holds.     *)
Exit ==
    /\ phase' = "stopped" /\ budget' = 0
    /\ channel' = <<>> /\ edits' = <<>> /\ checkpoints' = 0
    /\ stop' = TRUE
    /\ UNCHANGED <<epoch, sending, dropVars, requested, completed, target, sent, operation,
                   answered, workerOp, owner, checkpointPending, ledgerVars, window, job,
                   failures>>

-----------------------------------------------------------------------------
(* run_worker: startup and the top of the loop.                               *)

(* refresh_watches notices the stop flag, or a setup step fails.              *)
StartupFails == phase = "starting" /\ Exit

StartupReady ==
    /\ phase = "starting"
    /\ phase' = "top"
    /\ UNCHANGED <<channelVars, barrierVars, owner, budget, queueVars, ledgerVars, window, job,
                   failures>>

(* recv blocks only while nothing is staged.                                  *)
Receive ==
    /\ phase = "top" /\ QueueIsEmpty /\ channel # <<>>
    /\ \/ Head(channel) = Shutdown /\ Exit
       \/ /\ Head(channel) # Shutdown
          /\ channel' = Tail(channel)
          /\ Stage(Head(channel))
          /\ phase' = "drain" /\ budget' = Capacity
          /\ UNCHANGED <<epoch, sending, barrierVars, owner, checkpoints, checkpointPending,
                         ledgerVars, window, job, failures>>

SkipReceive ==
    /\ phase = "top" /\ ~QueueIsEmpty
    /\ phase' = "drain" /\ budget' = Capacity
    /\ UNCHANGED <<channelVars, barrierVars, owner, queueVars, ledgerVars, window, job, failures>>

Drain ==
    /\ phase = "drain" /\ budget > 0 /\ channel # <<>>
    /\ \/ Head(channel) = Shutdown /\ Exit
       \/ /\ Head(channel) # Shutdown
          /\ channel' = Tail(channel)
          /\ Stage(Head(channel))
          /\ budget' = budget - 1
          /\ UNCHANGED <<epoch, sending, barrierVars, owner, phase, checkpoints,
                         checkpointPending, ledgerVars, window, job, failures>>

EndDrain ==
    /\ phase = "drain" /\ (budget = 0 \/ channel = <<>>)
    /\ phase' = "pop" /\ budget' = 0
    /\ UNCHANGED <<channelVars, barrierVars, owner, queueVars, ledgerVars, window, job, failures>>

-----------------------------------------------------------------------------
(* reconcile, as far as this loop depends on it.                              *)

(* full_reconciliation_reasons, and the checkpoint's own.                     *)
ForceFull(uncertain, checkpoint) ==
    ~cached \/ doubts > seenDoubts \/ uncertain \/ checkpoint

StartReconcile(uncertain, checkpoint, cancelWhenUnobserved, then) ==
    /\ job' = [then |-> then, generation |-> PendingGeneration,
               cancellable |-> cancelWhenUnobserved,
               full |-> ForceFull(uncertain, checkpoint),
               doubts |-> doubts, lost |-> Counted, epoch |-> 0, covered |-> 0]
    /\ workerOp' = IF ~cancelWhenUnobserved THEN workerOp
                   ELSE IF Active = {} THEN "cancelled" ELSE "live"
    /\ phase' = "scan"

ReconcileFrame == UNCHANGED <<channel, epoch, sending, callerVars, stop, owner, budget, edits, window>>

Scan ==
    /\ phase = "scan"
    /\ job.cancellable => workerOp # "cancelled"
    /\ job' = [job EXCEPT !.epoch = epoch]
    /\ phase' = "cover"
    /\ ReconcileFrame
    /\ UNCHANGED <<dropVars, completed, answered, workerOp, checkpoints, checkpointPending,
                   ledgerVars, failures>>

Cover ==
    /\ phase = "cover"
    /\ job' = [job EXCEPT !.covered = PendingGeneration]
    /\ phase' = "publish"
    /\ ReconcileFrame
    /\ UNCHANGED <<dropVars, completed, answered, workerOp, checkpoints, checkpointPending,
                   ledgerVars, failures>>

(* An event arrived since the scan began.                                     *)
Rescan ==
    /\ phase = "publish" /\ epoch # job.epoch
    /\ phase' = "scan"
    /\ ReconcileFrame
    /\ UNCHANGED <<dropVars, completed, answered, workerOp, checkpoints, checkpointPending,
                   ledgerVars, job, failures>>

(* Faulty: a full reread leaves the queued checkpoint behind.                 *)
CheckpointsKept(full) == checkpoints

(* queue.retain in track_reconcile_outcome.                                   *)
RetainedCheckpoints(full) == IF full THEN 0 ELSE checkpoints

(* track_reconcile_outcome after a success.                                   *)
TrackOutcome(full, since) ==
    LET kept == RetainedCheckpoints(full)
        pending == ~full /\ checkpointPending
        due == ~pending /\ since >= FullInterval
        staged == due /\ kept < Capacity
    IN  /\ checkpoints' = IF staged THEN kept + 1 ELSE kept
        /\ checkpointPending' = (pending \/ staged)

(* Faulty: uncertainty that arose during the scan is consumed with the rest.  *)
DoubtsNow == doubts

(* reconciled_watcher_errors and reconciled_dropped_events afterwards.        *)
DoubtsSettled == job.doubts

(* The scan itself may have escalated to a full reread (ScanInstability).     *)
Publish(full) ==
    LET since == IF full THEN 0 ELSE sinceFull + 1
    IN  /\ phase = "publish" /\ epoch = job.epoch
        /\ job.cancellable => workerOp # "cancelled"
        /\ job.full => full
        /\ sinceFull' = since
        /\ reconciled' = job.epoch /\ seenDoubts' = DoubtsSettled /\ cached' = TRUE
        /\ lost' = IF full THEN lost \ job.lost ELSE lost
        /\ TrackOutcome(full, since)
        /\ CompleteUpTo(job.covered)
        /\ phase' = job.then /\ job' = NoJob
        /\ ReconcileFrame
        /\ UNCHANGED <<doubts, refused, failures>>

(* The shared operation was cancelled, or refresh_watches saw the stop flag.  *)
Abandon ==
    /\ phase \in {"scan", "cover", "publish"}
    /\ \/ job.cancellable /\ workerOp = "cancelled"
       \/ phase = "publish" /\ stop
    /\ workerOp' = "none"
    /\ phase' = job.then /\ job' = NoJob
    /\ ReconcileFrame
    /\ UNCHANGED <<dropVars, completed, answered, checkpoints, checkpointPending, ledgerVars,
                   failures>>

Fail ==
    /\ phase \in {"scan", "cover", "publish"} /\ failures < MaxFailures
    /\ failures' = failures + 1
    /\ CompleteUpTo(job.generation)
    /\ phase' = job.then /\ job' = NoJob
    /\ ReconcileFrame
    /\ UNCHANGED <<dropVars, checkpoints, checkpointPending, ledgerVars>>

-----------------------------------------------------------------------------
(* One selected signal.  An aged checkpoint may be older than the first edit, *)
(* so with both staged either one can be the most urgent.                     *)

PopCheckpoint ==
    /\ phase = "pop" /\ checkpoints > 0
    /\ checkpoints' = checkpoints - 1
    /\ checkpointPending' = FALSE
    /\ StartReconcile(FALSE, TRUE, FALSE, "post")
    /\ UNCHANGED <<channelVars, callerVars, completed, answered, stop, owner, budget, edits,
                   ledgerVars, window, failures>>

PopBarrier ==
    /\ phase = "pop" /\ edits # <<>> /\ Head(edits) = Barrier
    /\ edits' = Tail(edits)
    /\ \/ DemandPending /\ StartReconcile(FALSE, FALSE, TRUE, "post")
       \/ ~DemandPending /\ phase' = "post" /\ UNCHANGED <<job, workerOp>>
    /\ UNCHANGED <<channelVars, callerVars, completed, answered, stop, owner, budget,
                   checkpoints, checkpointPending, ledgerVars, window, failures>>

(* Faulty: the next event passes for one already covered.                     *)
NextSuperseded(signal) == signal.epoch <= reconciled + 1

Superseded(signal) == signal.epoch <= reconciled

(* `continue`: the check for pending demand at the end of the loop is skipped. *)
PopSuperseded ==
    /\ phase = "pop" /\ edits # <<>> /\ Head(edits).kind = "filesystem"
    /\ Superseded(Head(edits))
    /\ edits' = Tail(edits)
    /\ phase' = "top"
    /\ UNCHANGED <<channelVars, barrierVars, owner, budget, checkpoints, checkpointPending,
                   ledgerVars, window, job, failures>>

PopEvent ==
    /\ phase = "pop" /\ edits # <<>> /\ Head(edits).kind = "filesystem"
    /\ ~Superseded(Head(edits))
    /\ window' = [latest |-> Head(edits).epoch,
                  uncertain |-> Head(edits).uncertain \/ Head(edits).epoch # reconciled + 1,
                  events |-> {Head(edits).epoch}]
    /\ edits' = Tail(edits)
    /\ phase' = "debounce"
    /\ UNCHANGED <<channelVars, barrierVars, owner, budget, checkpoints, checkpointPending,
                   ledgerVars, job, failures>>

-----------------------------------------------------------------------------
(* The debounce window: receive, drain, fold what is staged, until it closes. *)

(* Faulty: a gap is overlooked as long as epochs keep growing.                *)
NotLater(latest, observed) == observed <= latest

(* event_epoch_is_non_contiguous.                                             *)
NonContiguous(latest, observed) == observed # latest + 1

Fold(w, signal) ==
    IF signal.kind # "filesystem" THEN w
    ELSE [latest |-> Max({w.latest, signal.epoch}),
          uncertain |-> w.uncertain \/ signal.uncertain \/ NonContiguous(w.latest, signal.epoch),
          events |-> w.events \union {signal.epoch}]

(* Faulty: the window swallows the shutdown signal.                           *)
ShutdownSwallowed ==
    /\ channel' = Tail(channel)
    /\ UNCHANGED <<epoch, sending, dropVars, barrierVars, owner, workerVars>>

ShutdownInWindow == Exit

DebounceReceive ==
    /\ phase = "debounce" /\ channel # <<>>
    /\ \/ Head(channel) = Shutdown /\ ShutdownInWindow
       \/ /\ Head(channel) # Shutdown
          /\ channel' = Tail(channel)
          /\ Stage(Head(channel))
          /\ phase' = "debounce_drain" /\ budget' = Capacity
          /\ UNCHANGED <<epoch, sending, barrierVars, owner, checkpoints, checkpointPending,
                         ledgerVars, window, job, failures>>

DebounceDrain ==
    /\ phase = "debounce_drain" /\ budget > 0 /\ channel # <<>>
    /\ \/ Head(channel) = Shutdown /\ ShutdownInWindow
       \/ /\ Head(channel) # Shutdown
          /\ channel' = Tail(channel)
          /\ Stage(Head(channel))
          /\ budget' = budget - 1
          /\ UNCHANGED <<epoch, sending, barrierVars, owner, phase, checkpoints,
                         checkpointPending, ledgerVars, window, job, failures>>

EndDebounceDrain ==
    /\ phase = "debounce_drain" /\ (budget = 0 \/ channel = <<>>)
    /\ phase' = "debounce_fold" /\ budget' = 0
    /\ UNCHANGED <<channelVars, barrierVars, owner, queueVars, ledgerVars, window, job, failures>>

(* Everything staged except checkpoints joins the window, signal by signal;    *)
(* barriers vanish, their demand being recorded in the generation.             *)
DebounceFold ==
    /\ phase = "debounce_fold"
    /\ \/ /\ edits # <<>>
          /\ window' = Fold(window, Head(edits))
          /\ edits' = Tail(edits)
          /\ UNCHANGED phase
       \/ /\ edits = <<>>
          /\ phase' = "debounce"
          /\ UNCHANGED <<window, edits>>
    /\ UNCHANGED <<channelVars, barrierVars, owner, budget, checkpoints, checkpointPending,
                   ledgerVars, job, failures>>

DebounceClose ==
    /\ phase = "debounce"
    /\ StartReconcile(window.uncertain, FALSE, FALSE, "post")
    /\ window' = NoWindow
    /\ UNCHANGED <<channelVars, callerVars, completed, answered, stop, owner, budget, queueVars,
                   ledgerVars, failures>>

-----------------------------------------------------------------------------
(* The check at the end of the loop.                                          *)

ServeDemand ==
    /\ phase = "post"
    /\ \/ DemandPending /\ StartReconcile(FALSE, FALSE, TRUE, "top")
       \/ ~DemandPending /\ phase' = "top" /\ UNCHANGED <<job, workerOp>>
    /\ UNCHANGED <<channelVars, callerVars, completed, answered, stop, owner, budget, queueVars,
                   ledgerVars, window, failures>>

-----------------------------------------------------------------------------
(* The owner: await_worker_startup, stop_and_join.                            *)

OwnerFrame == UNCHANGED <<epoch, sending, dropVars, requested, completed, target, sent,
                          operation, answered, workerOp, workerVars>>

StartupSucceeds ==
    /\ owner = "starting" /\ phase \notin {"starting", "stopped"}
    /\ owner' = "serving"
    /\ OwnerFrame /\ UNCHANGED <<channel, stop>>

(* The worker reported an error, or nothing before the timeout.               *)
StartupFailure ==
    /\ owner = "starting"
    /\ phase = "stopped" \/ (MayTimeOut /\ phase = "starting")
    /\ owner' = "timed_out"
    /\ channel' = IF Connected /\ Room THEN Append(channel, Shutdown) ELSE channel
    /\ OwnerFrame /\ UNCHANGED stop

StartupStop ==
    /\ owner = "timed_out" /\ ~stop
    /\ stop' = TRUE
    /\ OwnerFrame /\ UNCHANGED <<channel, owner>>

(* shutdown or Drop: a blocking send, then the flag.                          *)
SendShutdown ==
    /\ owner = "serving" /\ (Room \/ ~Connected)
    /\ owner' = "stopping"
    /\ channel' = IF Connected THEN Append(channel, Shutdown) ELSE channel
    /\ OwnerFrame /\ UNCHANGED stop

Stop ==
    /\ owner = "stopping" /\ ~stop
    /\ stop' = TRUE
    /\ OwnerFrame /\ UNCHANGED <<channel, owner>>

Join ==
    /\ owner \in {"timed_out", "stopping"} /\ stop /\ phase = "stopped"
    /\ owner' = "joined"
    /\ OwnerFrame /\ UNCHANGED <<channel, stop>>

-----------------------------------------------------------------------------
Worker ==
    \/ StartupReady \/ Receive \/ SkipReceive \/ Drain \/ EndDrain
    \/ PopCheckpoint \/ PopBarrier \/ PopSuperseded \/ PopEvent
    \/ DebounceReceive \/ DebounceDrain \/ EndDebounceDrain \/ DebounceFold \/ DebounceClose
    \/ ServeDemand \/ Scan \/ Cover \/ Rescan \/ Abandon \/ Fail
    \/ \E full \in BOOLEAN : Publish(full)

Caller(w) == SendBarrier(w) \/ FinishWaiter(w)

Owner == StartupSucceeds \/ StartupFailure \/ StartupStop \/ Stop \/ Join

Next ==
    \/ Worker \/ StartupFails \/ Owner \/ SendShutdown \/ Callback
    \/ \E uncertain, error \in BOOLEAN : Observe(uncertain, error)
    \/ \E w \in Waiters : Register(w) \/ CancelWaiter(w) \/ Caller(w)

(* Each thread keeps running; nothing obliges the editor, the callers or the  *)
(* owner to start anything, a caller's deadline to pass or a step to fail.    *)
Fairness ==
    /\ WF_vars(Worker) /\ WF_vars(Owner) /\ WF_vars(Callback)
    /\ \A w \in Waiters : WF_vars(Caller(w))

Spec == Init /\ [][Next]_vars /\ Fairness

-----------------------------------------------------------------------------
(* Properties.                                                                *)

(* Types, and the bounds of the channel and of the classes of the queue that  *)
(* EVENT_QUEUE_CAPACITY and QUEUE_PER_CLASS_CAPACITY promise.                 *)
TypeOK ==
    /\ channel \in Seq(Signals) /\ Len(channel) <= Capacity
    /\ edits \in Seq(Signals) /\ Len(edits) <= Capacity
    /\ epoch \in 0 .. MaxEpoch /\ sending \in SignalsOf({"filesystem", "dropped"})
    /\ doubts \in Nat /\ lost \subseteq 1 .. epoch /\ refused \subseteq {"filesystem", "barrier"}
    /\ requested \in 0 .. MaxGeneration /\ completed \in 0 .. requested
    /\ target \in [Waiters -> 0 .. requested]
    /\ sent \in [Waiters -> BOOLEAN] /\ operation \in [Waiters -> BOOLEAN]
    /\ answered \in [Waiters -> BOOLEAN]
    /\ workerOp \in {"none", "live", "cancelled"} /\ stop \in BOOLEAN
    /\ owner \in {"starting", "serving", "timed_out", "stopping", "joined"}
    /\ phase \in Phases /\ budget \in 0 .. Capacity
    /\ checkpoints \in 0 .. Capacity /\ checkpointPending \in BOOLEAN
    /\ sinceFull \in Nat /\ reconciled \in 0 .. epoch /\ seenDoubts \in 0 .. doubts
    /\ cached \in BOOLEAN
    /\ window \in [latest : 0 .. epoch, uncertain : BOOLEAN, events : SUBSET (1 .. epoch)]
    /\ job \in [then : {"post", "top"}, generation : 0 .. requested, cancellable : BOOLEAN,
                full : BOOLEAN, doubts : 0 .. doubts, lost : SUBSET (1 .. epoch),
                epoch : 0 .. epoch, covered : 0 .. requested]
    /\ failures \in 0 .. MaxFailures

(* A drop that was counted owes a full reread until one that started after it  *)
(* was counted is published: no reconciliation that may reuse cached bodies    *)
(* starts meanwhile, and none that started before settles the debt.            *)
(* stage_signal promises that after a drop "the next reconciliation distrusts  *)
(* retained bodies"; for a drop of the callback it is the next one after the   *)
(* count, which one that starts between try_send and fetch_add precedes.       *)
DroppedEventForcesReread ==
    /\ Counted # {} => doubts > seenDoubts
    /\ phase \in {"scan", "cover", "publish"} /\ ~job.full => job.lost = {}

(* Unless it is marked uncertain, a debounce window holds every event since   *)
(* the last reconciliation up to its latest one: no drop, reordering or       *)
(* superseded signal leaves a gap that epoch contiguity overlooks.            *)
CertainWindowIsComplete ==
    phase \in {"debounce", "debounce_drain", "debounce_fold"} /\ ~window.uncertain
        => window.events = reconciled + 1 .. window.latest

(* checkpoint_pending says exactly whether a checkpoint is staged, and there  *)
(* is never a second one: track_reconcile_outcome's retain and push agree     *)
(* with the flag after every reconciliation, however it was triggered.        *)
OneCheckpointStaged ==
    phase # "stopped" => checkpoints = IF checkpointPending THEN 1 ELSE 0

(* A staged checkpoint is executed or cancelled although edits overtake it    *)
(* and although the channel may stay silent ("a queued background checkpoint  *)
(* must run even while the transport channel stays silent").                  *)
CheckpointEventuallyTaken == checkpointPending /\ Connected ~> checkpoints = 0

(* stop_and_join returns: a Shutdown that was sent ends the worker wherever   *)
(* its loop is.                                                               *)
ShutdownJoins == owner = "stopping" ~> owner = "joined"

(* Unless a barrier signal was refused, every call of require_fresh returns   *)
(* without waiting for its own deadline, with its outcome or because the      *)
(* worker stopped, whatever events race it and fill the queue around it.      *)
EveryWaiterReturns ==
    \A w \in Waiters : target[w] # 0 ~> target[w] = 0 \/ "barrier" \in refused

(* Unless an event was refused, once no more arrive the last one is            *)
(* reconciled, or a reconciliation failed (a failure is only retried by the   *)
(* next signal), or the index is being stopped.                               *)
EventsAreReconciled ==
    <>[](\/ reconciled = epoch \/ failures > 0 \/ stop
         \/ "filesystem" \in refused)

(* "The generation counter is the durable source of demand" (run_worker): the *)
(* worker never blocks in recv, with no send under way that would wake it,     *)
(* while a caller is waiting.                                                 *)
DemandIsDurable ==
    phase = "top" /\ QueueIsEmpty /\ channel = <<>> /\ sending = NoEvent
        /\ (\A w \in Waiters : target[w] # 0 => sent[w])
        => \A w \in Waiters : target[w] # 0 /\ operation[w] => answered[w] \/ stop

(* "Timeout, setup failure, barrier-install failure, and shutdown all signal   *)
(* the single owner, stop registration cooperatively, and join it before      *)
(* returning" (ADR-005): a start that fails joins its worker.                 *)
FailedStartJoins == owner = "timed_out" ~> owner = "joined"
=============================================================================
