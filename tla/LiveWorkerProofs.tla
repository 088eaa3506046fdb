--------------------------- MODULE LiveWorkerProofs ---------------------------
(***************************************************************************)
(* Proofs about LiveWorker for any number of callers, any capacity and any   *)
(* number of events, calls and failures.  The arguments: a drop enters the    *)
(* counted ones in the step that raises `doubts`, and a reconciliation       *)
(* settles only the doubts it sampled when it started, with the drops         *)
(* counted then; a window that stays certain has grown by exactly one epoch  *)
(* at a time.                                                                *)
(***************************************************************************)
EXTENDS LiveWorker, FiniteSetTheorems, SequenceTheorems, TLAPS

(* What a sender may have put into the channel.                               *)
Known == {Barrier, Shutdown} \union {Filesystem(e, u) : e \in 1 .. epoch, u \in BOOLEAN}

SignalsInv ==
    /\ channel \in Seq(Known) /\ edits \in Seq(Known)
    /\ \/ sending = NoEvent
       \/ sending \in Known /\ sending.kind = "filesystem"
       \/ sending.kind = "dropped" /\ sending.epoch \in 1 .. epoch

Reconciling == phase \in {"scan", "cover", "publish"}

(* Drops counted since a reconciliation started are doubted beyond what it     *)
(* will settle.                                                               *)
LostInv == Reconciling /\ Counted \ job.lost # {} => doubts > job.doubts

Debouncing == phase \in {"debounce", "debounce_drain", "debounce_fold"}

WindowInv == Debouncing => window.latest > reconciled

WorkerInv ==
    /\ TypeOK /\ SignalsInv
    /\ OneCheckpointStaged
    /\ LostInv /\ DroppedEventForcesReread
    /\ WindowInv /\ CertainWindowIsComplete

-----------------------------------------------------------------------------
(* Lemmas about the data.                                                    *)

(* The numbers among the constants.                                           *)
LEMMA Bounds ==
    /\ Capacity \in Nat \ {0} /\ FullInterval \in Nat \ {0}
    /\ MaxEpoch \in Nat /\ MaxGeneration \in Nat /\ MaxFailures \in Nat
BY LiveWorkerAssumption

(* A finite set of integers has its largest element.                          *)
LEMMA MaxExists ==
    ASSUME NEW S, IsFiniteSet(S), S \subseteq Int, S # {}
    PROVE  Max(S) \in S /\ \A y \in S : Max(S) >= y
<1> DEFINE above(x) == {y \in S : y > x}
           T == {above(x) : x \in S}
<1>1. T \subseteq FiniteSubsetsOf(S) /\ T # {}
  <2>1. \A x \in S : above(x) \in SUBSET S /\ IsFiniteSet(above(x))
    BY FS_Subset
  <2> QED BY <2>1 DEF FiniteSubsetsOf
<1>2. PICK U \in T : \A V \in T : <<V, U>> \notin StrictSubsetOrdering(S)
  <2> HIDE DEF T
  <2>1. IsWellFoundedOn(StrictSubsetOrdering(S), FiniteSubsetsOf(S))
    BY FS_StrictSubsetOrderingWellFounded
  <2> QED BY <1>1, <2>1, WFMin
<1>3. PICK x \in S : U = above(x)
  OBVIOUS
<1>4. \A y \in S : x >= y
  <2> SUFFICES ASSUME NEW y \in S, ~(x >= y)
               PROVE  FALSE
    OBVIOUS
  <2>1. x \in Int /\ y \in Int /\ y > x
    OBVIOUS
  <2>2. above(y) \subseteq above(x) /\ y \in above(x) /\ y \notin above(y)
    <3>1. \A z \in S : z \in Int /\ (z > y => z > x)
      BY <2>1
    <3>2. above(y) \subseteq above(x)
      BY <3>1, Zenon
    <3>3. y \in above(x)
      BY <2>1, Zenon
    <3>4. ~(y > y)
      BY <2>1
    <3>5. y \notin above(y)
      BY <3>4, Zenon
    <3> QED BY <3>2, <3>3, <3>5
  <2>3. <<above(y), above(x)>> \in StrictSubsetOrdering(S)
    <3>1. above(y) \in SUBSET S /\ above(x) \in SUBSET S /\ above(y) # above(x)
      BY <2>2
    <3> HIDE DEF above
    <3> QED BY <3>1, <2>2 DEF StrictSubsetOrdering
  <2>4. above(y) \in T
    OBVIOUS
  <2> QED BY <1>2, <1>3, <2>3, <2>4
<1> QED BY <1>4 DEF Max

(* The larger of two numbers.                                                 *)
LEMMA MaxOfTwo ==
    ASSUME NEW a \in Int, NEW b \in Int
    PROVE  /\ Max({a, b}) \in {a, b} /\ Max({a, b}) >= a /\ Max({a, b}) >= b
<1>1. \E x \in {a, b} : \A y \in {a, b} : x >= y
  OBVIOUS
<1> QED BY <1>1 DEF Max

(* The newest demand is a generation that was handed out.                     *)
LEMMA PendingIsRequested ==
    ASSUME TypeOK
    PROVE  PendingGeneration \in 0 .. requested
<1> DEFINE keys == {target[w] : w \in Waiters} \ {0}
<1>1. keys \subseteq 0 .. requested /\ keys \subseteq Int /\ requested \in Nat
  BY Bounds DEF TypeOK
<1>2. IsFiniteSet(keys)
  <2>1. 0 \in Int /\ requested \in Int
    BY <1>1
  <2>2. IsFiniteSet(0 .. requested)
    BY <2>1, FS_Interval
  <2> HIDE DEF keys
  <2> QED BY <1>1, <2>2, FS_Subset
<1> HIDE DEF keys
<1>3. keys # {} => Max(keys) \in keys
  BY <1>1, <1>2, MaxExists
<1>4. PendingGeneration = IF keys = {} THEN completed ELSE Max(keys)
  BY DEF PendingGeneration, keys
<1> QED BY <1>1, <1>3, <1>4 DEF TypeOK

(* Known signals are signals, and stay known.                                 *)
LEMMA KnownSignals ==
    ASSUME TypeOK
    PROVE  /\ Known \subseteq Signals
           /\ \A s \in Known : /\ s # Shutdown => s.kind \in {"filesystem", "barrier"}
                               /\ s.kind = "filesystem" => s.epoch \in 1 .. epoch
                               /\ s.epoch \in 0 .. epoch /\ s.uncertain \in BOOLEAN
<1>1. epoch \in 0 .. MaxEpoch /\ epoch \in Nat /\ 1 .. epoch \subseteq 0 .. MaxEpoch
  BY Bounds DEF TypeOK
<1>2. ASSUME NEW s \in {Barrier, Shutdown}
      PROVE  /\ s \in Signals
             /\ s # Shutdown => s.kind = "barrier"
             /\ s.kind # "filesystem" /\ s.epoch = 0 /\ s.uncertain = FALSE
  <2>1. 0 \in 0 .. MaxEpoch
    BY Bounds
  <2>2. CASE s = Barrier
    BY <2>1, <2>2 DEF Barrier, Shutdown, Signals, SignalsOf
  <2>3. CASE s = Shutdown
    BY <2>1, <2>3 DEF Barrier, Shutdown, Signals, SignalsOf
  <2> QED BY <2>2, <2>3
<1>3. ASSUME NEW e \in 1 .. epoch, NEW u \in BOOLEAN
      PROVE  /\ Filesystem(e, u) \in Signals
             /\ Filesystem(e, u).kind = "filesystem"
             /\ Filesystem(e, u).epoch = e /\ Filesystem(e, u).uncertain = u
  BY <1>1 DEF Filesystem, Signals, SignalsOf
<1>4. \A s \in Known : s \in {Barrier, Shutdown} \/ \E e \in 1 .. epoch, u \in BOOLEAN : s = Filesystem(e, u)
  BY DEF Known
<1>5. ASSUME NEW s \in Known
      PROVE  /\ s \in Signals
             /\ s # Shutdown => s.kind \in {"filesystem", "barrier"}
             /\ s.kind = "filesystem" => s.epoch \in 1 .. epoch
             /\ s.epoch \in 0 .. epoch /\ s.uncertain \in BOOLEAN
  <2>1. CASE s \in {Barrier, Shutdown}
    <3>1. 0 \in 0 .. epoch
      BY <1>1
    <3>2. s \in Signals /\ s.kind # "filesystem" /\ s.epoch = 0 /\ s.uncertain = FALSE
      BY <2>1, <1>2
    <3>3. s # Shutdown => s.kind = "barrier"
      BY <2>1, <1>2
    <3> QED BY <3>1, <3>2, <3>3
  <2>2. CASE \E e \in 1 .. epoch, u \in BOOLEAN : s = Filesystem(e, u)
    <3>1. PICK e \in 1 .. epoch, u \in BOOLEAN : s = Filesystem(e, u)
      BY <2>2
    <3>2. s \in Signals /\ s.kind = "filesystem" /\ s.epoch = e /\ s.uncertain = u
      BY <3>1, <1>3
    <3> QED BY <3>2, <1>1
  <2> QED BY <1>4, <2>1, <2>2
<1> QED BY <1>5

(* Sequences of signals: what the channel and the queue are made of.          *)
LEMMA HeadAndTail ==
    ASSUME NEW S, NEW s \in Seq(S), s # <<>>
    PROVE  /\ Head(s) \in S /\ Tail(s) \in Seq(S) /\ Len(Tail(s)) <= Len(s)
           /\ Len(s) \in Nat
BY HeadTailProperties, LenProperties

LEMMA Appended ==
    ASSUME NEW S, NEW s \in Seq(S), NEW x \in S
    PROVE  Append(s, x) \in Seq(S) /\ Len(Append(s, x)) = Len(s) + 1 /\ Len(s) \in Nat
BY AppendProperties, LenProperties

(* Queues of known signals have the types of TypeOK.                          *)
LEMMA KnownQueues ==
    ASSUME TypeOK, SignalsInv
    PROVE  channel \in Seq(Signals) /\ edits \in Seq(Signals)
BY DEF TypeOK

(* What a step may do to the drops: count them only by raising the doubts.    *)
Drops ==
    /\ doubts' \in Nat /\ doubts' >= doubts
    /\ lost' \subseteq 1 .. epoch /\ refused' \subseteq {"filesystem", "barrier"}
    /\ Counted' \subseteq Counted \/ doubts' > doubts

LEMMA NothingDropped ==
    ASSUME TypeOK, UNCHANGED dropVars,
           UNCHANGED sending \/ (sending.kind # "dropped" /\ sending' = NoEvent)
    PROVE  Drops
BY DEF Drops, dropVars, TypeOK, Counted, NoEvent, Filesystem

LEMMA StageDrops ==
    ASSUME TypeOK, SignalsInv, NEW s \in Known, s # Shutdown, Stage(s), UNCHANGED sending
    PROVE  Drops /\ edits' \in Seq(Known) /\ Len(edits') <= Capacity
<1>1. CASE Len(edits) < Capacity /\ edits' = Append(edits, s) /\ UNCHANGED dropVars
  <2>1. edits' \in Seq(Known) /\ Len(edits') = Len(edits) + 1 /\ Len(edits) \in Nat
    BY <1>1, Appended DEF SignalsInv
  <2> QED BY <1>1, <2>1, NothingDropped, Bounds
<1>2. CASE /\ refused' = refused \union {s.kind}
           /\ IF s.kind = "filesystem"
              THEN doubts' = doubts + 1 /\ lost' = lost \union {s.epoch}
              ELSE UNCHANGED <<doubts, lost>>
           /\ UNCHANGED edits
  <2>1. s.kind \in {"filesystem", "barrier"} /\ (s.kind = "filesystem" => s.epoch \in 1 .. epoch)
    BY KnownSignals
  <2>2. doubts \in Nat /\ lost \subseteq 1 .. epoch /\ refused \subseteq {"filesystem", "barrier"}
    BY DEF TypeOK
  <2>3. refused' \subseteq {"filesystem", "barrier"} /\ lost' \subseteq 1 .. epoch
    BY <1>2, <2>1, <2>2, Zenon
  <2>4. doubts' \in Nat /\ doubts' >= doubts /\ (lost' = lost \/ doubts' > doubts)
    BY <1>2, <2>2
  <2>5. Counted' \subseteq Counted \/ doubts' > doubts
    BY <2>4 DEF Counted
  <2> QED BY <1>2, <2>3, <2>4, <2>5 DEF Drops, SignalsInv, TypeOK
<1> QED BY <1>1, <1>2 DEF Stage

-----------------------------------------------------------------------------
(* The type invariant in four parts, by what disturbs them.                  *)

ChannelTypes ==
    /\ channel \in Seq(Signals) /\ Len(channel) <= Capacity
    /\ edits \in Seq(Signals) /\ Len(edits) <= Capacity
    /\ epoch \in 0 .. MaxEpoch /\ sending \in SignalsOf({"filesystem", "dropped"})
    /\ doubts \in Nat /\ refused \subseteq {"filesystem", "barrier"}

CallerTypes ==
    /\ requested \in 0 .. MaxGeneration /\ completed \in 0 .. requested
    /\ target \in [Waiters -> 0 .. requested]
    /\ sent \in [Waiters -> BOOLEAN] /\ operation \in [Waiters -> BOOLEAN]
    /\ answered \in [Waiters -> BOOLEAN]
    /\ workerOp \in {"none", "live", "cancelled"} /\ stop \in BOOLEAN
    /\ owner \in {"starting", "serving", "timed_out", "stopping", "joined"}

LoopTypes ==
    /\ phase \in Phases /\ budget \in 0 .. Capacity
    /\ checkpoints \in 0 .. Capacity /\ checkpointPending \in BOOLEAN
    /\ sinceFull \in Nat /\ cached \in BOOLEAN /\ failures \in 0 .. MaxFailures

Jobs == [then : {"post", "top"}, generation : 0 .. requested, cancellable : BOOLEAN,
         full : BOOLEAN, doubts : 0 .. doubts, lost : SUBSET (1 .. epoch),
         epoch : 0 .. epoch, covered : 0 .. requested]

Windows == [latest : 0 .. epoch, uncertain : BOOLEAN, events : SUBSET (1 .. epoch)]

SampleTypes ==
    /\ lost \subseteq 1 .. epoch /\ reconciled \in 0 .. epoch /\ seenDoubts \in 0 .. doubts
    /\ window \in Windows /\ job \in Jobs

LEMMA TypesByParts == TypeOK <=> ChannelTypes /\ CallerTypes /\ LoopTypes /\ SampleTypes
BY DEF TypeOK, ChannelTypes, CallerTypes, LoopTypes, SampleTypes, Jobs, Windows

LEMMA TypesByPartsNext == TypeOK' <=> ChannelTypes' /\ CallerTypes' /\ LoopTypes' /\ SampleTypes'
BY DEF TypeOK, ChannelTypes, CallerTypes, LoopTypes, SampleTypes, Jobs, Windows

(* Samples of counters that only grow keep their types.                       *)
LEMMA SamplesKept ==
    ASSUME TypeOK, UNCHANGED <<reconciled, seenDoubts, window, job>>,
           epoch' \in Nat, epoch' >= epoch, doubts' \in Nat, doubts' >= doubts,
           requested' \in Nat, requested' >= requested, lost' \subseteq 1 .. epoch'
    PROVE  SampleTypes'
<1>1. epoch \in Nat /\ doubts \in Nat /\ requested \in Nat
  BY Bounds DEF TypeOK
<1>2. /\ 0 .. epoch \subseteq 0 .. epoch' /\ 1 .. epoch \subseteq 1 .. epoch'
      /\ 0 .. doubts \subseteq 0 .. doubts' /\ 0 .. requested \subseteq 0 .. requested'
  BY <1>1
<1>3. Windows \subseteq Windows'
  BY <1>2, Zenon DEF Windows
<1>4. Jobs \subseteq Jobs'
  BY <1>2, Zenon DEF Jobs
<1>5. reconciled \in 0 .. epoch /\ seenDoubts \in 0 .. doubts /\ window \in Windows /\ job \in Jobs
  BY TypesByParts DEF SampleTypes
<1> QED BY <1>2, <1>3, <1>4, <1>5 DEF SampleTypes

(* The samples with the counters they are bounded by untouched.               *)
LEMMA SamplesUntouched ==
    ASSUME TypeOK, UNCHANGED <<reconciled, seenDoubts, window, job, epoch, requested>>, Drops
    PROVE  SampleTypes'
<1>1. epoch \in Nat /\ requested \in Nat
  BY Bounds DEF TypeOK
<1> QED BY <1>1, SamplesKept DEF Drops

-----------------------------------------------------------------------------
(* What a step that does not concern an invariant leaves of it.               *)

LEMMA SignalsKept ==
    ASSUME SignalsInv, UNCHANGED <<channel, edits, epoch, sending>>
    PROVE  SignalsInv'
BY DEF SignalsInv, Known

LEMMA LostKept ==
    ASSUME TypeOK, LostInv, DroppedEventForcesReread, Drops,
           UNCHANGED <<seenDoubts, job>>, Reconciling' => Reconciling
    PROVE  LostInv' /\ DroppedEventForcesReread'
<1>1. doubts \in Nat /\ doubts' \in Nat /\ seenDoubts \in 0 .. doubts /\ job.doubts \in 0 .. doubts
      /\ doubts' >= doubts /\ (Counted' \subseteq Counted \/ doubts' > doubts)
  BY DEF TypeOK, Drops
<1>2. LostInv'
  BY <1>1 DEF LostInv, Reconciling
<1>3. DroppedEventForcesReread'
  BY <1>1 DEF DroppedEventForcesReread, Reconciling
<1> QED BY <1>2, <1>3

LEMMA WindowKept ==
    ASSUME WindowInv, CertainWindowIsComplete,
           UNCHANGED <<window, reconciled>>, Debouncing' => Debouncing
    PROVE  WindowInv' /\ CertainWindowIsComplete'
BY DEF WindowInv, CertainWindowIsComplete, Debouncing

LEMMA WindowClosed ==
    ASSUME ~Debouncing'
    PROVE  WindowInv' /\ CertainWindowIsComplete'
BY DEF WindowInv, CertainWindowIsComplete, Debouncing

LEMMA NotReconciling ==
    ASSUME TypeOK, Drops, UNCHANGED seenDoubts, DroppedEventForcesReread, ~Reconciling'
    PROVE  LostInv' /\ DroppedEventForcesReread'
<1>1. doubts \in Nat /\ doubts' \in Nat /\ seenDoubts \in 0 .. doubts
      /\ doubts' >= doubts /\ (Counted' \subseteq Counted \/ doubts' > doubts)
  BY DEF TypeOK, Drops
<1> QED BY <1>1 DEF LostInv, Reconciling, DroppedEventForcesReread

(* A step that starts, ends and covers nothing: it moves signals, counts      *)
(* drops, or serves the callers and the owner.                                *)
LEMMA QuietStep ==
    ASSUME WorkerInv, Drops,
           UNCHANGED <<reconciled, seenDoubts, window, job, checkpoints, checkpointPending>>,
           epoch' \in Nat, epoch' >= epoch, requested' \in Nat, requested' >= requested,
           Reconciling' => Reconciling, Debouncing' => Debouncing,
           phase = "stopped" => phase' = "stopped",
           ChannelTypes', SignalsInv', CallerTypes', LoopTypes'
    PROVE  WorkerInv'
<1>1. epoch \in Nat
  BY Bounds DEF WorkerInv, TypeOK
<1>2. SampleTypes'
  <2>1. 1 .. epoch \subseteq 1 .. epoch'
    BY <1>1
  <2> QED BY <2>1, SamplesKept DEF WorkerInv, Drops
<1>3. TypeOK'
  BY <1>2, TypesByPartsNext
<1>4. OneCheckpointStaged'
  BY DEF WorkerInv, OneCheckpointStaged
<1>5. LostInv' /\ DroppedEventForcesReread'
  BY LostKept DEF WorkerInv
<1>6. WindowInv' /\ CertainWindowIsComplete'
  BY WindowKept DEF WorkerInv
<1> QED BY <1>3, <1>4, <1>5, <1>6 DEF WorkerInv

(* The same, of a step of a caller, the watcher or the owner.                 *)
LEMMA OutsideStep ==
    ASSUME WorkerInv, Drops, UNCHANGED workerVars,
           epoch' \in Nat, epoch' >= epoch, requested' \in Nat, requested' >= requested,
           ChannelTypes', SignalsInv', CallerTypes'
    PROVE  WorkerInv'
<1>1. UNCHANGED <<reconciled, seenDoubts, window, job, checkpoints, checkpointPending, phase>>
  BY DEF workerVars, queueVars, ledgerVars
<1>2. LoopTypes'
  BY TypesByParts DEF WorkerInv, LoopTypes, workerVars, queueVars, ledgerVars
<1>3. (Reconciling' => Reconciling) /\ (Debouncing' => Debouncing)
  BY <1>1 DEF Reconciling, Debouncing
<1> QED BY <1>1, <1>2, <1>3, QuietStep

(* The types a step starts from.                                              *)
LEMMA Types ==
    ASSUME WorkerInv
    PROVE  /\ ChannelTypes /\ CallerTypes /\ LoopTypes /\ SampleTypes
           /\ TypeOK /\ SignalsInv
           /\ epoch \in Nat /\ requested \in Nat /\ doubts \in Nat
           /\ epoch >= epoch /\ requested >= requested
<1>1. ChannelTypes /\ CallerTypes /\ LoopTypes /\ SampleTypes /\ TypeOK /\ SignalsInv
  BY TypesByParts DEF WorkerInv
<1>2. epoch \in Nat /\ requested \in Nat /\ doubts \in Nat
  BY <1>1, Bounds DEF TypeOK
<1> QED BY <1>1, <1>2

(* Sending nothing is well typed.                                             *)
LEMMA NothingSent ==
    NoEvent \in SignalsOf({"filesystem", "dropped"}) /\ NoEvent.kind = "filesystem"
BY Bounds DEF NoEvent, Filesystem, SignalsOf

(* A known signal that finds room joins the channel.                          *)
LEMMA SignalSent ==
    ASSUME WorkerInv, NEW s \in Known, Room, channel' = Append(channel, s),
           UNCHANGED <<edits, epoch, doubts, refused>>,
           sending' \in {sending, NoEvent}
    PROVE  ChannelTypes' /\ SignalsInv'
<1>1. Known \subseteq Signals /\ Known' = Known
  BY Types, KnownSignals DEF Known
<1>2. channel' \in Seq(Known) /\ Len(channel') = Len(channel) + 1 /\ Len(channel) \in Nat
  BY Types, Appended DEF SignalsInv
<1>3. channel' \in Seq(Signals)
  BY <1>1, Types, Appended DEF ChannelTypes
<1>4. ChannelTypes'
  BY <1>2, <1>3, NothingSent, Types, Bounds DEF ChannelTypes, Room
<1>5. SignalsInv'
  BY <1>1, <1>2, Types DEF SignalsInv
<1> QED BY <1>4, <1>5

(* Nothing about the channel, the queue and the counters changes.             *)
LEMMA ChannelUntouched ==
    ASSUME WorkerInv, UNCHANGED <<channel, edits, epoch>>, Drops,
           sending' \in {sending, NoEvent}
    PROVE  ChannelTypes' /\ SignalsInv'
<1>1. ChannelTypes'
  BY NothingSent, Types DEF ChannelTypes, Drops
<1>2. SignalsInv'
  BY Types DEF SignalsInv, Known
<1> QED BY <1>1, <1>2

(* The callers and what they share are untouched.                             *)
LEMMA CallersUntouched ==
    ASSUME WorkerInv, UNCHANGED <<barrierVars, owner>>
    PROVE  CallerTypes' /\ requested' = requested
BY Types DEF CallerTypes, barrierVars

-----------------------------------------------------------------------------
(* The watcher, the callers and the owner.                                    *)

LEMMA ObserveKeeps ==
    ASSUME WorkerInv, NEW uncertain \in BOOLEAN, NEW error \in BOOLEAN, Observe(uncertain, error)
    PROVE  WorkerInv'
<1> USE DEF Observe
<1>1. epoch \in Nat /\ epoch' = epoch + 1 /\ epoch' \in 0 .. MaxEpoch /\ doubts' \in Nat /\ doubts' >= doubts
  BY Types, Bounds
<1>2. Drops
  BY <1>1, Types DEF Drops, SampleTypes, ChannelTypes, Counted, NoEvent, Filesystem
<1>3. Known \subseteq Known' /\ sending' \in Known' /\ sending'.kind = "filesystem"
  <2>1. 1 .. epoch \subseteq 1 .. epoch' /\ epoch' \in 1 .. epoch'
    BY <1>1
  <2>2. sending' = Filesystem(epoch', uncertain)
    BY <1>1
  <2>3. Known \subseteq Known'
    BY <2>1 DEF Known, Barrier, Shutdown, Filesystem
  <2>4. sending' \in Known'
    BY <2>1, <2>2 DEF Known, Filesystem
  <2> QED BY <2>2, <2>3, <2>4 DEF Filesystem
<1>4. SignalsInv'
  <2>1. channel' = channel /\ edits' = edits
    BY DEF workerVars, queueVars
  <2>2. channel \in Seq(Known) /\ edits \in Seq(Known)
    BY Types DEF SignalsInv
  <2>3. channel \in Seq(Known') /\ edits \in Seq(Known')
    BY <1>3, <2>2
  <2> QED BY <1>3, <2>1, <2>3 DEF SignalsInv
<1>5. ChannelTypes'
  <2>1. sending' \in SignalsOf({"filesystem", "dropped"})
    BY <1>1 DEF Filesystem, SignalsOf
  <2> QED BY <1>1, <2>1, Types DEF ChannelTypes, workerVars, queueVars
<1>6. CallerTypes' /\ requested' = requested
  BY CallersUntouched
<1> QED BY <1>1, <1>2, <1>4, <1>5, <1>6, Types, OutsideStep

LEMMA SendEventKeeps ==
    ASSUME WorkerInv, SendEvent
    PROVE  WorkerInv'
<1>1. /\ sending # NoEvent /\ sending.kind = "filesystem"
      /\ UNCHANGED <<epoch, barrierVars, owner, workerVars, edits>>
  BY DEF SendEvent, workerVars, queueVars
<1>2. sending \in Known /\ sending.epoch \in 1 .. epoch
  BY <1>1, Types, KnownSignals DEF SignalsInv
<1>3. Drops /\ ChannelTypes' /\ SignalsInv'
  <2>1. CASE sending' = NoEvent /\ UNCHANGED <<channel, dropVars>>
    BY <1>1, <2>1, Types, NothingDropped, ChannelUntouched
  <2>2. CASE Room /\ sending' = NoEvent /\ channel' = Append(channel, sending) /\ UNCHANGED dropVars
    <3>1. doubts' = doubts /\ refused' = refused
      BY <2>2 DEF dropVars
    <3> QED BY <1>1, <1>2, <2>2, <3>1, Types, NothingDropped, SignalSent
  <2>3. CASE /\ sending' = [sending EXCEPT !.kind = "dropped"]
             /\ lost' = lost \union {sending.epoch}
             /\ refused' = refused \union {"filesystem"}
             /\ UNCHANGED <<channel, doubts>>
    <3>1. sending \in SignalsOf({"filesystem", "dropped"})
      BY Types DEF ChannelTypes
    <3>2. /\ sending' \in SignalsOf({"filesystem", "dropped"})
          /\ sending'.kind = "dropped" /\ sending'.epoch = sending.epoch
      BY <2>3, <3>1 DEF SignalsOf
    <3>3. Drops
      <4>1. Counted' \subseteq Counted
        BY <1>1, <2>3, <3>2 DEF Counted
      <4>2. lost' \subseteq 1 .. epoch /\ refused' \subseteq {"filesystem", "barrier"}
        BY <1>2, <2>3, Types DEF SampleTypes, ChannelTypes
      <4> QED BY <2>3, <4>1, <4>2, Types DEF Drops
    <3>4. ChannelTypes'
      BY <1>1, <2>3, <3>2, <3>3, Types DEF ChannelTypes, Drops
    <3>5. SignalsInv'
      BY <1>1, <1>2, <2>3, <3>2, Types DEF SignalsInv, Known
    <3> QED BY <3>3, <3>4, <3>5
  <2> QED BY <2>1, <2>2, <2>3 DEF SendEvent
<1>4. CallerTypes' /\ requested' = requested
  BY <1>1, CallersUntouched
<1> QED BY <1>1, <1>3, <1>4, Types, OutsideStep

LEMMA CountDropKeeps ==
    ASSUME WorkerInv, CountDrop
    PROVE  WorkerInv'
<1>1. /\ UNCHANGED <<channel, epoch, lost, refused, barrierVars, owner, workerVars, edits>>
      /\ sending' = NoEvent /\ doubts' = doubts + 1
  BY DEF CountDrop, workerVars, queueVars
<1>2. Drops
  BY <1>1, Types DEF Drops, SampleTypes, ChannelTypes
<1>3. ChannelTypes' /\ SignalsInv'
  BY <1>1, <1>2, ChannelUntouched
<1>4. CallerTypes' /\ requested' = requested
  BY <1>1, CallersUntouched
<1> QED BY <1>1, <1>2, <1>3, <1>4, Types, OutsideStep

LEMMA RegisterKeeps ==
    ASSUME WorkerInv, NEW w \in Waiters, Register(w)
    PROVE  WorkerInv'
<1>1. /\ UNCHANGED <<workerVars, dropVars, channel, edits, epoch, sending>>
      /\ requested' = requested + 1
  BY DEF Register, channelVars, dropVars, workerVars, queueVars
<1>2. requested \in Nat /\ requested' \in 0 .. MaxGeneration /\ requested' >= requested /\ requested' \in Nat
  BY <1>1, Types, Bounds DEF Register
<1>3. CallerTypes'
  <2>1. 0 .. requested \subseteq 0 .. requested' /\ requested' \in 0 .. requested'
    BY <1>1, <1>2
  <2>2. completed' \in 0 .. requested'
    BY <2>1, Types DEF Register, CallerTypes
  <2>3. target' \in [Waiters -> 0 .. requested']
    <3>1. target' = [target EXCEPT ![w] = requested'] /\ target \in [Waiters -> 0 .. requested]
      BY <1>1, Types DEF Register, CallerTypes
    <3> QED BY <2>1, <3>1
  <2> QED BY <1>2, <2>2, <2>3, Types DEF Register, CallerTypes
<1>4. Drops /\ ChannelTypes' /\ SignalsInv'
  BY <1>1, Types, NothingDropped, ChannelUntouched
<1> QED BY <1>1, <1>2, <1>3, <1>4, Types, OutsideStep

LEMMA SendBarrierKeeps ==
    ASSUME WorkerInv, NEW w \in Waiters, SendBarrier(w)
    PROVE  WorkerInv'
<1>1. UNCHANGED <<epoch, sending, requested, workerVars, edits>>
  BY DEF SendBarrier, workerVars, queueVars
<1>2. CallerTypes'
  BY Types DEF CallerTypes, SendBarrier
<1>3. Barrier \in Known /\ Barrier # Shutdown
  BY DEF Known, Barrier, Shutdown
<1>4. Drops /\ ChannelTypes' /\ SignalsInv'
  <2>1. CASE Room /\ channel' = Append(channel, Barrier) /\ UNCHANGED dropVars
    <3>1. doubts' = doubts /\ refused' = refused
      BY <2>1 DEF dropVars
    <3> QED BY <1>1, <1>3, <2>1, <3>1, Types, NothingDropped, SignalSent
  <2>2. CASE refused' = refused \union {"barrier"} /\ UNCHANGED <<channel, doubts, lost>>
    <3>1. Drops
      BY <1>1, <2>2, Types DEF Drops, SampleTypes, ChannelTypes, Counted
    <3> QED BY <1>1, <2>2, <3>1, ChannelUntouched
  <2>3. CASE UNCHANGED <<channel, dropVars>>
    BY <1>1, <2>3, Types, NothingDropped, ChannelUntouched
  <2> QED BY <2>1, <2>2, <2>3 DEF SendBarrier
<1> QED BY <1>1, <1>2, <1>4, Types, OutsideStep

LEMMA CancelWaiterKeeps ==
    ASSUME WorkerInv, NEW w \in Waiters, CancelWaiter(w)
    PROVE  WorkerInv'
<1>1. UNCHANGED <<workerVars, dropVars, channel, edits, epoch, sending, requested>>
  BY DEF CancelWaiter, channelVars, dropVars, workerVars, queueVars
<1>2. CallerTypes'
  BY Types DEF CallerTypes, CancelWaiter
<1>3. Drops /\ ChannelTypes' /\ SignalsInv'
  BY <1>1, Types, NothingDropped, ChannelUntouched
<1> QED BY <1>1, <1>2, <1>3, Types, OutsideStep

LEMMA FinishWaiterKeeps ==
    ASSUME WorkerInv, NEW w \in Waiters, FinishWaiter(w)
    PROVE  WorkerInv'
<1>1. UNCHANGED <<workerVars, dropVars, channel, edits, epoch, sending, requested>>
  BY DEF FinishWaiter, channelVars, dropVars, workerVars, queueVars
<1>2. CallerTypes'
  <2>1. requested \in Nat /\ 0 \in 0 .. requested
    BY Types
  <2>2. target' \in [Waiters -> 0 .. requested]
    BY <2>1, Types DEF CallerTypes, FinishWaiter
  <2> QED BY <2>2, Types DEF CallerTypes, FinishWaiter
<1>3. Drops /\ ChannelTypes' /\ SignalsInv'
  BY <1>1, Types, NothingDropped, ChannelUntouched
<1> QED BY <1>1, <1>2, <1>3, Types, OutsideStep

LEMMA OwnerKeeps ==
    ASSUME WorkerInv, Owner \/ SendShutdown
    PROVE  WorkerInv'
<1>1. /\ UNCHANGED <<epoch, sending, dropVars, requested, workerVars, edits>>
      /\ UNCHANGED <<completed, target, sent, operation, answered, workerOp>>
      /\ stop' \in BOOLEAN
      /\ owner' \in {"starting", "serving", "timed_out", "stopping", "joined"}
      /\ channel' = channel \/ (channel' = Append(channel, Shutdown) /\ (Room \/ ~Connected) /\ Connected)
  <2>1. CASE StartupSucceeds
    BY <2>1, Types DEF StartupSucceeds, OwnerFrame, workerVars, queueVars, CallerTypes
  <2>2. CASE StartupFailure
    BY <2>2, Types DEF StartupFailure, OwnerFrame, workerVars, queueVars, CallerTypes
  <2>3. CASE StartupStop
    BY <2>3, Types DEF StartupStop, OwnerFrame, workerVars, queueVars, CallerTypes
  <2>4. CASE Stop
    BY <2>4, Types DEF Stop, OwnerFrame, workerVars, queueVars, CallerTypes
  <2>5. CASE Join
    BY <2>5, Types DEF Join, OwnerFrame, workerVars, queueVars, CallerTypes
  <2>6. CASE SendShutdown
    BY <2>6, Types DEF SendShutdown, OwnerFrame, workerVars, queueVars, CallerTypes
  <2> QED BY <2>1, <2>2, <2>3, <2>4, <2>5, <2>6 DEF Owner
<1>2. CallerTypes'
  BY <1>1, Types DEF CallerTypes
<1>3. Drops
  BY <1>1, Types, NothingDropped
<1>4. ChannelTypes' /\ SignalsInv'
  <2>1. CASE channel' = channel
    BY <1>1, <1>3, <2>1, ChannelUntouched
  <2>2. CASE channel' = Append(channel, Shutdown) /\ Room
    <3>1. Shutdown \in Known /\ doubts' = doubts /\ refused' = refused
      BY <1>1 DEF Known, dropVars
    <3> QED BY <1>1, <2>2, <3>1, SignalSent
  <2> QED BY <1>1, <2>1, <2>2
<1> QED BY <1>1, <1>2, <1>3, <1>4, Types, OutsideStep

-----------------------------------------------------------------------------
(* The worker moves signals: start, receive, drain, stop.                     *)

LEMMA EmptyQueue == \A S : <<>> \in Seq(S) /\ Len(<<>>) = 0
OBVIOUS

LEMMA ExitKeeps ==
    ASSUME WorkerInv, Exit
    PROVE  WorkerInv'
<1> USE DEF Exit, ledgerVars, dropVars
<1>1. ChannelTypes' /\ SignalsInv'
  <2>1. ChannelTypes'
    BY EmptyQueue, Types, Bounds DEF ChannelTypes
  <2>2. SignalsInv'
    BY EmptyQueue, Types DEF SignalsInv, Known
  <2> QED BY <2>1, <2>2
<1>2. CallerTypes'
  BY Types DEF CallerTypes
<1>3. LoopTypes'
  BY Types, Bounds DEF LoopTypes, Phases
<1>4. Drops
  BY Types, NothingDropped
<1>5. SampleTypes'
  BY <1>4, Types, SamplesUntouched
<1>6. LostInv' /\ DroppedEventForcesReread'
  BY <1>4, Types, NotReconciling DEF WorkerInv, Reconciling
<1>7. WindowInv' /\ CertainWindowIsComplete'
  BY WindowClosed DEF Debouncing
<1>8. OneCheckpointStaged'
  BY DEF OneCheckpointStaged
<1>9. TypeOK'
  BY <1>1, <1>2, <1>3, <1>5, TypesByPartsNext
<1> QED BY <1>1, <1>6, <1>7, <1>8, <1>9 DEF WorkerInv

(* The first signal of the channel is staged, or refused by a full class.     *)
LEMMA SignalStaged ==
    ASSUME WorkerInv, channel # <<>>, Head(channel) # Shutdown, channel' = Tail(channel),
           Stage(Head(channel)), UNCHANGED <<epoch, sending>>
    PROVE  ChannelTypes' /\ SignalsInv' /\ Drops
<1>1. Known \subseteq Signals /\ Known' = Known
  BY Types, KnownSignals DEF Known
<1>2. /\ Head(channel) \in Known /\ channel' \in Seq(Known)
      /\ Len(channel') <= Len(channel) /\ Len(channel) \in Nat /\ Len(channel') \in Nat
  <2>1. channel \in Seq(Known)
    BY Types DEF SignalsInv
  <2> QED BY <2>1, HeadAndTail, LenProperties
<1>3. Drops /\ edits' \in Seq(Known) /\ Len(edits') <= Capacity
  BY <1>2, Types, StageDrops
<1>4. channel' \in Seq(Signals) /\ edits' \in Seq(Signals)
  BY <1>1, <1>2, <1>3
<1>5. Len(channel') <= Capacity
  BY <1>2, Types, Bounds DEF ChannelTypes
<1>6. ChannelTypes'
  BY <1>3, <1>4, <1>5, Types DEF ChannelTypes, Drops
<1>7. SignalsInv'
  BY <1>1, <1>2, <1>3, Types DEF SignalsInv
<1> QED BY <1>3, <1>6, <1>7

(* A worker step that receives and stages one signal.                         *)
LEMMA ReceivingStep ==
    ASSUME WorkerInv, channel # <<>>, Head(channel) # Shutdown, channel' = Tail(channel),
           Stage(Head(channel)),
           UNCHANGED <<epoch, sending, barrierVars, owner, checkpoints, checkpointPending,
                       ledgerVars, window, job, failures>>,
           phase # "stopped", phase' \in Phases, budget' \in 0 .. Capacity,
           Reconciling' => Reconciling, Debouncing' => Debouncing
    PROVE  WorkerInv'
<1>1. ChannelTypes' /\ SignalsInv' /\ Drops
  BY SignalStaged
<1>2. CallerTypes' /\ requested' = requested
  BY CallersUntouched
<1>3. LoopTypes'
  BY Types DEF LoopTypes, ledgerVars
<1>4. UNCHANGED <<reconciled, seenDoubts, window, job, checkpoints, checkpointPending>>
  BY DEF ledgerVars
<1> QED BY <1>1, <1>2, <1>3, <1>4, Types, QuietStep

(* The worker takes at most one edit.                                         *)
LEMMA EditTaken ==
    ASSUME WorkerInv, UNCHANGED channelVars,
           edits' = edits \/ (edits # <<>> /\ edits' = Tail(edits))
    PROVE  ChannelTypes' /\ SignalsInv' /\ Drops
<1>1. UNCHANGED <<channel, epoch, sending, dropVars>>
  BY DEF channelVars, dropVars
<1>2. Drops
  BY <1>1, Types, NothingDropped
<1>3. Known \subseteq Signals /\ Known' = Known
  BY <1>1, Types, KnownSignals DEF Known
<1>4. edits' \in Seq(Known) /\ Len(edits') <= Len(edits) /\ Len(edits) \in Nat /\ Len(edits') \in Nat
  <2>1. edits \in Seq(Known) /\ Len(edits) \in Nat
    BY Types, LenProperties DEF SignalsInv
  <2>2. CASE edits' = edits
    BY <2>1, <2>2
  <2>3. CASE edits # <<>> /\ edits' = Tail(edits)
    <3>1. edits' \in Seq(Known) /\ Len(edits') <= Len(edits)
      BY <2>1, <2>3, HeadAndTail
    <3> QED BY <2>1, <3>1, LenProperties
  <2> QED BY <2>2, <2>3
<1>5. edits' \in Seq(Signals) /\ Len(edits') <= Capacity
  BY <1>3, <1>4, Types, Bounds DEF ChannelTypes
<1>6. ChannelTypes'
  BY <1>1, <1>2, <1>5, Types DEF ChannelTypes, Drops
<1>7. SignalsInv'
  BY <1>1, <1>3, <1>4, Types DEF SignalsInv
<1> QED BY <1>2, <1>6, <1>7

(* A worker step that only moves its loop on, taking edits with it at most.   *)
LEMMA LoopStep ==
    ASSUME WorkerInv,
           UNCHANGED <<channelVars, barrierVars, owner, checkpoints, checkpointPending,
                       ledgerVars, window, job, failures>>,
           edits' = edits \/ (edits # <<>> /\ edits' = Tail(edits)),
           phase # "stopped", phase' \in Phases, budget' \in 0 .. Capacity,
           Reconciling' => Reconciling, Debouncing' => Debouncing
    PROVE  WorkerInv'
<1>1. UNCHANGED <<channel, epoch, sending, dropVars>>
  BY DEF channelVars, dropVars
<1>2. ChannelTypes' /\ SignalsInv' /\ Drops
  BY EditTaken
<1>3. CallerTypes' /\ requested' = requested
  BY CallersUntouched
<1>4. LoopTypes'
  BY Types DEF LoopTypes, ledgerVars
<1>5. UNCHANGED <<reconciled, seenDoubts, window, job, checkpoints, checkpointPending>>
  BY DEF ledgerVars
<1> QED BY <1>1, <1>2, <1>3, <1>4, <1>5, Types, QuietStep

LEMMA SignalStepsKeep ==
    ASSUME WorkerInv, Receive \/ Drain \/ DebounceReceive \/ DebounceDrain \/ StartupFails
    PROVE  WorkerInv'
<1>1. CASE Exit
  BY <1>1, ExitKeeps
<1>2. CASE Receive /\ ~Exit
  <2>1. phase' \in Phases /\ budget' \in 0 .. Capacity
    BY <1>2, Bounds DEF Receive, Phases
  <2> QED BY <1>2, <2>1, ReceivingStep DEF Receive, Reconciling, Debouncing
<1>3. CASE Drain /\ ~Exit
  <2>1. phase' \in Phases /\ budget' \in 0 .. Capacity
    BY <1>3, Types, Bounds DEF Drain, Phases, LoopTypes
  <2> QED BY <1>3, <2>1, ReceivingStep DEF Drain, Reconciling, Debouncing
<1>4. CASE DebounceReceive /\ ~Exit
  <2>1. phase' \in Phases /\ budget' \in 0 .. Capacity
    BY <1>4, Bounds DEF DebounceReceive, ShutdownInWindow, Phases
  <2> QED BY <1>4, <2>1, ReceivingStep DEF DebounceReceive, ShutdownInWindow, Reconciling, Debouncing
<1>5. CASE DebounceDrain /\ ~Exit
  <2>1. phase' \in Phases /\ budget' \in 0 .. Capacity
    BY <1>5, Types, Bounds DEF DebounceDrain, ShutdownInWindow, Phases, LoopTypes
  <2> QED BY <1>5, <2>1, ReceivingStep DEF DebounceDrain, ShutdownInWindow, Reconciling, Debouncing
<1> QED BY <1>1, <1>2, <1>3, <1>4, <1>5 DEF StartupFails

LEMMA LoopStepsKeep ==
    ASSUME WorkerInv,
           StartupReady \/ SkipReceive \/ EndDrain \/ EndDebounceDrain \/ PopSuperseded \/ Rescan
    PROVE  WorkerInv'
<1>1. CASE StartupReady
  <2>1. phase' \in Phases /\ budget' \in 0 .. Capacity
    BY <1>1, Types DEF StartupReady, Phases, LoopTypes
  <2> QED BY <1>1, <2>1, LoopStep DEF StartupReady, queueVars, Reconciling, Debouncing
<1>2. CASE SkipReceive
  <2>1. phase' \in Phases /\ budget' \in 0 .. Capacity
    BY <1>2, Bounds DEF SkipReceive, Phases
  <2> QED BY <1>2, <2>1, LoopStep DEF SkipReceive, queueVars, Reconciling, Debouncing
<1>3. CASE EndDrain
  <2>1. phase' \in Phases /\ budget' \in 0 .. Capacity
    BY <1>3, Bounds DEF EndDrain, Phases
  <2> QED BY <1>3, <2>1, LoopStep DEF EndDrain, queueVars, Reconciling, Debouncing
<1>4. CASE EndDebounceDrain
  <2>1. phase' \in Phases /\ budget' \in 0 .. Capacity
    BY <1>4, Bounds DEF EndDebounceDrain, Phases
  <2> QED BY <1>4, <2>1, LoopStep DEF EndDebounceDrain, queueVars, Reconciling, Debouncing
<1>5. CASE PopSuperseded
  <2>1. phase' \in Phases /\ budget' \in 0 .. Capacity
    BY <1>5, Types DEF PopSuperseded, Phases, LoopTypes
  <2> QED BY <1>5, <2>1, LoopStep DEF PopSuperseded, Reconciling, Debouncing
<1>6. CASE Rescan
  <2>1. phase' \in Phases /\ budget' \in 0 .. Capacity
    BY <1>6, Types DEF Rescan, ReconcileFrame, Phases, LoopTypes
  <2>2. UNCHANGED <<channelVars, barrierVars, owner, edits, window>>
    BY <1>6 DEF Rescan, ReconcileFrame, callerVars, channelVars, barrierVars, dropVars
  <2> QED BY <1>6, <2>1, <2>2, LoopStep DEF Rescan, Reconciling, Debouncing
<1> QED BY <1>1, <1>2, <1>3, <1>4, <1>5, <1>6

-----------------------------------------------------------------------------
(* Reconciliations.                                                           *)

(* A reconciliation begins: it samples the doubts with the drops they stand   *)
(* for, and forces a full reread while there are drops.                       *)
LEMMA Begins ==
    ASSUME WorkerInv, NEW u \in BOOLEAN, NEW c \in BOOLEAN, NEW x \in BOOLEAN,
           NEW then \in {"post", "top"}, StartReconcile(u, c, x, then),
           UNCHANGED <<epoch, sending, doubts, lost, requested, reconciled, seenDoubts>>,
           window' \in Windows
    PROVE  SampleTypes' /\ LostInv' /\ DroppedEventForcesReread' /\ phase' = "scan"
           /\ workerOp' \in {"none", "live", "cancelled"}
<1>1. PendingGeneration \in 0 .. requested /\ doubts \in 0 .. doubts /\ 0 \in 0 .. epoch
      /\ 0 \in 0 .. requested
  BY Types, PendingIsRequested
<1>2. ForceFull(u, c) \in BOOLEAN
  BY DEF ForceFull
<1>3. lost \subseteq 1 .. epoch /\ reconciled \in 0 .. epoch /\ seenDoubts \in 0 .. doubts
  BY Types DEF SampleTypes
<1>4. job' \in Jobs
  <2>1. Counted \in SUBSET (1 .. epoch)
    BY <1>3 DEF Counted
  <2> QED BY <1>1, <1>2, <2>1 DEF StartReconcile, Jobs
<1>5. Jobs' = Jobs /\ Windows' = Windows
  BY DEF Jobs, Windows
<1>6. SampleTypes'
  BY <1>3, <1>4, <1>5 DEF SampleTypes
<1>7. job'.doubts = doubts /\ job'.lost = Counted /\ job'.full = ForceFull(u, c) /\ phase' = "scan"
      /\ Counted' = Counted
  BY DEF StartReconcile, Counted
<1>8. LostInv'
  BY <1>7 DEF WorkerInv, LostInv
<1>9. DroppedEventForcesReread'
  BY <1>7 DEF WorkerInv, DroppedEventForcesReread, ForceFull
<1>10. workerOp' \in {"none", "live", "cancelled"}
  BY Types DEF StartReconcile, CallerTypes
<1> QED BY <1>6, <1>7, <1>8, <1>9, <1>10

(* A step that begins a reconciliation, from whichever place.                 *)
LEMMA BeginningStep ==
    ASSUME WorkerInv, NEW u \in BOOLEAN, NEW c \in BOOLEAN, NEW x \in BOOLEAN,
           NEW then \in {"post", "top"}, StartReconcile(u, c, x, then),
           UNCHANGED <<channelVars, callerVars, completed, answered, stop, owner, budget,
                       ledgerVars, failures>>,
           edits' = edits \/ (edits # <<>> /\ edits' = Tail(edits)),
           window' \in Windows, checkpoints' \in 0 .. Capacity, checkpointPending' \in BOOLEAN,
           checkpoints' = IF checkpointPending' THEN 1 ELSE 0
    PROVE  WorkerInv'
<1>1. ChannelTypes' /\ SignalsInv'
  BY EditTaken
<1>2. UNCHANGED <<epoch, sending, doubts, lost, requested, reconciled, seenDoubts>>
  BY DEF channelVars, callerVars, ledgerVars
<1>3. SampleTypes' /\ LostInv' /\ DroppedEventForcesReread' /\ phase' = "scan"
      /\ workerOp' \in {"none", "live", "cancelled"}
  BY <1>2, Begins
<1>4. CallerTypes'
  BY <1>3, Types DEF CallerTypes, callerVars
<1>5. LoopTypes'
  BY <1>3, Types DEF LoopTypes, ledgerVars, Phases
<1>6. WindowInv' /\ CertainWindowIsComplete'
  BY <1>3, WindowClosed DEF Debouncing
<1>7. OneCheckpointStaged'
  BY DEF OneCheckpointStaged
<1>8. TypeOK'
  BY <1>1, <1>3, <1>4, <1>5, TypesByPartsNext
<1> QED BY <1>1, <1>3, <1>6, <1>7, <1>8 DEF WorkerInv

(* What staged checkpoints and their flag say outside of a step on them.      *)
LEMMA CheckpointAgrees ==
    ASSUME WorkerInv, phase # "stopped"
    PROVE  /\ checkpoints \in 0 .. Capacity /\ checkpointPending \in BOOLEAN
           /\ checkpoints = IF checkpointPending THEN 1 ELSE 0
BY Types DEF LoopTypes, WorkerInv, OneCheckpointStaged

LEMMA PopCheckpointKeeps ==
    ASSUME WorkerInv, PopCheckpoint
    PROVE  WorkerInv'
<1>1. /\ checkpoints' = 0 /\ checkpointPending' = FALSE /\ 0 \in 0 .. Capacity
  BY CheckpointAgrees, Bounds DEF PopCheckpoint
<1>2. window' = window /\ window \in Windows
  BY Types DEF PopCheckpoint, SampleTypes
<1> QED BY <1>1, <1>2, BeginningStep DEF PopCheckpoint

LEMMA PopBarrierKeeps ==
    ASSUME WorkerInv, PopBarrier
    PROVE  WorkerInv'
<1> USE DEF PopBarrier
<1>1. CASE StartReconcile(FALSE, FALSE, TRUE, "post")
  <2>1. /\ checkpoints' \in 0 .. Capacity /\ checkpointPending' \in BOOLEAN
        /\ checkpoints' = IF checkpointPending' THEN 1 ELSE 0
    BY CheckpointAgrees
  <2>2. window' = window /\ window \in Windows
    BY Types DEF SampleTypes
  <2> QED BY <1>1, <2>1, <2>2, BeginningStep
<1>2. CASE phase' = "post" /\ UNCHANGED <<job, workerOp>>
  <2>1. UNCHANGED <<channelVars, barrierVars, owner>>
    BY <1>2 DEF channelVars, callerVars, barrierVars
  <2>2. phase' \in Phases /\ budget' \in 0 .. Capacity
    BY <1>2, Types DEF Phases, LoopTypes
  <2> QED BY <1>2, <2>1, <2>2, LoopStep DEF Reconciling, Debouncing
<1> QED BY <1>1, <1>2

LEMMA ServeDemandKeeps ==
    ASSUME WorkerInv, ServeDemand
    PROVE  WorkerInv'
<1> USE DEF ServeDemand, queueVars
<1>1. CASE StartReconcile(FALSE, FALSE, TRUE, "top")
  <2>1. /\ checkpoints' \in 0 .. Capacity /\ checkpointPending' \in BOOLEAN
        /\ checkpoints' = IF checkpointPending' THEN 1 ELSE 0
    BY CheckpointAgrees
  <2>2. window' = window /\ window \in Windows
    BY Types DEF SampleTypes
  <2> QED BY <1>1, <2>1, <2>2, BeginningStep
<1>2. CASE phase' = "top" /\ UNCHANGED <<job, workerOp>>
  <2>1. UNCHANGED <<channelVars, barrierVars, owner>>
    BY <1>2 DEF channelVars, callerVars, barrierVars
  <2>2. phase' \in Phases /\ budget' \in 0 .. Capacity
    BY <1>2, Types DEF Phases, LoopTypes
  <2> QED BY <1>2, <2>1, <2>2, LoopStep DEF Reconciling, Debouncing
<1> QED BY <1>1, <1>2

LEMMA NoWindowIsTyped ==
    ASSUME WorkerInv
    PROVE  NoWindow \in Windows
<1>1. 0 \in 0 .. epoch
  BY Types
<1> QED BY <1>1 DEF NoWindow, Windows

LEMMA DebounceCloseKeeps ==
    ASSUME WorkerInv, DebounceClose
    PROVE  WorkerInv'
<1> USE DEF DebounceClose, queueVars
<1>1. /\ checkpoints' \in 0 .. Capacity /\ checkpointPending' \in BOOLEAN
      /\ checkpoints' = IF checkpointPending' THEN 1 ELSE 0
  BY CheckpointAgrees
<1>2. window' \in Windows /\ window.uncertain \in BOOLEAN
  BY NoWindowIsTyped, Types DEF SampleTypes, Windows
<1> QED BY <1>1, <1>2, BeginningStep

-----------------------------------------------------------------------------
(* The debounce window.                                                       *)

(* A popped event is known, so it has an epoch of its own.                    *)
LEMMA HeadEvent ==
    ASSUME WorkerInv, edits # <<>>, Head(edits).kind = "filesystem"
    PROVE  Head(edits).epoch \in 1 .. epoch /\ Head(edits).uncertain \in BOOLEAN
<1>1. Head(edits) \in Known
  BY HeadAndTail, Types DEF SignalsInv
<1> QED BY <1>1, Types, KnownSignals

(* A step that builds the window out of the next edit.                        *)
LEMMA WindowStep ==
    ASSUME WorkerInv, ~Reconciling, phase # "stopped",
           UNCHANGED <<channelVars, barrierVars, owner, budget, checkpoints, checkpointPending,
                       ledgerVars, job, failures>>,
           edits' = edits \/ (edits # <<>> /\ edits' = Tail(edits)),
           phase' \in {"debounce", "debounce_fold"}, window' \in Windows,
           WindowInv', CertainWindowIsComplete'
    PROVE  WorkerInv'
<1>1. ChannelTypes' /\ SignalsInv' /\ Drops
  BY EditTaken
<1>2. CallerTypes'
  BY CallersUntouched
<1>3. LoopTypes'
  BY Types DEF LoopTypes, ledgerVars, Phases
<1>4. UNCHANGED <<epoch, doubts, lost, requested, reconciled, seenDoubts>>
  BY DEF channelVars, barrierVars, ledgerVars
<1>5. SampleTypes'
  <2>1. Jobs' = Jobs /\ Windows' = Windows
    BY <1>4 DEF Jobs, Windows
  <2> QED BY <1>4, <2>1, Types DEF SampleTypes
<1>6. ~Reconciling'
  BY DEF Reconciling
<1>7. LostInv' /\ DroppedEventForcesReread'
  BY <1>1, <1>4, <1>6, Types, NotReconciling DEF WorkerInv
<1>8. OneCheckpointStaged'
  BY DEF WorkerInv, OneCheckpointStaged
<1>9. TypeOK'
  BY <1>1, <1>2, <1>3, <1>5, TypesByPartsNext
<1> QED BY <1>1, <1>7, <1>8, <1>9 DEF WorkerInv

LEMMA PopEventKeeps ==
    ASSUME WorkerInv, PopEvent
    PROVE  WorkerInv'
<1> USE DEF PopEvent
<1> DEFINE e == Head(edits).epoch
<1>1. e \in 1 .. epoch /\ Head(edits).uncertain \in BOOLEAN /\ reconciled \in 0 .. epoch
      /\ epoch \in Nat /\ reconciled' = reconciled
  BY HeadEvent, Types DEF SampleTypes, ledgerVars
<1>2. e > reconciled
  BY <1>1 DEF Superseded
<1>3. window'.latest = e /\ window'.events = {e}
      /\ window'.uncertain = (Head(edits).uncertain \/ e # reconciled + 1)
  OBVIOUS
<1>4. window' \in Windows
  <2>1. e \in 0 .. epoch /\ {e} \in SUBSET (1 .. epoch)
        /\ (Head(edits).uncertain \/ e # reconciled + 1) \in BOOLEAN
    BY <1>1
  <2> QED BY <2>1 DEF Windows
<1>5. WindowInv'
  BY <1>1, <1>2, <1>3 DEF WindowInv
<1>6. CertainWindowIsComplete'
  <2>1. ASSUME ~window'.uncertain
        PROVE  window'.events = reconciled' + 1 .. window'.latest
    <3>1. e = reconciled + 1
      BY <1>3, <2>1
    <3>2. reconciled + 1 .. reconciled + 1 = {reconciled + 1}
      BY <1>1
    <3> QED BY <1>1, <1>3, <3>1, <3>2
  <2> QED BY <2>1 DEF CertainWindowIsComplete
<1> QED BY <1>4, <1>5, <1>6, WindowStep DEF Reconciling

(* An event joins the window; the window stays certain only if it is the next. *)
LEMMA FoldedEvent ==
    ASSUME WorkerInv, Debouncing, edits # <<>>, Head(edits).kind = "filesystem",
           window' = Fold(window, Head(edits)), reconciled' = reconciled
    PROVE  /\ window' \in Windows /\ window'.latest > reconciled
           /\ ~window'.uncertain => window'.events = reconciled + 1 .. window'.latest
<1> DEFINE e == Head(edits).epoch
           l == window.latest
<1>1. e \in 1 .. epoch /\ Head(edits).uncertain \in BOOLEAN /\ reconciled \in 0 .. epoch
      /\ epoch \in Nat /\ l \in 0 .. epoch /\ window.uncertain \in BOOLEAN
      /\ window.events \subseteq 1 .. epoch
  BY HeadEvent, Types DEF SampleTypes, Windows
<1>2. l > reconciled
  BY DEF WorkerInv, WindowInv
<1>3. /\ window'.latest = Max({l, e}) /\ window'.events = window.events \union {e}
      /\ window'.uncertain = (window.uncertain \/ Head(edits).uncertain \/ e # l + 1)
      /\ window' = [latest |-> window'.latest, uncertain |-> window'.uncertain,
                    events |-> window'.events]
  BY DEF Fold, NonContiguous
<1>4. Max({l, e}) \in {l, e} /\ Max({l, e}) >= l /\ Max({l, e}) >= e
  <2>1. l \in Int /\ e \in Int
    BY <1>1
  <2> HIDE DEF l, e
  <2> QED BY <2>1, MaxOfTwo
<1>5. window' \in Windows
  <2>1. Max({l, e}) \in 0 .. epoch /\ window.events \union {e} \in SUBSET (1 .. epoch)
        /\ (window.uncertain \/ Head(edits).uncertain \/ e # l + 1) \in BOOLEAN
    BY <1>1, <1>4
  <2> QED BY <1>3, <2>1 DEF Windows
<1>6. window'.latest > reconciled
  BY <1>1, <1>2, <1>3, <1>4
<1>7. ASSUME ~window'.uncertain
      PROVE  window'.events = reconciled + 1 .. window'.latest
  <2>1. ~window.uncertain /\ e = l + 1
    BY <1>3, <1>7
  <2>2. window.events = reconciled + 1 .. l
    BY <2>1 DEF WorkerInv, CertainWindowIsComplete, Debouncing
  <2>3. window'.latest = l + 1
    BY <1>1, <1>3, <1>4, <2>1
  <2>4. reconciled + 1 .. l + 1 = (reconciled + 1 .. l) \union {l + 1}
    BY <1>1, <1>2
  <2> QED BY <1>3, <2>1, <2>2, <2>3, <2>4
<1> QED BY <1>5, <1>6, <1>7

LEMMA DebounceFoldKeeps ==
    ASSUME WorkerInv, DebounceFold
    PROVE  WorkerInv'
<1> USE DEF DebounceFold
<1>1. Debouncing /\ ~Reconciling /\ phase # "stopped" /\ reconciled' = reconciled
  BY DEF Debouncing, Reconciling, ledgerVars
<1>2. CASE edits # <<>> /\ Head(edits).kind = "filesystem" /\ window' = Fold(window, Head(edits))
           /\ edits' = Tail(edits) /\ UNCHANGED phase
  <2>1. /\ window' \in Windows /\ window'.latest > reconciled
        /\ ~window'.uncertain => window'.events = reconciled + 1 .. window'.latest
    BY <1>1, <1>2, FoldedEvent
  <2>2. WindowInv' /\ CertainWindowIsComplete'
    BY <1>1, <2>1 DEF WindowInv, CertainWindowIsComplete
  <2> QED BY <1>1, <1>2, <2>1, <2>2, WindowStep
<1>3. CASE window' = window /\ phase' \in {"debounce", "debounce_fold"}
           /\ (edits' = edits \/ (edits # <<>> /\ edits' = Tail(edits)))
  <2>1. WindowInv' /\ CertainWindowIsComplete'
    BY <1>1, <1>3, WindowKept DEF WorkerInv
  <2>2. window' \in Windows
    BY <1>3, Types DEF SampleTypes
  <2> QED BY <1>1, <1>3, <2>1, <2>2, WindowStep
<1>4. CASE edits # <<>> /\ Head(edits).kind # "filesystem" /\ window' = Fold(window, Head(edits))
           /\ edits' = Tail(edits) /\ UNCHANGED phase
  BY <1>3, <1>4 DEF Fold
<1> QED BY <1>2, <1>3, <1>4

-----------------------------------------------------------------------------
(* The inside of a reconciliation and its ends.                               *)

(* What these steps have in common.                                           *)
LEMMA ReconcileTypes ==
    ASSUME WorkerInv, ReconcileFrame, Drops,
           completed' \in 0 .. requested, answered' \in [Waiters -> BOOLEAN],
           workerOp' \in {"none", "live", "cancelled"}
    PROVE  ChannelTypes' /\ SignalsInv' /\ CallerTypes' /\ UNCHANGED <<epoch, requested, window, budget>>
<1>1. UNCHANGED <<channel, epoch, sending, requested, target, sent, operation, stop, owner, budget,
                  edits, window>>
  BY DEF ReconcileFrame, callerVars
<1>2. ChannelTypes' /\ SignalsInv'
  BY <1>1, ChannelUntouched
<1>3. CallerTypes'
  BY <1>1, Types DEF CallerTypes
<1> QED BY <1>1, <1>2, <1>3

(* Generations that are completed were requested, and answer their waiters.   *)
LEMMA Completes ==
    ASSUME WorkerInv, NEW g \in 0 .. requested, CompleteUpTo(g)
    PROVE  /\ completed' \in 0 .. requested /\ answered' \in [Waiters -> BOOLEAN]
           /\ workerOp' \in {"none", "live", "cancelled"}
<1>1. completed \in 0 .. requested /\ requested \in Nat /\ completed \in Int /\ g \in Int
  BY Types DEF CallerTypes
<1>2. Max({completed, g}) \in {completed, g}
  BY <1>1, MaxOfTwo
<1>3. completed' \in 0 .. requested /\ workerOp' = "none"
  BY <1>1, <1>2 DEF CompleteUpTo
<1>4. answered' \in [Waiters -> BOOLEAN]
  <2>1. answered \in [Waiters -> BOOLEAN]
    BY Types DEF CallerTypes
  <2> QED BY <2>1 DEF CompleteUpTo
<1> QED BY <1>3, <1>4

LEMMA SampledKeeps ==
    ASSUME WorkerInv, Scan \/ Cover
    PROVE  WorkerInv'
<1>1. /\ ReconcileFrame /\ Reconciling /\ phase' \in {"cover", "publish"}
      /\ UNCHANGED <<dropVars, completed, answered, workerOp, checkpoints, checkpointPending,
                     ledgerVars, failures>>
      /\ \/ job' = [job EXCEPT !.epoch = epoch]
         \/ job' = [job EXCEPT !.covered = PendingGeneration]
  BY DEF Scan, Cover, Reconciling
<1>2. Drops
  BY <1>1, Types, NothingDropped DEF ReconcileFrame
<1>3. ChannelTypes' /\ SignalsInv' /\ CallerTypes' /\ UNCHANGED <<epoch, requested, window, budget>>
  <2>1. /\ completed' \in 0 .. requested /\ answered' \in [Waiters -> BOOLEAN]
        /\ workerOp' \in {"none", "live", "cancelled"}
    BY <1>1, Types DEF CallerTypes
  <2> QED BY <1>1, <1>2, <2>1, ReconcileTypes
<1>4. LoopTypes'
  BY <1>1, <1>3, Types DEF LoopTypes, ledgerVars, Phases
<1>5. UNCHANGED <<doubts, lost, seenDoubts, reconciled>> /\ Counted' = Counted
  BY <1>1 DEF dropVars, ledgerVars, ReconcileFrame, Counted
<1>6. job' \in Jobs /\ job'.full = job.full /\ job'.lost = job.lost /\ job'.doubts = job.doubts
  <2>1. job \in Jobs /\ epoch \in 0 .. epoch /\ PendingGeneration \in 0 .. requested
    BY Types, PendingIsRequested DEF SampleTypes
  <2>2. CASE job' = [job EXCEPT !.epoch = epoch]
    BY <2>1, <2>2 DEF Jobs
  <2>3. CASE job' = [job EXCEPT !.covered = PendingGeneration]
    BY <2>1, <2>3 DEF Jobs
  <2> QED BY <1>1, <2>2, <2>3
<1>7. SampleTypes'
  <2>1. Jobs' = Jobs /\ Windows' = Windows
    BY <1>3, <1>5 DEF Jobs, Windows
  <2> QED BY <1>3, <1>5, <1>6, <2>1, Types DEF SampleTypes
<1>8. LostInv' /\ DroppedEventForcesReread'
  BY <1>1, <1>5, <1>6 DEF WorkerInv, LostInv, DroppedEventForcesReread, Reconciling
<1>9. WindowInv' /\ CertainWindowIsComplete'
  BY <1>1, WindowClosed DEF Debouncing
<1>10. OneCheckpointStaged'
  BY <1>1 DEF WorkerInv, OneCheckpointStaged, Reconciling
<1>11. TypeOK'
  BY <1>3, <1>4, <1>7, TypesByPartsNext
<1> QED BY <1>3, <1>8, <1>9, <1>10, <1>11 DEF WorkerInv

LEMMA NoJobIsTyped ==
    ASSUME WorkerInv
    PROVE  NoJob \in Jobs
<1>1. 0 \in 0 .. epoch /\ 0 \in 0 .. requested /\ 0 \in 0 .. doubts
  BY Types
<1> QED BY <1>1 DEF NoJob, Jobs

(* A reconciliation that ends without a result.                               *)
LEMMA UnsuccessfulKeeps ==
    ASSUME WorkerInv, Abandon \/ Fail
    PROVE  WorkerInv'
<1>1. job \in Jobs /\ completed \in 0 .. requested /\ answered \in [Waiters -> BOOLEAN]
  BY Types DEF SampleTypes, CallerTypes
<1>2. /\ ReconcileFrame /\ Reconciling /\ phase' = job.then /\ job' = NoJob
      /\ UNCHANGED <<dropVars, checkpoints, checkpointPending, ledgerVars>>
      /\ failures' \in 0 .. MaxFailures
  <2>1. failures \in 0 .. MaxFailures /\ MaxFailures \in Nat
    BY Types, Bounds DEF LoopTypes
  <2> QED BY <2>1 DEF Abandon, Fail, Reconciling
<1>3. /\ completed' \in 0 .. requested /\ answered' \in [Waiters -> BOOLEAN]
      /\ workerOp' \in {"none", "live", "cancelled"}
  <2>1. CASE Abandon
    BY <1>1, <2>1 DEF Abandon
  <2>2. CASE Fail
    <3>1. job.generation \in 0 .. requested
      BY <1>1 DEF Jobs
    <3> QED BY <2>2, <3>1, Completes DEF Fail
  <2> QED BY <2>1, <2>2
<1>4. Drops
  BY <1>2, Types, NothingDropped DEF ReconcileFrame
<1>5. ChannelTypes' /\ SignalsInv' /\ CallerTypes' /\ UNCHANGED <<epoch, requested, window, budget>>
  BY <1>2, <1>3, <1>4, ReconcileTypes
<1>6. phase' \in {"post", "top"}
  BY <1>1, <1>2 DEF Jobs
<1>7. LoopTypes'
  BY <1>2, <1>5, <1>6, Types DEF LoopTypes, ledgerVars, Phases
<1>8. UNCHANGED <<doubts, lost, seenDoubts, reconciled>>
  BY <1>2 DEF dropVars, ledgerVars
<1>9. SampleTypes'
  <2>1. Jobs' = Jobs /\ Windows' = Windows
    BY <1>5, <1>8 DEF Jobs, Windows
  <2> QED BY <1>2, <1>5, <1>8, <2>1, NoJobIsTyped, Types DEF SampleTypes
<1>10. LostInv' /\ DroppedEventForcesReread'
  BY <1>4, <1>6, <1>8, Types, NotReconciling DEF WorkerInv, Reconciling
<1>11. WindowInv' /\ CertainWindowIsComplete'
  BY <1>6, WindowClosed DEF Debouncing
<1>12. OneCheckpointStaged'
  BY <1>2 DEF WorkerInv, OneCheckpointStaged, Reconciling
<1>13. TypeOK'
  BY <1>5, <1>7, <1>9, TypesByPartsNext
<1> QED BY <1>5, <1>10, <1>11, <1>12, <1>13 DEF WorkerInv

(* A reconciliation that publishes settles the doubts it sampled, and only a  *)
(* full one forgets drops: those it knew when it started.                     *)
LEMMA PublishKeeps ==
    ASSUME WorkerInv, NEW full \in BOOLEAN, Publish(full)
    PROVE  WorkerInv'
<1>1. /\ job \in Jobs /\ completed \in 0 .. requested /\ lost \subseteq 1 .. epoch
      /\ doubts \in Nat /\ sinceFull \in Nat
  BY Types DEF SampleTypes, CallerTypes, LoopTypes
<1>2. /\ ReconcileFrame /\ Reconciling /\ phase # "stopped" /\ phase' = job.then /\ job' = NoJob
      /\ reconciled' = job.epoch /\ seenDoubts' = job.doubts /\ cached' = TRUE
      /\ doubts' = doubts /\ refused' = refused /\ failures' = failures
      /\ lost' = IF full THEN lost \ job.lost ELSE lost
      /\ job.full => full
  BY DEF Publish, Reconciling, DoubtsSettled
<1>3. /\ completed' \in 0 .. requested /\ answered' \in [Waiters -> BOOLEAN]
      /\ workerOp' \in {"none", "live", "cancelled"}
  <2>1. job.covered \in 0 .. requested
    BY <1>1 DEF Jobs
  <2> QED BY <2>1, Completes DEF Publish
<1>4. UNCHANGED <<channel, epoch, sending, requested, edits, window, budget>>
  BY <1>2 DEF ReconcileFrame, callerVars
<1>5. ChannelTypes'
  BY <1>2, <1>4, Types DEF ChannelTypes
<1>6. SignalsInv'
  BY <1>4, Types, SignalsKept
<1>7. CallerTypes'
  BY <1>2, <1>3, <1>4, Types DEF CallerTypes, ReconcileFrame, callerVars
<1>8. phase' \in {"post", "top"} /\ job.epoch \in 0 .. epoch /\ job.doubts \in 0 .. doubts
  BY <1>1, <1>2 DEF Jobs
<1>9. /\ checkpoints' \in 0 .. Capacity /\ checkpointPending' \in BOOLEAN
      /\ checkpoints' = IF checkpointPending' THEN 1 ELSE 0
      /\ sinceFull' \in Nat
  <2>1. sinceFull' \in Nat /\ sinceFull' = IF full THEN 0 ELSE sinceFull + 1
    BY <1>1 DEF Publish
  <2>2. TrackOutcome(full, sinceFull')
    BY <2>1 DEF Publish
  <2>3. /\ checkpoints \in 0 .. Capacity /\ checkpointPending \in BOOLEAN
        /\ checkpoints = IF checkpointPending THEN 1 ELSE 0
    BY <1>2, CheckpointAgrees
  <2> DEFINE kept == RetainedCheckpoints(full)
             pending == ~full /\ checkpointPending
             staged == (~pending /\ sinceFull' >= FullInterval) /\ kept < Capacity
  <2>4. kept = IF full THEN 0 ELSE checkpoints
    BY DEF RetainedCheckpoints
  <2>5. kept = IF pending THEN 1 ELSE 0
    BY <2>3, <2>4
  <2>6. checkpoints' = (IF staged THEN kept + 1 ELSE kept)
    BY <2>2 DEF TrackOutcome
  <2>7. checkpointPending' = (pending \/ staged)
    BY <2>2 DEF TrackOutcome
  <2>8. staged => ~pending /\ kept = 0
    BY <2>5
  <2>9. checkpoints' = IF pending \/ staged THEN 1 ELSE 0
    BY <2>5, <2>6, <2>8
  <2>10. checkpointPending' \in BOOLEAN
    BY <2>3, <2>7
  <2>11. checkpoints' = IF checkpointPending' THEN 1 ELSE 0
    <3> HIDE DEF pending, staged
    <3> QED BY <2>7, <2>9
  <2>12. 0 \in 0 .. Capacity /\ 1 \in 0 .. Capacity
    BY Bounds
  <2> QED BY <2>1, <2>10, <2>11, <2>12
<1>10. LoopTypes'
  BY <1>2, <1>4, <1>8, <1>9, Types DEF LoopTypes, Phases
<1>11. SampleTypes'
  <2>1. Jobs' = Jobs /\ Windows' = Windows
    BY <1>2, <1>4 DEF Jobs, Windows
  <2>2. lost' \subseteq 1 .. epoch
    BY <1>1, <1>2
  <2> QED BY <1>2, <1>4, <1>8, <2>1, <2>2, NoJobIsTyped, Types DEF SampleTypes
<1>12. LostInv'
  BY <1>8 DEF LostInv, Reconciling
<1>13. DroppedEventForcesReread'
  <2>1. ASSUME Counted' # {}
        PROVE  doubts' > seenDoubts'
    <3>1. full \/ job.lost = {}
      BY <1>2 DEF WorkerInv, DroppedEventForcesReread, Reconciling
    <3>2. Counted \ job.lost # {}
      BY <1>2, <1>4, <2>1, <3>1 DEF Counted
    <3> QED BY <1>2, <3>2 DEF WorkerInv, LostInv
  <2> QED BY <1>8, <2>1 DEF DroppedEventForcesReread
<1>14. WindowInv' /\ CertainWindowIsComplete'
  BY <1>8, WindowClosed DEF Debouncing
<1>15. OneCheckpointStaged'
  BY <1>9 DEF OneCheckpointStaged
<1>16. TypeOK'
  BY <1>5, <1>7, <1>10, <1>11, TypesByPartsNext
<1> QED BY <1>6, <1>12, <1>13, <1>14, <1>15, <1>16 DEF WorkerInv

-----------------------------------------------------------------------------
LEMMA WorkerInit == Init => WorkerInv
<1> SUFFICES ASSUME Init PROVE WorkerInv
  OBVIOUS
<1> USE DEF Init
<1>1. 0 \in 0 .. 0 /\ 0 \in 0 .. MaxEpoch /\ 0 \in 0 .. MaxGeneration /\ 0 \in 0 .. Capacity
      /\ 0 \in 0 .. MaxFailures /\ Capacity >= 0
  BY Bounds
<1>2. ChannelTypes /\ SignalsInv
  <2> QED BY <1>1, NothingSent, EmptyQueue DEF ChannelTypes, SignalsInv
<1>3. CallerTypes
  BY <1>1 DEF CallerTypes
<1>4. LoopTypes
  BY <1>1 DEF LoopTypes, Phases
<1>5. SampleTypes
  <2>1. NoJob \in Jobs
    BY <1>1 DEF NoJob, Jobs
  <2>2. NoWindow \in Windows
    BY <1>1 DEF NoWindow, Windows
  <2> QED BY <1>1, <2>1, <2>2 DEF SampleTypes
<1>6. LostInv /\ DroppedEventForcesReread /\ WindowInv /\ CertainWindowIsComplete /\ OneCheckpointStaged
  BY DEF LostInv, DroppedEventForcesReread, WindowInv, CertainWindowIsComplete, OneCheckpointStaged,
         Reconciling, Debouncing, Counted
<1> QED BY <1>2, <1>3, <1>4, <1>5, <1>6, TypesByParts DEF WorkerInv

LEMMA WorkerNext == WorkerInv /\ [Next]_vars => WorkerInv'
<1> SUFFICES ASSUME WorkerInv, [Next]_vars
             PROVE  WorkerInv'
  OBVIOUS
<1>1. CASE \E uncertain, error \in BOOLEAN : Observe(uncertain, error)
  BY <1>1, ObserveKeeps
<1>2. CASE Callback
  BY <1>2, SendEventKeeps, CountDropKeeps DEF Callback
<1>3. CASE \E w \in Waiters : Register(w) \/ CancelWaiter(w) \/ Caller(w)
  BY <1>3, RegisterKeeps, CancelWaiterKeeps, SendBarrierKeeps, FinishWaiterKeeps DEF Caller
<1>4. CASE Owner \/ SendShutdown
  BY <1>4, OwnerKeeps
<1>5. CASE StartupFails \/ Receive \/ Drain \/ DebounceReceive \/ DebounceDrain
  BY <1>5, SignalStepsKeep
<1>6. CASE StartupReady \/ SkipReceive \/ EndDrain \/ EndDebounceDrain \/ PopSuperseded \/ Rescan
  BY <1>6, LoopStepsKeep
<1>7. CASE PopCheckpoint \/ PopBarrier \/ ServeDemand \/ DebounceClose
  BY <1>7, PopCheckpointKeeps, PopBarrierKeeps, ServeDemandKeeps, DebounceCloseKeeps
<1>8. CASE PopEvent \/ DebounceFold
  BY <1>8, PopEventKeeps, DebounceFoldKeeps
<1>9. CASE Scan \/ Cover \/ Abandon \/ Fail
  BY <1>9, SampledKeeps, UnsuccessfulKeeps
<1>10. CASE \E full \in BOOLEAN : Publish(full)
  BY <1>10, PublishKeeps
<1>11. CASE UNCHANGED vars
  <2>1. /\ UNCHANGED <<workerVars, dropVars, channel, edits, epoch, sending, barrierVars, owner>>
        /\ requested' = requested
    BY <1>11 DEF vars, workerVars, queueVars, ledgerVars, dropVars, barrierVars
  <2>2. Drops /\ ChannelTypes' /\ SignalsInv' /\ CallerTypes'
    BY <2>1, Types, NothingDropped, ChannelUntouched, CallersUntouched
  <2> QED BY <2>1, <2>2, Types, OutsideStep
<1> QED BY <1>1, <1>2, <1>3, <1>4, <1>5, <1>6, <1>7, <1>8, <1>9, <1>10, <1>11 DEF Next, Worker

LEMMA WorkerInvariant == Spec => []WorkerInv
<1> QED BY WorkerInit, WorkerNext, PTL DEF Spec

-----------------------------------------------------------------------------
(* The channel, the classes of the queue and a drain stay within the three    *)
(* bounds of live/mod.rs, and every sample the loop keeps is of its counter.   *)
THEOREM TypeCorrect == Spec => []TypeOK
<1>1. WorkerInv => TypeOK
  BY DEF WorkerInv
<1> QED BY <1>1, WorkerInvariant, PTL

(* A reconciliation that may reuse cached bodies never starts while a counted  *)
(* drop of stage_signal or of the watcher callback is still to be reread, nor  *)
(* settles one, whatever drops race the scan and however it ends.             *)
THEOREM DropsForceReread == Spec => []DroppedEventForcesReread
<1>1. WorkerInv => DroppedEventForcesReread
  BY DEF WorkerInv
<1> QED BY <1>1, WorkerInvariant, PTL

(* event_epoch_is_non_contiguous overlooks no gap: a debounce window that is  *)
(* not marked uncertain holds every event since the last reconciliation.      *)
THEOREM WindowsAreComplete == Spec => []CertainWindowIsComplete
<1>1. WorkerInv => CertainWindowIsComplete
  BY DEF WorkerInv
<1> QED BY <1>1, WorkerInvariant, PTL

(* checkpoint_pending and the queue's checkpoint class agree after every       *)
(* step: track_reconcile_outcome stages at most one, and none is lost.         *)
THEOREM CheckpointsAgree == Spec => []OneCheckpointStaged
<1>1. WorkerInv => OneCheckpointStaged
  BY DEF WorkerInv
<1> QED BY <1>1, WorkerInvariant, PTL

=============================================================================
