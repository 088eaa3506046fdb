---------------------------- MODULE EngineProofs ----------------------------
(***************************************************************************)
(* Proofs about Engine for any number of publishers, graphs, project models *)
(* and allocations.  EngineInv is inductive: a publication is linear        *)
(* because an address identifies one published snapshot (AddressesUnique)   *)
(* and an open attempt remembers the address of its base (AttemptsBased).   *)
(***************************************************************************)
EXTENDS EngineRefinement, SequenceTheorems, FiniteSetTheorems, TLAPS

(* What appending to the history does to its length and its elements.         *)
LEMMA AppendHistory ==
    ASSUME NEW h \in Seq(Snapshot), NEW s \in Snapshot
    PROVE  /\ Append(h, s) \in Seq(Snapshot)
           /\ Len(Append(h, s)) = Len(h) + 1
           /\ \A i \in 1 .. Len(h) : Append(h, s)[i] = h[i]
           /\ Append(h, s)[Len(h) + 1] = s
  OBVIOUS

(* A snapshot built from a well-typed update is well typed.                   *)
LEMMA SnapshotTyped ==
    ASSUME NEW u \in UpdateBuilder, NEW a \in Nat
    PROVE  SnapshotFrom(u, a) \in Snapshot
  BY DEF UpdateBuilder, SnapshotFrom, Snapshot

(* An update begun from a well-typed snapshot is well typed.                  *)
LEMMA BuilderTyped ==
    ASSUME NEW s \in Snapshot
    PROVE  BuilderFrom(s) \in UpdateBuilder
  BY DEF UpdateBuilder, BuilderFrom, Snapshot

(* The empty update and the first snapshot are well typed.                    *)
LEMMA InitialTyped ==
    NoUpdate \in UpdateBuilder /\ InitialSnapshot \in Snapshot
  BY EngineAssumption DEF UpdateBuilder, NoUpdate, Snapshot, InitialSnapshot, Freshnesses

(* The strengthened invariant holds initially.                               *)
LEMMA InitInv == Init => EngineInv
<1> SUFFICES ASSUME Init PROVE EngineInv
  OBVIOUS
<1>1. /\ history \in Seq(Snapshot) /\ Len(history) = 1
      /\ history[1] = InitialSnapshot
  BY InitialTyped DEF Init
<1>2. TypeOK
  BY <1>1, InitialTyped DEF Init, TypeOK, Results
<1>3. LinearHistory /\ FreshGraphWasClaimed
  BY <1>1 DEF Init, LinearHistory, FreshGraphWasClaimed, InitialSnapshot
<1>4. AddressesUnique /\ AttemptsBased /\ BuildersFresh
  BY <1>1 DEF Init, AddressesUnique, AttemptsBased, BuildersFresh, Open, InitialSnapshot
<1> QED
  BY <1>2, <1>3, <1>4 DEF EngineInv

(* Starting an update preserves the invariant.                               *)
LEMMA BeginUpdateInv ==
    ASSUME EngineInv, NEW p \in Publishers, BeginUpdate(p)
    PROVE  EngineInv'
<1> USE DEF BeginUpdate
<1>0. TypeOK /\ current \in Snapshot /\ history[Len(history)] = current
      /\ current.rev = Len(history) - 1
  BY DEF EngineInv, TypeOK, LinearHistory
<1>1. TypeOK'
  BY <1>0, BuilderTyped DEF TypeOK, Results
<1>2. LinearHistory' /\ FreshGraphWasClaimed'
  BY DEF EngineInv, LinearHistory, FreshGraphWasClaimed
<1>3. AddressesUnique'
  BY <1>0 DEF EngineInv, AddressesUnique, TypeOK
<1>4. builder'[p] = BuilderFrom(current) /\ pc'[p] = "building"
      /\ \A q \in Publishers : q # p => builder'[q] = builder[q] /\ pc'[q] = pc[q]
  BY <1>0 DEF TypeOK
<1>5. AttemptsBased'
  BY <1>0, <1>4 DEF EngineInv, AttemptsBased, Open, TypeOK, BuilderFrom
<1>6. BuildersFresh'
  BY <1>0, <1>4 DEF EngineInv, BuildersFresh, Open, TypeOK, BuilderFrom
<1> QED
  BY <1>1, <1>2, <1>3, <1>5, <1>6 DEF EngineInv

(* An edit of a private builder preserves the invariant when it keeps the     *)
(* base and justifies its freshness.                                         *)
LEMMA EditInv ==
    ASSUME EngineInv, NEW p \in Publishers, NEW u \in UpdateBuilder, Edit(p, u),
           u.base = builder[p].base, u.parent = builder[p].parent,
           u.freshness = "Fresh" =>
               \/ u.claimed
               \/ /\ builder[p].freshness = "Fresh" /\ ~ builder[p].claimed
                  /\ u.graph = builder[p].graph
    PROVE  EngineInv'
<1> USE DEF Edit
<1>0. TypeOK
  BY DEF EngineInv
<1>1. TypeOK'
  BY <1>0 DEF TypeOK, Results
<1>2. LinearHistory' /\ FreshGraphWasClaimed'
  BY DEF EngineInv, LinearHistory, FreshGraphWasClaimed
<1>3. AddressesUnique'
  BY <1>0 DEF EngineInv, AddressesUnique, TypeOK
<1>4. builder'[p] = u /\ \A q \in Publishers : q # p => builder'[q] = builder[q]
  BY <1>0 DEF TypeOK
<1>5. AttemptsBased'
  BY <1>0, <1>4 DEF EngineInv, AttemptsBased, Open, TypeOK
<1>6. BuildersFresh'
  BY <1>0, <1>4 DEF EngineInv, BuildersFresh, Open, TypeOK
<1> QED
  BY <1>1, <1>2, <1>3, <1>5, <1>6 DEF EngineInv

(* Each setter is such an edit.                                              *)
LEMMA SetterIsEdit ==
    ASSUME EngineInv, NEW p \in Publishers,
           \/ \E g \in Graphs : ReplaceGraph(p, g)
           \/ \E f \in Freshnesses : SetFreshness(p, f)
           \/ \E full \in BOOLEAN : SetIndexing(p, full)
           \/ \E m \in Models : SetProjectModel(p, m)
    PROVE  \E u \in UpdateBuilder :
              /\ Edit(p, u)
              /\ u.base = builder[p].base /\ u.parent = builder[p].parent
              /\ u.freshness = "Fresh" =>
                    \/ u.claimed
                    \/ /\ builder[p].freshness = "Fresh" /\ ~ builder[p].claimed
                       /\ u.graph = builder[p].graph
<1>0. builder[p] \in UpdateBuilder
  BY DEF EngineInv, TypeOK
<1>1. CASE \E g \in Graphs : ReplaceGraph(p, g)
  <2>1. PICK g \in Graphs : ReplaceGraph(p, g)
    BY <1>1
  <2> DEFINE u == [builder[p] EXCEPT !.graph = g, !.touched = TRUE,
                                     !.freshness = "Stale", !.claimed = FALSE]
  <2>2. u \in UpdateBuilder /\ u.base = builder[p].base /\ u.parent = builder[p].parent
        /\ u.freshness = "Stale"
    BY <1>0 DEF UpdateBuilder, Freshnesses
  <2>3. Edit(p, u)
    BY <2>1 DEF ReplaceGraph
  <2> HIDE DEF u
  <2> QED
    BY <2>2, <2>3
<1>2. CASE \E f \in Freshnesses : SetFreshness(p, f)
  <2>1. PICK f \in Freshnesses : SetFreshness(p, f)
    BY <1>2
  <2> DEFINE u == [builder[p] EXCEPT !.freshness = f, !.claimed = (f = "Fresh")]
  <2>2. u \in UpdateBuilder /\ u.base = builder[p].base /\ u.parent = builder[p].parent
        /\ (u.freshness = "Fresh" => u.claimed)
    BY <1>0 DEF UpdateBuilder, Freshnesses
  <2>3. Edit(p, u)
    BY <2>1 DEF SetFreshness
  <2> HIDE DEF u
  <2> QED
    BY <2>2, <2>3
<1>3. CASE \E full \in BOOLEAN : SetIndexing(p, full)
  <2>1. PICK full \in BOOLEAN : SetIndexing(p, full)
    BY <1>3
  <2> DEFINE u == [builder[p] EXCEPT !.cold = full]
  <2>2. u \in UpdateBuilder /\ u.base = builder[p].base /\ u.parent = builder[p].parent
        /\ u.freshness = builder[p].freshness /\ u.claimed = builder[p].claimed
        /\ u.graph = builder[p].graph
    BY <1>0 DEF UpdateBuilder
  <2>3. Edit(p, u)
    BY <2>1 DEF SetIndexing
  <2> HIDE DEF u
  <2> QED
    BY <1>0, <2>2, <2>3 DEF UpdateBuilder
<1>4. CASE \E m \in Models : SetProjectModel(p, m)
  <2>1. PICK m \in Models : SetProjectModel(p, m)
    BY <1>4
  <2> DEFINE u == [builder[p] EXCEPT !.model = m]
  <2>2. u \in UpdateBuilder /\ u.base = builder[p].base /\ u.parent = builder[p].parent
        /\ u.freshness = builder[p].freshness /\ u.claimed = builder[p].claimed
        /\ u.graph = builder[p].graph
    BY <1>0 DEF UpdateBuilder
  <2>3. Edit(p, u)
    BY <2>1 DEF SetProjectModel
  <2> HIDE DEF u
  <2> QED
    BY <1>0, <2>2, <2>3 DEF UpdateBuilder
<1> QED
  BY <1>1, <1>2, <1>3, <1>4

(* Hence the setters preserve the invariant.                                 *)
LEMMA SettersInv ==
    ASSUME EngineInv, NEW p \in Publishers,
           \/ \E g \in Graphs : ReplaceGraph(p, g)
           \/ \E f \in Freshnesses : SetFreshness(p, f)
           \/ \E full \in BOOLEAN : SetIndexing(p, full)
           \/ \E m \in Models : SetProjectModel(p, m)
    PROVE  EngineInv'
  BY SetterIsEdit, EditInv

(* A publish that reports Conflict, at either test, preserves the invariant.  *)
LEMMA ConflictInv ==
    ASSUME EngineInv, NEW p \in Publishers, PublishStale(p) \/ PublishLose(p)
    PROVE  EngineInv'
<1> DEFINE Step == /\ Return(p, "conflict", "idle")
                   /\ UNCHANGED <<current, allocated, coldBuilds, history>>
<1>0. TypeOK /\ Step
  BY DEF EngineInv, PublishStale, PublishLose
<1> USE DEF Return
<1>1. TypeOK'
  BY <1>0, InitialTyped DEF TypeOK, Results
<1>2. LinearHistory' /\ FreshGraphWasClaimed'
  BY <1>0 DEF EngineInv, LinearHistory, FreshGraphWasClaimed
<1>3. /\ pc'[p] = "idle"
      /\ \A q \in Publishers : q # p =>
            /\ builder'[q] = builder[q] /\ pc'[q] = pc[q]
            /\ loaded'[q] = loaded[q] /\ fresh'[q] = fresh[q]
  BY <1>0 DEF TypeOK
<1>4. AddressesUnique'
  BY <1>0, <1>3 DEF EngineInv, AddressesUnique, TypeOK
<1>5. AttemptsBased'
  BY <1>0, <1>3 DEF EngineInv, AttemptsBased, Open, TypeOK
<1>6. BuildersFresh'
  BY <1>0, <1>3 DEF EngineInv, BuildersFresh, Open, TypeOK
<1> QED
  BY <1>1, <1>2, <1>4, <1>5, <1>6 DEF EngineInv

(* Allocating the next snapshot preserves the invariant: the new address is   *)
(* above every address in use.                                               *)
LEMMA PublishLoadInv ==
    ASSUME EngineInv, NEW p \in Publishers, PublishLoad(p)
    PROVE  EngineInv'
<1> USE DEF PublishLoad
<1>0. TypeOK /\ current \in Snapshot /\ history[Len(history)] = current
      /\ current.rev = Len(history) - 1
  BY DEF EngineInv, TypeOK, LinearHistory
<1>1. TypeOK'
  BY <1>0 DEF TypeOK, Results, Snapshot
<1>2. LinearHistory' /\ FreshGraphWasClaimed'
  BY DEF EngineInv, LinearHistory, FreshGraphWasClaimed
<1>3. /\ fresh'[p] = allocated + 1 /\ loaded'[p] = current.ptr
      /\ \A q \in Publishers : q # p =>
            pc'[q] = pc[q] /\ loaded'[q] = loaded[q] /\ fresh'[q] = fresh[q]
  BY <1>0 DEF TypeOK
<1>4. AddressesUnique'
  <2>0. \A i \in 1 .. Len(history) : history[i] \in Snapshot
    BY <1>0 DEF TypeOK
  <2>1. \A i \in 1 .. Len(history) : history[i].ptr \in Nat
    BY <2>0 DEF Snapshot
  <2>2. \A q \in Publishers : fresh[q] \in Nat
    BY <1>0 DEF TypeOK
  <2> QED
    BY <1>0, <1>3, <2>1, <2>2 DEF EngineInv, AddressesUnique, TypeOK
<1>5. builder[p].base + 1 = Len(history)
  BY <1>0 DEF BaseIsCurrent, TypeOK, UpdateBuilder
<1>6. AttemptsBased'
  BY <1>0, <1>3, <1>5 DEF EngineInv, AttemptsBased, Open, TypeOK
<1>7. BuildersFresh'
  BY <1>0, <1>3 DEF EngineInv, BuildersFresh, Open, TypeOK
<1> QED
  BY <1>1, <1>2, <1>4, <1>6, <1>7 DEF EngineInv

(* A swap that succeeds is based on the last published snapshot: an address   *)
(* identifies one position of the history.                                   *)
LEMMA SwapBase ==
    ASSUME EngineInv, NEW p \in Publishers, pc[p] = "swapping", SlotUnmoved(p)
    PROVE  /\ builder[p].base + 1 = Len(history)
           /\ builder[p].parent = current.ptr
<1>1. /\ builder[p].base \in Nat /\ Len(history) \in Nat /\ Len(history) > 0
      /\ current = history[Len(history)]
  BY DEF EngineInv, TypeOK, UpdateBuilder, LinearHistory
<1>2. /\ builder[p].base < Len(history)
      /\ builder[p].parent = history[builder[p].base + 1].ptr
      /\ builder[p].parent = current.ptr
  BY DEF EngineInv, AttemptsBased, Open, SlotUnmoved
<1>3. builder[p].base + 1 \in 1 .. Len(history) /\ Len(history) \in 1 .. Len(history)
  BY <1>1, <1>2
<1>4. history[builder[p].base + 1].ptr = history[Len(history)].ptr
  BY <1>1, <1>2
<1> QED
  BY <1>2, <1>3, <1>4 DEF EngineInv, AddressesUnique

(* Installing the new snapshot preserves the invariant.                       *)
LEMMA PublishSwapInv ==
    ASSUME EngineInv, NEW p \in Publishers, PublishSwap(p)
    PROVE  EngineInv'
<1> DEFINE s == SnapshotFrom(builder[p], fresh[p])
           n == Len(history)
<1>0. /\ TypeOK /\ builder[p] \in UpdateBuilder /\ fresh[p] \in Nat
      /\ pc[p] = "swapping" /\ SlotUnmoved(p)
      /\ history \in Seq(Snapshot) /\ n \in Nat /\ n > 0
  BY DEF EngineInv, TypeOK, PublishSwap
<1>1. s \in Snapshot
  BY <1>0, SnapshotTyped
<1>2. /\ builder[p].base + 1 = n /\ builder[p].parent = current.ptr
      /\ current = history[n]
  BY <1>0, SwapBase DEF EngineInv, LinearHistory
<1>3. /\ s.rev = n /\ s.ptr = fresh[p] /\ s.parent = history[n].ptr
      /\ s.graph = builder[p].graph /\ s.claimed = builder[p].claimed
      /\ s.freshness = builder[p].freshness
  BY <1>0, <1>2 DEF SnapshotFrom, UpdateBuilder
<1>4. current' = s /\ history' = Append(history, s) /\ allocated' = allocated
      /\ coldBuilds' = coldBuilds
  BY DEF PublishSwap
<1> HIDE DEF s
<1>5. /\ history' \in Seq(Snapshot) /\ Len(history') = n + 1
      /\ \A i \in 1 .. n : history'[i] = history[i]
      /\ history'[n + 1] = s
  BY <1>0, <1>1, <1>4, AppendHistory
<1>6. /\ pc'[p] \in {"idle", "counting"}
      /\ \A q \in Publishers : q # p =>
            /\ builder'[q] = builder[q] /\ pc'[q] = pc[q]
            /\ loaded'[q] = loaded[q] /\ fresh'[q] = fresh[q]
  BY <1>0 DEF PublishSwap, Return, TypeOK
<1>7. TypeOK'
  <2>1. /\ pc' \in [Publishers -> {"idle", "building", "swapping", "counting"}]
        /\ result' \in [Publishers -> Results]
        /\ builder' \in [Publishers -> UpdateBuilder]
        /\ loaded' \in [Publishers -> Nat] /\ fresh' \in [Publishers -> Nat]
    BY <1>0, InitialTyped DEF PublishSwap, Return, TypeOK, Results
  <2> QED
    BY <1>0, <1>1, <1>4, <1>5, <2>1 DEF TypeOK
<1>8. LinearHistory'
  <2>1. \A i \in 1 .. n : history[i].rev = i - 1
        /\ (i > 1 => history[i].parent = history[i - 1].ptr)
    BY DEF EngineInv, LinearHistory
  <2> QED
    BY <1>0, <1>3, <1>4, <1>5, <2>1 DEF LinearHistory
<1>9. AddressesUnique'
  <2>1. /\ fresh[p] <= allocated
        /\ \A i \in 1 .. n : history[i].ptr # fresh[p]
        /\ \A q \in Publishers : pc[q] = "swapping" /\ fresh[q] = fresh[p] => q = p
    BY <1>0 DEF EngineInv, AddressesUnique
  <2>2. \A i \in 1 .. n + 1 : history'[i].ptr <= allocated
    BY <1>0, <1>3, <1>5, <2>1 DEF EngineInv, AddressesUnique
  <2>3. \A i, j \in 1 .. n + 1 : history'[i].ptr = history'[j].ptr => i = j
    BY <1>0, <1>3, <1>5, <2>1 DEF EngineInv, AddressesUnique
  <2>4. ASSUME NEW q \in Publishers, pc'[q] = "swapping"
        PROVE  /\ fresh'[q] <= allocated
               /\ \A i \in 1 .. n + 1 : history'[i].ptr # fresh'[q]
               /\ \A r \in Publishers : pc'[r] = "swapping" /\ fresh'[r] = fresh'[q] => r = q
    BY <1>0, <1>3, <1>5, <1>6, <2>1, <2>4 DEF EngineInv, AddressesUnique
  <2> QED
    BY <1>4, <1>5, <2>2, <2>3, <2>4 DEF AddressesUnique
<1>10. \A q \in Publishers : Open(q)' => q # p /\ Open(q)
  BY <1>6 DEF Open
<1>11. \A q \in Publishers : Open(q) =>
          builder[q].base \in Nat /\ builder[q].base + 1 \in 1 .. n
  BY <1>0 DEF EngineInv, AttemptsBased, TypeOK, UpdateBuilder
<1>12. AttemptsBased'
  BY <1>0, <1>5, <1>6, <1>10, <1>11 DEF EngineInv, AttemptsBased
<1>13. BuildersFresh'
  BY <1>0, <1>5, <1>6, <1>10, <1>11 DEF EngineInv, BuildersFresh
<1>14. FreshGraphWasClaimed'
  <2> SUFFICES ASSUME NEW i \in 1 .. n + 1, history'[i].freshness = "Fresh"
               PROVE  \E j \in 1 .. i : /\ history'[j].claimed
                                       /\ \A k \in j .. i : history'[k].graph = history'[j].graph
    BY <1>5 DEF FreshGraphWasClaimed
  <2>1. CASE i \in 1 .. n
    <3>1. PICK j \in 1 .. i : /\ history[j].claimed
                            /\ \A k \in j .. i : history[k].graph = history[j].graph
      BY <1>5, <2>1 DEF EngineInv, FreshGraphWasClaimed
    <3> QED
      BY <1>0, <1>5, <2>1, <3>1
  <2>2. CASE i = n + 1 /\ s.claimed
    BY <1>0, <1>5, <2>2
  <2>3. CASE i = n + 1 /\ ~ s.claimed
    <3>1. s.graph = history[n].graph /\ history[n].freshness = "Fresh"
      BY <1>0, <1>2, <1>3, <1>5, <2>3 DEF EngineInv, BuildersFresh, Open
    <3>2. PICK j \in 1 .. n : /\ history[j].claimed
                            /\ \A k \in j .. n : history[k].graph = history[j].graph
      BY <1>0, <3>1 DEF EngineInv, FreshGraphWasClaimed
    <3> QED
      BY <1>0, <1>5, <2>3, <3>1, <3>2
  <2> QED
    BY <1>0, <2>1, <2>2, <2>3
<1> QED
  BY <1>7, <1>8, <1>9, <1>12, <1>13, <1>14 DEF EngineInv

(* The late counter increment preserves the invariant.                        *)
LEMMA CountColdBuildInv ==
    ASSUME EngineInv, NEW p \in Publishers, CountColdBuild(p)
    PROVE  EngineInv'
<1> USE DEF CountColdBuild
<1>0. TypeOK
  BY DEF EngineInv
<1>1. TypeOK'
  BY <1>0 DEF TypeOK, Results
<1>2. pc'[p] = "idle" /\ \A q \in Publishers : q # p => pc'[q] = pc[q]
  BY <1>0 DEF TypeOK
<1>3. LinearHistory' /\ FreshGraphWasClaimed'
  BY DEF EngineInv, LinearHistory, FreshGraphWasClaimed
<1>4. AddressesUnique'
  BY <1>2 DEF EngineInv, AddressesUnique
<1>5. AttemptsBased' /\ BuildersFresh'
  BY <1>2 DEF EngineInv, AttemptsBased, BuildersFresh, Open
<1> QED
  BY <1>1, <1>3, <1>4, <1>5 DEF EngineInv

(* Every step, and stuttering, preserves the invariant.                       *)
LEMMA NextInv == EngineInv /\ [Next]_vars => EngineInv'
<1> SUFFICES ASSUME EngineInv, [Next]_vars PROVE EngineInv'
  OBVIOUS
<1>1. CASE UNCHANGED vars
  BY <1>1 DEF vars, EngineInv, TypeOK, LinearHistory, AddressesUnique, AttemptsBased,
     BuildersFresh, FreshGraphWasClaimed, Open
<1>2. ASSUME NEW p \in Publishers,
             \/ BeginUpdate(p)
             \/ \E g \in Graphs : ReplaceGraph(p, g)
             \/ \E f \in Freshnesses : SetFreshness(p, f)
             \/ \E full \in BOOLEAN : SetIndexing(p, full)
             \/ \E m \in Models : SetProjectModel(p, m)
             \/ PublishStale(p) \/ PublishLoad(p) \/ PublishLose(p) \/ PublishSwap(p)
             \/ CountColdBuild(p)
      PROVE  EngineInv'
  BY <1>2, BeginUpdateInv, SettersInv, ConflictInv, PublishLoadInv, PublishSwapInv,
     CountColdBuildInv
<1> QED
  BY <1>1, <1>2 DEF Next

(* The engine's state stays well typed, for every number of publishers.       *)
THEOREM TypeCorrect == Spec => []TypeOK
<1>1. EngineInv => TypeOK
  BY DEF EngineInv
<1> QED
  BY <1>1, InitInv, NextInv, PTL DEF Spec

(* No update is ever lost: each revision is built from its predecessor.       *)
THEOREM NoLostUpdate == Spec => []LinearHistory
<1>1. EngineInv => LinearHistory
  BY DEF EngineInv
<1> QED
  BY <1>1, InitInv, NextInv, PTL DEF Spec

(* No revision is Fresh for a graph nobody vouched for.                       *)
THEOREM FreshnessIsClaimed == Spec => []FreshGraphWasClaimed
<1>1. EngineInv => FreshGraphWasClaimed
  BY DEF EngineInv
<1> QED
  BY <1>1, InitInv, NextInv, PTL DEF Spec

(* The reader's view of a well-typed snapshot is a log entry.                 *)
LEMMA ViewTyped ==
    ASSUME NEW s \in Snapshot
    PROVE  View(s) \in Published
  BY DEF View, Published, Snapshot

(* Extending the history by a snapshot extends the log by its view.           *)
LEMMA LogAppend ==
    ASSUME history \in Seq(Snapshot), NEW s \in Snapshot, history' = Append(history, s)
    PROVE  LogView' = Append(LogView, View(s))
<1> DEFINE n == Len(history)
<1>1. /\ Len(history') = n + 1 /\ n \in Nat
      /\ \A i \in 1 .. n : history'[i] = history[i]
      /\ history'[n + 1] = s
  BY AppendHistory
<1>2. \A i \in 1 .. n : history[i] \in Snapshot
  OBVIOUS
<1>3. LogView \in [1 .. n -> Published]
  BY <1>2, ViewTyped DEF LogView
<1>4. LogView \in Seq(Published) /\ Len(LogView) = n
  BY <1>1, <1>3
<1>5. /\ DOMAIN Append(LogView, View(s)) = 1 .. n + 1
      /\ \A i \in 1 .. n : Append(LogView, View(s))[i] = LogView[i]
      /\ Append(LogView, View(s))[n + 1] = View(s)
  BY <1>1, <1>4, ViewTyped
<1>6. LogView' = [i \in 1 .. n + 1 |-> View(history'[i])]
  BY <1>1 DEF LogView, View
<1>7. \A i \in 1 .. n : LogView[i] = View(history[i])
  BY DEF LogView
<1> DEFINE A == Append(LogView, View(s))
<1>8. A \in Seq(Published) /\ Len(A) = n + 1
  BY <1>1, <1>4, ViewTyped
<1>9. \A i \in 1 .. n + 1 : View(history'[i]) = A[i]
  <2> SUFFICES ASSUME NEW i \in 1 .. n + 1
               PROVE  View(history'[i]) = A[i]
    OBVIOUS
  <2>1. CASE i \in 1 .. n
    BY <1>1, <1>5, <1>7, <2>1
  <2>2. CASE i = n + 1
    BY <1>1, <1>5, <2>2
  <2>3. i \in 1 .. n \/ i = n + 1
    BY <1>1
  <2> QED
    BY <2>1, <2>2, <2>3
<1> HIDE DEF A, n
<1>10. A \in [1 .. n + 1 -> Published]
  BY <1>8, LenProperties
<1>11. A = [i \in 1 .. n + 1 |-> A[i]]
  BY <1>10
<1>12. LogView' = A
  BY <1>6, <1>9, <1>11
<1> QED
  BY <1>12 DEF A

(* The log has one entry per published revision.                             *)
LEMMA LogLength ==
    ASSUME history \in Seq(Snapshot)
    PROVE  Len(LogView) = Len(history)
<1>1. \A i \in 1 .. Len(history) : history[i] \in Snapshot
  OBVIOUS
<1>2. LogView \in [1 .. Len(history) -> Published]
  BY <1>1, ViewTyped DEF LogView
<1> QED
  BY <1>2

(* A publisher that loses has a base strictly below the head of the log.      *)
LEMMA LoserIsBehind ==
    ASSUME EngineInv, NEW p \in Publishers, PublishStale(p) \/ PublishLose(p)
    PROVE  Open(p) /\ builder[p].base + 1 < Len(history) /\ builder[p].base \in Nat
<1>1. /\ Open(p) /\ builder[p].base \in Nat /\ Len(history) \in Nat
      /\ builder[p].base < Len(history) /\ current = history[Len(history)]
      /\ builder[p].parent = history[builder[p].base + 1].ptr
      /\ current.rev = Len(history) - 1
  BY DEF EngineInv, AttemptsBased, LinearHistory, TypeOK, UpdateBuilder, Open,
     PublishStale, PublishLose
<1>2. CASE PublishStale(p)
  BY <1>1, <1>2 DEF PublishStale, BaseIsCurrent
<1>3. CASE PublishLose(p)
  <2>1. current.ptr # builder[p].parent
    BY <1>3 DEF PublishLose, SlotUnmoved, EngineInv, AttemptsBased, Open
  <2> QED
    BY <1>1, <2>1
<1> QED
  BY <1>2, <1>3

(* How one publisher's attempt changes, the others staying as they are.       *)
LEMMA AttemptUpdate ==
    ASSUME TypeOK, NEW p \in Publishers, NEW w,
           pc' \in [Publishers -> {"idle", "building", "swapping", "counting"}],
           \A q \in Publishers : q # p => pc'[q] = pc[q] /\ builder'[q] = builder[q],
           w = IF pc'[p] \in {"building", "swapping"} THEN builder'[p].base + 1 ELSE 0
    PROVE  Attempt' = [Attempt EXCEPT ![p] = w]
  BY DEF Attempt

(* A step that keeps the history and everyone's attempt is a stutter.         *)
LEMMA Stutter ==
    ASSUME history' = history,
           \A q \in Publishers : /\ builder'[q].base = builder[q].base
                                 /\ (pc'[q] \in {"building", "swapping"})
                                       <=> (pc[q] \in {"building", "swapping"})
    PROVE  UNCHANGED Log!logVars
<1>1. LogView' = LogView
  BY DEF LogView, View
<1>2. Attempt' = Attempt
  BY DEF Attempt
<1> QED
  BY <1>1, <1>2 DEF Log!logVars

(* Every engine step is a step of the log or invisible to it.                 *)
LEMMA RefineStep ==
    ASSUME EngineInv, EngineInv', [Next]_vars
    PROVE  [Log!LogNext]_(Log!logVars)
<1>0. TypeOK /\ TypeOK' /\ history \in Seq(Snapshot) /\ Len(LogView) = Len(history)
  BY LogLength DEF EngineInv, TypeOK
<1>1. CASE UNCHANGED vars
  BY <1>1, Stutter DEF vars
<1>2. ASSUME NEW p \in Publishers, BeginUpdate(p) PROVE Log!Open(p)
  <2>1. /\ builder'[p].base + 1 = Len(history) /\ pc'[p] = "building" /\ pc[p] = "idle"
        /\ history' = history
        /\ \A q \in Publishers : q # p => pc'[q] = pc[q] /\ builder'[q] = builder[q]
    BY <1>0, <1>2 DEF BeginUpdate, BuilderFrom, TypeOK, EngineInv, LinearHistory
  <2>2. Attempt' = [Attempt EXCEPT ![p] = Len(history)]
    BY <1>0, <2>1, AttemptUpdate DEF TypeOK
  <2>3. Attempt[p] = 0
    BY <2>1 DEF Attempt
  <2>4. LogView' = LogView
    BY <2>1 DEF LogView, View
  <2> QED
    BY <1>0, <2>2, <2>3, <2>4 DEF Log!Open
<1>3. ASSUME NEW p \in Publishers,
             \/ \E g \in Graphs : ReplaceGraph(p, g)
             \/ \E f \in Freshnesses : SetFreshness(p, f)
             \/ \E full \in BOOLEAN : SetIndexing(p, full)
             \/ \E m \in Models : SetProjectModel(p, m)
      PROVE  UNCHANGED Log!logVars
  <2>0. builder[p] \in UpdateBuilder
    BY <1>0 DEF TypeOK
  <2>1. \E u \in UpdateBuilder : Edit(p, u) /\ u.base = builder[p].base
    BY <1>3, SetterIsEdit
  <2>2. PICK u \in UpdateBuilder : Edit(p, u) /\ u.base = builder[p].base
    BY <2>1
  <2>3. /\ history' = history /\ pc' = pc
        /\ \A q \in Publishers : builder'[q].base = builder[q].base
    BY <1>0, <2>2 DEF Edit, TypeOK
  <2> QED
    BY <2>3, Stutter
<1>4. ASSUME NEW p \in Publishers, PublishStale(p) \/ PublishLose(p) PROVE Log!Reject(p)
  <2>1. Open(p) /\ builder[p].base + 1 < Len(history) /\ builder[p].base \in Nat
    BY <1>4, LoserIsBehind
  <2>2. Return(p, "conflict", "idle") /\ history' = history
    BY <1>4 DEF PublishStale, PublishLose
  <2>3. /\ pc'[p] = "idle"
        /\ \A q \in Publishers : q # p => pc'[q] = pc[q] /\ builder'[q] = builder[q]
    BY <1>0, <2>2 DEF Return, TypeOK
  <2>4. Attempt' = [Attempt EXCEPT ![p] = 0]
    BY <1>0, <2>3, AttemptUpdate DEF TypeOK
  <2>5. Attempt[p] # 0 /\ Attempt[p] < Len(LogView)
    BY <1>0, <2>1 DEF Attempt, Open
  <2>6. LogView' = LogView
    BY <2>2 DEF LogView, View
  <2> QED
    BY <2>4, <2>5, <2>6 DEF Log!Reject
<1>5. ASSUME NEW p \in Publishers, PublishLoad(p) PROVE UNCHANGED Log!logVars
  <2>1. /\ history' = history /\ builder' = builder
        /\ pc[p] = "building" /\ pc'[p] = "swapping"
        /\ \A q \in Publishers : q # p => pc'[q] = pc[q]
    BY <1>0, <1>5 DEF PublishLoad, TypeOK
  <2> QED
    BY <2>1, Stutter
<1>6. ASSUME NEW p \in Publishers, PublishSwap(p) PROVE Log!Commit(p)
  <2> DEFINE s == SnapshotFrom(builder[p], fresh[p])
  <2>1. pc[p] = "swapping" /\ SlotUnmoved(p) /\ history' = Append(history, s)
    BY <1>6 DEF PublishSwap
  <2>2. s \in Snapshot
    BY <1>0, SnapshotTyped DEF TypeOK
  <2>3. builder[p].base + 1 = Len(history)
    BY <2>1, SwapBase
  <2>4. /\ pc'[p] \in {"idle", "counting"}
        /\ \A q \in Publishers : q # p => pc'[q] = pc[q] /\ builder'[q] = builder[q]
    BY <1>0, <1>6 DEF PublishSwap, Return, TypeOK
  <2>5. Attempt' = [Attempt EXCEPT ![p] = 0]
    BY <1>0, <2>4, AttemptUpdate DEF TypeOK
  <2>6. Attempt[p] = Len(LogView)
    BY <1>0, <2>1, <2>3 DEF Attempt
  <2> HIDE DEF s
  <2>7. LogView' = Append(LogView, View(s)) /\ View(s) \in Published
    BY <1>0, <2>1, <2>2, LogAppend, ViewTyped
  <2> QED
    BY <2>5, <2>6, <2>7 DEF Log!Commit
<1>7. ASSUME NEW p \in Publishers, CountColdBuild(p) PROVE UNCHANGED Log!logVars
  <2>1. /\ history' = history /\ builder' = builder
        /\ pc[p] = "counting" /\ pc'[p] = "idle"
        /\ \A q \in Publishers : q # p => pc'[q] = pc[q]
    BY <1>0, <1>7 DEF CountColdBuild, TypeOK
  <2> QED
    BY <2>1, Stutter
<1> QED
  BY <1>1, <1>2, <1>3, <1>4, <1>5, <1>6, <1>7 DEF Next, Log!LogNext

(* The engine implements the append-only log for any number of publishers.    *)
THEOREM EngineImplementsLog == Spec => ImplementsLog
<1>1. Init => Log!LogInit
  <2> SUFFICES ASSUME Init PROVE Log!LogInit
    OBVIOUS
  <2>1. LogView = <<View(InitialSnapshot)>>
    BY DEF LogView, Init
  <2>2. Attempt = [p \in Publishers |-> 0]
    BY DEF Attempt, Init
  <2> QED
    BY <2>1, <2>2 DEF Log!LogInit
<1> QED
  BY <1>1, InitInv, NextInv, RefineStep, PTL DEF Spec, ImplementsLog, Log!LogSpec

-----------------------------------------------------------------------------
(* The cold_builds counter.                                                   *)

(* Publishers between their swap and their fetch_add, and published cold      *)
(* builds.                                                                    *)
Counting == {p \in Publishers : pc[p] = "counting"}
ColdOnes == {i \in 1 .. Len(history) : history[i].touched /\ history[i].cold}

(* Only a publisher whose swap succeeded counts, and finitely many do so at   *)
(* once, however many publishers there are.                                   *)
CountInv ==
    /\ IsFiniteSet(Counting)
    /\ \A p \in Counting : result[p] = "ok"
    /\ ColdBuildsCounted

LEMMA InitCount == Init => CountInv
<1> SUFFICES ASSUME Init PROVE CountInv
  OBVIOUS
<1>1. Counting = {}
  BY DEF Init, Counting
<1>2. ColdOnes = {}
  BY DEF Init, ColdOnes, InitialSnapshot
<1>3. coldBuilds = 0
  BY DEF Init
<1> QED
  <2>1. coldBuilds + Cardinality(Counting) = Cardinality(ColdOnes)
    BY <1>1, <1>2, <1>3, FS_EmptySet
  <2>2. IsFiniteSet(Counting) /\ \A p \in Counting : result[p] = "ok"
    BY <1>1, FS_EmptySet
  <2> QED
    BY <2>1, <2>2 DEF CountInv, ColdBuildsCounted, Counting, ColdOnes

(* A step of p that publishes nothing and does not touch the counter.         *)
LEMMA OtherStepCount ==
    ASSUME TypeOK, CountInv, NEW p \in Publishers,
           coldBuilds' = coldBuilds, history' = history,
           pc[p] # "counting", pc'[p] # "counting",
           \A q \in Publishers : q # p => pc'[q] = pc[q] /\ result'[q] = result[q]
    PROVE  CountInv'
<1>1. Counting' = Counting /\ ColdOnes' = ColdOnes
  BY DEF Counting, ColdOnes
<1>2. \A q \in Counting : result'[q] = "ok"
  BY DEF CountInv, Counting
<1> QED
  BY <1>1, <1>2 DEF CountInv, ColdBuildsCounted, Counting, ColdOnes

(* The swap adds a cold build together with the publisher that will count it. *)
LEMMA SwapCount ==
    ASSUME EngineInv, CountInv, NEW p \in Publishers, PublishSwap(p)
    PROVE  CountInv'
<1> DEFINE s == SnapshotFrom(builder[p], fresh[p])
           n == Len(history)
<1>0. TypeOK /\ n \in Nat /\ coldBuilds \in Nat
  BY DEF EngineInv, TypeOK
<1>1. s \in Snapshot /\ history \in Seq(Snapshot)
  BY <1>0, SnapshotTyped DEF TypeOK
<1>2. /\ history' = Append(history, s) /\ coldBuilds' = coldBuilds
      /\ pc'[p] = (IF s.touched /\ s.cold THEN "counting" ELSE "idle") /\ result'[p] = "ok"
      /\ pc[p] = "swapping"
      /\ \A q \in Publishers : q # p => pc'[q] = pc[q] /\ result'[q] = result[q]
  BY <1>0 DEF PublishSwap, Return, TypeOK, IsColdBuild
<1> HIDE DEF s
<1>3. /\ Len(history') = n + 1 /\ history'[n + 1] = s
      /\ \A i \in 1 .. n : history'[i] = history[i]
  BY <1>1, <1>2, AppendHistory
<1>4. \A q \in Counting' : result'[q] = "ok"
  BY <1>2 DEF CountInv, Counting
<1>5. IsFiniteSet(ColdOnes) /\ n + 1 \notin ColdOnes /\ p \notin Counting
  <2>1. IsFiniteSet(1 .. n)
    BY <1>0, FS_Interval
  <2>2. ColdOnes \in SUBSET (1 .. n)
    BY DEF ColdOnes
  <2>3. IsFiniteSet(ColdOnes)
    BY <2>1, <2>2, FS_Subset
  <2>4. n + 1 \notin 1 .. n
    BY <1>0
  <2>5. p \notin Counting
    BY <1>2 DEF Counting
  <2> QED
    BY <2>2, <2>3, <2>4, <2>5
<1>6. Cardinality(Counting) \in Nat /\ Cardinality(ColdOnes) \in Nat /\ IsFiniteSet(Counting)
  BY <1>5, FS_CardinalityType DEF CountInv
<1>7. coldBuilds + Cardinality(Counting) = Cardinality(ColdOnes)
  BY DEF CountInv, ColdBuildsCounted, Counting, ColdOnes
<1>8. IsFiniteSet(Counting') /\ coldBuilds' + Cardinality(Counting') = Cardinality(ColdOnes')
  <2>1. CASE s.touched /\ s.cold
    <3>1. Counting' = Counting \union {p}
      BY <1>2, <2>1 DEF Counting
    <3>2. ColdOnes' = ColdOnes \union {n + 1}
      BY <1>0, <1>3, <2>1 DEF ColdOnes
    <3>3. /\ IsFiniteSet(Counting') /\ Cardinality(Counting') = Cardinality(Counting) + 1
          /\ Cardinality(ColdOnes') = Cardinality(ColdOnes) + 1
      BY <1>5, <1>6, <3>1, <3>2, FS_AddElement
    <3> QED
      BY <1>0, <1>2, <1>6, <1>7, <3>3
  <2>2. CASE ~(s.touched /\ s.cold)
    <3>1. Counting' = Counting
      BY <1>2, <2>2 DEF Counting
    <3>2. ColdOnes' = ColdOnes
      BY <1>0, <1>3, <2>2 DEF ColdOnes
    <3> QED
      BY <1>2, <1>6, <1>7, <3>1, <3>2
  <2> QED
    BY <2>1, <2>2
<1> QED
  BY <1>4, <1>8 DEF CountInv, ColdBuildsCounted, Counting, ColdOnes

(* The increment takes its publisher out of those that will still count.      *)
LEMMA CountColdBuildCount ==
    ASSUME EngineInv, CountInv, NEW p \in Publishers, CountColdBuild(p)
    PROVE  CountInv'
<1>1. /\ pc[p] = "counting" /\ pc'[p] = "idle" /\ \A q \in Publishers : q # p => pc'[q] = pc[q]
      /\ coldBuilds' = coldBuilds + 1 /\ coldBuilds \in Nat
      /\ history' = history /\ result' = result
  BY DEF CountColdBuild, EngineInv, TypeOK
<1>2. Counting' = Counting \ {p} /\ p \in Counting /\ ColdOnes' = ColdOnes
  BY <1>1 DEF Counting, ColdOnes
<1>3. IsFiniteSet(Counting) /\ Cardinality(Counting) \in Nat
      /\ coldBuilds + Cardinality(Counting) = Cardinality(ColdOnes)
  BY FS_CardinalityType DEF CountInv, ColdBuildsCounted, Counting, ColdOnes
<1>4. IsFiniteSet(Counting') /\ Cardinality(Counting') = Cardinality(Counting) - 1
  BY <1>2, <1>3, FS_RemoveElement
<1>5. coldBuilds' + Cardinality(Counting') = Cardinality(ColdOnes')
  BY <1>1, <1>2, <1>3, <1>4
<1>6. \A q \in Counting' : result'[q] = "ok"
  BY <1>1, <1>2 DEF CountInv
<1> QED
  BY <1>4, <1>5, <1>6 DEF CountInv, ColdBuildsCounted, Counting, ColdOnes

LEMMA NextCount == EngineInv /\ CountInv /\ [Next]_vars => CountInv'
<1> SUFFICES ASSUME EngineInv, CountInv, [Next]_vars PROVE CountInv'
  OBVIOUS
<1>0. TypeOK
  BY DEF EngineInv
<1>1. CASE UNCHANGED vars
  BY <1>1 DEF vars, CountInv, Counting, ColdBuildsCounted
<1>2. ASSUME NEW p \in Publishers,
             \/ BeginUpdate(p)
             \/ \E g \in Graphs : ReplaceGraph(p, g)
             \/ \E f \in Freshnesses : SetFreshness(p, f)
             \/ \E full \in BOOLEAN : SetIndexing(p, full)
             \/ \E m \in Models : SetProjectModel(p, m)
             \/ PublishStale(p) \/ PublishLoad(p) \/ PublishLose(p)
      PROVE  CountInv'
  <2>1. /\ coldBuilds' = coldBuilds /\ history' = history
        /\ pc[p] # "counting" /\ pc'[p] # "counting"
        /\ \A q \in Publishers : q # p => pc'[q] = pc[q] /\ result'[q] = result[q]
    BY <1>0, <1>2 DEF TypeOK, BeginUpdate, ReplaceGraph, SetFreshness, SetIndexing,
       SetProjectModel, Edit, PublishStale, PublishLoad, PublishLose, Return
  <2> QED
    BY <1>0, <2>1, OtherStepCount
<1> QED
  BY <1>1, <1>2, SwapCount, CountColdBuildCount DEF Next

(* Every published cold build is counted exactly once, whatever increments    *)
(* are still in flight (publish, the relaxed fetch_add after the swap).       *)
THEOREM ColdBuildsAreCounted == Spec => []ColdBuildsCounted
<1>1. CountInv => ColdBuildsCounted
  BY DEF CountInv
<1> QED
  BY <1>1, InitInv, InitCount, NextInv, NextCount, PTL DEF Spec

(* A publisher that loses finds another allocation in the slot than the one   *)
(* its base was loaded from.                                                  *)
LEMMA LoserWasReplaced ==
    ASSUME EngineInv, NEW p \in Publishers, PublishStale(p) \/ PublishLose(p)
    PROVE  current.ptr # builder[p].parent
<1>1. /\ Open(p) /\ builder[p].base + 1 < Len(history) /\ builder[p].base \in Nat
      /\ Len(history) \in Nat
  BY LoserIsBehind DEF EngineInv, TypeOK
<1>2. /\ builder[p].parent = history[builder[p].base + 1].ptr
      /\ current.ptr = history[Len(history)].ptr
  BY <1>1 DEF EngineInv, AttemptsBased, LinearHistory
<1>3. builder[p].base + 1 \in 1 .. Len(history) /\ Len(history) \in 1 .. Len(history)
  BY <1>1
<1>4. \A i, j \in 1 .. Len(history) : history[i].ptr = history[j].ptr => i = j
  BY DEF EngineInv, AddressesUnique
<1>5. history[builder[p].base + 1].ptr # history[Len(history)].ptr
  BY <1>1, <1>3, <1>4
<1> QED
  BY <1>2, <1>5

LEMMA StepConflict ==
    ASSUME EngineInv, CountInv, Next, NEW p \in Publishers,
           pc[p] # "idle", pc'[p] = "idle", result'[p] = "conflict"
    PROVE  current.ptr # builder[p].parent
<1>0. TypeOK
  BY DEF EngineInv
<1>1. PICK q \in Publishers :
        \/ BeginUpdate(q)
        \/ \E g \in Graphs : ReplaceGraph(q, g)
        \/ \E f \in Freshnesses : SetFreshness(q, f)
        \/ \E full \in BOOLEAN : SetIndexing(q, full)
        \/ \E m \in Models : SetProjectModel(q, m)
        \/ PublishStale(q) \/ PublishLoad(q) \/ PublishLose(q) \/ PublishSwap(q)
        \/ CountColdBuild(q)
  BY Zenon DEF Next
<1>2. CASE PublishStale(q) \/ PublishLose(q)
  <2>1. q = p
    BY <1>0, <1>2 DEF TypeOK, PublishStale, PublishLose, Return
  <2> QED
    BY <1>2, <2>1, LoserWasReplaced
<1>3. CASE PublishSwap(q)
  BY <1>0, <1>3 DEF TypeOK, PublishSwap, Return, Results
<1>4. CASE CountColdBuild(q)
  <2>1. q = p /\ p \in Counting /\ result' = result
    BY <1>0, <1>4 DEF TypeOK, CountColdBuild, Counting
  <2> QED
    BY <2>1 DEF CountInv
<1>5. CASE \/ BeginUpdate(q)
           \/ \E g \in Graphs : ReplaceGraph(q, g)
           \/ \E f \in Freshnesses : SetFreshness(q, f)
           \/ \E full \in BOOLEAN : SetIndexing(q, full)
           \/ \E m \in Models : SetProjectModel(q, m)
           \/ PublishLoad(q)
  BY <1>0, <1>5 DEF TypeOK, BeginUpdate, ReplaceGraph, SetFreshness, SetIndexing,
     SetProjectModel, Edit, PublishLoad
<1> QED
  BY <1>1, <1>2, <1>3, <1>4, <1>5

(* publish returns Conflict only when another publication really replaced     *)
(* the base: no update is refused because of a reused address or of a late    *)
(* load.                                                                      *)
THEOREM ConflictsAreJustified == Spec => ConflictIsJustified
<1>1. EngineInv /\ CountInv /\ [Next]_vars
        => [\A p \in Publishers :
              pc[p] # "idle" /\ pc'[p] = "idle" /\ result'[p] = "conflict"
                  => current.ptr # builder[p].parent]_vars
  BY StepConflict
<1> QED
  BY <1>1, InitInv, InitCount, NextInv, NextCount, PTL DEF Spec, ConflictIsJustified
=============================================================================
