------------------------------- MODULE Engine -------------------------------
(***************************************************************************)
(* Atomic ownership of the published revision: WorkspaceEngine and          *)
(* UpdateBuilder of crates/chakra-engine/src/engine.rs.                     *)
(*                                                                         *)
(* Any number of publishers (the live worker, its filesystem callback, the  *)
(* session that performs the initial index, the shutdown path) build        *)
(* updates privately and race to publish them.  `publish` is two atomic     *)
(* steps on shared memory, a load of the slot and a compare-and-swap on     *)
(* the address that was loaded, followed by a relaxed counter increment.    *)
(*                                                                         *)
(* A snapshot is its revision, the fields whose relation the engine         *)
(* promises (graph, freshness, project model) and `cold`, the indexing      *)
(* summary reduced to "reports a full rebuild".  `ptr` is the address of    *)
(* the Arc allocation.  `history`, `parent` and `claimed` are history       *)
(* variables: no action reads them.                                         *)
(***************************************************************************)
EXTENDS Integers, Sequences, FiniteSets

CONSTANTS
    Publishers,       \* threads that call begin_update / publish
    Graphs,           \* symbol graphs, up to equality
    Models,           \* project models, up to equality
    NoGraph,          \* SymbolGraph::new()
    NoModel,          \* ProjectModel::default()
    MaxAllocations    \* bound: snapshots ever allocated

ASSUME EngineAssumption ==
    /\ NoGraph \in Graphs
    /\ NoModel \in Models
    /\ MaxAllocations \in Nat

VARIABLES
    current,      \* the ArcSwap slot
    allocated,    \* addresses handed out so far
    pc,           \* where each publisher is in begin_update .. publish
    builder,      \* its UpdateBuilder
    loaded,       \* the address `publish` loaded, 0 outside publish
    fresh,        \* the address `publish` allocated, 0 outside publish
    result,       \* what its last publish returned
    coldBuilds,   \* the cold_builds counter
    history       \* every snapshot the slot has held, oldest first

vars == <<current, allocated, pc, builder, loaded, fresh, result, coldBuilds, history>>

Freshnesses == {"Fresh", "Stale"}
Results == {"none", "ok", "conflict"}

(* Revisions and addresses are natural numbers; `touched` says the update    *)
(* holds a graph allocation other than the one it inherited.                 *)
Snapshot == [rev : Nat, ptr : Nat, graph : Graphs, model : Models,
             freshness : Freshnesses, cold : BOOLEAN,
             parent : Int, claimed : BOOLEAN, touched : BOOLEAN]

UpdateBuilder == [base : Nat, graph : Graphs, model : Models,
                  freshness : Freshnesses, cold : BOOLEAN,
                  parent : Nat, claimed : BOOLEAN, touched : BOOLEAN]

(* WorkspaceEngine::new: revision 0, an empty graph, nothing claimed.         *)
InitialSnapshot ==
    [rev |-> 0, ptr |-> 0, graph |-> NoGraph, model |-> NoModel,
     freshness |-> "Stale", cold |-> FALSE,
     parent |-> -1, claimed |-> FALSE, touched |-> FALSE]

(* Faulty: the update is numbered after the predecessor of its base.           *)
BuilderFromPredecessor(base) ==
    [base |-> base.rev - 1, graph |-> base.graph, model |-> base.model,
     freshness |-> base.freshness, cold |-> base.cold,
     parent |-> base.ptr, claimed |-> FALSE, touched |-> FALSE]

(* begin_update: everything is inherited from the loaded snapshot.            *)
BuilderFrom(base) ==
    [base |-> base.rev, graph |-> base.graph, model |-> base.model,
     freshness |-> base.freshness, cold |-> base.cold,
     parent |-> base.ptr, claimed |-> FALSE, touched |-> FALSE]

(* The builder of a publisher with no update under way: publish consumes it.  *)
NoUpdate ==
    [base |-> 0, graph |-> NoGraph, model |-> NoModel, freshness |-> "Stale",
     cold |-> FALSE, parent |-> 0, claimed |-> FALSE, touched |-> FALSE]

(* The snapshot a successful publish installs.                               *)
SnapshotFrom(update, ptr) ==
    [rev |-> update.base + 1, ptr |-> ptr, graph |-> update.graph,
     model |-> update.model, freshness |-> update.freshness,
     cold |-> update.cold, parent |-> update.parent,
     claimed |-> update.claimed, touched |-> update.touched]

(* Faulty: forgets that a metadata revision inherits the indexing summary.     *)
IsColdBuildByReport(snapshot) == snapshot.cold

(* A publication counted as a cold build: a replaced graph whose indexing     *)
(* summary reports a full rebuild.                                           *)
IsColdBuild(snapshot) == snapshot.touched /\ snapshot.cold

Init ==
    /\ current = InitialSnapshot
    /\ allocated = 0
    /\ pc = [p \in Publishers |-> "idle"]
    /\ builder = [p \in Publishers |-> NoUpdate]
    /\ loaded = [p \in Publishers |-> 0]
    /\ fresh = [p \in Publishers |-> 0]
    /\ result = [p \in Publishers |-> "none"]
    /\ coldBuilds = 0
    /\ history = <<InitialSnapshot>>

BeginUpdate(p) ==
    /\ pc[p] = "idle"
    /\ pc' = [pc EXCEPT ![p] = "building"]
    /\ builder' = [builder EXCEPT ![p] = BuilderFrom(current)]
    /\ result' = [result EXCEPT ![p] = "none"]
    /\ UNCHANGED <<current, allocated, loaded, fresh, coldBuilds, history>>

(* The setters write one publisher's private builder and nothing shared.      *)
Edit(p, update) ==
    /\ pc[p] = "building"
    /\ builder' = [builder EXCEPT ![p] = update]
    /\ UNCHANGED <<current, allocated, pc, loaded, fresh, result, coldBuilds, history>>

(* Faulty: the inherited freshness survives a graph edit.                     *)
ReplaceGraphKeepingFreshness(p, g) ==
    Edit(p, [builder[p] EXCEPT !.graph = g, !.touched = TRUE, !.claimed = FALSE])

(* graph_mut and replace_graph revoke any freshness inherited or claimed.     *)
ReplaceGraph(p, g) ==
    Edit(p, [builder[p] EXCEPT !.graph = g, !.touched = TRUE,
                               !.freshness = "Stale", !.claimed = FALSE])

(* set_freshness: the publisher's claim that it reconciled the worktree.      *)
SetFreshness(p, f) ==
    Edit(p, [builder[p] EXCEPT !.freshness = f, !.claimed = (f = "Fresh")])

(* set_indexing.                                                             *)
SetIndexing(p, full) == Edit(p, [builder[p] EXCEPT !.cold = full])

(* set_project_model.                                                        *)
SetProjectModel(p, m) == Edit(p, [builder[p] EXCEPT !.model = m])

(* Faulty: compares the base with the revision to be published.               *)
BaseIsNext(p) == current.rev = builder[p].base + 1

(* publish's first test, on the revision number.                             *)
BaseIsCurrent(p) == current.rev = builder[p].base

(* Faulty: an unconditional store instead of a compare-and-swap.              *)
SlotAssumedUnmoved(p) == TRUE

(* The compare-and-swap's test, on the address.  publish keeps the loaded     *)
(* Arc alive, so the address cannot be reused in between.                     *)
SlotUnmoved(p) == current.ptr = loaded[p]

(* publish gives its update up and returns r.                                *)
Return(p, r, where) ==
    /\ pc' = [pc EXCEPT ![p] = where]
    /\ result' = [result EXCEPT ![p] = r]
    /\ builder' = [builder EXCEPT ![p] = NoUpdate]
    /\ loaded' = [loaded EXCEPT ![p] = 0]
    /\ fresh' = [fresh EXCEPT ![p] = 0]

(* publish, first half: load the slot, give up if the base moved.             *)
PublishStale(p) ==
    /\ pc[p] = "building"
    /\ ~BaseIsCurrent(p)
    /\ Return(p, "conflict", "idle")
    /\ UNCHANGED <<current, allocated, coldBuilds, history>>

(* publish, first half: otherwise allocate the next snapshot.                 *)
PublishLoad(p) ==
    /\ pc[p] = "building"
    /\ BaseIsCurrent(p)
    /\ allocated < MaxAllocations
    /\ allocated' = allocated + 1
    /\ loaded' = [loaded EXCEPT ![p] = current.ptr]
    /\ fresh' = [fresh EXCEPT ![p] = allocated + 1]
    /\ pc' = [pc EXCEPT ![p] = "swapping"]
    /\ UNCHANGED <<current, builder, result, coldBuilds, history>>

(* publish, second half: the compare-and-swap on the loaded address fails.    *)
PublishLose(p) ==
    /\ pc[p] = "swapping"
    /\ ~SlotUnmoved(p)
    /\ Return(p, "conflict", "idle")
    /\ UNCHANGED <<current, allocated, coldBuilds, history>>

(* publish, second half: the swap installs the new snapshot.                  *)
PublishSwap(p) ==
    LET next == SnapshotFrom(builder[p], fresh[p]) IN
    /\ pc[p] = "swapping"
    /\ SlotUnmoved(p)
    /\ current' = next
    /\ history' = Append(history, next)
    /\ Return(p, "ok", IF IsColdBuild(next) THEN "counting" ELSE "idle")
    /\ UNCHANGED <<allocated, coldBuilds>>

(* publish, after the swap: the relaxed counter increment.                    *)
CountColdBuild(p) ==
    /\ pc[p] = "counting"
    /\ coldBuilds' = coldBuilds + 1
    /\ pc' = [pc EXCEPT ![p] = "idle"]
    /\ UNCHANGED <<current, allocated, builder, loaded, fresh, result, history>>

Next ==
    \E p \in Publishers :
        \/ BeginUpdate(p)
        \/ \E g \in Graphs : ReplaceGraph(p, g)
        \/ \E f \in Freshnesses : SetFreshness(p, f)
        \/ \E full \in BOOLEAN : SetIndexing(p, full)
        \/ \E m \in Models : SetProjectModel(p, m)
        \/ PublishStale(p)
        \/ PublishLoad(p)
        \/ PublishLose(p)
        \/ PublishSwap(p)
        \/ CountColdBuild(p)

Spec == Init /\ [][Next]_vars

-----------------------------------------------------------------------------
(* Types: revisions and addresses stay natural numbers, so no update is ever  *)
(* numbered below the snapshot it was based on (UpdateBuilder).               *)
TypeOK ==
    /\ current \in Snapshot
    /\ allocated \in Nat
    /\ pc \in [Publishers -> {"idle", "building", "swapping", "counting"}]
    /\ builder \in [Publishers -> UpdateBuilder]
    /\ loaded \in [Publishers -> Nat]
    /\ fresh \in [Publishers -> Nat]
    /\ result \in [Publishers -> Results]
    /\ coldBuilds \in Nat
    /\ history \in Seq(Snapshot)
    /\ Len(history) > 0

(* No lost update: each published revision was built from the one it          *)
(* replaced, so no publication silently discards another one's content, and   *)
(* revision numbers have neither gaps nor repeats (publish, "a slow update    *)
(* can never overwrite a newer revision").                                   *)
LinearHistory ==
    /\ current = history[Len(history)]
    /\ \A i \in 1 .. Len(history) :
        /\ history[i].rev = i - 1
        /\ i > 1 => history[i].parent = history[i - 1].ptr

(* A Fresh revision always carries a graph that some publisher explicitly     *)
(* claimed Fresh for, with nothing but metadata revisions in between.         *)
FreshGraphWasClaimed ==
    \A i \in 1 .. Len(history) :
        history[i].freshness = "Fresh" =>
            \E j \in 1 .. i :
                /\ history[j].claimed
                /\ \A k \in j .. i : history[k].graph = history[j].graph

(* The strengthening under which the two properties above are inductive.      *)
(* An attempt is open from begin_update until publish returns.                *)
Open(p) == pc[p] \in {"building", "swapping"}

(* Addresses are never shared: neither by two published snapshots, nor by a   *)
(* published one and one that waits for its swap.                            *)
AddressesUnique ==
    /\ \A i \in 1 .. Len(history) : history[i].ptr <= allocated
    /\ \A i, j \in 1 .. Len(history) : history[i].ptr = history[j].ptr => i = j
    /\ \A p \in Publishers : pc[p] = "swapping" =>
        /\ fresh[p] <= allocated
        /\ \A i \in 1 .. Len(history) : history[i].ptr # fresh[p]
        /\ \A q \in Publishers : pc[q] = "swapping" /\ fresh[q] = fresh[p] => q = p

(* An open attempt still refers to the snapshot it was based on.              *)
AttemptsBased ==
    \A p \in Publishers : Open(p) =>
        /\ builder[p].base < Len(history)
        /\ builder[p].parent = history[builder[p].base + 1].ptr
        /\ pc[p] = "swapping" => loaded[p] = builder[p].parent

(* A builder is Fresh by its own claim, or by inheritance with the graph.      *)
BuildersFresh ==
    \A p \in Publishers : Open(p) /\ builder[p].freshness = "Fresh" =>
        \/ builder[p].claimed
        \/ /\ builder[p].graph = history[builder[p].base + 1].graph
           /\ history[builder[p].base + 1].freshness = "Fresh"

EngineInv ==
    /\ TypeOK
    /\ LinearHistory
    /\ AddressesUnique
    /\ AttemptsBased
    /\ BuildersFresh
    /\ FreshGraphWasClaimed

(* cold_builds counts each published cold build once, apart from the          *)
(* increments still in flight between a publisher's swap and its fetch_add.   *)
ColdBuildsCounted ==
    coldBuilds + Cardinality({p \in Publishers : pc[p] = "counting"})
        = Cardinality({i \in 1 .. Len(history) : history[i].touched /\ history[i].cold})

(* A publish reports Conflict only to a publisher whose base has really been  *)
(* replaced by another one's publication.                                    *)
ConflictIsJustified ==
    [][\A p \in Publishers :
          pc[p] # "idle" /\ pc'[p] = "idle" /\ result'[p] = "conflict"
              => current.ptr # builder[p].parent]_vars
=============================================================================
