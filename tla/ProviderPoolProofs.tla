-------------------------- MODULE ProviderPoolProofs --------------------------
(***************************************************************************)
(* Proofs about ProviderPool for any number of queries, slots and           *)
(* workspaces and any limits.  The argument: a child is in its slot or in    *)
(* the hands of exactly one thread (the query that claimed the slot, a query *)
(* whose provider came too late, or the evictor that took it), so no lease   *)
(* is lost and an orderly shutdown meets every child; whoever has a child has *)
(* its reservation, so counting reservations bounds the children and summing *)
(* them bounds their memory.  A flag of a slot stands only while somebody    *)
(* claims or leases it.  Sums over finite sets are those of FoldFunction;     *)
(* what they obey follows from a smallest counterexample.                    *)
(***************************************************************************)
EXTENDS ProviderPoolRefinement, FiniteSetTheorems, TLAPS

(* Queries that hold the claim on a slot, or believe they do: reserve_capacity *)
(* fails as soon as it sees a stop, so after one a claim at "reserve" is void. *)
Claims == {"reserve", "charge", "evict", "refused", "start", "reject"}

Claiming(q) == pc[q] \in Claims /\ (pc[q] = "reserve" => ~stopped)

Evicting(a, s) == eviction[a].stage = "shutdown" /\ eviction[a].victim = s

Leases(s) == {q \in Queries : pc[q] = "leased" /\ on[q] = s}

Admitted == {q \in Queries : pc[q] \notin {"idle", "admit"}}

(* A claim keeps everyone else away from its slot.                            *)
ClaimInv ==
    \A q \in Queries : Claiming(q) =>
        /\ ~slot[on[q]].provider /\ slot[on[q]].activating
        /\ \A r \in Queries \ {q} : on[r] = on[q] => pc[r] \notin Claims \union {"discard"}
        /\ \A a \in Evictors : ~Evicting(a, on[q])
        /\ processes[on[q]] = IF pc[q] = "reject" THEN 1 ELSE 0

(* A provider that came too late is its query's alone to shut down.           *)
DiscardInv ==
    \A q \in Queries : pc[q] = "discard" =>
        /\ stopped /\ ~slot[on[q]].provider /\ processes[on[q]] = 1
        /\ \A r \in Queries \ {q} : on[r] = on[q] => pc[r] # "discard"
        /\ \A a \in Evictors : ~Evicting(a, on[q])

(* So is a victim that its evictor has taken.                                 *)
EvictInv ==
    \A a \in Evictors, s \in Slots : Evicting(a, s) =>
        /\ ~slot[s].provider /\ processes[s] = 1
        /\ ~stopped => slot[s].activating
        /\ \A b \in Evictors \ {a} : ~Evicting(b, s)

(* A child is in its slot or in the hands of one thread.                      *)
ChildInv ==
    \A s \in Slots :
        /\ slot[s].provider => processes[s] = 1
        /\ processes[s] # 0 => /\ WorkspaceOf[s] \in bound
                               /\ \/ slot[s].provider
                                  \/ \E q \in Queries : on[q] = s /\ pc[q] \in {"discard", "reject"}
                                  \/ \E a \in Evictors : Evicting(a, s)

ActorInv ==
    /\ \A q \in Queries : /\ pc[q] # "idle" => WorkspaceOf[on[q]] \in bound
                          /\ eviction[q] # NoEviction => pc[q] = "evict"
    /\ \A a \in Evictors : IF eviction[a].stage = "none" THEN eviction[a] = NoEviction
                           ELSE eviction[a].victim \in Slots
    /\ eviction["owner"] # NoEviction => owner \in {"sweeping", "sweeping_failed"}

(* Until shutdown gives up, in_flight counts the leases.                      *)
LeaseInv ==
    owner \in {"serving", "draining", "sweeping"} =>
        \A s \in Slots : /\ slot[s].inFlight = Cardinality(Leases(s))
                         /\ Leases(s) # {} => slot[s].provider

(* An orderly sweep works alone, and what it has not reached is in `todo`.    *)
SweepInv ==
    /\ stopped <=> owner # "serving"
    /\ owner = "draining" => todo = {s \in Slots : WorkspaceOf[s] \in bound}
    /\ owner \in {"sweeping", "ok"} =>
        /\ \A q \in Queries : pc[q] \in {"idle", "admit", "activate", "return"}
        /\ pass = {} /\ eviction["reaper"] = NoEviction
        /\ \A s \in Slots : processes[s] # 0 =>
                \/ s \in todo
                \/ eviction["owner"].victim = s /\ eviction["owner"].stage \in {"take", "shutdown"}
    /\ owner = "ok" => todo = {} /\ eviction["owner"] = NoEviction

RunningInv == running = Cardinality(Admitted)

(* What the ledger counts: slots with a provider, and the threads that have a  *)
(* reservation in hand, each with the slot it is for.                         *)
Reservations ==
    {<<"slot", s, s>> : s \in {t \in Slots : slot[t].provider}}
    \union {<<"query", q, on[q]>> : q \in {r \in Queries : pc[r] \in {"start", "discard", "reject"}}}
    \union {<<"evict", a, eviction[a].victim>> :
                a \in {b \in Evictors : eviction[b].stage \in {"shutdown", "release"}}}

ReservationsOf(w) == {h \in Reservations : WorkspaceOf[h[3]] = w}

(* The memory set aside by a set of reservations.                             *)
MemoryOf(R) == Sum([h \in R |-> Reservation[h[3]]])

MemoryInv ==
    /\ \A h \in Reservations : h[3] \in Slots
    /\ total.memory = MemoryOf(Reservations) /\ total.memory <= MaxMemory
    /\ \A w \in Workspaces : /\ usage[w].memory = MemoryOf(ReservationsOf(w))
                             /\ usage[w].memory <= MaxWorkspaceMemory

LedgerInv ==
    /\ IsFiniteSet(Reservations)
    /\ total.active = Cardinality(Reservations) /\ total.active <= MaxActive
    /\ \A w \in Workspaces : /\ usage[w].active = Cardinality(ReservationsOf(w))
                             /\ usage[w].active <= MaxWorkspaceActive
    /\ MemoryInv

(* A flag left behind by nobody: in_flight counts the leases, even after a     *)
(* shutdown gave up waiting, and a slot is claimed by a query or an evictor.   *)
FlagsInv ==
    \A s \in Slots :
        /\ slot[s].inFlight = Cardinality(Leases(s))
        /\ slot[s].activating =>
                \/ \E q \in Queries : on[q] = s /\ pc[q] \in Claims
                \/ \E a \in Evictors : Evicting(a, s)

PoolInv ==
    /\ TypeOK /\ ActorInv
    /\ ClaimInv /\ DiscardInv /\ EvictInv /\ ChildInv
    /\ LeaseInv /\ RunningInv /\ SweepInv

-----------------------------------------------------------------------------
(* What the invariant says of one query, slot or actor.                       *)

Places == {"idle", "admit", "activate", "lookup", "reserve", "charge", "evict", "refused",
           "start", "discard", "reject", "leased", "return"}

Runtimes == [provider : BOOLEAN, activating : BOOLEAN, inFlight : Nat, error : BOOLEAN,
             backoff : BOOLEAN]

(* The parts of the state the arguments are about.                            *)
LEMMA Types ==
    ASSUME PoolInv
    PROVE  /\ pc \in [Queries -> Places] /\ on \in [Queries -> Slots]
           /\ slot \in [Slots -> Runtimes] /\ processes \in [Slots -> Nat]
           /\ eviction \in [Evictors -> [victim : Slots \union {"none"},
                                         stage : {"none", "take", "shutdown", "release"}]]
           /\ stopped \in BOOLEAN /\ bound \subseteq Workspaces
BY DEF PoolInv, TypeOK, Places, Runtimes

LEMMA FiniteSets ==
    ASSUME PoolInv
    PROVE  /\ IsFiniteSet(Admitted) /\ \A s : IsFiniteSet(Leases(s))
<1>1. IsFiniteSet(Queries)
  BY ProviderPoolAssumption
<1>2. Admitted \in SUBSET Queries /\ \A s : Leases(s) \in SUBSET Queries
  BY DEF Admitted, Leases
<1> QED BY <1>1, <1>2, FS_Subset

LEMMA Threads ==
    /\ Queries \subseteq Evictors /\ "reaper" \in Evictors /\ "owner" \in Evictors
    /\ "reaper" \notin Queries /\ "owner" \notin Queries /\ "reaper" # "owner"
BY ProviderPoolAssumption DEF Evictors

(* The ledger stays a ledger of natural numbers.                              *)
LEMMA LedgerTypes ==
    ASSUME TypeOK, NEW s \in Slots
    PROVE  /\ Charge(s) => total' \in Usages /\ usage' \in [Workspaces -> Usages]
           /\ ReleaseReservation(s) => total' \in Usages /\ usage' \in [Workspaces -> Usages]
<1>1. Reservation[s] \in Nat /\ total \in Usages /\ usage \in [Workspaces -> Usages]
  BY ProviderPoolAssumption DEF TypeOK
<1>2. \A used \in Usages : Plus(used, s) \in Usages
  BY <1>1 DEF Plus, Usages
<1>3. \A used \in Usages : Minus(used, s) \in Usages
  <2> SUFFICES ASSUME NEW used \in Usages PROVE Minus(used, s) \in Usages
    OBVIOUS
  <2>1. used.active \in Nat /\ used.memory \in Nat
    BY DEF Usages
  <2>2. (IF used.active > 0 THEN used.active - 1 ELSE 0) \in Nat
    BY <2>1
  <2>3. (IF used.memory > Reservation[s] THEN used.memory - Reservation[s] ELSE 0) \in Nat
    BY <1>1, <2>1
  <2> QED BY <2>2, <2>3 DEF Minus, Usages
<1>4. Charge(s) => total' \in Usages /\ usage' \in [Workspaces -> Usages]
  BY <1>1, <1>2 DEF Charge
<1>5. ReleaseReservation(s) => total' \in Usages /\ usage' \in [Workspaces -> Usages]
  BY <1>1, <1>3 DEF ReleaseReservation
<1> QED BY <1>4, <1>5

-----------------------------------------------------------------------------
(* Steps that change only where a query is.                                   *)

(* The query takes, keeps or gives up no claim, lease, eviction or child.     *)
Quiet == {"idle", "admit", "activate", "return"}

LEMMA QueryMoves ==
    ASSUME PoolInv, NEW q \in Queries, NEW p \in Places, pc' = [pc EXCEPT ![q] = p],
           \A r \in Queries : r # q \/ p # "idle" => on'[r] = on[r],
           UNCHANGED <<stopped, slot, processes, bound, eviction, owner, todo, pass>>,
           pc[q] \notin {"idle", "evict", "discard", "reject", "leased"},
           p \notin {"reserve", "evict", "refused", "discard", "reject", "leased"},
           p \in Claims => Claiming(q),
           owner \in {"sweeping", "ok"} => p \in Quiet,
           TypeOK', RunningInv'
    PROVE  PoolInv'
<1>1. /\ \A r \in Queries : pc'[r] = IF r = q THEN p ELSE pc[r]
      /\ \A r \in Queries : on[r] \in Slots
      /\ \A r \in Queries : pc'[r] # "idle" => on'[r] = on[r]
  BY Types
<1>2. \A r \in Queries : Claiming(r)' => /\ Claiming(r) /\ (pc'[r] = "reject" <=> pc[r] = "reject")
                                         /\ on'[r] = on[r]
  BY <1>1 DEF Claiming, Claims
<1>3. \A a, s : Evicting(a, s)' <=> Evicting(a, s)
  BY DEF Evicting
<1>4. \A r \in Queries : pc'[r] \in Claims \union {"discard"} =>
                            pc[r] \in Claims \union {"discard"} /\ on'[r] = on[r]
  BY <1>1 DEF Claiming, Claims
<1>5. ActorInv'
  BY <1>1 DEF PoolInv, ActorInv
<1>6. ClaimInv'
  BY <1>2, <1>3, <1>4 DEF PoolInv, ClaimInv
<1>7. DiscardInv'
  BY <1>1, <1>3 DEF PoolInv, DiscardInv
<1>8. EvictInv'
  BY <1>3 DEF PoolInv, EvictInv
<1>9. ChildInv'
  <2>1. \A r \in Queries : pc[r] \in {"discard", "reject"} =>
                              pc'[r] = pc[r] /\ on'[r] = on[r]
    BY <1>1
  <2> QED BY <1>3, <2>1 DEF PoolInv, ChildInv
<1>10. LeaseInv'
  <2>1. \A s : Leases(s)' = Leases(s)
    BY <1>1 DEF Leases
  <2> QED BY <2>1 DEF PoolInv, LeaseInv
<1>11. SweepInv'
  BY <1>1 DEF PoolInv, SweepInv, Quiet
<1> QED BY <1>5, <1>6, <1>7, <1>8, <1>9, <1>10, <1>11 DEF PoolInv

(* Neither does the number of admitted queries change.                        *)
LEMMA SameAdmitted ==
    ASSUME PoolInv, UNCHANGED running, NEW q \in Queries, NEW p, pc' = [pc EXCEPT ![q] = p],
           pc[q] \in {"idle", "admit"} <=> p \in {"idle", "admit"}
    PROVE  RunningInv'
<1>1. Admitted' = Admitted
  BY Types DEF Admitted
<1> QED BY <1>1 DEF PoolInv, RunningInv

(* A call that is over forgets its slot.                                      *)
LEMMA Forgotten ==
    ASSUME on \in [Queries -> Slots], NEW q \in Queries, Forget(q)
    PROVE  on' \in [Queries -> Slots] /\ \A r \in Queries : r # q => on'[r] = on[r]
<1>1. AnySlot \in Slots
  BY ProviderPoolAssumption DEF AnySlot
<1> QED BY <1>1 DEF Forget

LEMMA AdmitKeeps ==
    ASSUME PoolInv, NEW q \in Queries, Admit(q)
    PROVE  PoolInv'
<1> USE DEF Admit, Go, ledgerVars
<1>1. CASE running < MaxConcurrentQueries /\ running' = running + 1 /\ Go(q, "activate") /\ UNCHANGED on
  <2>1. TypeOK'
    BY <1>1, ProviderPoolAssumption DEF PoolInv, TypeOK
  <2>2. RunningInv'
    <3>1. Admitted' = Admitted \union {q} /\ q \notin Admitted
      BY <1>1, Types DEF Admitted
    <3>2. Cardinality(Admitted') = Cardinality(Admitted) + 1
      BY <3>1, FiniteSets, FS_AddElement
    <3> QED BY <1>1, <3>2 DEF PoolInv, RunningInv
  <2> QED BY <1>1, <2>1, <2>2, QueryMoves DEF Places, Claims, Quiet
<1>2. CASE UNCHANGED running /\ Go(q, "idle") /\ Forget(q)
  <2>1. on' \in [Queries -> Slots] /\ \A r \in Queries : r # q => on'[r] = on[r]
    BY <1>2, Types, Forgotten
  <2>2. TypeOK'
    BY <1>2, <2>1 DEF PoolInv, TypeOK
  <2>3. RunningInv'
    BY <1>2, SameAdmitted
  <2> QED BY <1>2, <2>1, <2>2, <2>3, QueryMoves DEF Places, Claims, Quiet
<1> QED BY <1>1, <1>2

LEMMA ReturnKeeps ==
    ASSUME PoolInv, NEW q \in Queries, Return(q)
    PROVE  PoolInv'
<1> USE DEF Return, Go, ledgerVars
<1>1. Admitted' = Admitted \ {q} /\ q \in Admitted
  BY Types DEF Admitted
<1>2. Cardinality(Admitted') = Cardinality(Admitted) - 1
  BY <1>1, FiniteSets, FS_RemoveElement
<1>3. Cardinality(Admitted') \in Nat
  BY <1>1, FiniteSets, FS_RemoveElement, FS_CardinalityType
<1>4. RunningInv' /\ running' \in Nat
  BY <1>2, <1>3 DEF PoolInv, RunningInv
<1>5. on' \in [Queries -> Slots] /\ \A r \in Queries : r # q => on'[r] = on[r]
  BY Types, Forgotten
<1>6. TypeOK'
  <2>1. running' \in 0 .. MaxConcurrentQueries
    BY <1>4, ProviderPoolAssumption DEF PoolInv, TypeOK
  <2>2. pc' \in [Queries -> Places]
    BY Types DEF Places
  <2> QED BY <1>5, <2>1, <2>2 DEF PoolInv, TypeOK, Places
<1> QED BY <1>4, <1>5, <1>6, QueryMoves DEF Places, Claims, Quiet

LEMMA ActivateCheckKeeps ==
    ASSUME PoolInv, NEW q \in Queries, ActivateCheck(q)
    PROVE  PoolInv'
<1> USE DEF ActivateCheck, Go, ledgerVars
<1>1. PICK p \in {"return", "lookup"} : Go(q, p) /\ (p = "lookup" => ~stopped)
  OBVIOUS
<1>2. TypeOK'
  BY <1>1 DEF PoolInv, TypeOK
<1>3. RunningInv'
  BY <1>1, SameAdmitted
<1>4. owner \in {"sweeping", "ok"} => p \in Quiet
  BY <1>1 DEF PoolInv, SweepInv, Quiet
<1> QED BY <1>1, <1>2, <1>3, <1>4, QueryMoves DEF Places, Claims

LEMMA ReserveCheckKeeps ==
    ASSUME PoolInv, NEW q \in Queries, ReserveCheck(q)
    PROVE  PoolInv'
<1> USE DEF ReserveCheck, Go, ledgerVars
<1>1. TypeOK'
  BY DEF PoolInv, TypeOK
<1>2. RunningInv'
  BY SameAdmitted
<1>3. owner \notin {"sweeping", "ok"}
  BY DEF PoolInv, SweepInv
<1> QED BY <1>1, <1>2, <1>3, QueryMoves DEF Places, Claims, Claiming

LEMMA ReserveKeeps ==
    ASSUME PoolInv, NEW q \in Queries, Reserve(q)
    PROVE  PoolInv'
<1> USE DEF Reserve, Go
<1>1. TypeOK'
  <2>1. total' \in Usages /\ usage' \in [Workspaces -> Usages]
    BY LedgerTypes, Types DEF PoolInv
  <2> QED BY <2>1 DEF PoolInv, TypeOK
<1>2. RunningInv'
  BY SameAdmitted
<1>3. owner \notin {"sweeping", "ok"}
  BY DEF PoolInv, SweepInv
<1> QED BY <1>1, <1>2, <1>3, QueryMoves DEF Places, Claims, Claiming

-----------------------------------------------------------------------------
(* The other steps of activate.                                               *)

LEMMA BindWorkspaceKeeps ==
    ASSUME PoolInv, NEW w \in Workspaces, BindWorkspace(w)
    PROVE  PoolInv'
<1> USE DEF BindWorkspace, ledgerVars
<1>1. \A a, s : Evicting(a, s)' <=> Evicting(a, s)
  BY DEF Evicting
<1>2. \A q \in Queries : Claiming(q)' <=> Claiming(q)
  BY DEF Claiming
<1>3. TypeOK'
  BY DEF PoolInv, TypeOK
<1>4. ActorInv'
  BY DEF PoolInv, ActorInv
<1>5. ClaimInv' /\ DiscardInv' /\ EvictInv'
  BY <1>1, <1>2 DEF PoolInv, ClaimInv, DiscardInv, EvictInv
<1>6. ChildInv'
  BY <1>1 DEF PoolInv, ChildInv
<1>7. LeaseInv' /\ RunningInv'
  BY DEF PoolInv, LeaseInv, Leases, RunningInv, Admitted
<1>8. SweepInv'
  BY DEF PoolInv, SweepInv
<1> QED BY <1>3, <1>4, <1>5, <1>6, <1>7, <1>8 DEF PoolInv

LEMMA RequestKeeps ==
    ASSUME PoolInv, NEW q \in Queries, NEW s \in Slots, Request(q, s)
    PROVE  PoolInv'
<1> USE DEF Request, Go, ledgerVars
<1>1. /\ \A r \in Queries : pc'[r] = IF r = q THEN "admit" ELSE pc[r]
      /\ \A r \in Queries : on'[r] = IF r = q THEN s ELSE on[r]
      /\ pc[q] = "idle"
  BY Types
<1>2. \A a, t : Evicting(a, t)' <=> Evicting(a, t)
  BY DEF Evicting
<1>3. \A r \in Queries : Claiming(r)' <=> (Claiming(r) /\ r # q)
  BY <1>1 DEF Claiming, Claims
<1>4. TypeOK'
  BY ProviderPoolAssumption DEF PoolInv, TypeOK
<1>5. ActorInv'
  BY <1>1 DEF PoolInv, ActorInv
<1>6. ClaimInv'
  BY <1>1, <1>2, <1>3 DEF PoolInv, ClaimInv, Claims
<1>7. DiscardInv'
  BY <1>1, <1>2 DEF PoolInv, DiscardInv
<1>8. EvictInv'
  BY <1>2 DEF PoolInv, EvictInv
<1>9. ChildInv'
  <2>1. \A t \in Slots : (\E r \in Queries : on[r] = t /\ pc[r] \in {"discard", "reject"})
                         => \E r \in Queries : on'[r] = t /\ pc'[r] \in {"discard", "reject"}
    BY <1>1
  <2> QED BY <1>2, <2>1 DEF PoolInv, ChildInv
<1>10. LeaseInv'
  <2>1. \A t : Leases(t)' = Leases(t)
    BY <1>1 DEF Leases
  <2> QED BY <2>1 DEF PoolInv, LeaseInv
<1>11. RunningInv'
  BY SameAdmitted
<1>12. SweepInv'
  BY <1>1 DEF PoolInv, SweepInv
<1> QED BY <1>4, <1>5, <1>6, <1>7, <1>8, <1>9, <1>10, <1>11, <1>12 DEF PoolInv

(* A query that finds the slot free claims it: nobody else has it in hand.    *)
LEMMA ClaimKeeps ==
    ASSUME PoolInv, NEW q \in Queries, Lookup(q), Go(q, "reserve"),
           ~slot[on[q]].provider, ~slot[on[q]].activating,
           slot' = [slot EXCEPT ![on[q]].activating = TRUE]
    PROVE  PoolInv'
<1> USE DEF Lookup, Go, ledgerVars
<1> DEFINE s == on[q]
<1>1. /\ \A r \in Queries : pc'[r] = IF r = q THEN "reserve" ELSE pc[r]
      /\ \A r \in Queries : on[r] \in Slots
      /\ pc[q] = "lookup" /\ s \in Slots
  BY Types
<1>2. /\ \A t \in Slots : /\ slot'[t].provider = slot[t].provider
                          /\ slot'[t].inFlight = slot[t].inFlight
                          /\ slot[t].activating => slot'[t].activating
      /\ slot'[s].activating
  BY <1>1, Types DEF Runtimes
<1>3. \A a, t : Evicting(a, t)' <=> Evicting(a, t)
  BY DEF Evicting
<1>4. \A r \in Queries \ {q} : on[r] = s => ~Claiming(r)
  BY DEF PoolInv, ClaimInv
<1>5. ASSUME ~stopped
      PROVE  /\ \A r \in Queries \ {q} : on[r] = s => pc[r] \notin Claims \union {"discard"}
             /\ \A a \in Evictors : ~Evicting(a, s)
             /\ processes[s] = 0
  <2>1. \A r \in Queries \ {q} : on[r] = s => pc[r] \notin Claims \union {"discard"}
    BY <1>4, <1>5 DEF Claiming, PoolInv, DiscardInv
  <2>2. \A a \in Evictors : ~Evicting(a, s)
    BY <1>1, <1>5 DEF PoolInv, EvictInv
  <2>3. \A r \in Queries : on[r] = s => pc[r] \notin {"discard", "reject"}
    BY <1>1, <2>1 DEF Claims
  <2> QED BY <1>1, <2>1, <2>2, <2>3 DEF PoolInv, ChildInv
<1>6. TypeOK'
  <2>1. slot' \in [Slots -> Runtimes]
    <3>1. slot \in [Slots -> Runtimes] /\ s \in Slots
      BY <1>1, Types
    <3> QED BY <3>1 DEF Runtimes
  <2> QED BY <2>1 DEF PoolInv, TypeOK, Runtimes
<1>7. ActorInv'
  BY <1>1 DEF PoolInv, ActorInv
<1>8. ClaimInv'
  <2> SUFFICES ASSUME NEW r \in Queries, Claiming(r)'
               PROVE  /\ ~slot'[on[r]].provider /\ slot'[on[r]].activating
                      /\ \A o \in Queries \ {r} : on[o] = on[r] => pc'[o] \notin Claims \union {"discard"}
                      /\ \A a \in Evictors : ~Evicting(a, on[r])'
                      /\ processes[on[r]] = IF pc'[r] = "reject" THEN 1 ELSE 0
    BY DEF ClaimInv
  <2>1. CASE r = q
    <3>1. ~stopped
      BY <1>1, <2>1 DEF Claiming
    <3> QED BY <1>1, <1>2, <1>3, <1>5, <2>1, <3>1
  <2>2. CASE r # q
    <3>1. Claiming(r) /\ pc'[r] = pc[r]
      BY <1>1, <2>2 DEF Claiming
    <3>2. on[r] # s
      BY <1>4, <2>2, <3>1
    <3> QED BY <1>1, <1>2, <1>3, <3>1, <3>2 DEF PoolInv, ClaimInv
  <2> QED BY <2>1, <2>2
<1>9. DiscardInv'
  BY <1>1, <1>2, <1>3 DEF PoolInv, DiscardInv
<1>10. EvictInv'
  BY <1>2, <1>3 DEF PoolInv, EvictInv
<1>11. ChildInv'
  BY <1>1, <1>2, <1>3 DEF PoolInv, ChildInv
<1>12. LeaseInv'
  <2>1. \A t : Leases(t)' = Leases(t)
    BY <1>1 DEF Leases
  <2> QED BY <1>2, <2>1 DEF PoolInv, LeaseInv
<1>13. RunningInv'
  BY <1>1, SameAdmitted
<1>14. SweepInv'
  BY <1>1 DEF PoolInv, SweepInv
<1> QED BY <1>6, <1>7, <1>8, <1>9, <1>10, <1>11, <1>12, <1>13, <1>14 DEF PoolInv

(* A query that finds a provider leases it.                                   *)
LEMMA LeaseKeeps ==
    ASSUME PoolInv, NEW q \in Queries, Lookup(q), Go(q, "leased"),
           slot[on[q]].provider,
           slot' = [slot EXCEPT ![on[q]].inFlight = @ + 1]
    PROVE  PoolInv'
<1> USE DEF Lookup, Go, ledgerVars
<1> DEFINE s == on[q]
<1>1. /\ \A r \in Queries : pc'[r] = IF r = q THEN "leased" ELSE pc[r]
      /\ \A r \in Queries : on[r] \in Slots
      /\ pc[q] = "lookup" /\ s \in Slots
  BY Types
<1>2. \A t \in Slots : /\ slot'[t].provider = slot[t].provider
                       /\ slot'[t].activating = slot[t].activating
                       /\ slot'[t].inFlight = IF t = s THEN slot[t].inFlight + 1 ELSE slot[t].inFlight
  BY <1>1, Types DEF Runtimes
<1>3. \A a, t : Evicting(a, t)' <=> Evicting(a, t)
  BY DEF Evicting
<1>4. \A r \in Queries : Claiming(r)' => Claiming(r) /\ pc'[r] = pc[r]
  BY <1>1 DEF Claiming, Claims
<1>5. TypeOK'
  <2>1. slot' \in [Slots -> Runtimes]
    BY <1>1, Types DEF Runtimes
  <2> QED BY <2>1 DEF PoolInv, TypeOK, Runtimes
<1>6. ActorInv'
  BY <1>1 DEF PoolInv, ActorInv
<1>7. ClaimInv'
  BY <1>1, <1>2, <1>3, <1>4 DEF PoolInv, ClaimInv, Claims
<1>8. DiscardInv'
  BY <1>1, <1>2, <1>3 DEF PoolInv, DiscardInv
<1>9. EvictInv'
  BY <1>2, <1>3 DEF PoolInv, EvictInv
<1>10. ChildInv'
  BY <1>1, <1>2, <1>3 DEF PoolInv, ChildInv
<1>11. LeaseInv'
  <2>1. Leases(s)' = Leases(s) \union {q} /\ q \notin Leases(s)
    BY <1>1 DEF Leases
  <2>2. \A t \in Slots \ {s} : Leases(t)' = Leases(t)
    BY <1>1 DEF Leases
  <2>3. Cardinality(Leases(s)') = Cardinality(Leases(s)) + 1
    BY <2>1, FiniteSets, FS_AddElement
  <2> QED BY <1>2, <2>2, <2>3 DEF PoolInv, LeaseInv
<1>12. RunningInv'
  BY <1>1, SameAdmitted
<1>13. SweepInv'
  BY <1>1 DEF PoolInv, SweepInv
<1> QED BY <1>5, <1>6, <1>7, <1>8, <1>9, <1>10, <1>11, <1>12, <1>13 DEF PoolInv

LEMMA LookupKeeps ==
    ASSUME PoolInv, NEW q \in Queries, Lookup(q)
    PROVE  PoolInv'
<1>1. CASE Go(q, "reserve") /\ ~SlotOf(q).provider /\ ~SlotOf(q).activating
           /\ slot' = [slot EXCEPT ![on[q]].activating = TRUE]
  BY <1>1, ClaimKeeps DEF SlotOf
<1>2. CASE Go(q, "leased") /\ SlotOf(q).provider /\ slot' = [slot EXCEPT ![on[q]].inFlight = @ + 1]
  BY <1>2, LeaseKeeps DEF SlotOf
<1>3. CASE (Go(q, "return") \/ Go(q, "activate")) /\ UNCHANGED slot
  <2>1. PICK p \in {"return", "activate"} : Go(q, p)
    BY <1>3
  <2>2. TypeOK'
    BY <1>3, <2>1 DEF Lookup, Go, ledgerVars, PoolInv, TypeOK
  <2>3. RunningInv'
    BY <2>1, SameAdmitted DEF Lookup, Go
  <2> QED BY <1>3, <2>1, <2>2, <2>3, QueryMoves DEF Lookup, Go, Places, Claims, Quiet
<1> QED BY <1>1, <1>2, <1>3 DEF Lookup

LEMMA BackoffExpiresKeeps ==
    ASSUME PoolInv, NEW s \in Slots, BackoffExpires(s)
    PROVE  PoolInv'
<1> USE DEF BackoffExpires, ledgerVars
<1>1. /\ slot' \in [Slots -> Runtimes]
      /\ \A t \in Slots : /\ slot'[t].provider = slot[t].provider
                          /\ slot'[t].activating = slot[t].activating
                          /\ slot'[t].inFlight = slot[t].inFlight
  BY Types DEF Runtimes
<1>2. \A a, t : Evicting(a, t)' <=> Evicting(a, t)
  BY DEF Evicting
<1>3. \A q \in Queries : (Claiming(q)' <=> Claiming(q)) /\ on[q] \in Slots
  BY Types DEF Claiming
<1>4. TypeOK'
  BY <1>1 DEF PoolInv, TypeOK, Runtimes
<1>5. ActorInv' /\ RunningInv' /\ SweepInv'
  BY DEF PoolInv, ActorInv, RunningInv, Admitted, SweepInv
<1>6. ClaimInv' /\ DiscardInv'
  BY <1>1, <1>2, <1>3 DEF PoolInv, ClaimInv, DiscardInv
<1>7. EvictInv' /\ ChildInv'
  BY <1>1, <1>2 DEF PoolInv, EvictInv, ChildInv
<1>8. LeaseInv'
  BY <1>1 DEF PoolInv, LeaseInv, Leases
<1> QED BY <1>4, <1>5, <1>6, <1>7, <1>8 DEF PoolInv

LEMMA ReserveByEvictionKeeps ==
    ASSUME PoolInv, NEW q \in Queries, ReserveByEviction(q)
    PROVE  PoolInv'
<1> USE DEF ReserveByEviction, Go, ledgerVars
<1>1. PICK v \in Slots : eviction' = [eviction EXCEPT ![q] = [victim |-> v, stage |-> "take"]]
  BY DEF Victims
<1>2. /\ \A r \in Queries : pc'[r] = IF r = q THEN "evict" ELSE pc[r]
      /\ pc[q] = "charge" /\ q \in Evictors /\ q # "owner" /\ q # "reaper"
      /\ \A a \in Evictors : eviction'[a] = IF a = q THEN [victim |-> v, stage |-> "take"] ELSE eviction[a]
      /\ eviction[q] = NoEviction
  BY <1>1, Types, Threads DEF PoolInv, ActorInv
<1>3. \A a \in Evictors : \A s : Evicting(a, s)' <=> Evicting(a, s)
  BY <1>2 DEF Evicting, NoEviction
<1>4. \A r \in Queries : (Claiming(r)' <=> Claiming(r)) /\ (pc'[r] = "reject" <=> pc[r] = "reject")
  BY <1>2 DEF Claiming, Claims
<1>5. \A r \in Queries : pc'[r] \in Claims \union {"discard"} => pc[r] \in Claims \union {"discard"}
  BY <1>2 DEF Claims
<1>6. TypeOK'
  BY <1>1, <1>2 DEF PoolInv, TypeOK
<1>7. ActorInv'
  BY <1>2, Threads DEF PoolInv, ActorInv
<1>8. ClaimInv'
  BY <1>3, <1>4, <1>5 DEF PoolInv, ClaimInv
<1>9. DiscardInv'
  BY <1>2, <1>3 DEF PoolInv, DiscardInv
<1>10. EvictInv'
  BY <1>3 DEF PoolInv, EvictInv
<1>11. ChildInv'
  BY <1>2, <1>3 DEF PoolInv, ChildInv
<1>12. LeaseInv'
  <2>1. \A t : Leases(t)' = Leases(t)
    BY <1>2 DEF Leases
  <2> QED BY <2>1 DEF PoolInv, LeaseInv
<1>13. RunningInv'
  BY <1>2, SameAdmitted
<1>14. SweepInv'
  BY <1>2, Threads DEF PoolInv, SweepInv
<1> QED BY <1>6, <1>7, <1>8, <1>9, <1>10, <1>11, <1>12, <1>13, <1>14 DEF PoolInv

(* A claim ends without a child.                                              *)
LEMMA ClaimDropped ==
    ASSUME PoolInv, NEW q \in Queries, pc[q] \in Claims \ {"reject"}, Claiming(q) \/ stopped,
           pc[q] = "evict" => eviction[q] = NoEviction,
           pc' = [pc EXCEPT ![q] = "return"], slot' \in [Slots -> Runtimes],
           \A t \in Slots : /\ slot'[t].provider = slot[t].provider
                            /\ slot'[t].inFlight = slot[t].inFlight
                            /\ t # on[q] => slot'[t].activating = slot[t].activating,
           UNCHANGED <<stopped, running, processes, on, bound, eviction, owner, todo, pass>>,
           TypeOK'
    PROVE  PoolInv'
<1> DEFINE s == on[q]
<1>1. /\ \A r \in Queries : pc'[r] = IF r = q THEN "return" ELSE pc[r]
      /\ \A r \in Queries : on[r] \in Slots
      /\ s \in Slots
  BY Types
<1>2. \A a, t : Evicting(a, t)' <=> Evicting(a, t)
  BY DEF Evicting
<1>3. \A r \in Queries : Claiming(r)' => Claiming(r) /\ r # q /\ on[r] # s /\ pc'[r] = pc[r]
  BY <1>1 DEF Claiming, Claims, PoolInv, ClaimInv
<1>4. ActorInv'
  <2>1. eviction[q] = NoEviction /\ pc[q] # "idle"
    BY DEF PoolInv, ActorInv, Claims
  <2> QED BY <1>1, <2>1 DEF PoolInv, ActorInv
<1>5. ClaimInv'
  BY <1>1, <1>2, <1>3 DEF PoolInv, ClaimInv, Claims
<1>6. DiscardInv'
  BY <1>1, <1>2 DEF PoolInv, DiscardInv
<1>7. EvictInv'
  <2> SUFFICES ASSUME NEW a \in Evictors, NEW t \in Slots, Evicting(a, t)
               PROVE  /\ ~slot'[t].provider /\ processes[t] = 1
                      /\ ~stopped => slot'[t].activating
                      /\ \A b \in Evictors \ {a} : ~Evicting(b, t)
    BY <1>2 DEF EvictInv
  <2>1. /\ ~slot[t].provider /\ processes[t] = 1
        /\ ~stopped => slot[t].activating
        /\ \A b \in Evictors \ {a} : ~Evicting(b, t)
    BY DEF PoolInv, EvictInv
  <2>2. ~stopped => t # s
    BY DEF PoolInv, ClaimInv
  <2> QED BY <2>1, <2>2
<1>8. ChildInv'
  BY <1>1, <1>2 DEF PoolInv, ChildInv, Claims
<1>9. LeaseInv'
  <2>1. \A t : Leases(t)' = Leases(t)
    BY <1>1 DEF Leases, Claims
  <2> QED BY <2>1 DEF PoolInv, LeaseInv
<1>10. RunningInv'
  BY <1>1, SameAdmitted DEF Claims
<1>11. SweepInv'
  BY <1>1 DEF PoolInv, SweepInv
<1> QED BY <1>4, <1>5, <1>6, <1>7, <1>8, <1>9, <1>10, <1>11 DEF PoolInv

(* What a slot keeps when only its flags are written.                         *)
LEMMA FlagsWritten ==
    ASSUME PoolInv, NEW s \in Slots, NEW flags \in Runtimes,
           flags.provider = slot[s].provider, flags.inFlight = slot[s].inFlight,
           slot' = [slot EXCEPT ![s] = flags]
    PROVE  /\ slot' \in [Slots -> Runtimes]
           /\ \A t \in Slots : /\ slot'[t].provider = slot[t].provider
                               /\ slot'[t].inFlight = slot[t].inFlight
                               /\ t # s => slot'[t].activating = slot[t].activating
BY Types

LEMMA ReserveFailsKeeps ==
    ASSUME PoolInv, NEW q \in Queries, ReserveFails(q)
    PROVE  PoolInv'
<1> USE DEF ReserveFails, Go, ledgerVars
<1>1. pc[q] \in {"refused", "reserve", "charge"} /\ (pc[q] = "reserve" => stopped)
  OBVIOUS
<1>2. slot' \in [Slots -> Runtimes]
      /\ \A t \in Slots : /\ slot'[t].provider = slot[t].provider
                          /\ slot'[t].inFlight = slot[t].inFlight
                          /\ t # on[q] => slot'[t].activating = slot[t].activating
  <2> DEFINE flags == [slot[on[q]] EXCEPT !.activating = FALSE, !.error = TRUE]
  <2>1. slot[on[q]] \in Runtimes /\ on[q] \in Slots
    BY Types
  <2>2. flags \in Runtimes /\ flags.provider = slot[on[q]].provider /\ flags.inFlight = slot[on[q]].inFlight
    BY <2>1 DEF Runtimes
  <2>3. slot' = [slot EXCEPT ![on[q]] = flags]
    BY <2>1, Types DEF Unclaimed, Runtimes
  <2> QED BY <2>1, <2>2, <2>3, FlagsWritten
<1>3. TypeOK'
  BY <1>2 DEF PoolInv, TypeOK, Runtimes
<1> QED BY <1>1, <1>2, <1>3, ClaimDropped DEF Claims, Claiming

LEMMA StartFailsKeeps ==
    ASSUME PoolInv, NEW q \in Queries, StartFails(q)
    PROVE  PoolInv'
<1> USE DEF StartFails, Go
<1>1. PICK aborted \in BOOLEAN :
        slot' = [slot EXCEPT ![on[q]].activating = FALSE, ![on[q]].error = ~aborted,
                             ![on[q]].backoff = IF aborted THEN @ ELSE TRUE]
  OBVIOUS
<1>2. slot' \in [Slots -> Runtimes]
      /\ \A t \in Slots : /\ slot'[t].provider = slot[t].provider
                          /\ slot'[t].inFlight = slot[t].inFlight
                          /\ t # on[q] => slot'[t].activating = slot[t].activating
  <2> DEFINE flags == [slot[on[q]] EXCEPT !.activating = FALSE, !.error = ~aborted,
                                          !.backoff = IF aborted THEN @ ELSE TRUE]
  <2>1. slot[on[q]] \in Runtimes /\ on[q] \in Slots
    BY Types
  <2>2. flags \in Runtimes /\ flags.provider = slot[on[q]].provider /\ flags.inFlight = slot[on[q]].inFlight
    BY <2>1 DEF Runtimes
  <2>3. slot' = [slot EXCEPT ![on[q]] = flags]
    BY <1>1, <2>1, Types DEF Runtimes
  <2> QED BY <2>1, <2>2, <2>3, FlagsWritten
<1>3. total' \in Usages /\ usage' \in [Workspaces -> Usages]
  BY LedgerTypes, Types DEF PoolInv
<1>4. TypeOK'
  BY <1>2, <1>3 DEF PoolInv, TypeOK, Runtimes
<1> QED BY <1>2, <1>4, ClaimDropped DEF Claims, Claiming

LEMMA StartIncompatibleKeeps ==
    ASSUME PoolInv, NEW q \in Queries, StartIncompatible(q)
    PROVE  PoolInv'
<1> USE DEF StartIncompatible, Go, ledgerVars
<1> DEFINE s == on[q]
<1>1. /\ \A r \in Queries : pc'[r] = IF r = q THEN "reject" ELSE pc[r]
      /\ \A r \in Queries : on[r] \in Slots
      /\ pc[q] = "start" /\ s \in Slots /\ Claiming(q)
      /\ \A t \in Slots : processes'[t] = IF t = s THEN processes[t] + 1 ELSE processes[t]
  BY Types DEF Claiming, Claims
<1>2. /\ ~slot[s].provider /\ slot[s].activating /\ processes[s] = 0
      /\ \A r \in Queries \ {q} : on[r] = s => pc[r] \notin Claims \union {"discard"}
      /\ \A a \in Evictors : ~Evicting(a, s)
  BY <1>1 DEF PoolInv, ClaimInv
<1>3. \A a, t : Evicting(a, t)' <=> Evicting(a, t)
  BY DEF Evicting
<1>4. \A r \in Queries : Claiming(r)' => Claiming(r) /\ (r # q => on[r] # s /\ pc'[r] = pc[r])
  BY <1>1, <1>2 DEF Claiming, Claims
<1>5. TypeOK'
  <2>1. processes' \in [Slots -> Nat]
    BY <1>1, Types
  <2> QED BY <2>1 DEF PoolInv, TypeOK
<1>6. ActorInv'
  BY <1>1 DEF PoolInv, ActorInv
<1>7. ClaimInv'
  BY <1>1, <1>2, <1>3, <1>4 DEF PoolInv, ClaimInv, Claims
<1>8. DiscardInv'
  BY <1>1, <1>2, <1>3 DEF PoolInv, DiscardInv
<1>9. EvictInv'
  BY <1>1, <1>2, <1>3 DEF PoolInv, EvictInv
<1>10. ChildInv'
  <2>1. WorkspaceOf[s] \in bound
    BY <1>1 DEF PoolInv, ActorInv
  <2> QED BY <1>1, <1>2, <1>3, <2>1 DEF PoolInv, ChildInv
<1>11. LeaseInv'
  <2>1. \A t : Leases(t)' = Leases(t)
    BY <1>1 DEF Leases
  <2> QED BY <2>1 DEF PoolInv, LeaseInv
<1>12. RunningInv'
  BY <1>1, SameAdmitted
<1>13. SweepInv'
  BY <1>1 DEF PoolInv, SweepInv
<1> QED BY <1>5, <1>6, <1>7, <1>8, <1>9, <1>10, <1>11, <1>12, <1>13 DEF PoolInv

(* The child is leased at once, or, after a stop, discarded by the same query. *)
LEMMA StartSucceedsKeeps ==
    ASSUME PoolInv, NEW q \in Queries, StartSucceeds(q)
    PROVE  PoolInv'
<1> USE DEF StartSucceeds, Go, ledgerVars
<1> DEFINE s == on[q]
<1>1. /\ \A r \in Queries : pc'[r] = IF r = q THEN (IF stopped THEN "discard" ELSE "leased") ELSE pc[r]
      /\ \A r \in Queries : on[r] \in Slots
      /\ pc[q] = "start" /\ s \in Slots /\ Claiming(q)
      /\ \A t \in Slots : processes'[t] = IF t = s THEN processes[t] + 1 ELSE processes[t]
  BY Types DEF Claiming, Claims
<1>2. /\ ~slot[s].provider /\ slot[s].activating /\ processes[s] = 0
      /\ \A r \in Queries \ {q} : on[r] = s => pc[r] \notin Claims \union {"discard"}
      /\ \A a \in Evictors : ~Evicting(a, s)
  BY <1>1 DEF PoolInv, ClaimInv
<1>3. \A a, t : Evicting(a, t)' <=> Evicting(a, t)
  BY DEF Evicting
<1>4. \A r \in Queries : Claiming(r)' => Claiming(r) /\ r # q /\ on[r] # s /\ pc'[r] = pc[r]
  BY <1>1, <1>2 DEF Claiming, Claims
<1>5. /\ slot' \in [Slots -> Runtimes]
      /\ \A t \in Slots \ {s} : slot'[t] = slot[t]
      /\ slot'[s].provider <=> ~stopped
      /\ slot'[s].inFlight = IF stopped THEN slot[s].inFlight ELSE 1
  <2>1. slot \in [Slots -> Runtimes] /\ slot[s] \in Runtimes
    BY <1>1, Types
  <2>2. CASE stopped
    <3>1. slot' = [slot EXCEPT ![s] = [slot[s] EXCEPT !.activating = FALSE]]
      BY <2>2
    <3>2. [slot[s] EXCEPT !.activating = FALSE] \in Runtimes
          /\ [slot[s] EXCEPT !.activating = FALSE].provider = slot[s].provider
          /\ [slot[s] EXCEPT !.activating = FALSE].inFlight = slot[s].inFlight
      BY <2>1 DEF Runtimes
    <3>3. slot'[s] = [slot[s] EXCEPT !.activating = FALSE]
      BY <1>1, <2>1, <3>1
    <3>4. slot' \in [Slots -> Runtimes] /\ \A t \in Slots \ {s} : slot'[t] = slot[t]
      BY <1>1, <2>1, <3>1, <3>2
    <3> QED BY <1>2, <2>2, <3>2, <3>3, <3>4
  <2>3. CASE ~stopped
    <3> DEFINE leased == [provider |-> TRUE, activating |-> FALSE, inFlight |-> 1,
                          error |-> FALSE, backoff |-> FALSE]
    <3>1. slot' = [slot EXCEPT ![s] = leased]
      BY <2>3
    <3>2. leased \in Runtimes /\ leased.provider /\ leased.inFlight = 1
      BY DEF Runtimes
    <3> HIDE DEF leased
    <3>3. slot'[s] = leased
      BY <1>1, <2>1, <3>1
    <3>4. slot' \in [Slots -> Runtimes] /\ \A t \in Slots \ {s} : slot'[t] = slot[t]
      BY <1>1, <2>1, <3>1, <3>2
    <3> QED BY <2>3, <3>2, <3>3, <3>4
  <2> QED BY <2>2, <2>3
<1>6. TypeOK'
  <2>1. processes' \in [Slots -> Nat] /\ pc' \in [Queries -> Places]
    BY <1>1, Types DEF Places
  <2> QED BY <1>5, <2>1 DEF PoolInv, TypeOK, Runtimes, Places
<1>7. ActorInv'
  BY <1>1 DEF PoolInv, ActorInv
<1>8. ClaimInv'
  BY <1>1, <1>3, <1>4, <1>5 DEF PoolInv, ClaimInv, Claims
<1>9. DiscardInv'
  BY <1>1, <1>2, <1>3, <1>5 DEF PoolInv, DiscardInv
<1>10. EvictInv'
  BY <1>1, <1>2, <1>3, <1>5 DEF PoolInv, EvictInv
<1>11. ChildInv'
  <2>1. WorkspaceOf[s] \in bound
    BY <1>1 DEF PoolInv, ActorInv
  <2> QED BY <1>1, <1>2, <1>3, <1>5, <2>1 DEF PoolInv, ChildInv
<1>12. LeaseInv'
  <2> SUFFICES ASSUME owner \in {"serving", "draining", "sweeping"}, NEW t \in Slots
               PROVE  /\ slot'[t].inFlight = Cardinality(Leases(t)')
                      /\ Leases(t)' # {} => slot'[t].provider
    BY DEF LeaseInv
  <2>1. /\ slot[t].inFlight = Cardinality(Leases(t))
        /\ Leases(t) # {} => slot[t].provider
    BY DEF PoolInv, LeaseInv
  <2>2. CASE t # s \/ stopped
    <3>1. Leases(t)' = Leases(t)
      BY <1>1, <2>2 DEF Leases
    <3> QED BY <1>2, <1>5, <2>1, <2>2, <3>1
  <2>3. CASE t = s /\ ~stopped
    <3>1. Leases(t) = {}
      BY <1>2, <2>1, <2>3
    <3>2. Leases(t)' = Leases(t) \union {q}
      BY <1>1, <2>3 DEF Leases
    <3>3. Leases(t)' = {q}
      BY <3>1, <3>2
    <3>4. Cardinality({q}) = 1
      BY FS_Singleton, Zenon
    <3>5. slot'[t].inFlight = 1 /\ slot'[t].provider
      BY <1>5, <2>3
    <3> QED BY <3>3, <3>4, <3>5, Zenon
  <2> QED BY <2>2, <2>3
<1>13. RunningInv'
  BY <1>1, SameAdmitted
<1>14. SweepInv'
  BY <1>1 DEF PoolInv, SweepInv
<1> QED BY <1>6, <1>7, <1>8, <1>9, <1>10, <1>11, <1>12, <1>13, <1>14 DEF PoolInv

(* The unwanted child is shut down, or kept in the slot.                      *)
LEMMA DiscardKeeps ==
    ASSUME PoolInv, NEW q \in Queries, Discard(q)
    PROVE  PoolInv'
<1> USE DEF Discard, Go
<1> DEFINE s == on[q]
<1>1. /\ \A r \in Queries : pc'[r] = IF r = q THEN "return" ELSE pc[r]
      /\ \A r \in Queries : on[r] \in Slots
      /\ pc[q] \in {"discard", "reject"} /\ s \in Slots
  BY Types
<1>2. /\ ~slot[s].provider /\ processes[s] = 1
      /\ \A r \in Queries \ {q} : on[r] = s => ~Claiming(r) /\ pc[r] \notin {"discard", "reject"}
      /\ \A a \in Evictors : ~Evicting(a, s)
  <2>1. CASE pc[q] = "reject"
    <3>1. Claiming(q)
      BY <2>1 DEF Claiming, Claims
    <3> QED BY <1>1, <2>1, <3>1 DEF PoolInv, ClaimInv, Claiming, Claims
  <2>2. CASE pc[q] = "discard"
    <3>1. \A r \in Queries \ {q} : on[r] = s => ~Claiming(r)
      BY <1>1, <2>2 DEF PoolInv, ClaimInv
    <3>2. \A r \in Queries \ {q} : on[r] = s => pc[r] # "reject"
      BY <3>1 DEF Claiming, Claims
    <3> QED BY <1>1, <2>2, <3>1, <3>2 DEF PoolInv, DiscardInv
  <2> QED BY <1>1, <2>1, <2>2
<1>3. \A a, t : Evicting(a, t)' <=> Evicting(a, t)
  BY DEF Evicting
<1>4. \A r \in Queries : Claiming(r)' => Claiming(r) /\ r # q /\ on[r] # s /\ pc'[r] = pc[r]
  BY <1>1, <1>2 DEF Claiming, Claims
<1>5. /\ slot' \in [Slots -> Runtimes] /\ processes' \in [Slots -> Nat]
      /\ \A t \in Slots \ {s} : slot'[t] = slot[t] /\ processes'[t] = processes[t]
      /\ slot'[s].inFlight = slot[s].inFlight
      /\ IF slot'[s].provider THEN processes'[s] = 1 ELSE processes'[s] = 0
      /\ total' \in Usages /\ usage' \in [Workspaces -> Usages]
  <2>1. /\ slot \in [Slots -> Runtimes] /\ slot[s] \in Runtimes /\ processes \in [Slots -> Nat]
        /\ total \in Usages /\ usage \in [Workspaces -> Usages]
    BY <1>1, Types DEF PoolInv, TypeOK
  <2>2. CASE /\ processes' = [processes EXCEPT ![s] = @ - 1]
             /\ ReleaseReservation(s)
             /\ slot' = IF pc[q] = "discard" THEN slot
                        ELSE [slot EXCEPT ![s].activating = FALSE, ![s].error = TRUE,
                                          ![s].backoff = TRUE]
    <3>1. slot' \in [Slots -> Runtimes]
      BY <1>1, <2>1, <2>2 DEF Runtimes
    <3>2. (\A t \in Slots \ {s} : slot'[t] = slot[t]) /\ ~slot'[s].provider /\ slot'[s].inFlight = slot[s].inFlight
      BY <1>1, <1>2, <2>1, <2>2 DEF Runtimes
    <3>3. processes' \in [Slots -> Nat] /\ processes'[s] = 0 /\ \A t \in Slots \ {s} : processes'[t] = processes[t]
      BY <1>1, <1>2, <2>1, <2>2
    <3>4. total' \in Usages /\ usage' \in [Workspaces -> Usages]
      BY <1>1, <2>2, LedgerTypes DEF PoolInv
    <3> QED BY <3>1, <3>2, <3>3, <3>4
  <2>3. CASE /\ slot' = [slot EXCEPT ![s].provider = TRUE, ![s].activating = FALSE, ![s].error = TRUE,
                                     ![s].backoff = IF pc[q] = "reject" THEN TRUE ELSE @]
             /\ UNCHANGED <<processes, ledgerVars>>
    <3>1. slot' \in [Slots -> Runtimes]
      BY <1>1, <2>1, <2>3 DEF Runtimes
    <3>2. (\A t \in Slots \ {s} : slot'[t] = slot[t]) /\ slot'[s].provider /\ slot'[s].inFlight = slot[s].inFlight
      BY <1>1, <2>1, <2>3 DEF Runtimes
    <3> QED BY <1>2, <2>1, <2>3, <3>1, <3>2 DEF ledgerVars
  <2> QED BY <2>2, <2>3
<1>6. TypeOK'
  BY <1>5 DEF PoolInv, TypeOK, Runtimes
<1>7. ActorInv'
  BY <1>1 DEF PoolInv, ActorInv
<1>8. ClaimInv'
  BY <1>1, <1>3, <1>4, <1>5 DEF PoolInv, ClaimInv, Claims
<1>9. DiscardInv'
  BY <1>1, <1>2, <1>3, <1>5 DEF PoolInv, DiscardInv
<1>10. EvictInv'
  BY <1>1, <1>2, <1>3, <1>5 DEF PoolInv, EvictInv
<1>11. ChildInv'
  <2>1. WorkspaceOf[s] \in bound
    BY <1>1 DEF PoolInv, ActorInv
  <2> QED BY <1>1, <1>2, <1>3, <1>5, <2>1 DEF PoolInv, ChildInv
<1>12. LeaseInv'
  <2>1. \A t : Leases(t)' = Leases(t)
    BY <1>1 DEF Leases
  <2>2. \A t \in Slots : slot'[t].inFlight = slot[t].inFlight /\ (slot[t].provider => slot'[t].provider)
    BY <1>2, <1>5
  <2> QED BY <2>1, <2>2 DEF PoolInv, LeaseInv
<1>13. RunningInv'
  BY <1>1, SameAdmitted
<1>14. SweepInv'
  BY <1>1 DEF PoolInv, SweepInv
<1> QED BY <1>6, <1>7, <1>8, <1>9, <1>10, <1>11, <1>12, <1>13, <1>14 DEF PoolInv

LEMMA DropLeaseKeeps ==
    ASSUME PoolInv, NEW q \in Queries, DropLease(q)
    PROVE  PoolInv'
<1> USE DEF DropLease, Go, ledgerVars
<1> DEFINE s == on[q]
<1>1. /\ \A r \in Queries : pc'[r] = IF r = q THEN "return" ELSE pc[r]
      /\ \A r \in Queries : on[r] \in Slots
      /\ pc[q] = "leased" /\ s \in Slots
  BY Types
<1>2. /\ slot' \in [Slots -> Runtimes]
      /\ \A t \in Slots : /\ slot'[t].provider = slot[t].provider
                          /\ slot'[t].activating = slot[t].activating
                          /\ t # s => slot'[t].inFlight = slot[t].inFlight
      /\ slot[s].inFlight > 0 => slot'[s].inFlight = slot[s].inFlight - 1
  BY <1>1, Types DEF Runtimes
<1>3. \A a, t : Evicting(a, t)' <=> Evicting(a, t)
  BY DEF Evicting
<1>4. \A r \in Queries : Claiming(r)' => Claiming(r) /\ r # q /\ pc'[r] = pc[r]
  BY <1>1 DEF Claiming, Claims
<1>5. TypeOK'
  BY <1>2 DEF PoolInv, TypeOK, Runtimes
<1>6. ActorInv'
  BY <1>1 DEF PoolInv, ActorInv
<1>7. ClaimInv'
  BY <1>1, <1>2, <1>3, <1>4 DEF PoolInv, ClaimInv, Claims
<1>8. DiscardInv'
  BY <1>1, <1>2, <1>3 DEF PoolInv, DiscardInv
<1>9. EvictInv'
  BY <1>2, <1>3 DEF PoolInv, EvictInv
<1>10. ChildInv'
  BY <1>1, <1>2, <1>3 DEF PoolInv, ChildInv
<1>11. LeaseInv'
  <2>1. Leases(s)' = Leases(s) \ {q} /\ q \in Leases(s)
    BY <1>1 DEF Leases
  <2>2. \A t \in Slots \ {s} : Leases(t)' = Leases(t)
    BY <1>1 DEF Leases
  <2>3. Cardinality(Leases(s)') = Cardinality(Leases(s)) - 1 /\ Cardinality(Leases(s)') \in Nat
    BY <2>1, FiniteSets, FS_RemoveElement, FS_CardinalityType
  <2>4. Cardinality(Leases(s)) \in Nat
    BY FiniteSets, FS_CardinalityType
  <2>5. Cardinality(Leases(s)) > 0
    BY <2>3, <2>4
  <2> SUFFICES ASSUME owner \in {"serving", "draining", "sweeping"}, NEW t \in Slots
               PROVE  /\ slot'[t].inFlight = Cardinality(Leases(t)')
                      /\ Leases(t)' # {} => slot'[t].provider
    BY DEF LeaseInv
  <2>6. slot[t].inFlight = Cardinality(Leases(t)) /\ (Leases(t) # {} => slot[t].provider)
    BY DEF PoolInv, LeaseInv
  <2>7. CASE t = s
    <3>1. slot'[s].inFlight = slot[s].inFlight - 1
      BY <1>2, <2>5, <2>6, <2>7
    <3>2. slot'[s].inFlight = Cardinality(Leases(s)')
      BY <2>3, <2>6, <2>7, <3>1
    <3> QED BY <1>2, <2>1, <2>6, <2>7, <3>2
  <2>8. CASE t # s
    BY <1>2, <2>2, <2>6, <2>8
  <2> QED BY <2>7, <2>8
<1>12. RunningInv'
  BY <1>1, SameAdmitted
<1>13. SweepInv'
  BY <1>1 DEF PoolInv, SweepInv
<1> QED BY <1>5, <1>6, <1>7, <1>8, <1>9, <1>10, <1>11, <1>12, <1>13 DEF PoolInv

-----------------------------------------------------------------------------
(* Evictions.                                                                 *)

(* An eviction under way has a slot for its victim; a query waits for it.     *)
LEMMA EvictionUnderWay ==
    ASSUME PoolInv, NEW a \in Evictors, eviction[a].stage # "none"
    PROVE  /\ eviction[a].victim \in Slots /\ eviction[a] # NoEviction
           /\ a \in Queries => pc[a] = "evict"
           /\ owner \in {"sweeping", "ok"} => a = "owner" /\ owner = "sweeping"
<1>1. eviction[a].victim \in Slots /\ eviction[a] # NoEviction
  BY DEF PoolInv, ActorInv, NoEviction
<1>2. a \in Queries => pc[a] = "evict"
  BY <1>1 DEF PoolInv, ActorInv
<1>3. ASSUME owner \in {"sweeping", "ok"}
      PROVE  a = "owner" /\ owner = "sweeping"
  <2>1. a \notin Queries
    BY <1>2, <1>3 DEF PoolInv, SweepInv
  <2>2. a # "reaper"
    BY <1>1, <1>3 DEF PoolInv, SweepInv
  <2>3. a = "owner"
    BY <2>1, <2>2 DEF Evictors
  <2> QED BY <1>1, <1>3, <2>3 DEF PoolInv, ActorInv
<1> QED BY <1>1, <1>2, <1>3

(* The end of evict_provider: its caller, if a query, still claims its slot.  *)
LEMMA EvictionEnds ==
    ASSUME PoolInv, NEW a \in Evictors, NEW failed \in BOOLEAN, eviction[a].stage # "none",
           Evicted(a, failed), UNCHANGED <<stopped, running, on, bound>>
    PROVE  /\ pc' \in [Queries -> Places]
           /\ \A r \in Queries : r # a => pc'[r] = pc[r]
           /\ \A r \in Queries : /\ Claiming(r)' => Claiming(r)
                                 /\ pc'[r] \in Claims \union {"discard"} =>
                                        pc[r] \in Claims \union {"discard"}
                                 /\ pc'[r] = "discard" <=> pc[r] = "discard"
                                 /\ pc'[r] = "reject" <=> pc[r] = "reject"
           /\ eviction' \in [Evictors -> [victim : Slots \union {"none"},
                                          stage : {"none", "take", "shutdown", "release"}]]
           /\ \A b \in Evictors : eviction'[b] = IF b = a THEN NoEviction ELSE eviction[b]
           /\ owner' = IF a = "owner" /\ failed THEN "sweeping_failed" ELSE owner
           /\ ActorInv' /\ RunningInv' /\ \A t : Leases(t)' = Leases(t)
<1> USE DEF Evicted
<1>1. eviction[a] # NoEviction /\ (a \in Queries => pc[a] = "evict")
  BY EvictionUnderWay
<1>2. /\ pc' \in [Queries -> Places]
      /\ \A r \in Queries : pc'[r] = IF r = a THEN IF failed THEN "refused" ELSE "reserve" ELSE pc[r]
  <2>1. CASE a \in Queries
    BY <2>1, Types DEF Places
  <2>2. CASE a \notin Queries
    BY <2>2, Types
  <2> QED BY <2>1, <2>2
<1>3. \A r \in Queries : Claiming(r)' => Claiming(r)
  BY <1>1, <1>2 DEF Claiming, Claims
<1>4. \A r \in Queries : /\ pc'[r] \in Claims \union {"discard"} => pc[r] \in Claims \union {"discard"}
                         /\ pc'[r] = "discard" <=> pc[r] = "discard"
                         /\ pc'[r] = "reject" <=> pc[r] = "reject"
                         /\ pc'[r] = "leased" <=> pc[r] = "leased"
                         /\ pc'[r] \in {"idle", "admit"} <=> pc[r] \in {"idle", "admit"}
  BY <1>1, <1>2 DEF Claims
<1>5. /\ eviction' \in [Evictors -> [victim : Slots \union {"none"},
                                     stage : {"none", "take", "shutdown", "release"}]]
      /\ \A b \in Evictors : eviction'[b] = IF b = a THEN NoEviction ELSE eviction[b]
  <2>1. NoEviction \in [victim : Slots \union {"none"}, stage : {"none", "take", "shutdown", "release"}]
    BY DEF NoEviction
  <2> QED BY <2>1, Types
<1>6. ActorInv'
  <2>1. \A r \in Queries : /\ pc'[r] # "idle" => WorkspaceOf[on'[r]] \in bound'
                           /\ eviction'[r] # NoEviction => pc'[r] = "evict"
    BY <1>1, <1>2, <1>4, <1>5, Threads DEF PoolInv, ActorInv
  <2>2. \A b \in Evictors : IF eviction'[b].stage = "none" THEN eviction'[b] = NoEviction
                            ELSE eviction'[b].victim \in Slots
    BY <1>5 DEF PoolInv, ActorInv, NoEviction
  <2>3. eviction'["owner"] # NoEviction => owner' \in {"sweeping", "sweeping_failed"}
    BY <1>5, Threads DEF PoolInv, ActorInv
  <2> QED BY <2>1, <2>2, <2>3 DEF ActorInv
<1>7. \A t : Leases(t)' = Leases(t)
  BY <1>4 DEF Leases
<1>8. RunningInv'
  <2>1. Admitted' = Admitted
    BY <1>4 DEF Admitted
  <2> QED BY <2>1 DEF PoolInv, RunningInv
<1> QED BY <1>2, <1>3, <1>4, <1>5, <1>6, <1>7, <1>8

(* The victim has no provider any more, or is not idle, or has been released. *)
LEMMA EvictionEndsQuietly ==
    ASSUME PoolInv, NEW a \in Evictors, eviction[a].stage \in {"take", "release"}, Evicted(a, FALSE),
           UNCHANGED <<stopped, running, slot, bound, processes, on, todo, pass, requests>>,
           eviction[a].stage = "take" => ~MayTake(a, eviction[a].victim),
           total' \in Usages, usage' \in [Workspaces -> Usages]
    PROVE  PoolInv'
<1> DEFINE s == eviction[a].victim
<1>1. /\ pc' \in [Queries -> Places]
      /\ \A r \in Queries : /\ Claiming(r)' => Claiming(r)
                            /\ pc'[r] \in Claims \union {"discard"} => pc[r] \in Claims \union {"discard"}
                            /\ pc'[r] = "discard" <=> pc[r] = "discard"
                            /\ pc'[r] = "reject" <=> pc[r] = "reject"
      /\ \A r \in Queries : r # a => pc'[r] = pc[r]
      /\ eviction' \in [Evictors -> [victim : Slots \union {"none"},
                                     stage : {"none", "take", "shutdown", "release"}]]
      /\ \A b \in Evictors : eviction'[b] = IF b = a THEN NoEviction ELSE eviction[b]
      /\ owner' = owner
      /\ ActorInv' /\ RunningInv' /\ \A t : Leases(t)' = Leases(t)
  BY EvictionEnds
<1>2. \A b \in Evictors : \A t : Evicting(b, t)' <=> Evicting(b, t)
  BY <1>1 DEF Evicting, NoEviction
<1>3. TypeOK'
  BY <1>1 DEF PoolInv, TypeOK, Places
<1>4. ClaimInv' /\ DiscardInv'
  BY <1>1, <1>2 DEF PoolInv, ClaimInv, DiscardInv
<1>5. EvictInv'
  BY <1>2 DEF PoolInv, EvictInv
<1>6. ChildInv'
  BY <1>1, <1>2 DEF PoolInv, ChildInv
<1>7. LeaseInv'
  BY <1>1 DEF PoolInv, LeaseInv
<1>8. SweepInv'
  <2>1. CASE owner \notin {"sweeping", "ok"}
    BY <1>1, <2>1 DEF PoolInv, SweepInv
  <2>2. CASE owner \in {"sweeping", "ok"}
    <3>1. /\ a = "owner" /\ owner = "sweeping" /\ s \in Slots
          /\ \A r \in Queries : pc[r] \in {"idle", "admit", "activate", "return"}
          /\ pass = {} /\ eviction["reaper"] = NoEviction
      BY <2>2, EvictionUnderWay DEF PoolInv, SweepInv
    <3>2. \A r \in Queries : pc'[r] = pc[r]
      BY <1>1, <3>1, Threads
    <3>3. \A b \in Evictors : ~Evicting(b, s)
      <4> SUFFICES ASSUME NEW b \in Evictors, Evicting(b, s) PROVE FALSE
        OBVIOUS
      <4>1. b = "owner"
        BY <2>2, EvictionUnderWay DEF Evicting
      <4> QED BY <3>1, <4>1 DEF Evicting
    <3>4. eviction[a].stage = "take" => processes[s] = 0
      BY <3>1, <3>3 DEF MayTake, PoolInv, ChildInv
    <3>5. \A t \in Slots : processes[t] # 0 => t \in todo
      BY <3>1, <3>4, <2>2 DEF PoolInv, SweepInv
    <3> QED BY <1>1, <3>1, <3>2, <3>5, Threads DEF PoolInv, SweepInv
  <2> QED BY <2>1, <2>2
<1> QED BY <1>1, <1>3, <1>4, <1>5, <1>6, <1>7, <1>8 DEF PoolInv

(* An evictor takes the provider out of its slot: it is nobody else's.        *)
LEMMA TakenKeeps ==
    ASSUME PoolInv, NEW a \in Evictors, eviction[a].stage = "take",
           MayTake(a, eviction[a].victim),
           slot' = [slot EXCEPT ![eviction[a].victim].provider = FALSE,
                                ![eviction[a].victim].activating = TRUE],
           eviction' = [eviction EXCEPT ![a].stage = "shutdown"],
           UNCHANGED <<stopped, running, total, usage, bound, processes, on, todo, pass, requests, pc,
                       owner>>
    PROVE  PoolInv'
<1> DEFINE s == eviction[a].victim
<1>1. s \in Slots /\ (a \in Queries => pc[a] = "evict") /\ eviction[a] # NoEviction
      /\ (owner \in {"sweeping", "ok"} => a = "owner" /\ owner = "sweeping")
  BY EvictionUnderWay
<1>2. /\ slot[s].provider /\ processes[s] = 1
      /\ \A r \in Queries : on[r] = s => ~Claiming(r) /\ pc[r] # "discard"
      /\ \A b \in Evictors : ~Evicting(b, s)
  BY <1>1 DEF MayTake, PoolInv, ChildInv, ClaimInv, DiscardInv, EvictInv
<1>3. /\ slot' \in [Slots -> Runtimes]
      /\ \A t \in Slots : slot'[t].inFlight = slot[t].inFlight
      /\ \A t \in Slots \ {s} : slot'[t] = slot[t]
      /\ ~slot'[s].provider /\ slot'[s].activating
  <2>1. slot \in [Slots -> Runtimes] /\ slot[s] \in Runtimes
    BY <1>1, Types
  <2> QED BY <1>1, <2>1 DEF Runtimes
<1>4. /\ eviction' \in [Evictors -> [victim : Slots \union {"none"},
                                     stage : {"none", "take", "shutdown", "release"}]]
      /\ \A b \in Evictors \ {a} : eviction'[b] = eviction[b]
      /\ eviction'[a].stage = "shutdown" /\ eviction'[a].victim = s
  BY Types
<1>5. \A b \in Evictors : \A t : Evicting(b, t)' <=> (Evicting(b, t) \/ (b = a /\ t = s))
  BY <1>4 DEF Evicting
<1>6. \A r \in Queries : (Claiming(r)' <=> Claiming(r)) /\ on[r] \in Slots
  BY Types DEF Claiming
<1>7. TypeOK'
  BY <1>3, <1>4 DEF PoolInv, TypeOK, Runtimes
<1>8. ActorInv'
  BY <1>1, <1>4, Threads DEF PoolInv, ActorInv
<1>9. ClaimInv'
  BY <1>2, <1>3, <1>5, <1>6 DEF PoolInv, ClaimInv
<1>10. DiscardInv'
  BY <1>2, <1>3, <1>5, <1>6 DEF PoolInv, DiscardInv
<1>11. EvictInv'
  BY <1>2, <1>3, <1>5 DEF PoolInv, EvictInv
<1>12. ChildInv'
  BY <1>2, <1>3, <1>5 DEF PoolInv, ChildInv
<1>13. LeaseInv'
  <2> SUFFICES ASSUME owner \in {"serving", "draining", "sweeping"}
               PROVE  \A t \in Slots : /\ slot'[t].inFlight = Cardinality(Leases(t))
                                       /\ Leases(t) # {} => slot'[t].provider
    BY DEF LeaseInv, Leases
  <2>1. \A t \in Slots : /\ slot[t].inFlight = Cardinality(Leases(t))
                         /\ Leases(t) # {} => slot[t].provider
    BY DEF PoolInv, LeaseInv
  <2>2. Leases(s) = {}
    <3>1. CASE a = "owner"
      <4>1. owner = "sweeping"
        BY <1>1, <3>1 DEF PoolInv, ActorInv
      <4> QED BY <4>1 DEF PoolInv, SweepInv, Leases
    <3>2. CASE a # "owner"
      <4>1. Cardinality(Leases(s)) = 0
        BY <1>1, <2>1, <3>2 DEF MayTake
      <4> QED BY <4>1, FiniteSets, FS_EmptySet
    <3> QED BY <3>1, <3>2
  <2> QED BY <1>3, <2>1, <2>2
<1>14. RunningInv'
  BY DEF PoolInv, RunningInv, Admitted
<1>15. SweepInv'
  BY <1>1, <1>4, Threads DEF PoolInv, SweepInv
<1> QED BY <1>7, <1>8, <1>9, <1>10, <1>11, <1>12, <1>13, <1>14, <1>15 DEF PoolInv

(* The child is gone; the slot is open again before the ledger knows.         *)
LEMMA VictimGoneKeeps ==
    ASSUME PoolInv, NEW a \in Evictors, eviction[a].stage = "shutdown",
           processes' = [processes EXCEPT ![eviction[a].victim] = @ - 1],
           slot' = [slot EXCEPT ![eviction[a].victim].activating = FALSE,
                                ![eviction[a].victim].error = FALSE],
           eviction' = [eviction EXCEPT ![a].stage = "release"],
           UNCHANGED <<stopped, running, total, usage, bound, on, todo, pass, requests, pc, owner>>
    PROVE  PoolInv'
<1> DEFINE s == eviction[a].victim
<1>1. s \in Slots /\ (a \in Queries => pc[a] = "evict") /\ eviction[a] # NoEviction /\ Evicting(a, s)
      /\ (owner \in {"sweeping", "ok"} => a = "owner" /\ owner = "sweeping")
  BY EvictionUnderWay DEF Evicting
<1>2. /\ ~slot[s].provider /\ processes[s] = 1
      /\ \A r \in Queries : on[r] = s => ~Claiming(r) /\ pc[r] # "discard"
      /\ \A b \in Evictors \ {a} : ~Evicting(b, s)
  BY <1>1 DEF PoolInv, ClaimInv, DiscardInv, EvictInv
<1>3. /\ slot' \in [Slots -> Runtimes]
      /\ \A t \in Slots : slot'[t].inFlight = slot[t].inFlight /\ (slot'[t].provider <=> slot[t].provider)
      /\ \A t \in Slots \ {s} : slot'[t] = slot[t]
  <2>1. slot \in [Slots -> Runtimes] /\ slot[s] \in Runtimes
    BY <1>1, Types
  <2> QED BY <1>1, <2>1 DEF Runtimes
<1>4. /\ eviction' \in [Evictors -> [victim : Slots \union {"none"},
                                     stage : {"none", "take", "shutdown", "release"}]]
      /\ \A b \in Evictors \ {a} : eviction'[b] = eviction[b]
      /\ eviction'[a].stage = "release" /\ eviction'[a].victim = s
  BY Types
<1>5. \A b \in Evictors : \A t : Evicting(b, t)' <=> (Evicting(b, t) /\ b # a)
  BY <1>4 DEF Evicting
<1>6. /\ processes' \in [Slots -> Nat] /\ processes'[s] = 0
      /\ \A t \in Slots \ {s} : processes'[t] = processes[t]
  BY <1>1, <1>2, Types
<1>7. \A r \in Queries : (Claiming(r)' <=> Claiming(r)) /\ on[r] \in Slots
  BY Types DEF Claiming
<1>8. \A t \in Slots \ {s} : ~Evicting(a, t)
  BY DEF Evicting
<1>9. TypeOK'
  BY <1>3, <1>4, <1>6 DEF PoolInv, TypeOK, Runtimes
<1>10. ActorInv'
  BY <1>1, <1>4, Threads DEF PoolInv, ActorInv
<1>11. ClaimInv'
  BY <1>2, <1>3, <1>5, <1>6, <1>7 DEF PoolInv, ClaimInv
<1>12. DiscardInv'
  BY <1>2, <1>3, <1>5, <1>6, <1>7 DEF PoolInv, DiscardInv
<1>13. EvictInv'
  BY <1>2, <1>3, <1>5, <1>6 DEF PoolInv, EvictInv
<1>14. ChildInv'
  BY <1>2, <1>3, <1>5, <1>6, <1>8 DEF PoolInv, ChildInv
<1>15. LeaseInv'
  BY <1>3 DEF PoolInv, LeaseInv, Leases
<1>16. RunningInv'
  BY DEF PoolInv, RunningInv, Admitted
<1>17. SweepInv'
  BY <1>1, <1>4, <1>6, Threads DEF PoolInv, SweepInv
<1> QED BY <1>9, <1>10, <1>11, <1>12, <1>13, <1>14, <1>15, <1>16, <1>17 DEF PoolInv

(* The child would not go: it is back in its slot, as an error.               *)
LEMMA VictimStaysKeeps ==
    ASSUME PoolInv, NEW a \in Evictors, eviction[a].stage = "shutdown",
           slot' = [slot EXCEPT ![eviction[a].victim].provider = TRUE,
                                ![eviction[a].victim].activating = FALSE,
                                ![eviction[a].victim].error = TRUE],
           Evicted(a, TRUE),
           UNCHANGED <<stopped, running, total, usage, bound, processes, on, todo, pass, requests>>
    PROVE  PoolInv'
<1> DEFINE s == eviction[a].victim
<1>1. s \in Slots /\ Evicting(a, s) /\ (owner \in {"sweeping", "ok"} => a = "owner")
  BY EvictionUnderWay DEF Evicting
<1>2. /\ ~slot[s].provider /\ processes[s] = 1
      /\ \A r \in Queries : on[r] = s => ~Claiming(r) /\ pc[r] # "discard"
      /\ \A b \in Evictors \ {a} : ~Evicting(b, s)
  BY <1>1 DEF PoolInv, ClaimInv, DiscardInv, EvictInv
<1>3. /\ pc' \in [Queries -> Places]
      /\ \A r \in Queries : /\ Claiming(r)' => Claiming(r)
                            /\ pc'[r] \in Claims \union {"discard"} => pc[r] \in Claims \union {"discard"}
                            /\ pc'[r] = "discard" <=> pc[r] = "discard"
                            /\ pc'[r] = "reject" <=> pc[r] = "reject"
      /\ eviction' \in [Evictors -> [victim : Slots \union {"none"},
                                     stage : {"none", "take", "shutdown", "release"}]]
      /\ \A b \in Evictors : eviction'[b] = IF b = a THEN NoEviction ELSE eviction[b]
      /\ owner' = IF a = "owner" THEN "sweeping_failed" ELSE owner
      /\ ActorInv' /\ RunningInv' /\ \A t : Leases(t)' = Leases(t)
  BY EvictionEnds
<1>4. /\ slot' \in [Slots -> Runtimes]
      /\ \A t \in Slots : slot'[t].inFlight = slot[t].inFlight
      /\ \A t \in Slots \ {s} : slot'[t] = slot[t]
      /\ slot'[s].provider
  <2>1. slot \in [Slots -> Runtimes] /\ slot[s] \in Runtimes
    BY <1>1, Types
  <2> QED BY <1>1, <2>1 DEF Runtimes
<1>5. \A b \in Evictors : \A t : Evicting(b, t)' => Evicting(b, t) /\ b # a
  BY <1>3 DEF Evicting, NoEviction
<1>6. \A b \in Evictors, t \in Slots : Evicting(b, t) /\ t # s => Evicting(b, t)'
  BY <1>3 DEF Evicting
<1>7. \A r \in Queries : on[r] \in Slots
  BY Types
<1>8. TypeOK'
  BY <1>3, <1>4 DEF PoolInv, TypeOK, Runtimes, Places
<1>9. ClaimInv'
  BY <1>2, <1>3, <1>4, <1>5, <1>7 DEF PoolInv, ClaimInv
<1>10. DiscardInv'
  BY <1>2, <1>3, <1>4, <1>5, <1>7 DEF PoolInv, DiscardInv
<1>11. EvictInv'
  BY <1>2, <1>4, <1>5 DEF PoolInv, EvictInv
<1>12. ChildInv'
  <2>1. WorkspaceOf[s] \in bound
    BY <1>1, <1>2 DEF PoolInv, ChildInv
  <2> QED BY <1>2, <1>3, <1>4, <1>6, <2>1 DEF PoolInv, ChildInv
<1>13. LeaseInv'
  <2>1. owner' \in {"serving", "draining", "sweeping"} => owner \in {"serving", "draining", "sweeping"}
    BY <1>3
  <2>2. \A t \in Slots : slot[t].provider => slot'[t].provider
    BY <1>2, <1>4
  <2> QED BY <1>3, <1>4, <2>1, <2>2 DEF PoolInv, LeaseInv
<1>14. SweepInv'
  <2>1. owner' \notin {"sweeping", "ok"}
    BY <1>1, <1>3
  <2>2. a = "owner" => owner # "serving"
    BY <1>1 DEF PoolInv, ActorInv, Evicting, NoEviction
  <2> QED BY <1>3, <2>1, <2>2 DEF PoolInv, SweepInv
<1> QED BY <1>3, <1>8, <1>9, <1>10, <1>11, <1>12, <1>13, <1>14 DEF PoolInv

LEMMA EvictKeeps ==
    ASSUME PoolInv, NEW a \in Evictors, Evict(a)
    PROVE  PoolInv'
<1>1. CASE EvictTake(a) /\ MayTake(a, eviction[a].victim)
  BY <1>1, TakenKeeps DEF EvictTake, ledgerVars
<1>2. CASE EvictTake(a) /\ ~MayTake(a, eviction[a].victim)
  <2>1. total' = total /\ usage' = usage /\ total \in Usages /\ usage \in [Workspaces -> Usages]
    BY <1>2 DEF EvictTake, ledgerVars, PoolInv, TypeOK
  <2> QED BY <1>2, <2>1, EvictionEndsQuietly DEF EvictTake
<1>3. CASE EvictShutdown(a)
  BY <1>3, VictimGoneKeeps, VictimStaysKeeps DEF EvictShutdown, ledgerVars
<1>4. CASE EvictRelease(a)
  <2>1. eviction[a].victim \in Slots
    BY <1>4, EvictionUnderWay DEF EvictRelease
  <2>2. total' \in Usages /\ usage' \in [Workspaces -> Usages]
    BY <1>4, <2>1, LedgerTypes DEF EvictRelease, PoolInv
  <2> QED BY <1>4, <2>2, EvictionEndsQuietly DEF EvictRelease
<1> QED BY <1>1, <1>2, <1>3, <1>4 DEF Evict

-----------------------------------------------------------------------------
(* The reaper and shutdown.                                                   *)

(* Steps that move no query, slot, child or victim already taken.             *)
LEMMA HandsUnchanged ==
    ASSUME PoolInv, UNCHANGED <<running, slot, bound, processes, pc, on>>,
           stopped' \in BOOLEAN, stopped => stopped',
           \A a \in Evictors : \A s : Evicting(a, s)' <=> Evicting(a, s),
           owner' \in {"serving", "draining", "sweeping"} => owner \in {"serving", "draining", "sweeping"}
    PROVE  ClaimInv' /\ DiscardInv' /\ EvictInv' /\ ChildInv' /\ LeaseInv' /\ RunningInv'
<1>1. \A q \in Queries : Claiming(q)' => Claiming(q)
  BY Types DEF Claiming
<1>2. ClaimInv' /\ DiscardInv'
  BY <1>1, Types DEF PoolInv, ClaimInv, DiscardInv
<1>3. EvictInv' /\ ChildInv'
  BY Types DEF PoolInv, EvictInv, ChildInv
<1>4. LeaseInv' /\ RunningInv'
  BY DEF PoolInv, LeaseInv, Leases, RunningInv, Admitted
<1> QED BY <1>2, <1>3, <1>4

LEMMA StartPassKeeps ==
    ASSUME PoolInv, StartPass
    PROVE  PoolInv'
<1> USE DEF StartPass, ledgerVars
<1>1. TypeOK'
  BY ProviderPoolAssumption DEF PoolInv, TypeOK
<1>2. \A a \in Evictors : \A s : Evicting(a, s)' <=> Evicting(a, s)
  BY DEF Evicting
<1>3. ActorInv'
  BY DEF PoolInv, ActorInv
<1>4. ClaimInv' /\ DiscardInv' /\ EvictInv' /\ ChildInv' /\ LeaseInv' /\ RunningInv'
  BY <1>2, Types, HandsUnchanged
<1>5. SweepInv'
  BY DEF PoolInv, SweepInv
<1> QED BY <1>1, <1>3, <1>4, <1>5 DEF PoolInv

(* An actor chooses a victim.                                                 *)
LEMMA VictimChosen ==
    ASSUME PoolInv, NEW a \in Evictors, a \notin Queries, NEW s \in Slots, eviction[a] = NoEviction,
           eviction' = [eviction EXCEPT ![a] = [victim |-> s, stage |-> "take"]],
           UNCHANGED <<pc, on, bound, owner>>,
           a = "owner" => owner \in {"sweeping", "sweeping_failed"}
    PROVE  /\ eviction' \in [Evictors -> [victim : Slots \union {"none"},
                                          stage : {"none", "take", "shutdown", "release"}]]
           /\ \A b \in Evictors : eviction'[b] = IF b = a THEN [victim |-> s, stage |-> "take"]
                                                 ELSE eviction[b]
           /\ ActorInv'
           /\ \A b \in Evictors : \A t : Evicting(b, t)' <=> Evicting(b, t)
<1>1. /\ eviction' \in [Evictors -> [victim : Slots \union {"none"},
                                     stage : {"none", "take", "shutdown", "release"}]]
      /\ \A b \in Evictors : eviction'[b] = IF b = a THEN [victim |-> s, stage |-> "take"]
                                            ELSE eviction[b]
  BY Types
<1>2. ActorInv'
  BY <1>1, Threads DEF PoolInv, ActorInv
<1>3. \A b \in Evictors : \A t : Evicting(b, t)' <=> Evicting(b, t)
  BY <1>1 DEF Evicting, NoEviction
<1> QED BY <1>1, <1>2, <1>3

LEMMA ReapKeeps ==
    ASSUME PoolInv, NEW s \in Slots, Reap(s)
    PROVE  PoolInv'
<1> USE DEF Reap, ledgerVars
<1>1. CASE UNCHANGED eviction
  <2>1. TypeOK'
    BY <1>1 DEF PoolInv, TypeOK
  <2>2. \A a \in Evictors : \A t : Evicting(a, t)' <=> Evicting(a, t)
    BY <1>1 DEF Evicting
  <2>3. ActorInv'
    BY <1>1 DEF PoolInv, ActorInv
  <2>4. ClaimInv' /\ DiscardInv' /\ EvictInv' /\ ChildInv' /\ LeaseInv' /\ RunningInv'
    BY <2>2, Types, HandsUnchanged
  <2>5. SweepInv'
    BY <1>1 DEF PoolInv, SweepInv
  <2> QED BY <2>1, <2>3, <2>4, <2>5 DEF PoolInv
<1>2. CASE eviction' = [eviction EXCEPT !["reaper"] = [victim |-> s, stage |-> "take"]]
  <2>1. /\ eviction' \in [Evictors -> [victim : Slots \union {"none"},
                                       stage : {"none", "take", "shutdown", "release"}]]
        /\ ActorInv'
        /\ eviction'["owner"] = eviction["owner"]
        /\ \A a \in Evictors : \A t : Evicting(a, t)' <=> Evicting(a, t)
    BY <1>2, Threads, VictimChosen
  <2>2. TypeOK'
    BY <2>1 DEF PoolInv, TypeOK
  <2>3. ClaimInv' /\ DiscardInv' /\ EvictInv' /\ ChildInv' /\ LeaseInv' /\ RunningInv'
    BY <2>1, Types, HandsUnchanged
  <2>4. owner \notin {"sweeping", "ok"}
    BY DEF PoolInv, SweepInv
  <2>5. SweepInv'
    BY <2>4 DEF PoolInv, SweepInv
  <2> QED BY <2>1, <2>2, <2>3, <2>5 DEF PoolInv
<1> QED BY <1>1, <1>2

LEMMA ShutdownKeeps ==
    ASSUME PoolInv, Shutdown
    PROVE  PoolInv'
<1> USE DEF Shutdown, ledgerVars
<1>1. TypeOK'
  BY DEF PoolInv, TypeOK
<1>2. \A a \in Evictors : \A s : Evicting(a, s)' <=> Evicting(a, s)
  BY DEF Evicting
<1>3. ActorInv'
  BY DEF PoolInv, ActorInv
<1>4. ClaimInv' /\ DiscardInv' /\ EvictInv' /\ ChildInv' /\ LeaseInv' /\ RunningInv'
  BY <1>2, Types, HandsUnchanged
<1>5. SweepInv'
  BY DEF PoolInv, SweepInv
<1> QED BY <1>1, <1>3, <1>4, <1>5 DEF PoolInv

(* When no query is running, every child is in a slot that is still to be     *)
(* swept.                                                                     *)
LEMMA DrainKeeps ==
    ASSUME PoolInv, Drain
    PROVE  PoolInv'
<1> USE DEF Drain, ledgerVars
<1>1. TypeOK'
  BY DEF PoolInv, TypeOK
<1>2. \A a \in Evictors : \A s : Evicting(a, s)' <=> Evicting(a, s)
  BY DEF Evicting
<1>3. ActorInv'
  BY DEF PoolInv, ActorInv
<1>4. ClaimInv' /\ DiscardInv' /\ EvictInv' /\ ChildInv' /\ LeaseInv' /\ RunningInv'
  BY <1>2, Types, HandsUnchanged
<1>5. CASE Drained /\ owner' = "sweeping"
  <2>1. Admitted = {}
    BY <1>5, FiniteSets, FS_EmptySet DEF Drained, PoolInv, RunningInv
  <2>2. \A q \in Queries : pc[q] \in {"idle", "admit"}
    BY <2>1 DEF Admitted
  <2>3. \A s \in Slots : processes[s] # 0 => s \in todo
    BY DEF PoolInv, ChildInv, SweepInv
  <2>4. SweepInv'
    BY <1>5, <2>2, <2>3 DEF PoolInv, SweepInv
  <2> QED BY <1>1, <1>3, <1>4, <2>4 DEF PoolInv
<1>6. CASE owner' = "sweeping_failed"
  <2>1. SweepInv'
    BY <1>6 DEF PoolInv, SweepInv
  <2> QED BY <1>1, <1>3, <1>4, <2>1 DEF PoolInv
<1> QED BY <1>5, <1>6

LEMMA SweepKeeps ==
    ASSUME PoolInv, Sweep
    PROVE  PoolInv'
<1> USE DEF Sweep, ledgerVars
<1>1. CASE \E s \in todo :
              /\ todo' = todo \ {s}
              /\ eviction' = [eviction EXCEPT !["owner"] = [victim |-> s, stage |-> "take"]]
              /\ UNCHANGED owner
  <2>1. PICK s \in todo : /\ todo' = todo \ {s} /\ owner' = owner
                          /\ eviction' = [eviction EXCEPT !["owner"] = [victim |-> s, stage |-> "take"]]
    BY <1>1
  <2>2. s \in Slots
    BY DEF PoolInv, TypeOK
  <2>3. /\ eviction' \in [Evictors -> [victim : Slots \union {"none"},
                                       stage : {"none", "take", "shutdown", "release"}]]
        /\ ActorInv'
        /\ eviction'["reaper"] = eviction["reaper"]
        /\ eviction'["owner"] = [victim |-> s, stage |-> "take"]
        /\ \A a \in Evictors : \A t : Evicting(a, t)' <=> Evicting(a, t)
    BY <2>1, <2>2, Threads, VictimChosen
  <2>4. TypeOK'
    BY <2>1, <2>3 DEF PoolInv, TypeOK
  <2>5. ClaimInv' /\ DiscardInv' /\ EvictInv' /\ ChildInv' /\ LeaseInv' /\ RunningInv'
    BY <2>1, <2>3, Types, HandsUnchanged
  <2>6. SweepInv'
    <3>1. owner = "sweeping" => \A t \in Slots : processes[t] # 0 => t \in todo
      BY DEF PoolInv, SweepInv, NoEviction
    <3>2. owner = "sweeping" => \A t \in Slots : processes[t] # 0 => t \in todo' \/ t = s
      BY <2>1, <3>1
    <3> QED BY <2>1, <2>3, <3>2 DEF PoolInv, SweepInv
  <2> QED BY <2>3, <2>4, <2>5, <2>6 DEF PoolInv
<1>2. CASE /\ todo = {} /\ owner' = IF owner = "sweeping" THEN "ok" ELSE "failed"
           /\ UNCHANGED <<todo, eviction>>
  <2>1. TypeOK'
    BY <1>2 DEF PoolInv, TypeOK
  <2>2. \A a \in Evictors : \A s : Evicting(a, s)' <=> Evicting(a, s)
    BY <1>2 DEF Evicting
  <2>3. ActorInv'
    BY <1>2 DEF PoolInv, ActorInv
  <2>4. ClaimInv' /\ DiscardInv' /\ EvictInv' /\ ChildInv' /\ LeaseInv' /\ RunningInv'
    BY <1>2, <2>2, Types, HandsUnchanged
  <2>5. SweepInv'
    BY <1>2 DEF PoolInv, SweepInv
  <2> QED BY <2>1, <2>3, <2>4, <2>5 DEF PoolInv
<1> QED BY <1>1, <1>2

-----------------------------------------------------------------------------
LEMMA PoolInit == Init => PoolInv
<1> SUFFICES ASSUME Init PROVE PoolInv
  OBVIOUS
<1> USE DEF Init
<1>1. TypeOK
  <2>1. 0 \in 0 .. MaxConcurrentQueries /\ 0 \in 0 .. MaxRequests
    BY ProviderPoolAssumption
  <2>2. [active |-> 0, memory |-> 0] \in Usages
    BY DEF Usages
  <2>3. Empty \in Runtimes
    BY DEF Empty, Runtimes
  <2>4. NoEviction \in [victim : Slots \union {"none"}, stage : {"none", "take", "shutdown", "release"}]
    BY DEF NoEviction
  <2>5. on \in [Queries -> Slots]
    BY ProviderPoolAssumption DEF AnySlot
  <2> QED BY <2>1, <2>2, <2>3, <2>4, <2>5 DEF TypeOK, Runtimes
<1>2. ActorInv
  BY Threads DEF ActorInv, NoEviction
<1>3. \A a \in Evictors : \A s : ~Evicting(a, s)
  BY DEF Evicting, NoEviction
<1>4. ClaimInv /\ DiscardInv /\ EvictInv
  BY <1>3 DEF ClaimInv, DiscardInv, EvictInv, Claiming, Claims
<1>5. ChildInv
  BY DEF ChildInv, Empty
<1>6. LeaseInv
  <2>1. \A s : Leases(s) = {}
    BY DEF Leases
  <2> QED BY <2>1, FS_EmptySet DEF LeaseInv, Empty
<1>7. RunningInv
  <2>1. Admitted = {}
    BY DEF Admitted
  <2> QED BY <2>1, FS_EmptySet DEF RunningInv
<1>8. SweepInv
  BY DEF SweepInv
<1> QED BY <1>1, <1>2, <1>4, <1>5, <1>6, <1>7, <1>8 DEF PoolInv

LEMMA QueryKeeps ==
    ASSUME PoolInv, NEW q \in Queries, Query(q)
    PROVE  PoolInv'
<1>1. CASE Admit(q) \/ Return(q) \/ ActivateCheck(q) \/ Lookup(q)
  BY <1>1, AdmitKeeps, ReturnKeeps, ActivateCheckKeeps, LookupKeeps
<1>2. CASE ReserveCheck(q) \/ Reserve(q) \/ ReserveByEviction(q) \/ ReserveFails(q)
  BY <1>2, ReserveCheckKeeps, ReserveKeeps, ReserveByEvictionKeeps, ReserveFailsKeeps
<1>3. CASE StartSucceeds(q) \/ StartIncompatible(q) \/ StartFails(q)
  BY <1>3, StartSucceedsKeeps, StartIncompatibleKeeps, StartFailsKeeps
<1>4. CASE Discard(q) \/ DropLease(q) \/ Evict(q)
  BY <1>4, DiscardKeeps, DropLeaseKeeps, EvictKeeps, Threads
<1> QED BY <1>1, <1>2, <1>3, <1>4 DEF Query

LEMMA StutterKeeps ==
    ASSUME PoolInv, UNCHANGED vars
    PROVE  PoolInv'
<1> USE DEF vars, ledgerVars
<1>1. \A a \in Evictors : \A s : Evicting(a, s)' <=> Evicting(a, s)
  BY DEF Evicting
<1>2. ClaimInv' /\ DiscardInv' /\ EvictInv' /\ ChildInv' /\ LeaseInv' /\ RunningInv'
  BY <1>1, Types, HandsUnchanged
<1>3. TypeOK' /\ ActorInv' /\ SweepInv'
  BY DEF PoolInv, TypeOK, ActorInv, SweepInv
<1> QED BY <1>2, <1>3 DEF PoolInv

LEMMA PoolNext == PoolInv /\ [Next]_vars => PoolInv'
<1> SUFFICES ASSUME PoolInv, [Next]_vars
             PROVE  PoolInv'
  OBVIOUS
<1>1. CASE \E w \in Workspaces : BindWorkspace(w)
  BY <1>1, BindWorkspaceKeeps
<1>2. CASE \E q \in Queries : Query(q)
  BY <1>2, QueryKeeps
<1>3. CASE \E q \in Queries, s \in Slots : Request(q, s)
  BY <1>3, RequestKeeps
<1>4. CASE \E s \in Slots : BackoffExpires(s)
  BY <1>4, BackoffExpiresKeeps
<1>5. CASE StartPass \/ Reaper
  BY <1>5, StartPassKeeps, ReapKeeps, EvictKeeps, Threads DEF Reaper
<1>6. CASE Shutdown \/ Owner
  BY <1>6, ShutdownKeeps, DrainKeeps, SweepKeeps, EvictKeeps, Threads DEF Owner
<1>7. CASE UNCHANGED vars
  BY <1>7, StutterKeeps
<1> QED BY <1>1, <1>2, <1>3, <1>4, <1>5, <1>6, <1>7 DEF Next

LEMMA PoolInvariant == Spec => []PoolInv
<1> QED BY PoolInit, PoolNext, PTL DEF Spec

-----------------------------------------------------------------------------
(* The counters of permits and children never pass zero, and the ledger is    *)
(* always one of natural numbers: evict_provider, activate and shutdown never *)
(* stop a child twice.                                                        *)
THEOREM TypeCorrect == Spec => []TypeOK
<1>1. PoolInv => TypeOK
  BY DEF PoolInv
<1> QED BY <1>1, PoolInvariant, PTL

(* Until shutdown gives up waiting, a leased provider stays in its slot with  *)
(* its child, and in_flight counts the leases (ProviderLease, evict_provider). *)
THEOREM LeasesAreKept == Spec => []LeasedIsNotReclaimed
<1>1. PoolInv => LeasedIsNotReclaimed
  <2> SUFFICES ASSUME PoolInv, owner \in {"serving", "draining", "sweeping"}, NEW s \in Slots
               PROVE  /\ slot[s].inFlight = Cardinality(Leases(s))
                      /\ Leases(s) # {} => slot[s].provider /\ processes[s] = 1
    BY DEF LeasedIsNotReclaimed, Leases
  <2> QED BY DEF PoolInv, LeaseInv, ChildInv
<1> QED BY <1>1, PoolInvariant, PTL

(* ProviderPool::shutdown returns Ok only when every child has been stopped,  *)
(* whatever queries and reaper passes it raced with.                          *)
THEOREM ShutdownIsComplete == Spec => []ShutdownLeavesNothing
<1>1. PoolInv => ShutdownLeavesNothing
  BY DEF PoolInv, SweepInv, ShutdownLeavesNothing, NoEviction
<1> QED BY <1>1, PoolInvariant, PTL

-----------------------------------------------------------------------------
(* Sums over finite sets.  Sum is a fold, a recursive function on the subsets *)
(* of its domain; a set with a wrong sum would have a smallest subset with a  *)
(* wrong one.                                                                 *)

Pick(u) == CHOOSE x \in u : TRUE
Rest(u) == u \ {Pick(u)}

Adds(g, f, D) == g = [u \in SUBSET D |-> IF u = {} THEN 0 ELSE f[Pick(u)] + g[Rest(u)]]

Sums(f) == CHOOSE g : Adds(g, f, DOMAIN f)

LEMMA SumIs ==
    ASSUME NEW f
    PROVE  Sum(f) = Sums(f)[DOMAIN f]
BY DEF Sum, FoldFunction, FoldFunctionOnSet, MapThenFoldSet, Sums, Adds, Pick, Rest

(* Among finite sets that fail, one has no proper subset that fails.          *)
LEMMA SmallestExists ==
    ASSUME NEW D, IsFiniteSet(D), NEW B, B \subseteq SUBSET D, B # {}
    PROVE  \E u \in B : \A v \in B : ~(v \subseteq u /\ v # u)
<1>1. B \subseteq FiniteSubsetsOf(D)
  BY FS_Subset DEF FiniteSubsetsOf
<1>2. IsWellFoundedOn(StrictSubsetOrdering(D), FiniteSubsetsOf(D))
  BY FS_StrictSubsetOrderingWellFounded
<1>3. PICK u \in B : \A v \in B : <<v, u>> \notin StrictSubsetOrdering(D)
  BY <1>1, <1>2, WFMin
<1>4. \A v \in B : v \subseteq u /\ v # u => <<v, u>> \in StrictSubsetOrdering(D)
  BY DEF StrictSubsetOrdering
<1>5. \A v \in B : ~(v \subseteq u /\ v # u)
  BY <1>3, <1>4
<1> QED BY <1>5

LEMMA RestSmaller ==
    ASSUME NEW u, u # {}
    PROVE  Pick(u) \in u /\ Rest(u) \subseteq u /\ Rest(u) # u
BY DEF Pick, Rest

(* Two solutions agree where their summands do.                               *)
LEMMA SolutionsAgree ==
    ASSUME NEW D, NEW E, NEW f, NEW k, NEW g, NEW h, Adds(g, f, D), Adds(h, k, E),
           NEW u, IsFiniteSet(u), u \subseteq D, u \subseteq E, \A x \in u : f[x] = k[x]
    PROVE  g[u] = h[u]
<1> DEFINE B == {v \in SUBSET u : g[v] # h[v]}
<1>1. SUFFICES ASSUME B # {} PROVE FALSE
  OBVIOUS
<1>2. PICK v \in B : \A w \in B : ~(w \subseteq v /\ w # v)
  <2>1. B \subseteq SUBSET u
    OBVIOUS
  <2> HIDE DEF B
  <2> QED BY <1>1, <2>1, SmallestExists
<1>3. v \in SUBSET D /\ v \in SUBSET E /\ v \subseteq u /\ g[v] # h[v]
  BY <1>2
<1>4. /\ g[v] = IF v = {} THEN 0 ELSE f[Pick(v)] + g[Rest(v)]
      /\ h[v] = IF v = {} THEN 0 ELSE k[Pick(v)] + h[Rest(v)]
  BY <1>3 DEF Adds
<1>5. v # {}
  BY <1>3, <1>4
<1>6. Pick(v) \in v /\ Rest(v) \subseteq v /\ Rest(v) # v
  BY <1>5, RestSmaller
<1>7. g[Rest(v)] = h[Rest(v)]
  BY <1>2, <1>3, <1>6
<1> QED BY <1>3, <1>4, <1>5, <1>6, <1>7

(* The recursion has a solution.                                              *)
LEMMA SolutionExists ==
    ASSUME NEW D, IsFiniteSet(D), NEW f
    PROVE  \E g : Adds(g, f, D)
<1> DEFINE B == {v \in SUBSET D : ~\E g : Adds(g, f, v)}
<1>1. SUFFICES ASSUME B # {} PROVE FALSE
  OBVIOUS
<1>2. PICK v \in B : \A w \in B : ~(w \subseteq v /\ w # v)
  <2>1. B \subseteq SUBSET D
    OBVIOUS
  <2> HIDE DEF B
  <2> QED BY <1>1, <2>1, SmallestExists
<1> DEFINE at(w) == CHOOSE g : Adds(g, f, w)
           G == [u \in SUBSET v |-> IF u = {} THEN 0 ELSE f[Pick(u)] + at(Rest(u))[Rest(u)]]
<1>3. \A w \in SUBSET v : w # v => Adds(at(w), f, w)
  BY <1>2
<1>4. v \in SUBSET D /\ ~\E g : Adds(g, f, v)
  BY <1>2
<1> HIDE DEF B, at
<1>5. ASSUME NEW u \in SUBSET v, u # {}
      PROVE  at(Rest(u))[Rest(u)] = G[Rest(u)]
  <2> DEFINE w == Rest(u)
  <2>1. w \in SUBSET v /\ w # v /\ IsFiniteSet(w)
    <3>1. w \subseteq u /\ w # u
      BY <1>5, RestSmaller
    <3>2. w \in SUBSET v /\ w # v
      BY <3>1
    <3>3. w \in SUBSET D
      BY <1>4, <3>2
    <3>4. IsFiniteSet(w)
      BY <3>3, FS_Subset
    <3> QED BY <3>2, <3>4
  <2> HIDE DEF w
  <2>2. Adds(at(w), f, w)
    BY <1>3, <2>1
  <2>3. at(w)[w] = IF w = {} THEN 0 ELSE f[Pick(w)] + at(w)[Rest(w)]
    BY <2>2 DEF Adds
  <2>4. ASSUME w = {} PROVE at(w)[w] = G[w]
    BY <2>1, <2>3, <2>4
  <2>5. ASSUME w # {} PROVE at(w)[w] = G[w]
    <3>1. Rest(w) \subseteq w /\ Rest(w) # v /\ Rest(w) \in SUBSET v
      BY <2>1, <2>5, RestSmaller
    <3>2. Adds(at(Rest(w)), f, Rest(w)) /\ IsFiniteSet(Rest(w))
      BY <1>3, <2>1, <3>1, FS_Subset
    <3>3. at(w)[Rest(w)] = at(Rest(w))[Rest(w)]
      BY <2>2, <3>1, <3>2, SolutionsAgree
    <3>4. G[w] = f[Pick(w)] + at(Rest(w))[Rest(w)]
      BY <2>1, <2>5
    <3> QED BY <2>3, <2>5, <3>3, <3>4
  <2>6. at(w)[w] = G[w]
    BY <2>4, <2>5
  <2> QED BY <2>6 DEF w
<1>6. G = [u \in SUBSET v |-> IF u = {} THEN 0 ELSE f[Pick(u)] + G[Rest(u)]]
  BY <1>5
<1> HIDE DEF G
<1>7. Adds(G, f, v)
  BY <1>6 DEF Adds
<1> QED BY <1>4, <1>7

(* So a sum does what its recursion says, on every part of its domain.        *)
LEMMA SumsUnfold ==
    ASSUME NEW f, IsFiniteSet(DOMAIN f)
    PROVE  /\ Adds(Sums(f), f, DOMAIN f)
           /\ Sums(f)[{}] = 0
           /\ \A u \in SUBSET DOMAIN f :
                u # {} => Sums(f)[u] = f[Pick(u)] + Sums(f)[Rest(u)]
<1>1. Adds(Sums(f), f, DOMAIN f)
  <2>1. \E g : Adds(g, f, DOMAIN f)
    BY SolutionExists
  <2> QED BY <2>1 DEF Sums
<1> DEFINE g == Sums(f)
<1>2. g = [u \in SUBSET DOMAIN f |-> IF u = {} THEN 0 ELSE f[Pick(u)] + g[Rest(u)]]
  BY <1>1 DEF Adds
<1> HIDE DEF g
<1>3. g[{}] = 0 /\ \A u \in SUBSET DOMAIN f : u # {} => g[u] = f[Pick(u)] + g[Rest(u)]
  BY <1>2
<1> QED BY <1>1, <1>3 DEF g

(* The parts of two functions that agree have the same sum.                   *)
LEMMA SumsAgree ==
    ASSUME NEW f, NEW k, IsFiniteSet(DOMAIN f), IsFiniteSet(DOMAIN k),
           NEW u, u \subseteq DOMAIN f, u \subseteq DOMAIN k, \A x \in u : f[x] = k[x]
    PROVE  Sums(f)[u] = Sums(k)[u]
<1>1. Adds(Sums(f), f, DOMAIN f) /\ Adds(Sums(k), k, DOMAIN k)
  BY SumsUnfold
<1>2. IsFiniteSet(u)
  BY FS_Subset
<1> QED BY <1>1, <1>2, SolutionsAgree

(* A sum of natural numbers is one.                                           *)
LEMMA SumsNatural ==
    ASSUME NEW D, IsFiniteSet(D), NEW f \in [D -> Nat]
    PROVE  \A u \in SUBSET D : Sums(f)[u] \in Nat
<1> DEFINE B == {v \in SUBSET D : Sums(f)[v] \notin Nat}
<1>1. SUFFICES ASSUME B # {} PROVE FALSE
  OBVIOUS
<1>2. PICK v \in B : \A w \in B : ~(w \subseteq v /\ w # v)
  <2>1. B \subseteq SUBSET D
    OBVIOUS
  <2> HIDE DEF B
  <2> QED BY <1>1, <2>1, SmallestExists
<1>3. v \in SUBSET D /\ Sums(f)[v] \notin Nat /\ DOMAIN f = D
  BY <1>2
<1>4. v # {}
  BY <1>3, SumsUnfold
<1>5. Pick(v) \in v /\ Rest(v) \subseteq v /\ Rest(v) # v
  BY <1>4, RestSmaller
<1>6. Sums(f)[Rest(v)] \in Nat
  BY <1>2, <1>3, <1>5
<1>7. Sums(f)[v] = f[Pick(v)] + Sums(f)[Rest(v)]
  BY <1>3, <1>4, SumsUnfold
<1>8. f[Pick(v)] \in Nat
  BY <1>3, <1>5
<1> QED BY <1>3, <1>6, <1>7, <1>8

(* Any element may be taken out first.                                        *)
LEMMA SumsTakeOut ==
    ASSUME NEW D, IsFiniteSet(D), NEW f \in [D -> Nat]
    PROVE  \A u \in SUBSET D : \A x \in u : Sums(f)[u] = f[x] + Sums(f)[u \ {x}]
<1> DEFINE B == {v \in SUBSET D : \E x \in v : Sums(f)[v] # f[x] + Sums(f)[v \ {x}]}
<1>1. SUFFICES ASSUME B # {} PROVE FALSE
  OBVIOUS
<1>2. PICK v \in B : \A w \in B : ~(w \subseteq v /\ w # v)
  <2>1. B \subseteq SUBSET D
    OBVIOUS
  <2> HIDE DEF B
  <2> QED BY <1>1, <2>1, SmallestExists
<1>3. PICK x \in v : Sums(f)[v] # f[x] + Sums(f)[v \ {x}]
  BY <1>2
<1> DEFINE y == Pick(v)
<1>4. v \in SUBSET D /\ v # {} /\ DOMAIN f = D
  BY <1>2, <1>3
<1>5. y \in v /\ Rest(v) = v \ {y} /\ Rest(v) # v
  BY <1>4, RestSmaller DEF Rest
<1>6. Sums(f)[v] = f[y] + Sums(f)[v \ {y}]
  BY <1>4, <1>5, SumsUnfold
<1> HIDE DEF y
<1>7. x # y
  BY <1>3, <1>6
<1>8. \A w \in SUBSET v : w # v => \A z \in w : Sums(f)[w] = f[z] + Sums(f)[w \ {z}]
  BY <1>2, <1>4
<1>9. Sums(f)[v \ {y}] = f[x] + Sums(f)[(v \ {y}) \ {x}]
  <2>1. v \ {y} \in SUBSET v /\ v \ {y} # v /\ x \in v \ {y}
    BY <1>3, <1>5, <1>7
  <2> QED BY <1>8, <2>1
<1>10. Sums(f)[v \ {x}] = f[y] + Sums(f)[(v \ {y}) \ {x}]
  <2>1. v \ {x} \in SUBSET v /\ v \ {x} # v /\ y \in v \ {x}
    BY <1>3, <1>5, <1>7
  <2>2. (v \ {y}) \ {x} = (v \ {x}) \ {y}
    OBVIOUS
  <2> QED BY <1>8, <2>1, <2>2
<1>11. f[x] \in Nat /\ f[y] \in Nat /\ Sums(f)[(v \ {y}) \ {x}] \in Nat
  <2>1. (v \ {y}) \ {x} \in SUBSET D
    BY <1>4
  <2>2. x \in D /\ y \in D
    BY <1>3, <1>4, <1>5
  <2> QED BY <2>1, <2>2, SumsNatural
<1>12. \A a, b, c \in Nat : a + (b + c) = b + (a + c)
  OBVIOUS
<1> QED BY <1>3, <1>6, <1>9, <1>10, <1>11, <1>12

(* The more is added up, the larger the sum.                                  *)
LEMMA SumsGrow ==
    ASSUME NEW D, IsFiniteSet(D), NEW f \in [D -> Nat], NEW u
    PROVE  \A v \in SUBSET D : u \subseteq v => Sums(f)[u] <= Sums(f)[v]
<1> DEFINE B == {v \in SUBSET D : u \subseteq v /\ ~(Sums(f)[u] <= Sums(f)[v])}
<1>1. SUFFICES ASSUME B # {} PROVE FALSE
  OBVIOUS
<1>2. PICK v \in B : \A w \in B : ~(w \subseteq v /\ w # v)
  <2>1. B \subseteq SUBSET D
    OBVIOUS
  <2> HIDE DEF B
  <2> QED BY <1>1, <2>1, SmallestExists
<1>3. v \in SUBSET D /\ u \subseteq v /\ ~(Sums(f)[u] <= Sums(f)[v])
  BY <1>2
<1>4. Sums(f)[u] \in Nat /\ Sums(f)[v] \in Nat
  BY <1>3, SumsNatural
<1>5. PICK x \in v : x \notin u
  BY <1>3, <1>4
<1>6. v \ {x} \in SUBSET D /\ u \subseteq v \ {x} /\ v \ {x} # v
  BY <1>3, <1>5
<1>7. Sums(f)[u] <= Sums(f)[v \ {x}]
  BY <1>2, <1>6
<1>8. Sums(f)[v] = f[x] + Sums(f)[v \ {x}]
  BY <1>3, SumsTakeOut
<1>9. f[x] \in Nat /\ Sums(f)[v \ {x}] \in Nat
  BY <1>3, <1>6, SumsNatural
<1> QED BY <1>3, <1>4, <1>7, <1>8, <1>9

(* A sum of ones counts.                                                      *)
LEMMA SumsOfOnes ==
    ASSUME NEW D, IsFiniteSet(D)
    PROVE  \A u \in SUBSET D : Sums([h \in D |-> 1])[u] = Cardinality(u)
<1> DEFINE f == [h \in D |-> 1]
           B == {v \in SUBSET D : Sums(f)[v] # Cardinality(v)}
<1>1. SUFFICES ASSUME B # {} PROVE FALSE
  OBVIOUS
<1>2. PICK v \in B : \A w \in B : ~(w \subseteq v /\ w # v)
  <2>1. B \subseteq SUBSET D
    OBVIOUS
  <2> HIDE DEF B
  <2> QED BY <1>1, <2>1, SmallestExists
<1>3. v \in SUBSET D /\ Sums(f)[v] # Cardinality(v) /\ DOMAIN f = D /\ \A x \in D : f[x] = 1
  BY <1>2
<1>4. \A w \in SUBSET v : w # v => Sums(f)[w] = Cardinality(w)
  BY <1>2, <1>3
<1> HIDE DEF f, B
<1>5. v # {}
  BY <1>3, SumsUnfold, FS_EmptySet
<1>6. Pick(v) \in v /\ Rest(v) \subseteq v /\ Rest(v) # v /\ Rest(v) = v \ {Pick(v)}
  BY <1>5, RestSmaller DEF Rest
<1>7. Sums(f)[v] = f[Pick(v)] + Sums(f)[Rest(v)]
  BY <1>3, <1>5, SumsUnfold
<1>8. f[Pick(v)] = 1 /\ Sums(f)[Rest(v)] = Cardinality(Rest(v))
  BY <1>3, <1>4, <1>6
<1>9. IsFiniteSet(v) /\ Cardinality(v) \in Nat
  BY <1>3, FS_Subset, FS_CardinalityType
<1>10. Cardinality(Rest(v)) = Cardinality(v) - 1
  BY <1>6, <1>9, FS_RemoveElement
<1> QED BY <1>3, <1>7, <1>8, <1>9, <1>10

(* Summands that each have a share of their own in m stay within the sum of m. *)
LEMMA SumsCovered ==
    ASSUME NEW A, IsFiniteSet(A), NEW f \in [A -> Nat],
           NEW R, IsFiniteSet(R), NEW m \in [R -> Nat], NEW place,
           \A s \in A : f[s] = 0 \/ \E h \in R : place[h] = s /\ f[s] <= m[h]
    PROVE  Sum(f) <= Sum(m)
<1> DEFINE share(v) == {h \in R : place[h] \in v}
           B == {v \in SUBSET A : ~(Sums(f)[v] <= Sums(m)[share(v)])}
<1>0. DOMAIN f = A /\ DOMAIN m = R /\ \A v : share(v) \in SUBSET R
  OBVIOUS
<1>1. ASSUME B # {} PROVE FALSE
  <2>1. PICK v \in B : \A w \in B : ~(w \subseteq v /\ w # v)
    <3>1. B \subseteq SUBSET A
      OBVIOUS
    <3> HIDE DEF B
    <3> QED BY <1>1, <3>1, SmallestExists
  <2>2. v \in SUBSET A /\ ~(Sums(f)[v] <= Sums(m)[share(v)])
    BY <2>1
  <2>3. \A w \in SUBSET v : w # v => Sums(f)[w] <= Sums(m)[share(w)]
    BY <2>1, <2>2
  <2> HIDE DEF B
  <2>4. \A w \in SUBSET A : Sums(f)[w] \in Nat
    BY SumsNatural
  <2>5. \A w \in SUBSET R : Sums(m)[w] \in Nat
    BY SumsNatural
  <2>6. v # {}
    <3>1. Sums(f)[{}] = 0
      BY <1>0, SumsUnfold
    <3>2. Sums(m)[share(v)] \in Nat
      BY <1>0, <2>5
    <3> HIDE DEF share
    <3> QED BY <2>2, <3>1, <3>2
  <2> DEFINE x == Pick(v)
             w == Rest(v)
  <2>7. x \in v /\ w = v \ {x} /\ w \in SUBSET v /\ w # v
    BY <2>6, RestSmaller DEF Rest
  <2>8. Sums(f)[v] = f[x] + Sums(f)[w]
    BY <1>0, <2>2, <2>6, SumsUnfold
  <2> HIDE DEF x, w
  <2>9. Sums(f)[w] <= Sums(m)[share(w)] /\ share(w) \subseteq share(v)
    BY <2>3, <2>7
  <2>10. f[x] \in Nat /\ x \in A
    BY <2>2, <2>7
  <2>11. /\ Sums(f)[w] \in Nat /\ Sums(m)[share(w)] \in Nat /\ Sums(m)[share(v)] \in Nat
    BY <1>0, <2>2, <2>4, <2>5, <2>7
  <2>12. CASE f[x] = 0
    <3>1. Sums(m)[share(w)] <= Sums(m)[share(v)]
      BY <1>0, <2>9, SumsGrow
    <3> HIDE DEF share
    <3> QED BY <2>2, <2>8, <2>9, <2>11, <2>12, <3>1
  <2>13. CASE f[x] # 0
    <3>1. PICK h \in R : place[h] = x /\ f[x] <= m[h]
      BY <2>10, <2>13
    <3>2. h \in share(v) /\ share(w) \subseteq share(v) \ {h} /\ share(v) \ {h} \in SUBSET R
      BY <2>7, <3>1
    <3> HIDE DEF share
    <3>3. Sums(m)[share(v)] = m[h] + Sums(m)[share(v) \ {h}]
      BY <1>0, <3>2, SumsTakeOut
    <3>4. Sums(m)[share(w)] <= Sums(m)[share(v) \ {h}]
      BY <3>2, SumsGrow
    <3>5. m[h] \in Nat /\ Sums(m)[share(v) \ {h}] \in Nat
      BY <2>5, <3>1, <3>2
    <3> QED BY <2>2, <2>8, <2>9, <2>10, <2>11, <3>1, <3>3, <3>4, <3>5
  <2> QED BY <2>12, <2>13
<1>2. Sums(f)[A] <= Sums(m)[share(A)]
  BY <1>1
<1>3. Sums(m)[share(A)] <= Sums(m)[R]
  BY <1>0, SumsGrow
<1>4. Sums(f)[A] \in Nat /\ Sums(m)[share(A)] \in Nat /\ Sums(m)[R] \in Nat
  BY <1>0, SumsNatural
<1>5. Sum(f) = Sums(f)[A] /\ Sum(m) = Sums(m)[R]
  BY <1>0, SumIs
<1> HIDE DEF share
<1> QED BY <1>2, <1>3, <1>4, <1>5

(* If the shares are in one piece each, and there are no others, the sums are  *)
(* the same.                                                                   *)
LEMMA SumsMatched ==
    ASSUME NEW A, IsFiniteSet(A), NEW f \in [A -> Nat],
           NEW R, IsFiniteSet(R), NEW m \in [R -> Nat], NEW place
    PROVE  (\A h \in R : place[h] \in A) /\ (\A s \in A : \/ f[s] = 0 /\ \A h \in R : place[h] # s
                         \/ \E h \in R : /\ place[h] = s /\ f[s] = m[h]
                                         /\ \A k \in R : place[k] = s => k = h)
             => Sum(f) = Sum(m)
<1>1. ASSUME NEW u \in SUBSET R, NEW h \in u
      PROVE  Sums(m)[u] = m[h] + Sums(m)[u \ {h}]
  BY SumsTakeOut
<1>2. SUFFICES ASSUME \A h \in R : place[h] \in A, \A s \in A : \/ f[s] = 0 /\ \A h \in R : place[h] # s
                                   \/ \E h \in R : /\ place[h] = s /\ f[s] = m[h]
                                                   /\ \A k \in R : place[k] = s => k = h
               PROVE  Sum(f) = Sum(m)
  OBVIOUS
<1> DEFINE share(v) == {h \in R : place[h] \in v}
           B == {v \in SUBSET A : Sums(f)[v] # Sums(m)[share(v)]}
<1>3. DOMAIN f = A /\ DOMAIN m = R /\ \A v : share(v) \in SUBSET R
  OBVIOUS
<1>4. ASSUME B # {} PROVE FALSE
  <2>1. PICK v \in B : \A w \in B : ~(w \subseteq v /\ w # v)
    <3>1. B \subseteq SUBSET A
      OBVIOUS
    <3> HIDE DEF B
    <3> QED BY <1>4, <3>1, SmallestExists
  <2>2. v \in SUBSET A /\ Sums(f)[v] # Sums(m)[share(v)]
    BY <2>1
  <2>3. \A w \in SUBSET v : w # v => Sums(f)[w] = Sums(m)[share(w)]
    BY <2>1, <2>2
  <2> HIDE DEF B
  <2>4. v # {}
    <3>1. share({}) = {}
      OBVIOUS
    <3>2. Sums(f)[{}] = 0 /\ Sums(m)[{}] = 0
      BY <1>3, SumsUnfold
    <3> HIDE DEF share
    <3> QED BY <2>2, <3>1, <3>2
  <2> DEFINE x == Pick(v)
             w == Rest(v)
  <2>5. x \in v /\ w = v \ {x} /\ w \in SUBSET v /\ w # v
    BY <2>4, RestSmaller DEF Rest
  <2>6. Sums(f)[v] = f[x] + Sums(f)[w]
    BY <1>3, <2>2, <2>4, SumsUnfold
  <2> HIDE DEF x, w
  <2>7. Sums(f)[w] = Sums(m)[share(w)]
    BY <2>3, <2>5
  <2>8. Sums(f)[w] \in Nat
    BY <2>2, <2>5, SumsNatural
  <2>9. CASE f[x] = 0 /\ \A h \in R : place[h] # x
    <3>1. share(w) = share(v)
      BY <2>5, <2>9
    <3> HIDE DEF share
    <3> QED BY <2>2, <2>6, <2>7, <2>8, <2>9, <3>1
  <2>10. CASE \E h \in R : place[h] = x /\ f[x] = m[h] /\ \A k \in R : place[k] = x => k = h
    <3>1. PICK h \in R : place[h] = x /\ f[x] = m[h] /\ \A k \in R : place[k] = x => k = h
      BY <2>10
    <3>2. h \in share(v) /\ share(w) = share(v) \ {h} /\ share(v) \in SUBSET R
      BY <2>5, <3>1
    <3> HIDE DEF share
    <3>3. Sums(m)[share(v)] = m[h] + Sums(m)[share(v) \ {h}]
      BY <1>1, <3>2
    <3> QED BY <2>2, <2>6, <2>7, <3>1, <3>2, <3>3
  <2> QED BY <1>2, <2>2, <2>5, <2>9, <2>10
<1>5. Sums(f)[A] = Sums(m)[share(A)]
  BY <1>4
<1>6. share(A) = R
  BY <1>2
<1>7. Sum(f) = Sums(f)[A] /\ Sum(m) = Sums(m)[R]
  BY <1>3, SumIs
<1> HIDE DEF share
<1> QED BY <1>5, <1>6, <1>7

LEMMA ReservationsNatural == Reservation \in [Slots -> Nat]
<1>1. MaxMemory \in Nat /\ MaxWorkspaceMemory \in Nat
  BY ProviderPoolAssumption
<1>2. (1 .. MaxMemory) \intersect (1 .. MaxWorkspaceMemory) \subseteq Nat
  BY <1>1
<1> QED BY <1>2, ProviderPoolAssumption

(* The memory of a set of reservations: a number, which one more raises and   *)
(* one less lowers by what it reserves.                                       *)
LEMMA SumNatural ==
    ASSUME NEW D, IsFiniteSet(D), NEW f \in [D -> Nat]
    PROVE  Sum(f) \in Nat
<1>1. Sum(f) = Sums(f)[D] /\ D \in SUBSET D
  BY SumIs
<1> QED BY <1>1, SumsNatural

LEMMA MemoryNatural ==
    ASSUME NEW R, IsFiniteSet(R), \A h \in R : h[3] \in Slots
    PROVE  MemoryOf(R) \in Nat
<1> DEFINE f == [h \in R |-> Reservation[h[3]]]
<1>1. f \in [R -> Nat]
  BY ReservationsNatural
<1>2. DOMAIN f = R /\ R \in SUBSET R
  OBVIOUS
<1> HIDE DEF f
<1>3. Sum(f) \in Nat
  BY <1>1, <1>2, SumIs, SumsNatural
<1> QED BY <1>3 DEF f, MemoryOf

LEMMA MemoryAdd ==
    ASSUME NEW R, IsFiniteSet(R), NEW h, h \notin R, \A k \in R \union {h} : k[3] \in Slots
    PROVE  MemoryOf(R \union {h}) = MemoryOf(R) + Reservation[h[3]]
<1> DEFINE S == R \union {h}
           f == [k \in S |-> Reservation[k[3]]]
           g == [k \in R |-> Reservation[k[3]]]
<1>1. f \in [S -> Nat] /\ g \in [R -> Nat] /\ IsFiniteSet(S)
  BY ReservationsNatural, FS_AddElement
<1>2. /\ DOMAIN f = S /\ DOMAIN g = R /\ f[h] = Reservation[h[3]]
      /\ \A k \in R : f[k] = g[k]
  OBVIOUS
<1>3. S \in SUBSET S /\ R \in SUBSET S /\ R \in SUBSET R /\ h \in S /\ S \ {h} = R
  OBVIOUS
<1> HIDE DEF f, g, S
<1>4. Sums(f)[S] = f[h] + Sums(f)[R]
  BY <1>1, <1>3, SumsTakeOut
<1>5. Sums(f)[R] = Sums(g)[R]
  BY <1>1, <1>2, <1>3, SumsAgree
<1>6. Sum(f) = Sums(f)[S] /\ Sum(g) = Sums(g)[R]
  BY <1>2, SumIs
<1>7. f[h] \in Nat /\ Sums(g)[R] \in Nat
  BY <1>1, <1>3, SumsNatural
<1>8. Sum(f) = Sum(g) + Reservation[h[3]]
  BY <1>2, <1>4, <1>5, <1>6, <1>7
<1> QED BY <1>8 DEF f, g, S, MemoryOf

LEMMA MemoryRemove ==
    ASSUME NEW R, IsFiniteSet(R), NEW h \in R, \A k \in R : k[3] \in Slots
    PROVE  /\ MemoryOf(R \ {h}) = MemoryOf(R) - Reservation[h[3]] /\ MemoryOf(R) \in Nat
           /\ MemoryOf(R) >= Reservation[h[3]]
<1> DEFINE S == R \ {h}
<1>1. IsFiniteSet(S) /\ h \notin S /\ R = S \union {h} /\ \A k \in S : k[3] \in Slots
  BY FS_RemoveElement
<1> HIDE DEF S
<1>2. MemoryOf(R) = MemoryOf(S) + Reservation[h[3]]
  BY <1>1, MemoryAdd
<1>3. MemoryOf(S) \in Nat /\ Reservation[h[3]] \in Nat
  BY <1>1, MemoryNatural, ReservationsNatural
<1>4. /\ MemoryOf(S) = MemoryOf(R) - Reservation[h[3]] /\ MemoryOf(R) \in Nat
      /\ MemoryOf(R) >= Reservation[h[3]]
  BY <1>2, <1>3
<1> QED BY <1>4 DEF S

-----------------------------------------------------------------------------
(* The ledger counts reservations.                                            *)

LEMMA Members ==
    ASSUME NEW h
    PROVE  h \in Reservations <=>
             \/ \E s \in Slots : slot[s].provider /\ h = <<"slot", s, s>>
             \/ \E q \in Queries : pc[q] \in {"start", "discard", "reject"} /\ h = <<"query", q, on[q]>>
             \/ \E a \in Evictors : /\ eviction[a].stage \in {"shutdown", "release"}
                                    /\ h = <<"evict", a, eviction[a].victim>>
BY Zenon DEF Reservations

LEMMA MembersNext ==
    ASSUME NEW h
    PROVE  h \in Reservations' <=>
             \/ \E s \in Slots : slot'[s].provider /\ h = <<"slot", s, s>>
             \/ \E q \in Queries : pc'[q] \in {"start", "discard", "reject"} /\ h = <<"query", q, on'[q]>>
             \/ \E a \in Evictors : /\ eviction'[a].stage \in {"shutdown", "release"}
                                    /\ h = <<"evict", a, eviction'[a].victim>>
BY Zenon DEF Reservations

(* Nothing is reserved or released.                                           *)
LEMMA LedgerUnchanged ==
    ASSUME LedgerInv, UNCHANGED ledgerVars,
           \A s \in Slots : slot'[s].provider <=> slot[s].provider,
           \A q \in Queries : /\ pc'[q] \in {"start", "discard", "reject"} <=>
                                    pc[q] \in {"start", "discard", "reject"}
                              /\ pc[q] \in {"start", "discard", "reject"} => on'[q] = on[q],
           \A a \in Evictors : /\ eviction'[a].stage \in {"shutdown", "release"} <=>
                                    eviction[a].stage \in {"shutdown", "release"}
                               /\ eviction[a].stage \in {"shutdown", "release"} =>
                                    eviction'[a].victim = eviction[a].victim
    PROVE  LedgerInv'
<1>1. \A h : h \in Reservations' <=> h \in Reservations
  BY Members, MembersNext
<1>2. Reservations' = Reservations
  BY <1>1
<1>3. \A w : ReservationsOf(w)' = ReservationsOf(w)
  BY <1>2 DEF ReservationsOf
<1>4. MemoryInv'
  BY <1>2, <1>3 DEF LedgerInv, MemoryInv, ledgerVars
<1> QED BY <1>2, <1>3, <1>4 DEF LedgerInv, ledgerVars

(* A reservation changes hands.                                               *)
LEMMA LedgerHandedOver ==
    ASSUME LedgerInv, UNCHANGED ledgerVars, NEW h \in Reservations, NEW k, k \notin Reservations,
           h[3] = k[3], Reservations' = (Reservations \ {h}) \union {k}
    PROVE  LedgerInv'
<1>1. \A S : IsFiniteSet(S) /\ h \in S /\ k \notin S =>
               IsFiniteSet((S \ {h}) \union {k}) /\ Cardinality((S \ {h}) \union {k}) = Cardinality(S)
  <2> SUFFICES ASSUME NEW S, IsFiniteSet(S), h \in S, k \notin S
               PROVE  IsFiniteSet((S \ {h}) \union {k}) /\ Cardinality((S \ {h}) \union {k}) = Cardinality(S)
    OBVIOUS
  <2>1. IsFiniteSet(S \ {h}) /\ Cardinality(S \ {h}) = Cardinality(S) - 1
    BY FS_RemoveElement
  <2>2. k \notin S \ {h}
    OBVIOUS
  <2>3. IsFiniteSet((S \ {h}) \union {k}) /\ Cardinality((S \ {h}) \union {k}) = Cardinality(S \ {h}) + 1
    BY <2>1, <2>2, FS_AddElement
  <2>4. Cardinality(S) \in Nat
    BY FS_CardinalityType
  <2> QED BY <2>1, <2>3, <2>4
<1>2. ASSUME NEW w \in Workspaces
      PROVE  usage'[w].active = Cardinality(ReservationsOf(w)') /\ usage'[w].active <= MaxWorkspaceActive
  <2>1. usage'[w].active = Cardinality(ReservationsOf(w)) /\ usage'[w].active <= MaxWorkspaceActive
    BY DEF LedgerInv, ledgerVars
  <2>2. CASE WorkspaceOf[h[3]] = w
    <3>1. ReservationsOf(w)' = (ReservationsOf(w) \ {h}) \union {k}
          /\ h \in ReservationsOf(w) /\ k \notin ReservationsOf(w)
      BY <2>2 DEF ReservationsOf
    <3>2. IsFiniteSet(ReservationsOf(w))
      BY FS_Subset DEF ReservationsOf, LedgerInv
    <3> QED BY <1>1, <2>1, <3>1, <3>2
  <2>3. CASE WorkspaceOf[h[3]] # w
    <3>1. ReservationsOf(w)' = ReservationsOf(w)
      BY <2>3 DEF ReservationsOf
    <3> QED BY <2>1, <3>1
  <2> QED BY <2>2, <2>3
<1>3. MemoryInv'
  <2>1. \A S \in SUBSET Reservations : h \in S /\ k \notin S =>
            MemoryOf((S \ {h}) \union {k}) = MemoryOf(S)
    <3> SUFFICES ASSUME NEW S \in SUBSET Reservations, h \in S, k \notin S
                 PROVE  MemoryOf((S \ {h}) \union {k}) = MemoryOf(S)
      OBVIOUS
    <3> DEFINE T == S \ {h}
    <3>1. IsFiniteSet(S) /\ (\A x \in S : x[3] \in Slots) /\ k[3] \in Slots
      BY FS_Subset DEF LedgerInv, MemoryInv
    <3>2. MemoryOf(T) = MemoryOf(S) - Reservation[h[3]] /\ MemoryOf(S) \in Nat
      BY <3>1, MemoryRemove
    <3>3. IsFiniteSet(T) /\ k \notin T /\ \A x \in T \union {k} : x[3] \in Slots
      BY <3>1, FS_RemoveElement
    <3> HIDE DEF T
    <3>4. MemoryOf(T \union {k}) = MemoryOf(T) + Reservation[k[3]]
      BY <3>3, MemoryAdd
    <3>5. Reservation[h[3]] \in Nat
      BY <3>1, ReservationsNatural
    <3>6. MemoryOf(T \union {k}) = MemoryOf(S)
      BY <3>2, <3>4, <3>5
    <3> QED BY <3>6 DEF T
  <2>2. MemoryOf(Reservations') = MemoryOf(Reservations)
    BY <2>1
  <2>3. ASSUME NEW w \in Workspaces
        PROVE  MemoryOf(ReservationsOf(w)') = MemoryOf(ReservationsOf(w))
    <3>1. CASE WorkspaceOf[h[3]] = w
      <4>1. ReservationsOf(w)' = (ReservationsOf(w) \ {h}) \union {k} /\ h \in ReservationsOf(w)
            /\ k \notin ReservationsOf(w) /\ ReservationsOf(w) \in SUBSET Reservations
        BY <3>1 DEF ReservationsOf
      <4> QED BY <2>1, <4>1
    <3>2. CASE WorkspaceOf[h[3]] # w
      <4>1. ReservationsOf(w)' = ReservationsOf(w)
        BY <3>2 DEF ReservationsOf
      <4> QED BY <4>1
    <3> QED BY <3>1, <3>2
  <2>4. \A x \in Reservations' : x[3] \in Slots
    BY DEF LedgerInv, MemoryInv
  <2> QED BY <2>2, <2>3, <2>4 DEF LedgerInv, MemoryInv, ledgerVars
<1> QED BY <1>1, <1>2, <1>3 DEF LedgerInv, ledgerVars

(* A reservation is made that fits.                                           *)
LEMMA LedgerCharged ==
    ASSUME TypeOK, LedgerInv, NEW s \in Slots, Charge(s), Fits(s), NEW k, k \notin Reservations,
           k[3] = s, Reservations' = Reservations \union {k}
    PROVE  LedgerInv'
<1>1. /\ total'.active = total.active + 1 /\ total.active < MaxActive
      /\ usage[WorkspaceOf[s]].active < MaxWorkspaceActive
      /\ WorkspaceOf[s] \in Workspaces
      /\ \A w \in Workspaces : usage'[w].active = IF w = WorkspaceOf[s] THEN usage[w].active + 1
                                                  ELSE usage[w].active
  <2>1. WorkspaceOf[s] \in Workspaces
    BY ProviderPoolAssumption DEF Workspaces, Range
  <2>2. usage \in [Workspaces -> Usages]
    BY DEF TypeOK
  <2> QED BY <2>1, <2>2 DEF Charge, Plus, Fits, FitsPool, FitsWorkspace
<1>2. total.active \in Nat /\ MaxActive \in Nat /\ MaxWorkspaceActive \in Nat
      /\ \A w \in Workspaces : usage[w].active \in Nat
  BY ProviderPoolAssumption DEF TypeOK, Usages
<1>3. IsFiniteSet(Reservations') /\ Cardinality(Reservations') = Cardinality(Reservations) + 1
  BY FS_AddElement DEF LedgerInv
<1>4. ASSUME NEW w \in Workspaces
      PROVE  usage'[w].active = Cardinality(ReservationsOf(w)') /\ usage'[w].active <= MaxWorkspaceActive
  <2>1. usage[w].active = Cardinality(ReservationsOf(w)) /\ usage[w].active <= MaxWorkspaceActive
    BY DEF LedgerInv
  <2>2. CASE WorkspaceOf[s] = w
    <3>1. ReservationsOf(w)' = ReservationsOf(w) \union {k} /\ k \notin ReservationsOf(w)
      BY <2>2 DEF ReservationsOf
    <3>2. IsFiniteSet(ReservationsOf(w))
      BY FS_Subset DEF ReservationsOf, LedgerInv
    <3>3. Cardinality(ReservationsOf(w)') = Cardinality(ReservationsOf(w)) + 1
      BY <3>1, <3>2, FS_AddElement
    <3> QED BY <1>1, <1>2, <2>1, <2>2, <3>3
  <2>3. CASE WorkspaceOf[s] # w
    <3>1. ReservationsOf(w)' = ReservationsOf(w)
      BY <2>3 DEF ReservationsOf
    <3> QED BY <1>1, <2>1, <2>3, <3>1
  <2> QED BY <2>2, <2>3
<1>5. MemoryInv'
  <2>1. \A S \in SUBSET Reservations :
            MemoryOf(S \union {k}) = MemoryOf(S) + Reservation[s]
    <3> SUFFICES ASSUME NEW S \in SUBSET Reservations
                 PROVE  MemoryOf(S \union {k}) = MemoryOf(S) + Reservation[k[3]]
      OBVIOUS
    <3>1. IsFiniteSet(S) /\ k \notin S /\ \A x \in S \union {k} : x[3] \in Slots
      BY FS_Subset DEF LedgerInv, MemoryInv
    <3> QED BY <3>1, MemoryAdd
  <2>2. WorkspaceOf[s] \in Workspaces /\ usage \in [Workspaces -> Usages]
    BY <1>1 DEF TypeOK
  <2>3. /\ total'.memory = total.memory + Reservation[s]
        /\ total.memory + Reservation[s] <= MaxMemory
        /\ usage[WorkspaceOf[s]].memory + Reservation[s] <= MaxWorkspaceMemory
        /\ \A w \in Workspaces : usage'[w].memory =
                IF w = WorkspaceOf[s] THEN usage[w].memory + Reservation[s] ELSE usage[w].memory
    BY <2>2 DEF Charge, Plus, Fits, FitsPool, FitsWorkspace
  <2>4. total'.memory = MemoryOf(Reservations') /\ total'.memory <= MaxMemory
    BY <2>1, <2>3 DEF LedgerInv, MemoryInv
  <2>5. ASSUME NEW w \in Workspaces
        PROVE  /\ usage'[w].memory = MemoryOf(ReservationsOf(w)')
               /\ usage'[w].memory <= MaxWorkspaceMemory
    <3>1. usage[w].memory = MemoryOf(ReservationsOf(w)) /\ usage[w].memory <= MaxWorkspaceMemory
      BY DEF LedgerInv, MemoryInv
    <3>2. CASE WorkspaceOf[s] = w
      <4>1. ReservationsOf(w)' = ReservationsOf(w) \union {k}
            /\ ReservationsOf(w) \in SUBSET Reservations
        BY <3>2 DEF ReservationsOf
      <4> QED BY <2>1, <2>3, <3>1, <3>2, <4>1
    <3>3. CASE WorkspaceOf[s] # w
      <4>1. ReservationsOf(w)' = ReservationsOf(w)
        BY <3>3 DEF ReservationsOf
      <4> QED BY <2>3, <3>1, <3>3, <4>1
    <3> QED BY <3>2, <3>3
  <2>6. \A x \in Reservations' : x[3] \in Slots
    BY DEF LedgerInv, MemoryInv
  <2> QED BY <2>4, <2>5, <2>6 DEF MemoryInv
<1> QED BY <1>1, <1>2, <1>3, <1>4, <1>5 DEF LedgerInv

(* One is returned: the saturating subtraction never meets zero.              *)
LEMMA LedgerReleased ==
    ASSUME TypeOK, LedgerInv, NEW s \in Slots, ReleaseReservation(s), NEW h \in Reservations,
           h[3] = s, Reservations' = Reservations \ {h}
    PROVE  LedgerInv'
<1>1. WorkspaceOf[s] \in Workspaces /\ usage \in [Workspaces -> Usages]
  BY ProviderPoolAssumption DEF Workspaces, Range, TypeOK
<1>2. /\ total'.active = IF total.active > 0 THEN total.active - 1 ELSE 0
      /\ \A w \in Workspaces : usage'[w].active =
             IF w = WorkspaceOf[s] THEN IF usage[w].active > 0 THEN usage[w].active - 1 ELSE 0
             ELSE usage[w].active
  BY <1>1 DEF ReleaseReservation, Minus
<1>3. total.active \in Nat /\ MaxActive \in Nat /\ MaxWorkspaceActive \in Nat
      /\ \A w \in Workspaces : usage[w].active \in Nat
  BY ProviderPoolAssumption DEF TypeOK, Usages
<1>4. \A S : IsFiniteSet(S) /\ h \in S =>
               /\ IsFiniteSet(S \ {h}) /\ Cardinality(S \ {h}) = Cardinality(S) - 1
               /\ Cardinality(S) \in Nat /\ Cardinality(S \ {h}) \in Nat
  BY FS_RemoveElement, FS_CardinalityType
<1>5. /\ IsFiniteSet(Reservations') /\ total'.active = Cardinality(Reservations')
      /\ total'.active <= MaxActive
  <2>1. /\ IsFiniteSet(Reservations) /\ total.active = Cardinality(Reservations)
        /\ total.active <= MaxActive
    BY DEF LedgerInv
  <2>2. /\ IsFiniteSet(Reservations') /\ Cardinality(Reservations') = Cardinality(Reservations) - 1
        /\ Cardinality(Reservations') \in Nat
    BY <1>4, <2>1
  <2> QED BY <1>2, <1>3, <2>1, <2>2
<1>6. ASSUME NEW w \in Workspaces
      PROVE  usage'[w].active = Cardinality(ReservationsOf(w)') /\ usage'[w].active <= MaxWorkspaceActive
  <2>1. usage[w].active = Cardinality(ReservationsOf(w)) /\ usage[w].active <= MaxWorkspaceActive
    BY DEF LedgerInv
  <2>2. CASE WorkspaceOf[s] = w
    <3>1. ReservationsOf(w)' = ReservationsOf(w) \ {h} /\ h \in ReservationsOf(w)
      BY <2>2 DEF ReservationsOf
    <3>2. IsFiniteSet(ReservationsOf(w))
      BY FS_Subset DEF ReservationsOf, LedgerInv
    <3>3. Cardinality(ReservationsOf(w)') = Cardinality(ReservationsOf(w)) - 1
          /\ Cardinality(ReservationsOf(w)') \in Nat
      BY <1>4, <3>1, <3>2
    <3> QED BY <1>2, <1>3, <2>1, <2>2, <3>3
  <2>3. CASE WorkspaceOf[s] # w
    <3>1. ReservationsOf(w)' = ReservationsOf(w)
      BY <2>3 DEF ReservationsOf
    <3> QED BY <1>2, <2>1, <2>3, <3>1
  <2> QED BY <2>2, <2>3
<1>7. MemoryInv'
  <2>1. \A S \in SUBSET Reservations : h \in S =>
            /\ MemoryOf(S \ {h}) = MemoryOf(S) - Reservation[s]
            /\ MemoryOf(S) \in Nat /\ MemoryOf(S) >= Reservation[s]
    <3> SUFFICES ASSUME NEW S \in SUBSET Reservations, h \in S
                 PROVE  /\ MemoryOf(S \ {h}) = MemoryOf(S) - Reservation[h[3]]
                        /\ MemoryOf(S) \in Nat /\ MemoryOf(S) >= Reservation[h[3]]
      OBVIOUS
    <3>1. IsFiniteSet(S) /\ \A x \in S : x[3] \in Slots
      BY FS_Subset DEF LedgerInv, MemoryInv
    <3> QED BY <3>1, MemoryRemove
  <2>2. /\ total'.memory = IF total.memory > Reservation[s] THEN total.memory - Reservation[s] ELSE 0
        /\ \A w \in Workspaces : usage'[w].memory =
               IF w = WorkspaceOf[s]
               THEN IF usage[w].memory > Reservation[s] THEN usage[w].memory - Reservation[s] ELSE 0
               ELSE usage[w].memory
    BY <1>1 DEF ReleaseReservation, Minus
  <2>3. Reservation[s] \in Nat /\ MaxMemory \in Nat /\ MaxWorkspaceMemory \in Nat
    BY ReservationsNatural, ProviderPoolAssumption
  <2>4. total'.memory = MemoryOf(Reservations') /\ total'.memory <= MaxMemory
    <3>1. total.memory = MemoryOf(Reservations) /\ total.memory <= MaxMemory
      BY DEF LedgerInv, MemoryInv
    <3>2. /\ MemoryOf(Reservations') = MemoryOf(Reservations) - Reservation[s]
          /\ MemoryOf(Reservations) \in Nat /\ MemoryOf(Reservations) >= Reservation[s]
      BY <2>1
    <3> QED BY <2>2, <2>3, <3>1, <3>2
  <2>5. ASSUME NEW w \in Workspaces
        PROVE  /\ usage'[w].memory = MemoryOf(ReservationsOf(w)')
               /\ usage'[w].memory <= MaxWorkspaceMemory
    <3>1. usage[w].memory = MemoryOf(ReservationsOf(w)) /\ usage[w].memory <= MaxWorkspaceMemory
      BY DEF LedgerInv, MemoryInv
    <3>2. CASE WorkspaceOf[s] = w
      <4>1. ReservationsOf(w)' = ReservationsOf(w) \ {h} /\ h \in ReservationsOf(w)
            /\ ReservationsOf(w) \in SUBSET Reservations
        BY <3>2 DEF ReservationsOf
      <4>2. /\ MemoryOf(ReservationsOf(w)') = MemoryOf(ReservationsOf(w)) - Reservation[s]
            /\ MemoryOf(ReservationsOf(w)) \in Nat /\ MemoryOf(ReservationsOf(w)) >= Reservation[s]
        BY <2>1, <4>1
      <4> QED BY <2>2, <2>3, <3>1, <3>2, <4>2
    <3>3. CASE WorkspaceOf[s] # w
      <4>1. ReservationsOf(w)' = ReservationsOf(w)
        BY <3>3 DEF ReservationsOf
      <4> QED BY <2>2, <3>1, <3>3, <4>1
    <3> QED BY <3>2, <3>3
  <2>6. \A x \in Reservations' : x[3] \in Slots
    BY DEF LedgerInv, MemoryInv
  <2> QED BY <2>4, <2>5, <2>6 DEF MemoryInv
<1> QED BY <1>5, <1>6, <1>7 DEF LedgerInv

Held(q) == pc[q] \in {"start", "discard", "reject"}

Taking(a) == eviction[a].stage \in {"shutdown", "release"}

LEMMA ReserveLedger ==
    ASSUME PoolInv, LedgerInv, NEW q \in Queries, Reserve(q)
    PROVE  LedgerInv'
<1> DEFINE h == <<"query", q, on[q]>>
<1>1. /\ \A r \in Queries : pc'[r] = IF r = q THEN "start" ELSE pc[r]
      /\ pc[q] = "charge" /\ UNCHANGED <<slot, on, eviction>> /\ on[q] \in Slots /\ TypeOK
  BY Types DEF Reserve, Go, PoolInv
<1>2. h \notin Reservations /\ h[3] = on[q]
  BY <1>1, Members
<1>3. \A x : x \in Reservations' <=> x \in Reservations \/ x = h
  BY <1>1, Members, MembersNext
<1>4. Reservations' = Reservations \union {h}
  BY <1>3
<1> QED BY <1>1, <1>2, <1>4, LedgerCharged DEF Reserve

(* A query that had a slot's reservation in hand gives it back.               *)
LEMMA QueryReleases ==
    ASSUME PoolInv, LedgerInv, NEW q \in Queries, Held(q), pc' = [pc EXCEPT ![q] = "return"],
           UNCHANGED <<on, eviction>>, ReleaseReservation(on[q]),
           \A s \in Slots : slot'[s].provider <=> slot[s].provider
    PROVE  LedgerInv'
<1> DEFINE h == <<"query", q, on[q]>>
<1>1. /\ \A r \in Queries : pc'[r] = IF r = q THEN "return" ELSE pc[r]
      /\ on[q] \in Slots /\ TypeOK
  BY Types DEF PoolInv
<1>2. h \in Reservations /\ h[3] = on[q]
  BY Members DEF Held
<1>3. \A x : x \in Reservations' <=> x \in Reservations /\ x # h
  BY <1>1, Members, MembersNext
<1>4. Reservations' = Reservations \ {h}
  BY <1>3
<1> QED BY <1>1, <1>2, <1>4, LedgerReleased

(* It leaves its provider in the slot, with the reservation.                  *)
LEMMA QueryFillsSlot ==
    ASSUME PoolInv, LedgerInv, NEW q \in Queries, NEW p \in {"leased", "return"}, Held(q),
           pc' = [pc EXCEPT ![q] = p],
           UNCHANGED <<on, eviction, ledgerVars>>, ~slot[on[q]].provider, slot'[on[q]].provider,
           \A s \in Slots \ {on[q]} : slot'[s] = slot[s]
    PROVE  LedgerInv'
<1> DEFINE h == <<"query", q, on[q]>>
           k == <<"slot", on[q], on[q]>>
<1>1. /\ \A r \in Queries : pc'[r] = IF r = q THEN p ELSE pc[r]
      /\ on[q] \in Slots
  BY Types
<1>2. h \in Reservations /\ k \notin Reservations /\ h[3] = k[3]
  BY Members DEF Held
<1>3. \A x : x \in Reservations' <=> (x \in Reservations /\ x # h) \/ x = k
  BY <1>1, Members, MembersNext
<1>4. Reservations' = (Reservations \ {h}) \union {k}
  BY <1>3
<1> QED BY <1>2, <1>4, LedgerHandedOver

LEMMA StartLedger ==
    ASSUME PoolInv, LedgerInv, NEW q \in Queries,
           StartSucceeds(q) \/ StartIncompatible(q) \/ StartFails(q)
    PROVE  LedgerInv'
<1>1. /\ pc[q] = "start" /\ Held(q) /\ UNCHANGED <<on, eviction>> /\ on[q] \in Slots
      /\ slot \in [Slots -> Runtimes] /\ pc \in [Queries -> Places]
      /\ ~slot[on[q]].provider
  BY Types DEF StartSucceeds, StartIncompatible, StartFails, Held, PoolInv, ClaimInv, Claiming, Claims
<1>2. CASE StartFails(q)
  <2>1. \A s \in Slots : slot'[s].provider <=> slot[s].provider
    <3>1. PICK aborted \in BOOLEAN :
            slot' = [slot EXCEPT ![on[q]].activating = FALSE, ![on[q]].error = ~aborted,
                                 ![on[q]].backoff = IF aborted THEN @ ELSE TRUE]
      BY <1>2 DEF StartFails
    <3>2. slot[on[q]] \in Runtimes
      BY <1>1
    <3>3. \A s \in Slots \ {on[q]} : slot'[s] = slot[s]
      BY <1>1, <3>1
    <3>4. slot'[on[q]].provider = slot[on[q]].provider
      BY <1>1, <3>1, <3>2 DEF Runtimes
    <3> QED BY <3>3, <3>4
  <2> QED BY <1>1, <1>2, <2>1, QueryReleases DEF StartFails, Go
<1>3. CASE StartIncompatible(q)
  BY <1>1, <1>3, LedgerUnchanged DEF StartIncompatible, Go
<1>4. CASE StartSucceeds(q) /\ stopped
  <2>1. \A s \in Slots : slot'[s].provider <=> slot[s].provider
    BY <1>1, <1>4 DEF StartSucceeds, Runtimes
  <2>2. pc' = [pc EXCEPT ![q] = "discard"] /\ UNCHANGED ledgerVars
    BY <1>4 DEF StartSucceeds, Go
  <2> QED BY <1>1, <2>1, <2>2, LedgerUnchanged
<1>5. CASE StartSucceeds(q) /\ ~stopped
  <2>1. pc' = [pc EXCEPT ![q] = "leased"] /\ UNCHANGED ledgerVars
    BY <1>5 DEF StartSucceeds, Go
  <2>2. slot' = [slot EXCEPT ![on[q]] = [provider |-> TRUE, activating |-> FALSE, inFlight |-> 1,
                                         error |-> FALSE, backoff |-> FALSE]]
    BY <1>5 DEF StartSucceeds
  <2>3. slot'[on[q]].provider /\ \A s \in Slots \ {on[q]} : slot'[s] = slot[s]
    BY <1>1, <2>2
  <2> QED BY <1>1, <2>1, <2>3, QueryFillsSlot
<1> QED BY <1>2, <1>3, <1>4, <1>5

LEMMA DiscardLedger ==
    ASSUME PoolInv, LedgerInv, NEW q \in Queries, Discard(q)
    PROVE  LedgerInv'
<1>1. /\ Held(q) /\ UNCHANGED <<on, eviction>> /\ on[q] \in Slots
      /\ slot \in [Slots -> Runtimes] /\ pc' = [pc EXCEPT ![q] = "return"]
      /\ ~slot[on[q]].provider
  BY Types DEF Discard, Go, Held, PoolInv, ClaimInv, DiscardInv, Claiming, Claims
<1>2. CASE /\ ReleaseReservation(on[q])
           /\ slot' = IF pc[q] = "discard" THEN slot
                      ELSE [slot EXCEPT ![on[q]].activating = FALSE, ![on[q]].error = TRUE,
                                        ![on[q]].backoff = TRUE]
  <2>1. \A s \in Slots : slot'[s].provider <=> slot[s].provider
    BY <1>1, <1>2 DEF Runtimes
  <2> QED BY <1>1, <1>2, <2>1, QueryReleases
<1>3. CASE /\ slot' = [slot EXCEPT ![on[q]].provider = TRUE, ![on[q]].activating = FALSE,
                                   ![on[q]].error = TRUE,
                                   ![on[q]].backoff = IF pc[q] = "reject" THEN TRUE ELSE @]
           /\ UNCHANGED ledgerVars
  <2>1. slot'[on[q]].provider /\ \A s \in Slots \ {on[q]} : slot'[s] = slot[s]
    BY <1>1, <1>3 DEF Runtimes
  <2> QED BY <1>1, <1>3, <2>1, QueryFillsSlot
<1> QED BY <1>2, <1>3 DEF Discard

(* An eviction takes the reservation out of the slot, and gives it back or     *)
(* returns it to the slot.                                                    *)
LEMMA EvictLedger ==
    ASSUME PoolInv, LedgerInv, NEW a \in Evictors, Evict(a)
    PROVE  LedgerInv'
<1> DEFINE s == eviction[a].victim
           h == <<"evict", a, s>>
           k == <<"slot", s, s>>
<1>1. /\ slot \in [Slots -> Runtimes] /\ pc \in [Queries -> Places] /\ TypeOK
      /\ eviction[a].stage # "none" /\ s \in Slots /\ (a \in Queries => pc[a] = "evict")
      /\ on' = on
  BY Types, EvictionUnderWay DEF Evict, EvictTake, EvictShutdown, EvictRelease, PoolInv
<1>2. \A failed \in BOOLEAN : Evicted(a, failed) =>
          /\ \A q \in Queries : pc'[q] = pc[q] \/ (q = a /\ pc'[q] \in {"refused", "reserve"})
          /\ \A b \in Evictors : eviction'[b] = IF b = a THEN NoEviction ELSE eviction[b]
  BY <1>1, Types DEF Evicted
<1>3. \A failed \in BOOLEAN : Evicted(a, failed) =>
          \A q \in Queries : pc'[q] \in {"start", "discard", "reject"} <=>
                                pc[q] \in {"start", "discard", "reject"}
  BY <1>1, <1>2
<1>4. CASE EvictTake(a) /\ ~MayTake(a, s)
  <2>1. Evicted(a, FALSE) /\ slot' = slot /\ UNCHANGED ledgerVars /\ eviction[a].stage = "take"
    BY <1>4 DEF EvictTake
  <2>2. \A b \in Evictors : /\ eviction'[b].stage \in {"shutdown", "release"} <=>
                                 eviction[b].stage \in {"shutdown", "release"}
                            /\ eviction[b].stage \in {"shutdown", "release"} =>
                                 eviction'[b].victim = eviction[b].victim
    <3>1. eviction'[a] = NoEviction /\ \A b \in Evictors \ {a} : eviction'[b] = eviction[b]
      BY <1>2, <2>1
    <3>2. ASSUME NEW b \in Evictors
          PROVE  /\ eviction'[b].stage \in {"shutdown", "release"} <=>
                                 eviction[b].stage \in {"shutdown", "release"}
                 /\ eviction[b].stage \in {"shutdown", "release"} =>
                                 eviction'[b].victim = eviction[b].victim
      <4>1. CASE b = a
        BY <2>1, <3>1, <4>1 DEF NoEviction
      <4>2. CASE b # a
        BY <3>1, <4>2
      <4> QED BY <4>1, <4>2
    <3> QED BY <3>2
  <2> QED BY <1>1, <1>3, <2>1, <2>2, LedgerUnchanged
<1>5. CASE EvictTake(a) /\ MayTake(a, s)
  <2>1. /\ UNCHANGED <<pc, on, ledgerVars>> /\ eviction[a].stage = "take" /\ slot[s].provider
        /\ \A b \in Evictors \ {a} : eviction'[b] = eviction[b]
        /\ eviction'[a].stage = "shutdown" /\ eviction'[a].victim = s
        /\ ~slot'[s].provider /\ \A t \in Slots \ {s} : slot'[t] = slot[t]
    <3>1. /\ eviction[a].stage = "take" /\ slot[s].provider /\ UNCHANGED <<pc, on, ledgerVars>>
          /\ slot' = [slot EXCEPT ![s].provider = FALSE, ![s].activating = TRUE]
          /\ eviction' = [eviction EXCEPT ![a].stage = "shutdown"]
      BY <1>5 DEF EvictTake, MayTake
    <3>2. slot[s] \in Runtimes
      BY <1>1
    <3>3. ~slot'[s].provider /\ \A t \in Slots \ {s} : slot'[t] = slot[t]
      BY <1>1, <3>1, <3>2 DEF Runtimes
    <3>4. /\ \A b \in Evictors \ {a} : eviction'[b] = eviction[b]
          /\ eviction'[a].stage = "shutdown" /\ eviction'[a].victim = s
      BY <3>1, Types
    <3> QED BY <3>1, <3>3, <3>4
  <2>2. k \in Reservations /\ h \notin Reservations /\ h[3] = k[3]
    BY <1>1, <2>1, Members
  <2>3. \A x : x \in Reservations' <=> (x \in Reservations /\ x # k) \/ x = h
    BY <1>1, <2>1, Members, MembersNext
  <2>4. Reservations' = (Reservations \ {k}) \union {h}
    BY <2>3
  <2> QED BY <2>1, <2>2, <2>4, LedgerHandedOver
<1>6. CASE EvictShutdown(a) /\ eviction' = [eviction EXCEPT ![a].stage = "release"]
           /\ slot' = [slot EXCEPT ![s].activating = FALSE, ![s].error = FALSE]
           /\ UNCHANGED <<pc, owner>>
  <2>1. \A t \in Slots : slot'[t].provider <=> slot[t].provider
    BY <1>1, <1>6 DEF Runtimes
  <2>2. \A b \in Evictors : /\ eviction'[b].stage \in {"shutdown", "release"} <=>
                                 eviction[b].stage \in {"shutdown", "release"}
                            /\ eviction'[b].victim = eviction[b].victim
    BY <1>6, Types DEF EvictShutdown
  <2>3. UNCHANGED <<on, ledgerVars>>
    BY <1>6 DEF EvictShutdown
  <2> QED BY <1>6, <2>1, <2>2, <2>3, LedgerUnchanged
<1>7. CASE EvictShutdown(a) /\ Evicted(a, TRUE)
           /\ slot' = [slot EXCEPT ![s].provider = TRUE, ![s].activating = FALSE, ![s].error = TRUE]
  <2>1. /\ UNCHANGED <<on, ledgerVars>> /\ Evicting(a, s)
        /\ slot'[s].provider /\ \A t \in Slots \ {s} : slot'[t] = slot[t]
    <3>1. UNCHANGED <<on, ledgerVars>> /\ eviction[a].stage = "shutdown"
      BY <1>7 DEF EvictShutdown
    <3>2. slot[s] \in Runtimes
      BY <1>1
    <3>3. slot'[s].provider /\ \A t \in Slots \ {s} : slot'[t] = slot[t]
      BY <1>1, <1>7, <3>2 DEF Runtimes
    <3> QED BY <3>1, <3>3 DEF Evicting
  <2>2. ~slot[s].provider
    BY <1>1, <2>1 DEF PoolInv, EvictInv
  <2>3. h \in Reservations /\ k \notin Reservations /\ h[3] = k[3]
    BY <2>1, <2>2, Members DEF Evicting
  <2>4. \A x : x \in Reservations' <=> (x \in Reservations /\ x # h) \/ x = k
    <3>1. eviction'[a].stage = "none" /\ \A b \in Evictors \ {a} : eviction'[b] = eviction[b]
      <4>1. eviction'[a] = NoEviction /\ \A b \in Evictors \ {a} : eviction'[b] = eviction[b]
        BY <1>2, <1>7
      <4> QED BY <4>1 DEF NoEviction
    <3>2. \A q \in Queries : pc'[q] \in {"start", "discard", "reject"} <=>
                                pc[q] \in {"start", "discard", "reject"}
      BY <1>3, <1>7
    <3> QED BY <1>1, <2>1, <3>1, <3>2, Members, MembersNext DEF Evicting
  <2>5. Reservations' = (Reservations \ {h}) \union {k}
    BY <2>4
  <2> QED BY <2>1, <2>3, <2>5, LedgerHandedOver
<1>8. CASE EvictRelease(a)
  <2>1. /\ eviction[a].stage = "release" /\ ReleaseReservation(s) /\ Evicted(a, FALSE)
        /\ UNCHANGED <<slot, on>>
    BY <1>8 DEF EvictRelease
  <2>2. h \in Reservations /\ h[3] = s
    BY <2>1, Members
  <2>3. \A x : x \in Reservations' <=> x \in Reservations /\ x # h
    <3>1. eviction'[a].stage = "none" /\ \A b \in Evictors \ {a} : eviction'[b] = eviction[b]
      <4>1. eviction'[a] = NoEviction /\ \A b \in Evictors \ {a} : eviction'[b] = eviction[b]
        BY <1>2, <2>1
      <4> QED BY <4>1 DEF NoEviction
    <3>2. \A q \in Queries : pc'[q] \in {"start", "discard", "reject"} <=>
                                pc[q] \in {"start", "discard", "reject"}
      BY <1>3, <2>1
    <3> QED BY <1>1, <2>1, <3>1, <3>2, Members, MembersNext
  <2>4. Reservations' = Reservations \ {h}
    BY <2>3
  <2> QED BY <1>1, <2>1, <2>2, <2>4, LedgerReleased
<1> QED BY <1>4, <1>5, <1>6, <1>7, <1>8 DEF Evict, EvictShutdown

(* The other steps of a query.                                                *)
LEMMA OtherQueryLedger ==
    ASSUME PoolInv, LedgerInv, NEW q \in Queries,
           \/ Admit(q) \/ ActivateCheck(q) \/ Lookup(q) \/ ReserveCheck(q) \/ ReserveByEviction(q)
           \/ ReserveFails(q) \/ DropLease(q) \/ Return(q) \/ \E s \in Slots : Request(q, s)
    PROVE  LedgerInv'
<1>1. /\ pc \in [Queries -> Places] /\ slot \in [Slots -> Runtimes] /\ on \in [Queries -> Slots]
      /\ q \in Evictors /\ on[q] \in Slots
  BY Types, Threads
<1>2. UNCHANGED ledgerVars
  BY DEF Admit, ActivateCheck, Lookup, ReserveCheck, ReserveByEviction, ReserveFails, DropLease, Return,
         Request
<1>3. \A s \in Slots : slot'[s].provider <=> slot[s].provider
  <2>1. CASE Lookup(q)
    BY <1>1, <2>1 DEF Lookup, Runtimes
  <2>2. CASE ReserveFails(q)
    BY <1>1, <2>2 DEF ReserveFails, Unclaimed, Runtimes
  <2>3. CASE DropLease(q)
    BY <1>1, <2>3 DEF DropLease, Runtimes
  <2>4. CASE UNCHANGED slot
    BY <2>4
  <2> QED BY <2>1, <2>2, <2>3, <2>4 DEF Admit, ActivateCheck, ReserveCheck, ReserveByEviction, Return,
                                        Request
<1>4. PICK p \in Places \ {"start", "discard", "reject"} : pc' = [pc EXCEPT ![q] = p]
  BY DEF Admit, ActivateCheck, Lookup, ReserveCheck, ReserveByEviction, ReserveFails, DropLease, Return,
         Request, Go, Places
<1>5. ~Held(q)
  BY DEF Admit, ActivateCheck, Lookup, ReserveCheck, ReserveByEviction, ReserveFails, DropLease, Return,
         Request, Held
<1>6. \A r \in Queries : r # q => on'[r] = on[r]
  <2>1. CASE \E s \in Slots : Request(q, s)
    BY <1>1, <2>1 DEF Request
  <2>2. CASE Forget(q)
    BY <1>1, <2>2, Forgotten
  <2>3. CASE UNCHANGED on
    BY <2>3
  <2> QED BY <2>1, <2>2, <2>3 DEF Admit, ActivateCheck, Lookup, ReserveCheck, ReserveByEviction,
                                  ReserveFails, DropLease, Return
<1>7. \A b \in Evictors : /\ eviction'[b].stage \in {"shutdown", "release"} <=>
                               eviction[b].stage \in {"shutdown", "release"}
                          /\ eviction[b].stage \in {"shutdown", "release"} =>
                               eviction'[b].victim = eviction[b].victim
  <2>1. CASE ReserveByEviction(q)
    <3>1. PICK v \in Slots : eviction' = [eviction EXCEPT ![q] = [victim |-> v, stage |-> "take"]]
      BY <2>1 DEF ReserveByEviction, Victims
    <3>2. eviction[q].stage = "none"
      BY <2>1 DEF ReserveByEviction, PoolInv, ActorInv, NoEviction
    <3> QED BY <1>1, <3>1, <3>2, Types
  <2>2. CASE UNCHANGED eviction
    BY <2>2
  <2> QED BY <2>1, <2>2 DEF Admit, ActivateCheck, Lookup, ReserveCheck, ReserveFails, DropLease, Return,
                            Request
<1>8. \A r \in Queries : /\ pc'[r] \in {"start", "discard", "reject"} <=>
                              pc[r] \in {"start", "discard", "reject"}
                         /\ pc[r] \in {"start", "discard", "reject"} => on'[r] = on[r]
  BY <1>1, <1>4, <1>5, <1>6 DEF Held
<1> QED BY <1>2, <1>3, <1>7, <1>8, LedgerUnchanged

(* The other actors.                                                          *)
LEMMA OtherLedger ==
    ASSUME PoolInv, LedgerInv,
           \/ \E w \in Workspaces : BindWorkspace(w)
           \/ \E s \in Slots : BackoffExpires(s) \/ Reap(s)
           \/ StartPass \/ Shutdown \/ Drain \/ Sweep \/ UNCHANGED vars
    PROVE  LedgerInv'
<1>1. slot \in [Slots -> Runtimes] /\ UNCHANGED <<ledgerVars, pc, on>>
  BY Types DEF BindWorkspace, BackoffExpires, Reap, StartPass, Shutdown, Drain, Sweep, vars, ledgerVars
<1>2. \A s \in Slots : slot'[s].provider <=> slot[s].provider
  <2>1. CASE \E s \in Slots : BackoffExpires(s)
    BY <1>1, <2>1 DEF BackoffExpires, Runtimes
  <2>2. CASE UNCHANGED slot
    BY <2>2
  <2> QED BY <2>1, <2>2 DEF BindWorkspace, Reap, StartPass, Shutdown, Drain, Sweep, vars
<1>3. \A b \in Evictors : /\ eviction'[b].stage \in {"shutdown", "release"} <=>
                               eviction[b].stage \in {"shutdown", "release"}
                          /\ eviction[b].stage \in {"shutdown", "release"} =>
                               eviction'[b].victim = eviction[b].victim
  <2>1. CASE \E a \in Evictors : \E s : eviction[a] = NoEviction
                  /\ eviction' = [eviction EXCEPT ![a] = [victim |-> s, stage |-> "take"]]
    BY <2>1, Types DEF NoEviction
  <2>2. CASE UNCHANGED eviction
    BY <2>2
  <2>3. CASE \E s \in Slots : Reap(s)
    BY <2>1, <2>2, <2>3, Threads DEF Reap
  <2>4. CASE Sweep
    BY <2>1, <2>2, <2>4, Threads DEF Sweep
  <2> QED BY <2>2, <2>3, <2>4 DEF BindWorkspace, BackoffExpires, StartPass, Shutdown, Drain, vars
<1> QED BY <1>1, <1>2, <1>3, LedgerUnchanged

LEMMA LedgerInit == Init => LedgerInv
<1> SUFFICES ASSUME Init PROVE LedgerInv
  OBVIOUS
<1>1. Reservations = {}
  <2>1. \A x : x \notin Reservations
    BY Members DEF Init, Empty, NoEviction
  <2> QED BY <2>1
<1>2. \A w : ReservationsOf(w) = {}
  BY <1>1 DEF ReservationsOf
<1>3. MaxActive \in Nat /\ MaxWorkspaceActive \in Nat
  BY ProviderPoolAssumption
<1>4. total.active = 0 /\ \A w \in Workspaces : usage[w].active = 0
  BY DEF Init
<1>5. IsFiniteSet({}) /\ Cardinality({}) = 0
  BY FS_EmptySet
<1>6. MemoryInv
  <2>1. MemoryOf({}) = 0
    <3> DEFINE f == [h \in {} |-> Reservation[h[3]]]
    <3>1. DOMAIN f = {}
      OBVIOUS
    <3> HIDE DEF f
    <3>2. Sum(f) = 0
      BY <1>5, <3>1, SumIs, SumsUnfold
    <3> QED BY <3>2 DEF f, MemoryOf
  <2>2. MaxMemory \in Nat /\ MaxWorkspaceMemory \in Nat
    BY ProviderPoolAssumption
  <2>3. total.memory = 0 /\ \A w \in Workspaces : usage[w].memory = 0
    BY DEF Init
  <2> QED BY <1>1, <1>2, <2>1, <2>2, <2>3 DEF MemoryInv
<1> QED BY <1>1, <1>2, <1>3, <1>4, <1>5, <1>6 DEF LedgerInv

LEMMA LedgerNext == PoolInv /\ LedgerInv /\ [Next]_vars => LedgerInv'
<1> SUFFICES ASSUME PoolInv, LedgerInv, [Next]_vars
             PROVE  LedgerInv'
  OBVIOUS
<1>1. CASE \E q \in Queries : Query(q) \/ \E s \in Slots : Request(q, s)
  BY <1>1, ReserveLedger, StartLedger, DiscardLedger, EvictLedger, OtherQueryLedger, Threads DEF Query
<1>2. CASE Reaper
  BY <1>2, EvictLedger, OtherLedger, Threads DEF Reaper
<1>3. CASE Owner
  BY <1>3, EvictLedger, OtherLedger, Threads DEF Owner
<1>4. CASE \/ \E w \in Workspaces : BindWorkspace(w)
           \/ \E s \in Slots : BackoffExpires(s)
           \/ StartPass \/ Shutdown \/ UNCHANGED vars
  BY <1>4, OtherLedger
<1> QED BY <1>1, <1>2, <1>3, <1>4 DEF Next

LEMMA LedgerInvariant == Spec => []LedgerInv
<1> QED BY LedgerInit, LedgerNext, PoolInvariant, PTL DEF Spec


-----------------------------------------------------------------------------
(* From reservations to children.                                             *)

(* A child is in its slot or in the hands of a thread, and whoever has it has  *)
(* the reservation.                                                           *)
LEMMA ChildIsReserved ==
    ASSUME PoolInv, NEW s \in Slots, processes[s] # 0
    PROVE  \E h \in Reservations : h[3] = s
<1>1. \/ slot[s].provider
      \/ \E q \in Queries : on[q] = s /\ pc[q] \in {"discard", "reject"}
      \/ \E a \in Evictors : Evicting(a, s)
  BY DEF PoolInv, ChildInv
<1>2. CASE slot[s].provider
  <2>1. <<"slot", s, s>> \in Reservations
    BY <1>2, Members
  <2> QED BY <2>1
<1>3. CASE \E q \in Queries : on[q] = s /\ pc[q] \in {"discard", "reject"}
  <2>1. PICK q \in Queries : on[q] = s /\ pc[q] \in {"discard", "reject"}
    BY <1>3
  <2>2. <<"query", q, on[q]>> \in Reservations
    BY <2>1, Members
  <2> QED BY <2>1, <2>2
<1>4. CASE \E a \in Evictors : Evicting(a, s)
  <2>1. PICK a \in Evictors : Evicting(a, s)
    BY <1>4
  <2>2. <<"evict", a, eviction[a].victim>> \in Reservations
    BY <2>1, Members DEF Evicting
  <2> QED BY <2>1, <2>2 DEF Evicting
<1> QED BY <1>1, <1>2, <1>3, <1>4

(* So there are no more children than reservations.                           *)
LEMMA ChildrenAreReserved ==
    ASSUME PoolInv, LedgerInv, NEW A \in SUBSET Slots, NEW R \in SUBSET Reservations,
           \A s \in A : processes[s] # 0, \A h \in Reservations : h[3] \in A => h \in R
    PROVE  Cardinality(A) <= Cardinality(R) /\ IsFiniteSet(A)
<1>1. \A s \in A : \E h \in R : h[3] = s
  BY ChildIsReserved
<1> DEFINE token == [s \in A |-> CHOOSE h \in R : h[3] = s]
<1>2. \A s \in A : token[s] \in R /\ token[s][3] = s
  BY <1>1
<1>3. token \in Injection(A, R)
  BY <1>2 DEF Injection, IsInjective
<1>4. IsFiniteSet(R)
  BY FS_Subset DEF LedgerInv
<1> QED BY <1>3, <1>4, FS_Injection

(* One child each: whoever has the child of a slot is alone with it.          *)
LEMMA OneChildEach ==
    ASSUME PoolInv, NEW s \in Slots
    PROVE  processes[s] <= 1
<1>1. ASSUME NEW q \in Queries, on[q] = s, pc[q] \in {"discard", "reject"}
      PROVE  processes[s] = 1
  BY <1>1 DEF PoolInv, DiscardInv, ClaimInv, Claiming, Claims
<1>2. ASSUME NEW a \in Evictors, Evicting(a, s)
      PROVE  processes[s] = 1
  BY <1>2 DEF PoolInv, EvictInv
<1>3. processes[s] # 0 => processes[s] = 1
  BY <1>1, <1>2 DEF PoolInv, ChildInv
<1> QED BY <1>3

(* However activations, evictions and failed shutdowns interleave, a slot has  *)
(* at most one child and the slots that have one are within the limits, for   *)
(* the pool and for each workspace (reserve_capacity, release_reservation).   *)
THEOREM LimitsHold == Spec => []ChildrenWithinLimits
<1>1. PoolInv /\ LedgerInv => ChildrenWithinLimits
  <2> SUFFICES ASSUME PoolInv, LedgerInv
               PROVE  ChildrenWithinLimits
    OBVIOUS
  <2>1. \A A \in SUBSET Slots : (\A s \in A : processes[s] # 0) =>
            IsFiniteSet(A) /\ Cardinality(A) \in Nat
    BY ChildrenAreReserved, FS_CardinalityType
  <2>2. MaxActive \in Nat /\ MaxWorkspaceActive \in Nat
    BY ProviderPoolAssumption
  <2>3. Cardinality({s \in Slots : processes[s] # 0}) <= MaxActive
    <3> DEFINE A == {s \in Slots : processes[s] # 0}
    <3>1. A \in SUBSET Slots /\ \A s \in A : processes[s] # 0
      OBVIOUS
    <3> HIDE DEF A
    <3>2. Reservations \in SUBSET Reservations
      OBVIOUS
    <3>3. Cardinality(A) <= Cardinality(Reservations)
      BY <3>1, <3>2, ChildrenAreReserved
    <3>4. /\ total.active = Cardinality(Reservations) /\ total.active <= MaxActive
          /\ Cardinality(Reservations) \in Nat /\ Cardinality(A) \in Nat
      BY <2>1, <3>1, FS_CardinalityType DEF LedgerInv
    <3>5. Cardinality(A) <= MaxActive
      BY <2>2, <3>3, <3>4
    <3> QED BY <3>5 DEF A
  <2>4. ASSUME NEW w \in Workspaces
        PROVE  Cardinality({s \in Slots : processes[s] # 0 /\ WorkspaceOf[s] = w}) <= MaxWorkspaceActive
    <3> DEFINE A == {s \in Slots : processes[s] # 0 /\ WorkspaceOf[s] = w}
    <3>1. A \in SUBSET Slots /\ \A s \in A : processes[s] # 0
      OBVIOUS
    <3>2. ReservationsOf(w) \in SUBSET Reservations
          /\ \A h \in Reservations : h[3] \in A => h \in ReservationsOf(w)
      BY DEF ReservationsOf
    <3> HIDE DEF A
    <3>3. Cardinality(A) <= Cardinality(ReservationsOf(w))
      BY <3>1, <3>2, ChildrenAreReserved
    <3>4. IsFiniteSet(ReservationsOf(w))
      BY <3>2, FS_Subset DEF LedgerInv
    <3>5. /\ usage[w].active = Cardinality(ReservationsOf(w)) /\ usage[w].active <= MaxWorkspaceActive
          /\ Cardinality(ReservationsOf(w)) \in Nat /\ Cardinality(A) \in Nat
      BY <2>1, <3>1, <3>4, FS_CardinalityType DEF LedgerInv
    <3>6. Cardinality(A) <= MaxWorkspaceActive
      BY <2>2, <3>3, <3>5
    <3> QED BY <3>6 DEF A
  <2>5. \A s \in Slots : processes[s] <= 1
    BY OneChildEach
  <2> QED BY <2>3, <2>4, <2>5 DEF ChildrenWithinLimits
<1> QED BY <1>1, PoolInvariant, LedgerInvariant, PTL

-----------------------------------------------------------------------------
(* The memory of the children.                                                *)

(* A slot sets aside nothing, or what it reserves.                            *)
LEMMA MemoryOfChild ==
    ASSUME PoolInv, NEW s \in Slots
    PROVE  processes[s] * Reservation[s] = IF processes[s] = 0 THEN 0 ELSE Reservation[s]
<1>1. processes[s] \in Nat /\ processes[s] <= 1 /\ Reservation[s] \in Nat
  BY Types, OneChildEach, ReservationsNatural
<1>2. processes[s] = 0 \/ processes[s] = 1
  BY <1>1
<1>3. 0 * Reservation[s] = 0 /\ 1 * Reservation[s] = Reservation[s]
  BY <1>1
<1> QED BY <1>2, <1>3

LEMMA ChildMemory ==
    ASSUME PoolInv, LedgerInv, NEW A \in SUBSET Slots, NEW R \in SUBSET Reservations,
           \A h \in Reservations : h[3] \in A => h \in R
    PROVE  Sum([s \in A |-> processes[s] * Reservation[s]]) <= MemoryOf(R)
<1> DEFINE f == [s \in A |-> processes[s] * Reservation[s]]
           m == [h \in R |-> Reservation[h[3]]]
           place == [h \in R |-> h[3]]
<1>1. IsFiniteSet(A) /\ IsFiniteSet(R)
  BY FS_Subset, ProviderPoolAssumption DEF LedgerInv
<1>2. \A s \in A : f[s] = IF processes[s] = 0 THEN 0 ELSE Reservation[s]
  BY MemoryOfChild
<1>3. f \in [A -> Nat]
  BY <1>2, ReservationsNatural
<1>4. m \in [R -> Nat]
  BY ReservationsNatural DEF LedgerInv, MemoryInv
<1>5. ASSUME NEW s \in A, f[s] # 0
      PROVE  \E h \in R : place[h] = s /\ f[s] <= m[h]
  <2>1. PICK h \in Reservations : h[3] = s
    BY <1>2, <1>5, ChildIsReserved
  <2>2. h \in R /\ f[s] = Reservation[s]
    BY <1>2, <1>5, <2>1
  <2>3. Reservation[s] \in Nat
    BY ReservationsNatural
  <2> QED BY <2>1, <2>2, <2>3
<1> HIDE DEF f, m, place
<1>6. Sum(f) <= Sum(m)
  BY <1>1, <1>3, <1>4, <1>5, SumsCovered
<1> QED BY <1>6 DEF f, m, MemoryOf

(* The memory set aside for the children alive stays within the pool's limit  *)
(* and within each workspace's (reserve_capacity, the saturating              *)
(* release_reservation).                                                      *)
THEOREM MemoryHolds == Spec => []MemoryWithinLimits
<1>1. PoolInv /\ LedgerInv => MemoryWithinLimits
  <2> SUFFICES ASSUME PoolInv, LedgerInv
               PROVE  MemoryWithinLimits
    OBVIOUS
  <2> DEFINE memory(A) == Sum([s \in A |-> processes[s] * Reservation[s]])
  <2>1. MaxMemory \in Nat /\ MaxWorkspaceMemory \in Nat /\ total.memory \in Nat
        /\ \A w \in Workspaces : usage[w].memory \in Nat
    BY ProviderPoolAssumption DEF PoolInv, TypeOK, Usages
  <2>2. memory(Slots) <= MaxMemory
    <3>1. memory(Slots) <= MemoryOf(Reservations)
      BY ChildMemory
    <3>2. MemoryOf(Reservations) = total.memory /\ total.memory <= MaxMemory
      BY DEF LedgerInv, MemoryInv
    <3>3. memory(Slots) \in Nat
      <4>1. [s \in Slots |-> processes[s] * Reservation[s]] \in [Slots -> Nat]
        BY MemoryOfChild, ReservationsNatural
      <4> QED BY <4>1, SumNatural, ProviderPoolAssumption
    <3> HIDE DEF memory
    <3> QED BY <2>1, <3>1, <3>2, <3>3
  <2>3. ASSUME NEW w \in Workspaces
        PROVE  memory({s \in Slots : WorkspaceOf[s] = w}) <= MaxWorkspaceMemory
    <3> DEFINE A == {s \in Slots : WorkspaceOf[s] = w}
    <3>1. memory(A) <= MemoryOf(ReservationsOf(w))
      <4>1. A \in SUBSET Slots /\ ReservationsOf(w) \in SUBSET Reservations
            /\ \A h \in Reservations : h[3] \in A => h \in ReservationsOf(w)
        BY DEF ReservationsOf
      <4> HIDE DEF A
      <4> QED BY <4>1, ChildMemory
    <3>2. MemoryOf(ReservationsOf(w)) = usage[w].memory /\ usage[w].memory <= MaxWorkspaceMemory
      BY DEF LedgerInv, MemoryInv
    <3>3. memory(A) \in Nat
      <4>1. A \in SUBSET Slots /\ IsFiniteSet(A)
        BY FS_Subset, ProviderPoolAssumption
      <4> HIDE DEF A
      <4>2. [s \in A |-> processes[s] * Reservation[s]] \in [A -> Nat]
        BY <4>1, MemoryOfChild, ReservationsNatural
      <4> QED BY <4>1, <4>2, SumNatural
    <3> HIDE DEF memory
    <3> QED BY <2>1, <3>1, <3>2, <3>3
  <2> QED BY <2>2, <2>3 DEF MemoryWithinLimits
<1> QED BY <1>1, PoolInvariant, LedgerInvariant, PTL

-----------------------------------------------------------------------------
(* No flag is left behind.                                                    *)

Claimed(s) ==
    \/ \E q \in Queries : on[q] = s /\ pc[q] \in Claims
    \/ \E a \in Evictors : Evicting(a, s)

(* A step of q that takes part in no lease, and gives its claim up only with   *)
(* the flag.                                                                  *)
LEMMA QueryFlags ==
    ASSUME PoolInv, FlagsInv, NEW q \in Queries, NEW p, pc' = [pc EXCEPT ![q] = p],
           UNCHANGED eviction, pc[q] # "leased", p # "leased",
           \A r \in Queries : r # q \/ p # "idle" => on'[r] = on[r],
           \A s \in Slots \ {on[q]} : slot'[s] = slot[s],
           slot'[on[q]].inFlight = slot[on[q]].inFlight,
           slot'[on[q]].activating =>
               p \in Claims \/ (pc[q] \notin Claims /\ slot[on[q]].activating)
    PROVE  FlagsInv'
<1>1. (\A r \in Queries : pc'[r] = IF r = q THEN p ELSE pc[r]) /\ on[q] \in Slots
  BY Types
<1>2. \A s : Leases(s)' = Leases(s)
  BY <1>1 DEF Leases
<1>3. \A a, s : Evicting(a, s)' <=> Evicting(a, s)
  BY DEF Evicting
<1>4. ASSUME NEW s \in Slots, slot'[s].activating
      PROVE  Claimed(s)'
  <2>1. CASE s # on[q]
    <3>1. slot[s].activating
      BY <1>4, <2>1
    <3> QED BY <1>1, <1>3, <2>1, <3>1 DEF FlagsInv, Claimed
  <2>2. CASE s = on[q] /\ p \in Claims
    <3>1. p # "idle"
      BY <2>2 DEF Claims
    <3>2. on'[q] = s /\ pc'[q] \in Claims
      BY <1>1, <2>2, <3>1
    <3> QED BY <3>2 DEF Claimed
  <2>3. CASE s = on[q] /\ pc[q] \notin Claims /\ slot[s].activating
    BY <1>1, <1>3, <2>3 DEF FlagsInv, Claimed
  <2> QED BY <1>4, <2>1, <2>2, <2>3
<1>5. \A s \in Slots : slot'[s].inFlight = Cardinality(Leases(s)')
  BY <1>2 DEF FlagsInv
<1> QED BY <1>4, <1>5 DEF FlagsInv, Claimed

LEMMA ActivationFlags ==
    ASSUME PoolInv, FlagsInv, NEW q \in Queries,
           \/ Admit(q) \/ ActivateCheck(q) \/ ReserveCheck(q) \/ Reserve(q) \/ ReserveFails(q)
           \/ StartIncompatible(q) \/ StartFails(q) \/ Discard(q) \/ Return(q)
    PROVE  FlagsInv'
<1>1. slot \in [Slots -> Runtimes] /\ on[q] \in Slots /\ slot[on[q]] \in Runtimes
  BY Types
<1>2. CASE Admit(q) \/ ActivateCheck(q) \/ Return(q)
  <2>1. PICK p \in {"idle", "activate", "return", "lookup"} : pc' = [pc EXCEPT ![q] = p]
    BY <1>2 DEF Admit, ActivateCheck, Return, Go
  <2>2. pc[q] \in {"admit", "activate", "return"} /\ UNCHANGED <<slot, eviction>>
    BY <1>2 DEF Admit, ActivateCheck, Return
  <2>3. \A r \in Queries : r # q \/ p # "idle" => on'[r] = on[r]
    <3>1. CASE Forget(q) /\ Go(q, "idle")
      <4>1. p = "idle"
        BY <2>1, <3>1, Types DEF Go
      <4> QED BY <3>1, <4>1, Types, Forgotten
    <3>2. CASE UNCHANGED on
      BY <3>2
    <3> QED BY <1>2, <3>1, <3>2 DEF Admit, ActivateCheck, Return
  <2> QED BY <2>1, <2>2, <2>3, QueryFlags DEF Claims
<1>3. CASE ReserveCheck(q) \/ Reserve(q) \/ StartIncompatible(q)
  <2>1. PICK p \in {"charge", "start", "reject"} : pc' = [pc EXCEPT ![q] = p]
    BY <1>3 DEF ReserveCheck, Reserve, StartIncompatible, Go
  <2>2. pc[q] \in {"reserve", "charge", "start"} /\ UNCHANGED <<slot, on, eviction>>
    BY <1>3 DEF ReserveCheck, Reserve, StartIncompatible
  <2> QED BY <2>1, <2>2, QueryFlags DEF Claims
<1>4. CASE ReserveFails(q) \/ StartFails(q)
  <2>1. /\ pc' = [pc EXCEPT ![q] = "return"] /\ UNCHANGED <<on, eviction>>
        /\ pc[q] \in {"reserve", "charge", "refused", "start"}
    BY <1>4 DEF ReserveFails, StartFails, Go
  <2>2. /\ \A s \in Slots \ {on[q]} : slot'[s] = slot[s]
        /\ ~slot'[on[q]].activating /\ slot'[on[q]].inFlight = slot[on[q]].inFlight
    <3>1. CASE ReserveFails(q)
      BY <1>1, <3>1 DEF ReserveFails, Unclaimed, Runtimes
    <3>2. CASE StartFails(q)
      <4>1. PICK aborted \in BOOLEAN :
              slot' = [slot EXCEPT ![on[q]] = [[[slot[on[q]] EXCEPT !.activating = FALSE]
                         EXCEPT !.error = ~aborted]
                         EXCEPT !.backoff = IF aborted THEN slot[on[q]].backoff ELSE TRUE]]
        BY <1>1, <3>2 DEF StartFails, Runtimes
      <4>2. \A s \in Slots \ {on[q]} : slot'[s] = slot[s]
        BY <1>1, <4>1
      <4>3. slot'[on[q]] = [[[slot[on[q]] EXCEPT !.activating = FALSE]
                         EXCEPT !.error = ~aborted]
                         EXCEPT !.backoff = IF aborted THEN slot[on[q]].backoff ELSE TRUE]
        BY <1>1, <4>1
      <4> QED BY <1>1, <4>2, <4>3 DEF Runtimes
    <3> QED BY <1>4, <3>1, <3>2
  <2> QED BY <2>1, <2>2, QueryFlags
<1>5. CASE Discard(q)
  <2>1. /\ pc' = [pc EXCEPT ![q] = "return"] /\ UNCHANGED <<on, eviction>>
        /\ pc[q] \in {"discard", "reject"}
    BY <1>5 DEF Discard, Go
  <2>2. /\ \A s \in Slots \ {on[q]} : slot'[s] = slot[s]
        /\ slot'[on[q]].inFlight = slot[on[q]].inFlight
        /\ slot'[on[q]].activating => pc[q] = "discard" /\ slot[on[q]].activating
    BY <1>1, <1>5 DEF Discard, Runtimes
  <2> QED BY <2>1, <2>2, QueryFlags DEF Claims
<1> QED BY <1>2, <1>3, <1>4, <1>5

(* A lease is taken: by a lookup, or with the provider that was started.      *)
LEMMA LeaseFlags ==
    ASSUME PoolInv, FlagsInv, NEW q \in Queries, pc[q] # "leased", pc' = [pc EXCEPT ![q] = "leased"],
           UNCHANGED <<on, eviction>>, \A s \in Slots \ {on[q]} : slot'[s] = slot[s],
           slot'[on[q]].inFlight = slot[on[q]].inFlight + 1,
           slot'[on[q]].activating => pc[q] \notin Claims /\ slot[on[q]].activating
    PROVE  FlagsInv'
<1> DEFINE s == on[q]
<1>1. (\A r \in Queries : pc'[r] = IF r = q THEN "leased" ELSE pc[r]) /\ s \in Slots
  BY Types
<1>2. Leases(s)' = Leases(s) \union {q} /\ q \notin Leases(s)
  BY <1>1 DEF Leases
<1>3. \A t \in Slots \ {s} : Leases(t)' = Leases(t)
  BY <1>1 DEF Leases
<1>4. Cardinality(Leases(s)') = Cardinality(Leases(s)) + 1
  BY <1>2, FiniteSets, FS_AddElement
<1>5. \A t \in Slots : slot'[t].inFlight = Cardinality(Leases(t)')
  BY <1>1, <1>3, <1>4 DEF FlagsInv
<1>6. \A a, t : Evicting(a, t)' <=> Evicting(a, t)
  BY DEF Evicting
<1>7. ASSUME NEW t \in Slots, slot'[t].activating
      PROVE  Claimed(t)'
  <2>1. slot[t].activating /\ (t = s => pc[q] \notin Claims)
    BY <1>7
  <2> QED BY <1>1, <1>6, <2>1 DEF FlagsInv, Claimed
<1> QED BY <1>5, <1>7 DEF FlagsInv, Claimed

LEMMA LookupFlags ==
    ASSUME PoolInv, FlagsInv, NEW q \in Queries, Lookup(q)
    PROVE  FlagsInv'
<1>1. /\ slot \in [Slots -> Runtimes] /\ on[q] \in Slots /\ slot[on[q]] \in Runtimes
      /\ pc[q] = "lookup" /\ UNCHANGED <<on, eviction>>
  BY Types DEF Lookup
<1>2. CASE Go(q, "reserve") /\ slot' = [slot EXCEPT ![on[q]].activating = TRUE]
  <2>1. /\ \A s \in Slots \ {on[q]} : slot'[s] = slot[s]
        /\ slot'[on[q]].inFlight = slot[on[q]].inFlight
    BY <1>1, <1>2 DEF Runtimes
  <2> QED BY <1>1, <1>2, <2>1, QueryFlags DEF Go, Claims
<1>3. CASE Go(q, "leased") /\ slot' = [slot EXCEPT ![on[q]].inFlight = @ + 1]
  <2>1. /\ \A s \in Slots \ {on[q]} : slot'[s] = slot[s]
        /\ slot'[on[q]].inFlight = slot[on[q]].inFlight + 1
        /\ slot'[on[q]].activating = slot[on[q]].activating
    BY <1>1, <1>3 DEF Runtimes
  <2> QED BY <1>1, <1>3, <2>1, LeaseFlags DEF Go, Claims
<1>4. CASE (Go(q, "return") \/ Go(q, "activate")) /\ UNCHANGED slot
  <2>1. PICK p \in {"return", "activate"} : pc' = [pc EXCEPT ![q] = p]
    BY <1>4 DEF Go
  <2> QED BY <1>1, <1>4, <2>1, QueryFlags DEF Claims
<1> QED BY <1>2, <1>3, <1>4 DEF Lookup

LEMMA StartSucceedsFlags ==
    ASSUME PoolInv, FlagsInv, NEW q \in Queries, StartSucceeds(q)
    PROVE  FlagsInv'
<1> DEFINE s == on[q]
<1>1. /\ slot \in [Slots -> Runtimes] /\ s \in Slots /\ slot[s] \in Runtimes
      /\ pc[q] = "start" /\ UNCHANGED <<on, eviction>>
  BY Types DEF StartSucceeds
<1>2. CASE stopped
  <2>1. slot' = [slot EXCEPT ![s] = [slot[s] EXCEPT !.activating = FALSE]]
        /\ pc' = [pc EXCEPT ![q] = "discard"]
    BY <1>2 DEF StartSucceeds, Go
  <2>2. /\ \A t \in Slots \ {s} : slot'[t] = slot[t]
        /\ ~slot'[s].activating /\ slot'[s].inFlight = slot[s].inFlight
    BY <1>1, <2>1 DEF Runtimes
  <2> QED BY <1>1, <2>1, <2>2, QueryFlags
<1>3. CASE ~stopped
  <2>1. slot' = [slot EXCEPT ![s] = [provider |-> TRUE, activating |-> FALSE, inFlight |-> 1,
                                     error |-> FALSE, backoff |-> FALSE]]
        /\ pc' = [pc EXCEPT ![q] = "leased"]
    BY <1>3 DEF StartSucceeds, Go
  <2>2. ~slot[s].provider
    BY <1>1 DEF PoolInv, ClaimInv, Claiming, Claims
  <2>3. owner = "serving"
    BY <1>3 DEF PoolInv, SweepInv
  <2>4. Leases(s) = {} /\ slot[s].inFlight = Cardinality(Leases(s))
    BY <1>1, <2>2, <2>3 DEF PoolInv, LeaseInv
  <2>5. slot[s].inFlight = 0
    BY <2>4, FS_EmptySet
  <2>6. /\ \A t \in Slots \ {s} : slot'[t] = slot[t]
        /\ ~slot'[s].activating /\ slot'[s].inFlight = slot[s].inFlight + 1
    BY <1>1, <2>1, <2>5
  <2> QED BY <1>1, <2>1, <2>6, LeaseFlags
<1> QED BY <1>2, <1>3

LEMMA DropLeaseFlags ==
    ASSUME PoolInv, FlagsInv, NEW q \in Queries, DropLease(q)
    PROVE  FlagsInv'
<1>0. PICK s \in Slots : s = on[q]
  BY Types
<1>1. /\ slot \in [Slots -> Runtimes] /\ s = on[q] /\ slot[s] \in Runtimes
      /\ \A r \in Queries : pc'[r] = IF r = q THEN "return" ELSE pc[r]
      /\ pc[q] = "leased" /\ UNCHANGED <<on, eviction>>
  BY <1>0, Types DEF DropLease, Go
<1>2. /\ \A t \in Slots \ {s} : slot'[t] = slot[t]
      /\ slot'[s].activating = slot[s].activating
      /\ slot'[s].inFlight = IF slot[s].inFlight > 0 THEN slot[s].inFlight - 1 ELSE 0
  BY <1>1 DEF DropLease, Runtimes
<1>3. Leases(s)' = Leases(s) \ {q} /\ q \in Leases(s)
  BY <1>1 DEF Leases
<1>4. \A t \in Slots \ {s} : Leases(t)' = Leases(t)
  BY <1>1 DEF Leases
<1>5. /\ Cardinality(Leases(s)') = Cardinality(Leases(s)) - 1 /\ Cardinality(Leases(s)') \in Nat
      /\ Cardinality(Leases(s)) \in Nat
  BY <1>3, FiniteSets, FS_RemoveElement, FS_CardinalityType
<1>6. slot[s].inFlight = Cardinality(Leases(s))
  BY <1>1 DEF FlagsInv
<1>7. slot'[s].inFlight = Cardinality(Leases(s)')
  BY <1>2, <1>5, <1>6
<1>8. ASSUME NEW t \in Slots
      PROVE  slot'[t].inFlight = Cardinality(Leases(t)')
  <2>1. CASE t = s
    BY <1>7, <2>1
  <2>2. CASE t # s
    BY <1>2, <1>4, <2>2 DEF FlagsInv
  <2> QED BY <2>1, <2>2
<1>9. \A a, t : Evicting(a, t)' <=> Evicting(a, t)
  BY <1>1 DEF Evicting
<1>10. ASSUME NEW t \in Slots, slot'[t].activating
       PROVE  Claimed(t)'
  <2>1. slot[t].activating
    BY <1>2, <1>10
  <2> QED BY <1>1, <1>9, <2>1 DEF FlagsInv, Claimed, Claims
<1> QED BY <1>8, <1>10 DEF FlagsInv, Claimed

(* Who waits for its turn or is chosen as a victim disturbs no flag.          *)
LEMMA OtherFlags ==
    ASSUME PoolInv, FlagsInv,
           \/ \E q \in Queries : ReserveByEviction(q) \/ \E s \in Slots : Request(q, s)
           \/ \E w \in Workspaces : BindWorkspace(w)
           \/ \E s \in Slots : BackoffExpires(s) \/ Reap(s)
           \/ StartPass \/ Shutdown \/ Drain \/ Sweep \/ UNCHANGED vars
    PROVE  FlagsInv'
<1>1. slot \in [Slots -> Runtimes] /\ pc \in [Queries -> Places] /\ on \in [Queries -> Slots]
  BY Types
<1>2. \A s \in Slots : /\ slot'[s].activating = slot[s].activating
                       /\ slot'[s].inFlight = slot[s].inFlight
  <2>1. CASE \E s \in Slots : BackoffExpires(s)
    BY <1>1, <2>1 DEF BackoffExpires, Runtimes
  <2>2. CASE UNCHANGED slot
    BY <2>2
  <2> QED BY <2>1, <2>2 DEF ReserveByEviction, Request, BindWorkspace, Reap, StartPass, Shutdown, Drain,
                            Sweep, vars
<1>3. \A r \in Queries : /\ pc[r] \in Claims \union {"leased"} => on'[r] = on[r]
                         /\ pc[r] \in Claims => pc'[r] \in Claims
                         /\ pc'[r] = "leased" <=> pc[r] = "leased"
  <2>1. CASE \E q \in Queries : ReserveByEviction(q)
    <3>1. PICK q \in Queries : pc[q] = "charge" /\ pc' = [pc EXCEPT ![q] = "evict"] /\ on' = on
      BY <2>1 DEF ReserveByEviction, Go
    <3> QED BY <1>1, <3>1 DEF Claims
  <2>2. CASE \E q \in Queries, s \in Slots : Request(q, s)
    <3>1. PICK q \in Queries, s \in Slots : pc[q] = "idle" /\ pc' = [pc EXCEPT ![q] = "admit"]
                                            /\ on' = [on EXCEPT ![q] = s]
      BY <2>2 DEF Request, Go
    <3> QED BY <1>1, <3>1 DEF Claims
  <2>3. CASE UNCHANGED <<pc, on>>
    BY <2>3
  <2> QED BY <2>1, <2>2, <2>3 DEF BindWorkspace, BackoffExpires, Reap, StartPass, Shutdown, Drain, Sweep,
                                  vars
<1>4. \A a \in Evictors : \A s \in Slots : Evicting(a, s) => Evicting(a, s)'
  <2>1. CASE \E a \in Evictors : \E s : eviction[a] = NoEviction
                  /\ eviction' = [eviction EXCEPT ![a] = [victim |-> s, stage |-> "take"]]
    BY <2>1, Types DEF NoEviction, Evicting
  <2>2. CASE UNCHANGED eviction
    BY <2>2 DEF Evicting
  <2>3. CASE \E q \in Queries : ReserveByEviction(q)
    <3>1. PICK q \in Queries : ReserveByEviction(q)
      BY <2>3
    <3>2. q \in Evictors /\ eviction[q] = NoEviction
      BY <3>1, Threads DEF ReserveByEviction, PoolInv, ActorInv
    <3>3. PICK s \in Slots : eviction' = [eviction EXCEPT ![q] = [victim |-> s, stage |-> "take"]]
      BY <3>1 DEF ReserveByEviction, Victims
    <3> QED BY <2>1, <3>2, <3>3
  <2>4. CASE \E s \in Slots : Reap(s)
    BY <2>1, <2>2, <2>4, Threads DEF Reap
  <2>5. CASE Sweep
    BY <2>1, <2>2, <2>5, Threads DEF Sweep
  <2> QED BY <2>2, <2>3, <2>4, <2>5 DEF Request, BindWorkspace, BackoffExpires, StartPass, Shutdown, Drain,
                                        vars
<1>5. \A s : Leases(s)' = Leases(s)
  BY <1>3 DEF Leases
<1>6. \A s \in Slots : Claimed(s) => Claimed(s)'
  BY <1>3, <1>4 DEF Claimed
<1> QED BY <1>2, <1>5, <1>6 DEF FlagsInv, Claimed

(* Only slot s changed, and whoever claimed another one still does.           *)
LEMMA OthersFlags ==
    ASSUME FlagsInv, NEW s \in Slots, \A t : Leases(t)' = Leases(t),
           \A t \in Slots : slot'[t].inFlight = slot[t].inFlight,
           \A t \in Slots \ {s} : slot'[t] = slot[t],
           \A t \in Slots \ {s} : Claimed(t) => Claimed(t)',
           slot'[s].activating => Claimed(s)'
    PROVE  FlagsInv'
<1>1. \A t \in Slots : slot'[t].inFlight = Cardinality(Leases(t)')
  BY DEF FlagsInv
<1>2. ASSUME NEW t \in Slots, slot'[t].activating
      PROVE  Claimed(t)'
  <2>1. CASE t = s
    BY <1>2, <2>1
  <2>2. CASE t # s
    BY <1>2, <2>2 DEF FlagsInv, Claimed
  <2> QED BY <2>1, <2>2
<1> QED BY <1>1, <1>2 DEF FlagsInv, Claimed

LEMMA EvictFlags ==
    ASSUME PoolInv, FlagsInv, NEW a \in Evictors, Evict(a)
    PROVE  FlagsInv'
<1>0. eviction[a].stage # "none"
  BY DEF Evict, EvictTake, EvictShutdown, EvictRelease
<1>01. PICK s \in Slots : s = eviction[a].victim
  BY <1>0, Types, EvictionUnderWay
<1>1. /\ slot \in [Slots -> Runtimes] /\ s = eviction[a].victim
      /\ slot[s] \in Runtimes /\ (a \in Queries => pc[a] = "evict") /\ on' = on
  BY <1>0, <1>01, Types, EvictionUnderWay DEF Evict, EvictTake, EvictShutdown, EvictRelease
<1>2. \A failed \in BOOLEAN : Evicted(a, failed) =>
          /\ \A q \in Queries : pc'[q] = pc[q] \/ (q = a /\ pc'[q] \in {"refused", "reserve"})
          /\ \A b \in Evictors \ {a} : eviction'[b] = eviction[b]
  BY <1>1, Types DEF Evicted
<1>3. /\ \A q \in Queries : pc'[q] = pc[q] \/ (q = a /\ pc'[q] \in {"refused", "reserve"})
      /\ \A b \in Evictors \ {a} : eviction'[b] = eviction[b]
  <2>1. CASE UNCHANGED pc /\ \E stage : eviction' = [eviction EXCEPT ![a].stage = stage]
    BY <2>1, Types
  <2>2. CASE \E failed \in BOOLEAN : Evicted(a, failed)
    BY <1>2, <2>2
  <2> QED BY <2>1, <2>2 DEF Evict, EvictTake, EvictShutdown, EvictRelease
<1>4. \A t : Leases(t)' = Leases(t)
  BY <1>1, <1>3 DEF Leases
<1>5. \A q \in Queries : pc[q] \in Claims => pc'[q] \in Claims
  BY <1>3 DEF Claims
<1>6. \A b \in Evictors \ {a} : \A t : Evicting(b, t) => Evicting(b, t)'
  BY <1>3 DEF Evicting
<1>7. \/ UNCHANGED slot /\ eviction[a].stage # "shutdown"
      \/ \E provider, activating, error \in BOOLEAN :
           /\ slot' = [slot EXCEPT ![s] = [[[slot[s] EXCEPT !.provider = provider]
                                             EXCEPT !.activating = activating]
                                             EXCEPT !.error = error]]
           /\ EvictShutdown(a) => ~activating
  <2>1. CASE EvictTake(a)
    <3>1. CASE slot' = [slot EXCEPT ![s].provider = FALSE, ![s].activating = TRUE]
      <4>1. slot' = [slot EXCEPT ![s] = [[[slot[s] EXCEPT !.provider = FALSE]
                                           EXCEPT !.activating = TRUE]
                                           EXCEPT !.error = slot[s].error]]
        BY <1>1, <3>1 DEF Runtimes
      <4> QED BY <1>1, <2>1, <4>1 DEF EvictTake, EvictShutdown, Runtimes
    <3> QED BY <1>1, <2>1, <3>1 DEF EvictTake
  <2>2. CASE EvictShutdown(a)
    <3>1. CASE slot' = [slot EXCEPT ![s].activating = FALSE, ![s].error = FALSE]
      <4>1. slot' = [slot EXCEPT ![s] = [[[slot[s] EXCEPT !.provider = slot[s].provider]
                                           EXCEPT !.activating = FALSE]
                                           EXCEPT !.error = FALSE]]
        BY <1>1, <3>1 DEF Runtimes
      <4> QED BY <1>1, <4>1 DEF Runtimes
    <3>2. CASE slot' = [slot EXCEPT ![s].provider = TRUE, ![s].activating = FALSE, ![s].error = TRUE]
      <4>1. slot' = [slot EXCEPT ![s] = [[[slot[s] EXCEPT !.provider = TRUE]
                                           EXCEPT !.activating = FALSE]
                                           EXCEPT !.error = TRUE]]
        BY <1>1, <3>2 DEF Runtimes
      <4> QED BY <4>1
    <3> QED BY <1>1, <2>2, <3>1, <3>2 DEF EvictShutdown
  <2>3. CASE EvictRelease(a)
    BY <2>3 DEF EvictRelease
  <2> QED BY <2>1, <2>2, <2>3 DEF Evict
<1>71. /\ \A t \in Slots : slot'[t].inFlight = slot[t].inFlight
       /\ \A t \in Slots \ {s} : slot'[t] = slot[t]
  <2>1. CASE UNCHANGED slot
    BY <2>1
  <2>2. CASE ~UNCHANGED slot
    <3>1. PICK provider, activating, error \in BOOLEAN :
            slot' = [slot EXCEPT ![s] = [[[slot[s] EXCEPT !.provider = provider]
                                           EXCEPT !.activating = activating]
                                           EXCEPT !.error = error]]
      BY <1>7, <2>2
    <3>2. slot'[s] = [[[slot[s] EXCEPT !.provider = provider] EXCEPT !.activating = activating]
                       EXCEPT !.error = error]
      BY <1>1, <3>1
    <3>3. slot'[s].inFlight = slot[s].inFlight
      BY <1>1, <3>2 DEF Runtimes
    <3>4. \A t \in Slots \ {s} : slot'[t] = slot[t]
      BY <1>1, <3>1
    <3> QED BY <3>3, <3>4
  <2> QED BY <2>1, <2>2
<1>8. CASE EvictTake(a)
  <2>1. eviction[a].stage = "take"
    BY <1>8 DEF EvictTake
  <2>2. CASE eviction' = [eviction EXCEPT ![a].stage = "shutdown"]
    <3>1. Evicting(a, s)'
      BY <1>1, <2>2, Types DEF Evicting
    <3>2. \A t \in Slots \ {s} : Claimed(t) => Claimed(t)'
      BY <1>1, <1>5, <1>6 DEF Claimed, Evicting
    <3> QED BY <1>4, <1>71, <3>1, <3>2, OthersFlags DEF Claimed
  <2>3. CASE UNCHANGED slot
    <3>1. \A t \in Slots : Claimed(t) => Claimed(t)'
      BY <1>1, <1>5, <1>6, <2>1 DEF Claimed, Evicting
    <3> QED BY <1>4, <2>3, <3>1 DEF FlagsInv, Claimed
  <2> QED BY <1>8, <2>2, <2>3 DEF EvictTake
<1>9. CASE EvictShutdown(a)
  <2>1. ~slot'[s].activating
    <3>1. PICK provider, error \in BOOLEAN :
            slot' = [slot EXCEPT ![s] = [[[slot[s] EXCEPT !.provider = provider]
                                           EXCEPT !.activating = FALSE]
                                           EXCEPT !.error = error]]
      BY <1>7, <1>9 DEF EvictShutdown
    <3>2. slot'[s] = [[[slot[s] EXCEPT !.provider = provider] EXCEPT !.activating = FALSE]
                       EXCEPT !.error = error]
      BY <1>1, <3>1
    <3> QED BY <1>1, <3>2 DEF Runtimes
  <2>2. \A t \in Slots \ {s} : Claimed(t) => Claimed(t)'
    BY <1>1, <1>5, <1>6 DEF Claimed, Evicting
  <2> QED BY <1>4, <1>71, <2>1, <2>2, OthersFlags
<1>10. CASE EvictRelease(a)
  <2>1. eviction[a].stage = "release" /\ UNCHANGED slot
    BY <1>10 DEF EvictRelease
  <2>2. \A t \in Slots : Claimed(t) => Claimed(t)'
    BY <1>1, <1>5, <1>6, <2>1 DEF Claimed, Evicting
  <2> QED BY <1>4, <2>1, <2>2 DEF FlagsInv, Claimed
<1> QED BY <1>8, <1>9, <1>10 DEF Evict

LEMMA FlagsInit == Init => FlagsInv
<1> SUFFICES ASSUME Init, NEW s \in Slots
             PROVE  slot[s].inFlight = Cardinality(Leases(s)) /\ ~slot[s].activating
  BY DEF FlagsInv
<1>1. Leases(s) = {}
  BY DEF Init, Leases
<1> QED BY <1>1, FS_EmptySet DEF Init, Empty

LEMMA FlagsNext == PoolInv /\ FlagsInv /\ [Next]_vars => FlagsInv'
<1> SUFFICES ASSUME PoolInv, FlagsInv, [Next]_vars
             PROVE  FlagsInv'
  OBVIOUS
<1>1. CASE \E q \in Queries : Query(q) \/ \E s \in Slots : Request(q, s)
  BY <1>1, ActivationFlags, LookupFlags, StartSucceedsFlags, DropLeaseFlags, EvictFlags, OtherFlags,
     Threads DEF Query
<1>2. CASE Reaper
  BY <1>2, EvictFlags, OtherFlags, Threads DEF Reaper
<1>3. CASE Owner
  BY <1>3, EvictFlags, OtherFlags, Threads DEF Owner
<1>4. CASE \/ \E w \in Workspaces : BindWorkspace(w)
           \/ \E s \in Slots : BackoffExpires(s)
           \/ StartPass \/ Shutdown \/ UNCHANGED vars
  BY <1>4, OtherFlags
<1> QED BY <1>1, <1>2, <1>3, <1>4 DEF Next

LEMMA FlagsInvariant == Spec => []FlagsInv
<1> QED BY FlagsInit, FlagsNext, PoolInvariant, PTL DEF Spec

(* With no query or eviction under way the ledger holds the slots' providers.  *)
LEMMA IdleLedger ==
    ASSUME PoolInv, LedgerInv, Idle
    PROVE  /\ \A s \in Slots : processes[s] = IF slot[s].provider THEN 1 ELSE 0
           /\ \A h : h \in Reservations <=> \E s \in Slots : slot[s].provider /\ h = <<"slot", s, s>>
<1>1. /\ \A q \in Queries : pc[q] = "idle"
      /\ \A a \in Evictors : eviction[a].stage = "none"
  BY DEF Idle, NoEviction
<1>2. \A h : h \in Reservations <=> \E s \in Slots : slot[s].provider /\ h = <<"slot", s, s>>
  BY <1>1, Members
<1>3. \A a, s : a \in Evictors => ~Evicting(a, s)
  BY <1>1 DEF Evicting
<1>4. ASSUME NEW s \in Slots
      PROVE  processes[s] = IF slot[s].provider THEN 1 ELSE 0
  BY <1>1, <1>3 DEF PoolInv, ChildInv
<1> QED BY <1>2, <1>4

LEMMA IdleSums ==
    ASSUME PoolInv, LedgerInv, Idle
    PROVE  /\ Sum([s \in Slots |-> processes[s] * Reservation[s]]) = MemoryOf(Reservations)
           /\ Sum(processes) = Cardinality(Reservations)
<1> DEFINE f == [s \in Slots |-> processes[s] * Reservation[s]]
           m == [h \in Reservations |-> Reservation[h[3]]]
           ones == [h \in Reservations |-> 1]
           place == [h \in Reservations |-> h[3]]
<1>1. IsFiniteSet(Slots) /\ IsFiniteSet(Reservations)
  BY ProviderPoolAssumption DEF LedgerInv
<1>2. \A s \in Slots : f[s] = IF processes[s] = 0 THEN 0 ELSE Reservation[s]
  BY MemoryOfChild
<1>3. f \in [Slots -> Nat] /\ processes \in [Slots -> Nat]
  BY <1>2, ReservationsNatural, Types
<1>4. m \in [Reservations -> Nat] /\ ones \in [Reservations -> Nat] /\ place \in [Reservations -> Slots]
  BY ReservationsNatural DEF LedgerInv, MemoryInv
<1>5. ASSUME NEW s \in Slots
      PROVE  IF slot[s].provider
             THEN \E h \in Reservations :
                    /\ place[h] = s /\ f[s] = m[h] /\ processes[s] = ones[h]
                    /\ \A k \in Reservations : place[k] = s => k = h
             ELSE f[s] = 0 /\ processes[s] = 0 /\ \A h \in Reservations : place[h] # s
  <2>1. CASE slot[s].provider
    <3> DEFINE h == <<"slot", s, s>>
    <3>1. h \in Reservations /\ h[3] = s /\ processes[s] = 1
      BY <2>1, IdleLedger
    <3>2. f[s] = Reservation[s]
      BY <1>2, <3>1
    <3>3. \A k \in Reservations : k[3] = s => k = h
      BY IdleLedger
    <3>4. \A k \in Reservations : place[k] = k[3] /\ m[k] = Reservation[k[3]] /\ ones[k] = 1
      OBVIOUS
    <3> HIDE DEF h, f, m, ones, place
    <3> QED BY <2>1, <3>1, <3>2, <3>3, <3>4
  <2>2. CASE ~slot[s].provider
    <3>1. processes[s] = 0 /\ f[s] = 0
      BY <1>2, <2>2, IdleLedger
    <3>2. \A h \in Reservations : h[3] # s
      BY <2>2, IdleLedger
    <3> QED BY <2>2, <3>1, <3>2
  <2> QED BY <2>1, <2>2
<1> HIDE DEF f, m, ones, place
<1>7. Sum(f) = Sum(m)
  BY <1>1, <1>3, <1>4, <1>5, SumsMatched
<1>8. Sum(processes) = Sum(ones)
  BY <1>1, <1>3, <1>4, <1>5, SumsMatched
<1>9. Sum(ones) = Cardinality(Reservations)
  <2>1. DOMAIN ones = Reservations /\ ones = [h \in Reservations |-> 1]
    BY DEF ones
  <2>2. Sums(ones)[Reservations] = Cardinality(Reservations)
    BY <1>1, <2>1, SumsOfOnes
  <2> QED BY <2>1, <2>2, SumIs
<1> QED BY <1>7, <1>8, <1>9 DEF f, m, MemoryOf

(* Whatever failed on the way, when nothing is under way exactly the children *)
(* alive are reserved for, each in its slot, and no slot is still claimed or   *)
(* leased (activate, evict_provider, release_reservation).                    *)
THEOREM LeavesNothingBehind == Spec => []NothingLeaks
<1>1. PoolInv /\ LedgerInv /\ FlagsInv => NothingLeaks
  <2> SUFFICES ASSUME PoolInv, LedgerInv, FlagsInv, Idle
               PROVE  /\ \A s \in Slots : processes[s] = IF slot[s].provider THEN 1 ELSE 0
                      /\ total.active = Sum(processes)
                      /\ total.memory = Sum([s \in Slots |-> processes[s] * Reservation[s]])
                      /\ \A s \in Slots : slot[s].inFlight = 0 /\ ~slot[s].activating
    BY DEF NothingLeaks
  <2>1. \A s \in Slots : processes[s] = IF slot[s].provider THEN 1 ELSE 0
    BY IdleLedger
  <2>2. total.active = Sum(processes)
    BY IdleSums DEF LedgerInv
  <2>3. total.memory = Sum([s \in Slots |-> processes[s] * Reservation[s]])
    BY IdleSums DEF LedgerInv, MemoryInv
  <2>4. ASSUME NEW s \in Slots
        PROVE  slot[s].inFlight = 0 /\ ~slot[s].activating
    <3>1. Leases(s) = {} /\ \A q \in Queries : pc[q] \notin Claims
      BY DEF Idle, Leases, Claims
    <3>2. \A a \in Evictors : ~Evicting(a, s)
      BY DEF Idle, Evicting, NoEviction
    <3> QED BY <3>1, <3>2, FS_EmptySet DEF FlagsInv
  <2> QED BY <2>1, <2>2, <2>3, <2>4
<1> QED BY <1>1, PoolInvariant, LedgerInvariant, FlagsInvariant, PTL

-----------------------------------------------------------------------------
(* The pool implements the service.                                           *)

Alive == {s \in Slots : processes[s] # 0}

(* What the children alive set aside is what their slots reserve.             *)
LEMMA SetAsideIsMemory ==
    ASSUME PoolInv, NEW T \in SUBSET Slots
    PROVE  SetAside(Alive, T) = Sum([s \in T |-> processes[s] * Reservation[s]])
<1>1. \A s \in T : processes[s] * Reservation[s] = IF s \in Alive THEN Reservation[s] ELSE 0
  BY MemoryOfChild DEF Alive
<1>2. [s \in T |-> processes[s] * Reservation[s]] = [s \in T |-> IF s \in Alive THEN Reservation[s] ELSE 0]
  BY <1>1
<1> QED BY <1>2 DEF SetAside

LEMMA AliveIsAffordable == Spec => [](Alive \in WithinBudgets)
<1>1. PoolInv /\ ChildrenWithinLimits /\ MemoryWithinLimits => Alive \in WithinBudgets
  <2> SUFFICES ASSUME PoolInv, ChildrenWithinLimits, MemoryWithinLimits
               PROVE  Alive \in WithinBudgets
    OBVIOUS
  <2>1. Alive \in SUBSET Slots
    BY DEF Alive
  <2>2. Cardinality(Alive) <= MaxActive
    BY DEF Alive, ChildrenWithinLimits
  <2>3. SetAside(Alive, Slots) <= MaxMemory
    BY SetAsideIsMemory DEF MemoryWithinLimits
  <2>4. ASSUME NEW w \in Workspaces
        PROVE  /\ Cardinality(Alive \intersect Here(w)) <= MaxWorkspaceActive
               /\ SetAside(Alive, Here(w)) <= MaxWorkspaceMemory
    <3>1. Alive \intersect Here(w) = {s \in Slots : processes[s] # 0 /\ WorkspaceOf[s] = w}
      BY DEF Alive, Here
    <3>2. Cardinality(Alive \intersect Here(w)) <= MaxWorkspaceActive
      BY <3>1 DEF ChildrenWithinLimits
    <3>3. SetAside(Alive, Here(w)) = Sum([s \in Here(w) |-> processes[s] * Reservation[s]])
      BY SetAsideIsMemory DEF Here
    <3>4. SetAside(Alive, Here(w)) <= MaxWorkspaceMemory
      BY <3>3 DEF MemoryWithinLimits, Here
    <3> QED BY <3>2, <3>4
  <2> QED BY <2>1, <2>2, <2>3, <2>4 DEF WithinBudgets
<1> QED BY <1>1, PoolInvariant, LimitsHold, MemoryHolds, PTL

(* A step that moves no lease, no child and no mode is invisible.             *)
LEMMA Invisible ==
    ASSUME PoolInv, processes' = processes, Mode' = Mode,
           \A q \in Queries : /\ pc'[q] = "leased" <=> pc[q] = "leased"
                              /\ pc[q] = "leased" => on'[q] = on[q]
    PROVE  UNCHANGED Service!serviceVars
<1>1. Leased' = Leased
  BY DEF Leased
<1> QED BY <1>1 DEF Service!serviceVars

(* Who is neither before nor after the step a lease holder.                   *)
LEMMA LeasesStay ==
    ASSUME PoolInv, NEW q \in Queries, NEW p, pc' = [pc EXCEPT ![q] = p],
           pc[q] # "leased", p # "leased", \A r \in Queries \ {q} : on'[r] = on[r]
    PROVE  /\ Leased' = Leased
           /\ \A r \in Queries : /\ pc'[r] = "leased" <=> pc[r] = "leased"
                                 /\ pc[r] = "leased" => on'[r] = on[r]
<1>1. \A r \in Queries : pc'[r] = IF r = q THEN p ELSE pc[r]
  BY Types
<1> QED BY <1>1 DEF Leased

LEMMA ModeStays == ASSUME owner' = owner PROVE Mode' = Mode
BY DEF Mode

(* Until shutdown gives up, a leased slot has its provider.                   *)
LEMMA NobodyUses ==
    ASSUME PoolInv, NEW s \in Slots, ~slot[s].provider
    PROVE  Mode = "forced" \/ \A q \in Queries : s \notin Leased[q]
<1>1. CASE owner \in {"serving", "draining", "sweeping"}
  <2>1. Leases(s) = {}
    BY <1>1 DEF PoolInv, LeaseInv
  <2> QED BY <2>1 DEF Leases, Leased
<1>2. CASE owner = "ok"
  <2>1. \A q \in Queries : pc[q] # "leased"
    BY <1>2 DEF PoolInv, SweepInv
  <2> QED BY <2>1 DEF Leased
<1>3. CASE owner \in {"sweeping_failed", "failed"}
  BY <1>3 DEF Mode
<1> QED BY <1>1, <1>2, <1>3 DEF PoolInv, TypeOK

LEMMA RequestRefines ==
    ASSUME PoolInv, NEW q \in Queries,
           \/ \E s \in Slots : Request(q, s)
           \/ Admit(q) \/ Return(q) \/ ActivateCheck(q) \/ ReserveCheck(q) \/ Reserve(q)
           \/ ReserveByEviction(q) \/ ReserveFails(q) \/ StartFails(q)
    PROVE  UNCHANGED Service!serviceVars
<1>1. processes' = processes /\ Mode' = Mode
  BY ModeStays DEF Request, Admit, Return, ActivateCheck, ReserveCheck, Reserve, ReserveByEviction,
                   ReserveFails, StartFails
<1>2. CASE \E s \in Slots : Request(q, s)
  <2>1. PICK s \in Slots : pc[q] = "idle" /\ pc' = [pc EXCEPT ![q] = "admit"] /\ on' = [on EXCEPT ![q] = s]
    BY <1>2 DEF Request, Go
  <2>2. \A r \in Queries : /\ pc'[r] = "leased" <=> pc[r] = "leased"
                           /\ pc[r] = "leased" => on'[r] = on[r]
    BY <2>1, Types
  <2> QED BY <1>1, <2>2, Invisible
<1>3. CASE ~\E s \in Slots : Request(q, s)
  <2>1. \E p : p # "leased" /\ pc' = [pc EXCEPT ![q] = p]
    BY <1>3 DEF Admit, Return, ActivateCheck, ReserveCheck, Reserve, ReserveByEviction, ReserveFails,
                StartFails, Go
  <2>2. pc[q] # "leased"
    BY <1>3 DEF Admit, Return, ActivateCheck, ReserveCheck, Reserve, ReserveByEviction, ReserveFails,
                StartFails
  <2>3. \A r \in Queries \ {q} : on'[r] = on[r]
    <3>1. CASE Forget(q)
      BY <3>1, Types, Forgotten
    <3>2. CASE UNCHANGED on
      BY <3>2
    <3> QED BY <1>3, <3>1, <3>2 DEF Admit, Return, ActivateCheck, ReserveCheck, Reserve,
                                    ReserveByEviction, ReserveFails, StartFails
  <2> QED BY <1>1, <2>1, <2>2, <2>3, LeasesStay, Invisible
<1> QED BY <1>2, <1>3

(* A lease is taken of a provider in its slot.                                *)
LEMMA LookupRefines ==
    ASSUME PoolInv, NEW q \in Queries, Lookup(q)
    PROVE  Service!Use(q, on[q]) \/ UNCHANGED Service!serviceVars
<1>1. pc[q] = "lookup" /\ on' = on /\ processes' = processes /\ Mode' = Mode /\ on[q] \in Slots
  BY Types, ModeStays DEF Lookup
<1>2. CASE Go(q, "leased") /\ slot[on[q]].provider
  <2>1. processes[on[q]] = 1
    BY <1>1, <1>2 DEF PoolInv, ChildInv
  <2>2. \A r \in Queries : pc'[r] = IF r = q THEN "leased" ELSE pc[r]
    BY <1>2, Types DEF Go
  <2>3. Leased[q] = {} /\ Leased' = [Leased EXCEPT ![q] = {on[q]}]
    BY <1>1, <2>2 DEF Leased
  <2> QED BY <1>1, <2>1, <2>3 DEF Service!Use
<1>3. CASE \E p : p # "leased" /\ Go(q, p)
  BY <1>1, <1>3, LeasesStay, Invisible DEF Go
<1> QED BY <1>2, <1>3 DEF Lookup, SlotOf

(* A provider that came too late or is not wanted was started all the same.   *)
LEMMA StartRefines ==
    ASSUME PoolInv, (Alive \in WithinBudgets)', NEW q \in Queries, StartSucceeds(q) \/ StartIncompatible(q)
    PROVE  Service!Start(on[q])
<1>1. /\ pc[q] = "start" /\ on' = on /\ on[q] \in Slots /\ Mode' = Mode
      /\ processes' = [processes EXCEPT ![on[q]] = @ + 1]
  BY Types, ModeStays DEF StartSucceeds, StartIncompatible
<1>2. processes[on[q]] = 0
  BY <1>1 DEF PoolInv, ClaimInv, Claiming, Claims
<1>3. processes' = [processes EXCEPT ![on[q]] = 1]
  BY <1>1, <1>2, Types
<1>4. Mode # "closed"
  <2>1. owner # "ok"
    BY <1>1 DEF PoolInv, SweepInv
  <2> QED BY <2>1 DEF Mode
<1>5. {t \in Slots : processes'[t] # 0} \in WithinBudgets
  <2>1. Alive' = {t \in Slots : processes'[t] # 0}
    BY DEF Alive
  <2>2. Alive' \in WithinBudgets
    BY DEF WithinBudgets, Here
  <2> QED BY <2>1, <2>2
<1>6. UNCHANGED Leased \/ \E u \in Queries : Leased[u] = {} /\ Leased' = [Leased EXCEPT ![u] = {on[q]}]
  <2>1. CASE Go(q, "leased")
    <3>1. \A r \in Queries : pc'[r] = IF r = q THEN "leased" ELSE pc[r]
      BY <2>1, Types DEF Go
    <3>2. Leased[q] = {} /\ Leased' = [Leased EXCEPT ![q] = {on[q]}]
      BY <1>1, <3>1 DEF Leased
    <3> QED BY <3>2
  <2>2. CASE \E p : p # "leased" /\ Go(q, p)
    BY <1>1, <2>2, LeasesStay DEF Go
  <2> QED BY <2>1, <2>2 DEF StartSucceeds, StartIncompatible
<1> QED BY <1>1, <1>2, <1>3, <1>4, <1>5, <1>6 DEF Service!Start

(* The unwanted provider has no users; where it is retained nothing happens.  *)
LEMMA DiscardRefines ==
    ASSUME PoolInv, NEW q \in Queries, Discard(q)
    PROVE  Service!Stop(on[q]) \/ UNCHANGED Service!serviceVars
<1>1. /\ pc[q] \in {"discard", "reject"} /\ pc' = [pc EXCEPT ![q] = "return"] /\ on' = on
      /\ on[q] \in Slots /\ Mode' = Mode
  BY Types, ModeStays DEF Discard, Go
<1>2. processes[on[q]] = 1 /\ ~slot[on[q]].provider
  BY <1>1 DEF PoolInv, DiscardInv, ClaimInv, Claiming, Claims
<1>3. Leased' = Leased
  BY <1>1, LeasesStay
<1>4. CASE processes' = processes
  BY <1>1, <1>4, LeasesStay, Invisible
<1>5. CASE processes' = [processes EXCEPT ![on[q]] = @ - 1]
  <2>1. processes' = [processes EXCEPT ![on[q]] = 0]
    BY <1>1, <1>2, <1>5, Types
  <2> QED BY <1>1, <1>2, <1>3, <2>1, NobodyUses DEF Service!Stop
<1> QED BY <1>4, <1>5 DEF Discard

LEMMA DropLeaseRefines ==
    ASSUME PoolInv, NEW q \in Queries, DropLease(q)
    PROVE  Service!Done(q)
<1>1. /\ pc[q] = "leased" /\ on' = on /\ processes' = processes /\ Mode' = Mode
      /\ \A r \in Queries : pc'[r] = IF r = q THEN "return" ELSE pc[r]
  BY Types, ModeStays DEF DropLease, Go
<1>2. Leased[q] # {} /\ Leased' = [Leased EXCEPT ![q] = {}]
  BY <1>1 DEF Leased
<1> QED BY <1>1, <1>2 DEF Service!Done

(* The victim is stopped while nobody uses it; a shutdown whose provider would *)
(* not stop gives up.                                                         *)
LEMMA EvictRefines ==
    ASSUME PoolInv, NEW a \in Evictors, Evict(a)
    PROVE  (\E s \in Slots : Service!Stop(s)) \/ Service!GiveUp \/ UNCHANGED Service!serviceVars
<1>1. eviction[a].stage # "none" /\ on' = on
  BY DEF Evict, EvictTake, EvictShutdown, EvictRelease
<1>2. PICK s \in Slots : s = eviction[a].victim
  BY <1>1, EvictionUnderWay
<1>3. \A q \in Queries : /\ pc'[q] = "leased" <=> pc[q] = "leased"
                         /\ pc[q] = "leased" => on'[q] = on[q]
  <2>1. CASE pc' = pc
    BY <1>1, <2>1
  <2>2. CASE a \in Queries /\ \E p \in {"refused", "reserve"} : pc' = [pc EXCEPT ![a] = p]
    BY <1>1, <2>2, EvictionUnderWay, Types
  <2> QED BY <2>1, <2>2 DEF Evict, EvictTake, EvictShutdown, EvictRelease, Evicted
<1>4. Leased' = Leased
  BY <1>3 DEF Leased
<1>5. CASE EvictTake(a) \/ EvictRelease(a)
  <2>1. processes' = processes /\ owner' = owner
    BY <1>5 DEF EvictTake, EvictRelease, Evicted
  <2> QED BY <1>3, <2>1, ModeStays, Invisible
<1>6. CASE EvictShutdown(a)
  <2>1. Evicting(a, s)
    BY <1>2, <1>6 DEF EvictShutdown, Evicting
  <2>2. processes[s] = 1 /\ ~slot[s].provider
    BY <2>1 DEF PoolInv, EvictInv
  <2>3. CASE processes' = [processes EXCEPT ![s] = @ - 1] /\ owner' = owner
    <3>1. processes' = [processes EXCEPT ![s] = 0]
      BY <2>2, <2>3, Types
    <3>2. Mode' = Mode
      BY <2>3, ModeStays
    <3>3. Service!Stop(s)
      BY <1>4, <2>2, <3>1, <3>2, NobodyUses DEF Service!Stop
    <3> QED BY <3>3
  <2>4. CASE processes' = processes /\ Evicted(a, TRUE)
    <3>1. CASE a # "owner"
      BY <1>3, <2>4, <3>1, ModeStays, Invisible DEF Evicted
    <3>2. CASE a = "owner"
      <4>1. owner' = "sweeping_failed"
        BY <2>4, <3>2 DEF Evicted
      <4>2. owner \in {"sweeping", "sweeping_failed"}
        BY <1>1, <3>2, EvictionUnderWay DEF PoolInv, ActorInv
      <4>3. Mode' = "forced" /\ (Mode = "open" \/ Mode = "forced")
        BY <4>1, <4>2 DEF Mode
      <4>4. CASE Mode = "open"
        BY <1>4, <2>4, <4>3, <4>4 DEF Service!GiveUp
      <4>5. CASE Mode = "forced"
        BY <1>3, <2>4, <4>3, <4>5, Invisible
      <4> QED BY <4>3, <4>4, <4>5
    <3> QED BY <3>1, <3>2
  <2> QED BY <1>2, <1>6, <2>3, <2>4 DEF EvictShutdown
<1> QED BY <1>5, <1>6 DEF Evict

(* Shutdown gives up when draining takes too long, and closes the service     *)
(* once an orderly sweep has met every child.                                 *)
LEMMA OwnerRefines ==
    ASSUME PoolInv, Shutdown \/ Drain \/ Sweep
    PROVE  Service!GiveUp \/ Service!Close \/ UNCHANGED Service!serviceVars
<1>1. pc' = pc /\ on' = on /\ processes' = processes /\ Leased' = Leased
  BY DEF Shutdown, Drain, Sweep, Leased
<1>2. CASE Mode' = Mode
  BY <1>1, <1>2, Invisible
<1>3. CASE Drain /\ owner' = "sweeping_failed"
  <2>1. Mode = "open" /\ Mode' = "forced"
    BY <1>3 DEF Drain, Mode
  <2> QED BY <1>1, <2>1 DEF Service!GiveUp
<1>4. CASE Sweep /\ owner = "sweeping" /\ owner' = "ok"
  <2>1. Mode = "open" /\ Mode' = "closed"
    BY <1>4 DEF Mode
  <2>2. todo = {} /\ eviction["owner"] = NoEviction
    BY <1>4 DEF Sweep
  <2>3. \A s \in Slots : processes[s] = 0
    BY <1>4, <2>2 DEF PoolInv, SweepInv, NoEviction
  <2>4. \A q \in Queries : Leased[q] = {}
    BY <1>4 DEF PoolInv, SweepInv, Leased
  <2> QED BY <1>1, <2>1, <2>3, <2>4 DEF Service!Close
<1>5. CASE Shutdown \/ (Drain /\ owner' = "sweeping")
  <2>1. Mode = "open" /\ Mode' = "open"
    BY <1>5 DEF Shutdown, Drain, Mode
  <2> QED BY <1>2, <2>1
<1>6. CASE Sweep /\ (owner' = owner \/ (owner = "sweeping_failed" /\ owner' = "failed"))
  <2>1. Mode' = Mode
    BY <1>6 DEF Mode
  <2> QED BY <1>2, <2>1
<1> QED BY <1>3, <1>4, <1>5, <1>6 DEF Drain, Sweep

(* Every step of the pool is a step of the service or invisible to it.        *)
LEMMA ServiceStep ==
    ASSUME PoolInv, (Alive \in WithinBudgets)', [Next]_vars
    PROVE  [Service!ServiceNext]_(Service!serviceVars)
<1> USE DEF Service!ServiceNext
<1>1. ASSUME NEW q \in Queries, Query(q)
      PROVE  [Service!ServiceNext]_(Service!serviceVars)
  <2>1. on[q] \in Slots /\ q \in Evictors
    BY Types, Threads
  <2>2. CASE StartSucceeds(q) \/ StartIncompatible(q)
    BY <2>1, <2>2, StartRefines
  <2>3. CASE Lookup(q) \/ Discard(q) \/ DropLease(q)
    BY <2>1, <2>3, LookupRefines, DiscardRefines, DropLeaseRefines
  <2>4. CASE Evict(q)
    BY <2>1, <2>4, EvictRefines
  <2> QED BY <1>1, <2>2, <2>3, <2>4, RequestRefines DEF Query
<1>2. ASSUME NEW q \in Queries, NEW s \in Slots, Request(q, s)
      PROVE  [Service!ServiceNext]_(Service!serviceVars)
  BY <1>2, RequestRefines
<1>3. CASE Evict("reaper") \/ Evict("owner")
  BY <1>3, EvictRefines, Threads
<1>4. CASE Shutdown \/ Drain \/ Sweep
  BY <1>4, OwnerRefines
<1>5. CASE \/ \E w \in Workspaces : BindWorkspace(w)
           \/ \E s \in Slots : BackoffExpires(s) \/ Reap(s)
           \/ StartPass \/ UNCHANGED vars
  <2>1. UNCHANGED <<pc, on, processes, owner>>
    BY <1>5 DEF BindWorkspace, BackoffExpires, Reap, StartPass, vars
  <2> QED BY <2>1, ModeStays, Invisible
<1> QED BY <1>1, <1>2, <1>3, <1>4, <1>5 DEF Next, Reaper, Owner

(* The pool implements the provider service for any number of queries, slots  *)
(* and workspaces, any limits and any reservations.                           *)
THEOREM PoolImplementsService == Spec => ImplementsService
<1>1. Init => Service!ServiceInit
  <2> SUFFICES ASSUME Init PROVE Service!ServiceInit
    OBVIOUS
  <2>1. Leased = [q \in Queries |-> {}]
    BY DEF Init, Leased
  <2>2. Mode = "open"
    BY DEF Init, Mode
  <2> QED BY <2>1, <2>2 DEF Init, Service!ServiceInit
<1> QED BY <1>1, ServiceStep, PoolInvariant, AliveIsAffordable, PTL
        DEF Spec, ImplementsService, Service!ServiceSpec
=============================================================================
