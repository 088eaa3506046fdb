----------------------- MODULE WorkspaceRegistryProofs -----------------------
(***************************************************************************)
(* Proofs about WorkspaceRegistry and the CommitCache it shares, for any     *)
(* worktrees, threads, commits and limits.  The argument: an entry that is    *)
(* Starting or Stopping belongs to exactly one call, a Ready one to nobody,   *)
(* and a live engine is either owned by a Ready entry or held by one call     *)
(* that has not stopped it yet.  From that follows what the registry promises, *)
(* the refinement of WorktreeOwnership.                                      *)
(***************************************************************************)
EXTENDS WorkspaceRefinement, FiniteSetTheorems, SequenceTheorems, TLAPS

Starts == {"resolve", "load", "start", "finish"}

(* Where each kind of call may be, and what it holds.                         *)
OpInv ==
    \A t \in Threads :
        LET o == op[t] IN
        /\ o.kind = "none" => o.step = "idle" /\ o.queue = {}
        /\ o.kind = "register" => o.step \in Starts /\ o.queue = {}
        /\ o.kind = "unregister" => /\ o.step \in {"join", "revoke", "remove"}
                                    /\ o.step # "join" => o.queue = {}
                                    /\ \A d, e \in o.queue : d = e
        /\ o.kind = "shutdown" => o.step \in {"join", "revoke"} /\ shutDown
        /\ o.step = "idle" => o = Idle
        /\ o.step \in {"finish", "revoke"} => o.engine \in DOMAIN engines
        /\ o.queue \subseteq DOMAIN engines

(* A call that registers or unregisters a worktree.                          *)
Owns(t, w) == op[t].kind \in {"register", "unregister"} /\ op[t].workspace = w

(* The reservations: one call for each, and none in a closed registry.        *)
EntryInv ==
    /\ \A t \in Threads :
          /\ op[t].kind = "register" => /\ op[t].workspace \in Workspaces
                                        /\ entries[op[t].workspace] = "Starting"
          /\ op[t].kind = "unregister" => /\ op[t].workspace \in Workspaces
                                          /\ entries[op[t].workspace] = "Stopping"
    /\ \A t, u \in Threads : \A w \in Workspaces : Owns(t, w) /\ Owns(u, w) => t = u
    /\ \A t, u \in Threads :
          op[t].kind = "shutdown" /\ op[u].kind = "shutdown" => t = u
    /\ \A w \in Workspaces :
          /\ shutDown => entries[w] = "absent"
          /\ runtime[w] # 0 <=> entries[w] = "Ready"
          /\ entries[w] = "Ready" =>
                /\ runtime[w] \in DOMAIN engines
                /\ engines[runtime[w]].live
                /\ engines[runtime[w]].workspace = w

(* A call that has started engine e and not yet handed it over, or has taken  *)
(* it and not yet joined its live index.                                      *)
Holds(t, e) ==
    \/ op[t].step = "finish" /\ op[t].engine = e
    \/ e \in op[t].queue

(* Who is responsible for an engine, and what is true of it.                  *)
EngineInv ==
    /\ \A t \in Threads : \A e \in DOMAIN engines :
          /\ Holds(t, e) => engines[e].live
          /\ Holds(t, e) /\ op[t].kind # "shutdown" => engines[e].workspace = op[t].workspace
          /\ op[t].step = "revoke" /\ op[t].engine = e => ~engines[e].live
    /\ \A t \in Threads : \A d, e \in op[t].queue :
          engines[d].workspace = engines[e].workspace => d = e
    /\ \A e \in DOMAIN engines :
          /\ engines[e].live =>
                ~engines[e].stopped
                /\ (runtime[engines[e].workspace] = e \/ \E t \in Threads : Holds(t, e))
          /\ engines[e].stopped => ~engines[e].fresh
          /\ ~engines[e].live /\ ~engines[e].stopped =>
                \E t \in Threads : op[t].step = "revoke" /\ op[t].engine = e

(* TypeOK, with what its bound on the registered worktrees rests on.          *)
Types == TypeOK /\ IsFiniteSet(Registered)

RegistryInv == OpInv /\ EntryInv /\ EngineInv /\ OneRepository

EngineRecord == [workspace : Workspaces, live : BOOLEAN, fresh : BOOLEAN, stopped : BOOLEAN]

-----------------------------------------------------------------------------
(* The commit cache.                                                         *)

(* Making a key the most recent one adds it, keeps nothing else that was not  *)
(* cached, and makes the cache longer only by a key that it had not.           *)
LEMMA TouchKeys ==
    ASSUME NEW keys \in Seq(Commits), NEW k \in Commits
    PROVE  /\ Touch(keys, k) \in Seq(Commits)
           /\ ToSet(Touch(keys, k)) \subseteq ToSet(keys) \union {k}
           /\ Len(Touch(keys, k)) = IF k \in ToSet(keys) THEN Len(keys) ELSE Len(keys) + 1
<1> DEFINE place == CHOOSE i \in DOMAIN keys : keys[i] = k
           others == IF Contains(keys, k) THEN RemoveAt(keys, place) ELSE keys
<1>1. DOMAIN keys = 1 .. Len(keys) /\ Len(keys) \in Nat /\ \A i \in 1 .. Len(keys) : keys[i] \in Commits
  BY LenProperties
<1>2. Contains(keys, k) <=> k \in ToSet(keys)
  BY <1>1 DEF Contains, ToSet
<1>3. /\ others \in Seq(Commits)
      /\ \A i \in 1 .. Len(others) : \E j \in 1 .. Len(keys) : others[i] = keys[j]
      /\ Len(others) = IF Contains(keys, k) THEN Len(keys) - 1 ELSE Len(keys)
  <2>1. CASE ~Contains(keys, k)
    BY <2>1, <1>1
  <2>2. CASE Contains(keys, k)
    <3> DEFINE before == SubSeq(keys, 1, place - 1)
               after == SubSeq(keys, place + 1, Len(keys))
    <3>1. place \in 1 .. Len(keys)
      BY <2>2, <1>1 DEF Contains
    <3> HIDE DEF place
    <3>2. /\ before \in Seq(Commits) /\ Len(before) = place - 1
          /\ \A i \in 1 .. place - 1 : before[i] = keys[i]
      <4>1. \A i \in 1 .. place - 1 : keys[i] \in Commits
        BY <1>1, <3>1
      <4>2. 1 \in Int /\ place - 1 \in Int
        BY <3>1
      <4>3. /\ SubSeq(keys, 1, place - 1) \in Seq(Commits)
            /\ Len(SubSeq(keys, 1, place - 1)) = IF 1 <= place - 1 THEN place - 1 - 1 + 1 ELSE 0
            /\ \A i \in 1 .. place - 1 - 1 + 1 : SubSeq(keys, 1, place - 1)[i] = keys[1 + i - 1]
        BY <4>1, <4>2, SubSeqProperties
      <4> QED BY <4>3, <3>1
    <3>3. /\ after \in Seq(Commits) /\ Len(after) = Len(keys) - place
          /\ \A i \in 1 .. Len(keys) - place : after[i] = keys[place + i]
      <4>1. \A i \in place + 1 .. Len(keys) : keys[i] \in Commits
        BY <1>1, <3>1
      <4>2. place + 1 \in Int /\ Len(keys) \in Int
        BY <1>1, <3>1
      <4>3. /\ SubSeq(keys, place + 1, Len(keys)) \in Seq(Commits)
            /\ Len(SubSeq(keys, place + 1, Len(keys))) =
                  IF place + 1 <= Len(keys) THEN Len(keys) - (place + 1) + 1 ELSE 0
            /\ \A i \in 1 .. Len(keys) - (place + 1) + 1 :
                  SubSeq(keys, place + 1, Len(keys))[i] = keys[(place + 1) + i - 1]
        BY <4>1, <4>2, SubSeqProperties
      <4> QED BY <4>3, <3>1, <1>1
    <3>4. others = before \o after
      BY <2>2 DEF RemoveAt
    <3> HIDE DEF before, after, others
    <3>5. /\ others \in Seq(Commits) /\ Len(others) = Len(keys) - 1
          /\ \A i \in 1 .. Len(keys) - 1 :
                others[i] = IF i <= place - 1 THEN before[i] ELSE after[i - (place - 1)]
      <4>1. /\ before \o after \in Seq(Commits)
            /\ Len(before \o after) = Len(before) + Len(after)
            /\ \A i \in 1 .. Len(before) + Len(after) :
                  (before \o after)[i] =
                     IF i <= Len(before) THEN before[i] ELSE after[i - Len(before)]
        BY <3>2, <3>3, ConcatProperties
      <4>2. Len(before) + Len(after) = Len(keys) - 1
        BY <3>1, <3>2, <3>3, <1>1
      <4> QED BY <4>1, <4>2, <3>2, <3>4
    <3>6. ASSUME NEW i \in 1 .. Len(keys) - 1
          PROVE  \E j \in 1 .. Len(keys) : others[i] = keys[j]
      <4>1. CASE i <= place - 1
        BY <4>1, <3>1, <3>2, <3>5, <1>1
      <4>2. CASE i > place - 1
        <5>1. i - (place - 1) \in 1 .. Len(keys) - place /\ place + (i - (place - 1)) = i + 1
          BY <4>2, <3>1, <1>1
        <5>2. others[i] = keys[i + 1]
          BY <5>1, <4>2, <3>3, <3>5, <3>1
        <5> QED BY <5>2, <1>1
      <4> QED BY <4>1, <4>2, <3>1
    <3> QED BY <3>5, <3>6, <2>2
  <2> QED BY <2>1, <2>2
<1>4. Touch(keys, k) = Append(others, k)
  BY DEF Touch
<1> HIDE DEF others
<1>5. /\ Touch(keys, k) \in Seq(Commits)
      /\ Len(Touch(keys, k)) = Len(others) + 1
      /\ \A i \in 1 .. Len(others) : Touch(keys, k)[i] = others[i]
      /\ Touch(keys, k)[Len(others) + 1] = k
  BY <1>3, <1>4, AppendProperties
<1>6. ToSet(Touch(keys, k)) \subseteq ToSet(keys) \union {k}
  <2> SUFFICES ASSUME NEW i \in 1 .. Len(others) + 1
               PROVE  Touch(keys, k)[i] \in ToSet(keys) \union {k}
    BY <1>5, LenProperties DEF ToSet
  <2>1. CASE i \in 1 .. Len(others)
    <3>1. PICK j \in 1 .. Len(keys) : others[i] = keys[j]
      BY <1>3, <2>1
    <3> QED BY <3>1, <2>1, <1>1, <1>5 DEF ToSet
  <2>2. CASE i = Len(others) + 1
    BY <2>2, <1>5
  <2> QED BY <2>1, <2>2, <1>3, LenProperties
<1>7. Len(Touch(keys, k)) = IF k \in ToSet(keys) THEN Len(keys) ELSE Len(keys) + 1
  <2>1. Len(Touch(keys, k)) = Len(others) + 1
    BY <1>5
  <2>2. CASE Contains(keys, k)
    <3>1. Len(others) = Len(keys) - 1
      BY <2>2, <1>3
    <3>2. Len(keys) \in Nat
      BY <1>1
    <3> QED BY <3>1, <3>2, <2>1, <2>2, <1>2
  <2>3. CASE ~Contains(keys, k)
    BY <2>1, <2>3, <1>2, <1>3
  <2> QED BY <2>2, <2>3
<1> QED BY <1>5, <1>6, <1>7

(* Eviction drops keys and keeps the bound.                                   *)
LEMMA EvictedKeys ==
    ASSUME NEW keys \in Seq(Commits)
    PROVE  /\ EvictMemory(keys) \in Seq(Commits)
           /\ ToSet(EvictMemory(keys)) \subseteq ToSet(keys)
           /\ Len(EvictMemory(keys)) <= MaxMemoryEntries
<1>1. DOMAIN keys = 1 .. Len(keys) /\ Len(keys) \in Nat /\ \A i \in 1 .. Len(keys) : keys[i] \in Commits
  BY LenProperties
<1>2. CASE Len(keys) <= MaxMemoryEntries
  BY <1>2, <1>1, CacheAssumption DEF EvictMemory
<1>3. CASE Len(keys) > MaxMemoryEntries
  <2> DEFINE first == Len(keys) - MaxMemoryEntries + 1
             kept == SubSeq(keys, first, Len(keys))
  <2>1. first \in 1 .. Len(keys) /\ Len(keys) - first + 1 = MaxMemoryEntries
    BY <1>1, <1>3, CacheAssumption
  <2>2. EvictMemory(keys) = kept
    BY <1>1, <1>3, CacheAssumption DEF EvictMemory
  <2> HIDE DEF first
  <2>3. /\ kept \in Seq(Commits)
        /\ Len(kept) = IF first <= Len(keys) THEN Len(keys) - first + 1 ELSE 0
        /\ \A i \in 1 .. Len(keys) - first + 1 : kept[i] = keys[first + i - 1]
    <3>1. \A i \in first .. Len(keys) : keys[i] \in Commits
      BY <1>1, <2>1
    <3>2. first \in Int /\ Len(keys) \in Int
      BY <1>1, <2>1
    <3> QED BY <3>1, <3>2, SubSeqProperties
  <2> HIDE DEF kept
  <2>4. Len(kept) = MaxMemoryEntries /\ DOMAIN kept = 1 .. MaxMemoryEntries
    BY <2>1, <2>3, LenProperties, CacheAssumption
  <2>5. ASSUME NEW i \in 1 .. MaxMemoryEntries
        PROVE  kept[i] \in ToSet(keys)
    <3>1. kept[i] = keys[first + i - 1] /\ first + i - 1 \in 1 .. Len(keys)
      BY <1>1, <2>1, <2>3, <2>4, CacheAssumption
    <3> QED BY <3>1, <1>1 DEF ToSet
  <2> QED BY <2>2, <2>3, <2>4, <2>5, CacheAssumption DEF ToSet
<1> QED BY <1>1, <1>2, <1>3, CacheAssumption

CacheInv == CacheTypeOK /\ NoDuplicateBuild

(* A record of `call`, and the record with another step.                      *)
LEMMA CallFields ==
    ASSUME CacheTypeOK, NEW c \in Callers, call[c].step # "none"
    PROVE  /\ call[c].commit \in Commits
           /\ \A s \in {"lookup", "building", "loaded", "failed"} :
                 [call[c] EXCEPT !.step = s] = Call(s, call[c].commit)
<1>1. call[c] \in [step : {"lookup", "building", "loaded", "failed"}, commit : Commits]
  BY DEF CacheTypeOK, NoCall
<1> QED BY <1>1 DEF Call

(* A caller that is not building changes what it does and nothing else.       *)
LEMMA CallChanges ==
    ASSUME CacheInv, NEW c \in Callers, call[c].step # "building",
           NEW new \in {NoCall} \union [step : {"lookup", "loaded", "failed"}, commit : Commits],
           call' = [call EXCEPT ![c] = new], building' = building,
           ready' \in Seq(Commits), Len(ready') <= MaxMemoryEntries,
           ToSet(ready') \subseteq ToSet(ready)
    PROVE  CacheInv'
<1>1. new.step # "building"
  BY DEF NoCall
<1>2. /\ call'[c] = new
      /\ \A d \in Callers : d # c => call'[d] = call[d]
      /\ \A d \in Callers : call'[d].step = "building" => d # c /\ call[d].step = "building"
  BY <1>1 DEF CacheInv, CacheTypeOK
<1>3. CacheTypeOK'
  <2>1. new \in {NoCall} \union
           [step : {"lookup", "building", "loaded", "failed"}, commit : Commits]
    OBVIOUS
  <2> HIDE DEF NoCall
  <2> QED BY <2>1 DEF CacheInv, CacheTypeOK
<1>4. {d \in Callers : call'[d].step = "building"} = {d \in Callers : call[d].step = "building"}
  BY <1>2
<1>5. NoDuplicateBuild'
  BY <1>2, <1>4 DEF CacheInv, NoDuplicateBuild
<1> QED BY <1>3, <1>5 DEF CacheInv

(* The claim of a key that nobody builds and nobody has cached.                *)
LEMMA ClaimKeepsCache ==
    ASSUME CacheInv, NEW c \in Callers, Claim(c)
    PROVE  CacheInv'
<1> DEFINE k == call[c].commit
<1>1. k \in Commits /\ call' = [call EXCEPT ![c] = Call("building", k)]
  BY CallFields DEF CacheInv, Claim
<1>2. /\ call'[c] = Call("building", k)
      /\ \A d \in Callers : d # c => call'[d] = call[d]
      /\ building' = building \union {k} /\ ready' = ready
      /\ k \notin building /\ k \notin ToSet(ready)
      /\ call[c].step # "building"
  BY <1>1 DEF CacheInv, CacheTypeOK, Claim, NobodyBuilds, Cached
<1> HIDE DEF k
<1>3. CacheTypeOK'
  BY <1>1, <1>2 DEF CacheInv, CacheTypeOK, Call
<1>4. call'[c].step = "building" /\ call'[c].commit = k
  BY <1>2 DEF Call
<1>5. building' = {call'[d].commit : d \in {e \in Callers : call'[e].step = "building"}}
  <2>1. ASSUME NEW x \in building' PROVE \E d \in Callers : call'[d].step = "building" /\ call'[d].commit = x
    BY <2>1, <1>2, <1>4 DEF CacheInv, NoDuplicateBuild
  <2>2. ASSUME NEW d \in Callers, call'[d].step = "building" PROVE call'[d].commit \in building'
    BY <2>2, <1>2, <1>4 DEF CacheInv, NoDuplicateBuild
  <2> QED BY <2>1, <2>2
<1>6. ASSUME NEW d \in Callers, NEW e \in Callers, call'[d].step = "building",
             call'[e].step = "building", call'[d].commit = call'[e].commit
      PROVE  d = e
  <2>1. ASSUME NEW b \in Callers, b # c, call'[b].step = "building" PROVE call'[b].commit # k
    BY <2>1, <1>2 DEF CacheInv, NoDuplicateBuild
  <2> QED BY <2>1, <1>4, <1>6, <1>2 DEF CacheInv, NoDuplicateBuild
<1>7. building' \intersect ToSet(ready') = {}
  BY <1>2 DEF CacheInv, NoDuplicateBuild
<1> QED BY <1>3, <1>5, <1>6, <1>7 DEF CacheInv, NoDuplicateBuild

(* The end of a build gives up the claim; only the key that was built may      *)
(* become cached by it.                                                       *)
LEMMA BuildEndKeepsCache ==
    ASSUME CacheInv, NEW c \in Callers, call[c].step = "building",
           NEW last \in {"loaded", "failed"}, call' = [call EXCEPT ![c].step = last],
           building' = building \ {call[c].commit},
           ready' \in Seq(Commits), Len(ready') <= MaxMemoryEntries,
           ToSet(ready') \subseteq ToSet(ready) \union {call[c].commit}
    PROVE  CacheInv'
<1> DEFINE k == call[c].commit
<1>1. k \in Commits /\ call' = [call EXCEPT ![c] = Call(last, k)]
  BY CallFields DEF CacheInv
<1>2. /\ call'[c] = Call(last, k)
      /\ \A d \in Callers : d # c => call'[d] = call[d]
  BY <1>1 DEF CacheInv, CacheTypeOK
<1>3. CacheTypeOK'
  <2>1. Call(last, k) \in [step : {"lookup", "building", "loaded", "failed"}, commit : Commits]
    BY <1>1 DEF Call
  <2>2. building' \in SUBSET Commits
    BY DEF CacheInv, CacheTypeOK
  <2> QED BY <1>1, <2>1, <2>2 DEF CacheInv, CacheTypeOK
<1>4. \A d \in Callers : call'[d].step = "building" <=> d # c /\ call[d].step = "building"
  BY <1>2 DEF Call
<1>5. \A d \in Callers : d # c /\ call[d].step = "building" => call[d].commit # k
  BY DEF CacheInv, NoDuplicateBuild
<1>6. building' = {call'[d].commit : d \in {e \in Callers : call'[e].step = "building"}}
  <2>1. ASSUME NEW x \in building' PROVE \E d \in Callers : call'[d].step = "building" /\ call'[d].commit = x
    <3>1. PICK d \in Callers : call[d].step = "building" /\ call[d].commit = x
      BY <2>1 DEF CacheInv, NoDuplicateBuild
    <3>2. d # c
      BY <3>1, <2>1
    <3> QED BY <3>1, <3>2, <1>2, <1>4
  <2>2. ASSUME NEW d \in Callers, call'[d].step = "building" PROVE call'[d].commit \in building'
    <3>1. d # c /\ call[d].step = "building" /\ call'[d] = call[d]
      BY <2>2, <1>4, <1>2
    <3> QED BY <3>1, <1>5 DEF CacheInv, NoDuplicateBuild
  <2> QED BY <2>1, <2>2
<1>7. \A d, e \in Callers :
          call'[d].step = "building" /\ call'[e].step = "building"
             /\ call'[d].commit = call'[e].commit => d = e
  BY <1>2, <1>4 DEF CacheInv, NoDuplicateBuild
<1>8. building' \intersect ToSet(ready') = {}
  BY DEF CacheInv, NoDuplicateBuild
<1> QED BY <1>3, <1>6, <1>7, <1>8 DEF CacheInv, NoDuplicateBuild

(* Every step that a caller takes by itself, and its cancellation.             *)
LEMMA CacheStepKeepsCache ==
    ASSUME CacheInv, NEW c \in Callers, CacheStep(c) \/ CancelWait(c)
    PROVE  CacheInv'
<1> USE DEF CacheInv
<1>1. ready \in Seq(Commits) /\ Len(ready) <= MaxMemoryEntries
  BY DEF CacheTypeOK
<1>2. CASE Hit(c)
  <2>1. /\ call[c].commit \in Commits
        /\ call' = [call EXCEPT ![c] = Call("loaded", call[c].commit)]
    BY <1>2, CallFields DEF Hit
  <2>2. Call("loaded", call[c].commit) \in [step : {"lookup", "loaded", "failed"}, commit : Commits]
    BY <2>1 DEF Call
  <2>3. call[c].commit \in ToSet(ready) /\ ready' = Touch(ready, call[c].commit)
    BY <1>2 DEF Hit, Cached
  <2>4. /\ ready' \in Seq(Commits) /\ Len(ready') <= MaxMemoryEntries
        /\ ToSet(ready') \subseteq ToSet(ready)
    <3> DEFINE k == call[c].commit
    <3>1. k \in Commits /\ k \in ToSet(ready) /\ ready' = Touch(ready, k)
      BY <2>1, <2>3
    <3> HIDE DEF k
    <3>2. /\ Touch(ready, k) \in Seq(Commits)
          /\ ToSet(Touch(ready, k)) \subseteq ToSet(ready) \union {k}
          /\ Len(Touch(ready, k)) = Len(ready)
      BY <3>1, <1>1, TouchKeys
    <3> QED BY <3>1, <3>2, <1>1
  <2>5. building' = building /\ call[c].step # "building"
    BY <1>2 DEF Hit
  <2> QED BY <2>1, <2>2, <2>4, <2>5, CallChanges
<1>3. CASE Claim(c)
  BY <1>3, ClaimKeepsCache
<1>4. CASE BuildSucceeds(c)
  <2>1. /\ call[c].commit \in Commits /\ call[c].step = "building"
        /\ call' = [call EXCEPT ![c].step = "loaded"]
        /\ building' = building \ {call[c].commit}
        /\ ready' = EvictMemory(Touch(ready, call[c].commit))
    BY <1>4, CallFields DEF BuildSucceeds
  <2>2. /\ Touch(ready, call[c].commit) \in Seq(Commits)
        /\ ToSet(Touch(ready, call[c].commit)) \subseteq ToSet(ready) \union {call[c].commit}
    BY <1>1, <2>1, TouchKeys
  <2>3. /\ ready' \in Seq(Commits) /\ Len(ready') <= MaxMemoryEntries
        /\ ToSet(ready') \subseteq ToSet(ready) \union {call[c].commit}
    BY <2>1, <2>2, EvictedKeys
  <2> QED BY <2>1, <2>3, BuildEndKeepsCache
<1>5. CASE BuildFails(c)
  <2>1. /\ call[c].step = "building"
        /\ call' = [call EXCEPT ![c].step = "failed"]
        /\ building' = building \ {call[c].commit}
        /\ ready' = ready
    BY <1>5 DEF BuildFails, BuildingAfterFailure
  <2> QED BY <2>1, <1>1, BuildEndKeepsCache
<1>6. CASE CancelWait(c)
  <2>1. /\ call[c].commit \in Commits
        /\ call' = [call EXCEPT ![c] = Call("failed", call[c].commit)]
        /\ building' = building /\ ready' = ready /\ call[c].step # "building"
    BY <1>6, CallFields DEF CancelWait
  <2>2. Call("failed", call[c].commit) \in [step : {"lookup", "loaded", "failed"}, commit : Commits]
    BY <2>1 DEF Call
  <2> QED BY <1>1, <2>1, <2>2, CallChanges
<1> QED BY <1>2, <1>3, <1>4, <1>5, <1>6 DEF CacheStep

-----------------------------------------------------------------------------
(* The registry: types.                                                      *)

OpRecord == [kind : {"none", "register", "unregister", "shutdown"},
             step : Steps, workspace : Workspaces \union {None},
             attempt : 1..MaxLayerCompositionAttempts, engine : Nat, queue : SUBSET Nat]

(* A caller asks the cache only while its registration loads.                  *)
CallInv == \A t \in Threads : call[t] # NoCall <=> op[t].step = "load"

(* The invariant without the part about the commit cache.                     *)
RegistryTypes ==
    /\ repository \in Repositories \union {None}
    /\ entries \in [Workspaces -> States]
    /\ Cardinality(Registered) <= MaxWorkspaces /\ IsFiniteSet(Registered)
    /\ runtime \in [Workspaces -> Nat]
    /\ shutDown \in BOOLEAN
    /\ engines \in Seq(EngineRecord)
    /\ op \in [Threads -> OpRecord]
    /\ head \in [Workspaces -> Commits]
    /\ moves \in 0..MaxHeadMoves
    /\ registrations \in 0..MaxRegistrations

(* The types of the cache and those of the registry make the whole.          *)
LEMMA TypesSplit == Types <=> CacheTypeOK /\ RegistryTypes
BY DEF Types, TypeOK, RegistryTypes, EngineRecord, OpRecord

(* One worktree more, and never more than there is room for.                   *)
LEMMA RegisteredGrows ==
    ASSUME RegistryTypes, NEW w \in Workspaces, entries[w] = "absent",
           Cardinality(Registered) < MaxWorkspaces,
           entries' = [entries EXCEPT ![w] = "Starting"]
    PROVE  /\ Registered' = Registered \union {w}
           /\ IsFiniteSet(Registered') /\ Cardinality(Registered') <= MaxWorkspaces
<1>1. Registered' = Registered \union {w} /\ w \notin Registered
  BY DEF RegistryTypes, Registered
<1>2. IsFiniteSet(Registered') /\ Cardinality(Registered') = Cardinality(Registered) + 1
  BY <1>1, FS_AddElement DEF RegistryTypes
<1>3. Cardinality(Registered) \in Nat
  BY FS_CardinalityType DEF RegistryTypes
<1> QED BY <1>1, <1>2, <1>3, RegistryAssumption

(* Other changes of the entries leave no worktree registered that was not.     *)
LEMMA RegisteredShrinks ==
    ASSUME RegistryTypes, entries' \in [Workspaces -> States],
           \A w \in Workspaces : entries[w] = "absent" => entries'[w] = "absent"
    PROVE  /\ Registered' \subseteq Registered
           /\ IsFiniteSet(Registered') /\ Cardinality(Registered') <= MaxWorkspaces
<1>1. Registered' \subseteq Registered
  BY DEF Registered
<1>2. IsFiniteSet(Registered') /\ Cardinality(Registered') <= Cardinality(Registered)
  BY <1>1, FS_Subset DEF RegistryTypes
<1>3. Cardinality(Registered) \in Nat /\ Cardinality(Registered') \in Nat
  BY <1>2, FS_CardinalityType DEF RegistryTypes
<1> QED BY <1>1, <1>2, <1>3, RegistryAssumption DEF RegistryTypes

(* What the steps make of a call.                                            *)
LEMMA OpTypes ==
    /\ Idle \in OpRecord
    /\ \A w \in Workspaces, q \in SUBSET Nat :
          /\ Op("register", "resolve", w, q) \in OpRecord
          /\ Op("unregister", "join", w, q) \in OpRecord
    /\ \A q \in SUBSET Nat : Op("shutdown", "join", None, q) \in OpRecord
<1>1. 1 \in 1 .. MaxLayerCompositionAttempts
  BY RegistryAssumption
<1>2. Idle \in OpRecord
  BY <1>1 DEF Idle, Op, OpRecord, Steps
<1>3. ASSUME NEW w \in Workspaces, NEW q \in SUBSET Nat
      PROVE  /\ Op("register", "resolve", w, q) \in OpRecord
             /\ Op("unregister", "join", w, q) \in OpRecord
  BY <1>1 DEF Op, OpRecord, Steps
<1>4. ASSUME NEW q \in SUBSET Nat
      PROVE  Op("shutdown", "join", None, q) \in OpRecord
  BY <1>1 DEF Op, OpRecord, Steps
<1> QED BY <1>2, <1>3, <1>4

(* What the engines' type says of one engine.                                 *)
LEMMA EngineFields ==
    ASSUME RegistryTypes
    PROVE  /\ DOMAIN engines = 1 .. Len(engines) /\ Len(engines) \in Nat
           /\ DOMAIN engines \subseteq Nat /\ 0 \notin DOMAIN engines
           /\ \A e \in DOMAIN engines : engines[e] \in EngineRecord
BY LenProperties DEF RegistryTypes

(* An assignment to one engine keeps the sequence and the other engines.       *)
LEMMA EngineChanges ==
    ASSUME RegistryTypes, NEW n \in DOMAIN engines, NEW new \in EngineRecord,
           engines' = [engines EXCEPT ![n] = new]
    PROVE  /\ engines' \in Seq(EngineRecord) /\ DOMAIN engines' = DOMAIN engines
           /\ engines'[n] = new
           /\ \A e \in DOMAIN engines : e # n => engines'[e] = engines[e]
<1>1. n \in 1 .. Len(engines)
  BY EngineFields
<1> QED BY <1>1, ExceptSeq DEF RegistryTypes

-----------------------------------------------------------------------------
(* The registry: one lemma for each kind of step.                             *)

(* A registration moves between resolving, loading and starting.              *)
LEMMA StartKeepsRegistry ==
    ASSUME RegistryTypes, RegistryInv, NEW t \in Threads, op[t].kind = "register",
           op[t].step # "finish",
           NEW new \in OpRecord, new.kind = "register", new.workspace = op[t].workspace,
           new.queue = {}, new.step \in {"resolve", "load", "start"},
           op' = [op EXCEPT ![t] = new],
           UNCHANGED <<repository, entries, runtime, shutDown, engines>>
    PROVE  RegistryInv'
<1>1. /\ op'[t] = new
      /\ \A u \in Threads : u # t => op'[u] = op[u]
      /\ \A u \in Threads : op'[u].kind = op[u].kind /\ op'[u].workspace = op[u].workspace
                            /\ op'[u].queue = op[u].queue
                            /\ (op'[u].step \in {"finish", "revoke"} => op'[u] = op[u])
                            /\ (op[u].step \in {"finish", "revoke"} => op'[u] = op[u])
  BY DEF RegistryTypes, RegistryInv, OpInv, Starts
<1>2. OpInv'
  <2> SUFFICES ASSUME NEW u \in Threads
               PROVE  OpInv!(u)'
    BY DEF OpInv
  <2>1. CASE u = t
    BY <2>1, <1>1 DEF Starts
  <2>2. CASE u # t
    BY <2>2, <1>1 DEF RegistryInv, OpInv
  <2> QED BY <2>1, <2>2
<1>3. EntryInv'
  BY <1>1 DEF RegistryInv, EntryInv, Owns
<1>4. \A u \in Threads : \A e \in DOMAIN engines : Holds(u, e)' <=> Holds(u, e)
  BY <1>1 DEF Holds
<1>5. EngineInv'
  <2>1. \A u \in Threads : \A e \in DOMAIN engines :
          (op[u].step = "revoke" /\ op[u].engine = e)' <=> op[u].step = "revoke" /\ op[u].engine = e
    BY <1>1
  <2> QED BY <1>1, <1>4, <2>1 DEF RegistryInv, EngineInv
<1>6. OneRepository'
  BY DEF RegistryInv, OneRepository, Registered
<1> QED BY <1>2, <1>3, <1>5, <1>6 DEF RegistryInv

(* A reservation is rolled back.                                             *)
LEMMA RollbackKeepsRegistry ==
    ASSUME RegistryTypes, RegistryInv, NEW t \in Threads,
           op[t].step \in {"resolve", "load", "start"}, RollbackReservation(t)
    PROVE  RegistryInv'
<1> DEFINE w == op[t].workspace
<1>1. op[t].kind = "register" /\ op[t].queue = {}
  BY DEF RegistryTypes, OpRecord, RegistryInv, OpInv
<1>2. w \in Workspaces /\ entries[w] = "Starting"
  BY <1>1 DEF RegistryInv, EntryInv
<1>3. /\ op'[t] = Idle
      /\ \A u \in Threads : u # t => op'[u] = op[u]
      /\ entries' = [entries EXCEPT ![w] = "absent"]
      /\ UNCHANGED <<runtime, shutDown, engines>>
      /\ repository' = RepositoryAfterRollback(w)
  BY DEF RollbackReservation, Return, RegistryTypes
<1> HIDE DEF w
<1>4. OpInv'
  <2> SUFFICES ASSUME NEW u \in Threads
               PROVE  OpInv!(u)'
    BY DEF OpInv
  <2>1. CASE u = t
    BY <2>1, <1>3 DEF Idle, Op
  <2>2. CASE u # t
    BY <2>2, <1>3 DEF RegistryInv, OpInv
  <2> QED BY <2>1, <2>2
<1>5. EntryInv'
  <2>1. \A u \in Threads : u # t /\ op[u].kind \in {"register", "unregister"} => op[u].workspace # w
    BY <1>1, <1>2 DEF RegistryInv, EntryInv, Owns, w
  <2>2. runtime[w] = 0
    BY <1>2 DEF RegistryInv, EntryInv
  <2>3. \A v \in Workspaces : v # w => entries'[v] = entries[v]
    BY <1>3
  <2>4. entries'[w] = "absent"
    BY <1>2, <1>3 DEF RegistryTypes
  <2>5. Idle.kind = "none"
    BY DEF Idle, Op
  <2> QED BY <1>1, <1>2, <1>3, <2>1, <2>2, <2>3, <2>4, <2>5 DEF RegistryInv, EntryInv, Owns
<1>6. EngineInv'
  <2>1. /\ \A u \in Threads : \A e \in DOMAIN engines : Holds(u, e)' <=> Holds(u, e)
        /\ \A u \in Threads : op'[u].queue = op[u].queue
        /\ \A u \in Threads : \A e \in DOMAIN engines :
            (op[u].step = "revoke" /\ op[u].engine = e)' <=> op[u].step = "revoke" /\ op[u].engine = e
    BY <1>1, <1>3 DEF Holds, Idle, Op
  <2>2. \A u \in Threads : \A e \in DOMAIN engines : Holds(u, e)' => op'[u] = op[u]
    BY <1>3, <1>1 DEF Holds, Idle, Op
  <2> QED BY <2>1, <2>2, <1>3 DEF RegistryInv, EngineInv
<1>7. OneRepository'
  <2>1. Registered' = Registered \ {w}
    BY <1>2, <1>3 DEF RegistryTypes, Registered
  <2> QED BY <2>1, <1>3 DEF RegistryInv, OneRepository, RepositoryAfterRollback
<1> QED BY <1>4, <1>5, <1>6, <1>7 DEF RegistryInv

(* A worktree is reserved.                                                    *)
LEMMA ReserveKeepsRegistry ==
    ASSUME RegistryTypes, RegistryInv, NEW t \in Threads, NEW w \in Workspaces, Reserve(t, w)
    PROVE  RegistryInv'
<1> DEFINE new == Op("register", "resolve", w, {})
<1>1. /\ op[t] = Idle
      /\ entries[w] = "absent" /\ ~shutDown
      /\ entries' = [entries EXCEPT ![w] = "Starting"]
      /\ op'[t] = new
      /\ \A u \in Threads : u # t => op'[u] = op[u]
      /\ UNCHANGED <<runtime, shutDown, engines>>
  BY DEF Reserve, RegistryTypes
<1>2. /\ new.kind = "register" /\ new.step = "resolve" /\ new.workspace = w /\ new.queue = {}
      /\ Idle.kind = "none" /\ Idle.step = "idle" /\ Idle.queue = {}
  BY DEF Op, Idle
<1> HIDE DEF new
<1>3. OpInv'
  BY <1>1, <1>2 DEF RegistryInv, OpInv, Starts
<1>4. EntryInv'
  <2>1. \A u \in Threads : op[u].kind \in {"register", "unregister"} => op[u].workspace # w
    BY <1>1 DEF RegistryInv, EntryInv
  <2>2. runtime[w] = 0
    BY <1>1 DEF RegistryInv, EntryInv
  <2>3. entries'[w] = "Starting" /\ \A v \in Workspaces : v # w => entries'[v] = entries[v]
    BY <1>1 DEF RegistryTypes
  <2> QED BY <1>1, <1>2, <2>1, <2>2, <2>3 DEF RegistryInv, EntryInv, Owns
<1>5. EngineInv'
  <2>1. /\ \A u \in Threads : \A e \in DOMAIN engines : Holds(u, e)' <=> Holds(u, e)
        /\ \A u \in Threads : op'[u].queue = op[u].queue
        /\ \A u \in Threads : \A e \in DOMAIN engines :
            (op[u].step = "revoke" /\ op[u].engine = e)' <=> op[u].step = "revoke" /\ op[u].engine = e
    BY <1>1, <1>2 DEF Holds
  <2>2. \A u \in Threads : \A e \in DOMAIN engines : Holds(u, e)' => op'[u] = op[u]
    BY <1>1, <1>2 DEF Holds
  <2> QED BY <2>1, <2>2, <1>1 DEF RegistryInv, EngineInv
<1>6. OneRepository'
  <2>1. Registered' = Registered \union {w}
    BY <1>1 DEF RegistryTypes, Registered
  <2>2. repository' = RepositoryOf[w] /\ (repository = None \/ repository = RepositoryOf[w])
    BY DEF Reserve, RightRepository
  <2>3. \A v \in Workspaces : RepositoryOf[v] # None
    BY RegistryAssumption
  <2> QED BY <2>1, <2>2, <2>3 DEF RegistryInv, OneRepository, Registered
<1> QED BY <1>3, <1>4, <1>5, <1>6 DEF RegistryInv

(* An engine is started; the registration holds it.                           *)
LEMMA StartLiveKeepsRegistry ==
    ASSUME RegistryTypes, RegistryInv, NEW t \in Threads, StartLive(t)
    PROVE  RegistryInv' /\ engines' \in Seq(EngineRecord)
<1> DEFINE w == op[t].workspace
           n == Len(engines) + 1
<1>1. /\ op[t].kind = "register" /\ op[t].queue = {} /\ op[t].step = "start"
      /\ w \in Workspaces /\ entries[w] = "Starting"
  <2>1. op[t].kind = "register" /\ op[t].queue = {} /\ op[t].step = "start"
    BY DEF StartLive, RegistryTypes, OpRecord, RegistryInv, OpInv
  <2> QED BY <2>1 DEF RegistryInv, EntryInv
<1>2. /\ op'[t].kind = "register" /\ op'[t].queue = {} /\ op'[t].step = "finish"
      /\ op'[t].workspace = w /\ op'[t].engine = n
      /\ \A u \in Threads : u # t => op'[u] = op[u]
      /\ UNCHANGED <<repository, entries, runtime, shutDown>>
  BY <1>1 DEF StartLive, RegistryTypes, OpRecord
<1>3. /\ Engine(w) \in EngineRecord
      /\ Engine(w).live /\ ~Engine(w).stopped /\ ~Engine(w).fresh /\ Engine(w).workspace = w
  BY <1>1 DEF Engine, EngineRecord
<1>4. /\ engines' \in Seq(EngineRecord)
      /\ DOMAIN engines = 1 .. Len(engines) /\ DOMAIN engines' = 1 .. n
      /\ engines'[n] = Engine(w)
      /\ \A e \in DOMAIN engines : engines'[e] = engines[e] /\ e \in DOMAIN engines'
      /\ n \notin DOMAIN engines /\ n \in DOMAIN engines'
      /\ \A e \in DOMAIN engines' : e = n \/ e \in DOMAIN engines
  <2>1. engines \in Seq(EngineRecord) /\ engines' = Append(engines, Engine(w))
    BY DEF StartLive, RegistryTypes
  <2>2. Len(engines) \in Nat /\ DOMAIN engines = 1 .. Len(engines)
    BY <2>1, LenProperties
  <2>3. /\ engines' \in Seq(EngineRecord) /\ Len(engines') = n
        /\ \A i \in 1 .. Len(engines) : engines'[i] = engines[i]
        /\ engines'[n] = Engine(w)
    BY <1>3, <2>1, AppendProperties
  <2>4. DOMAIN engines' = 1 .. n
    BY <2>3, LenProperties
  <2> QED BY <2>2, <2>3, <2>4
<1> HIDE DEF w, n
<1>5. OpInv'
  <2> SUFFICES ASSUME NEW u \in Threads
               PROVE  OpInv!(u)'
    BY DEF OpInv
  <2>1. CASE u = t
    BY <2>1, <1>2, <1>4 DEF Starts
  <2>2. CASE u # t
    BY <2>2, <1>2, <1>4 DEF RegistryInv, OpInv
  <2> QED BY <2>1, <2>2
<1>6. EntryInv'
  BY <1>1, <1>2, <1>4 DEF RegistryInv, EntryInv, Owns, w
<1>7. EngineInv'
  <2>1. \A u \in Threads : u # t => \A e \in DOMAIN engines' :
            /\ Holds(u, e)' <=> e \in DOMAIN engines /\ Holds(u, e)
            /\ (op[u].step = "revoke" /\ op[u].engine = e)' <=>
                  e \in DOMAIN engines /\ op[u].step = "revoke" /\ op[u].engine = e
    BY <1>2, <1>4 DEF Holds, RegistryInv, OpInv
  <2>2. \A e \in DOMAIN engines' : Holds(t, e)' <=> e = n
    BY <1>2 DEF Holds
  <2>3. \A e \in DOMAIN engines : ~Holds(t, e)
    BY <1>1 DEF Holds
  <2>4. \A u \in Threads : op'[u].queue = op[u].queue /\ op[u].queue \subseteq DOMAIN engines
    BY <1>1, <1>2 DEF RegistryInv, OpInv
  <2>5. \A u \in Threads : \A e \in DOMAIN engines' :
          /\ Holds(u, e)' => engines'[e].live
          /\ Holds(u, e)' /\ op'[u].kind # "shutdown" => engines'[e].workspace = op'[u].workspace
          /\ op'[u].step = "revoke" /\ op'[u].engine = e => ~engines'[e].live
    BY <2>1, <2>2, <1>2, <1>3, <1>4 DEF RegistryInv, EngineInv
  <2>6. \A u \in Threads : \A d, e \in op'[u].queue :
          engines'[d].workspace = engines'[e].workspace => d = e
    BY <2>4, <1>4 DEF RegistryInv, EngineInv
  <2>7. ASSUME NEW e \in DOMAIN engines'
        PROVE  /\ engines'[e].live =>
                    ~engines'[e].stopped
                    /\ (runtime'[engines'[e].workspace] = e \/ \E u \in Threads : Holds(u, e)')
               /\ engines'[e].stopped => ~engines'[e].fresh
               /\ ~engines'[e].live /\ ~engines'[e].stopped =>
                    \E u \in Threads : op'[u].step = "revoke" /\ op'[u].engine = e
    <3>1. CASE e = n
      BY <3>1, <2>2, <1>3, <1>4
    <3>2. CASE e \in DOMAIN engines
      BY <3>2, <2>1, <2>3, <1>1, <1>2, <1>4 DEF RegistryInv, EngineInv
    <3> QED BY <3>1, <3>2, <1>4
  <2> QED BY <2>5, <2>6, <2>7 DEF EngineInv
<1>8. OneRepository'
  BY <1>2 DEF RegistryInv, OneRepository, Registered
<1> QED BY <1>4, <1>5, <1>6, <1>7, <1>8 DEF RegistryInv

(* The entry takes the engine over. The registry cannot be closed here.        *)
LEMMA FinishKeepsRegistry ==
    ASSUME RegistryTypes, RegistryInv, NEW t \in Threads, FinishRegistration(t)
    PROVE  /\ RegistryInv'
           /\ op'[t] = Idle
           /\ entries' \in [Workspaces -> States] /\ runtime' \in [Workspaces -> Nat]
           /\ \A v \in Workspaces : entries[v] = "absent" => entries'[v] = "absent"
<1> DEFINE w == op[t].workspace
           n == op[t].engine
<1>1. /\ op[t].kind = "register" /\ op[t].queue = {} /\ op[t].step = "finish"
      /\ w \in Workspaces /\ entries[w] = "Starting" /\ ~shutDown
      /\ n \in DOMAIN engines /\ n \in Nat \ {0}
  <2>1. op[t].kind = "register" /\ op[t].queue = {} /\ op[t].step = "finish"
    BY DEF FinishRegistration, RegistryTypes, OpRecord, RegistryInv, OpInv
  <2>2. n \in DOMAIN engines
    BY <2>1 DEF RegistryInv, OpInv
  <2>3. DOMAIN engines = 1 .. Len(engines) /\ Len(engines) \in Nat
    BY LenProperties DEF RegistryTypes
  <2>4. w \in Workspaces /\ entries[w] = "Starting" /\ ~shutDown
    BY <2>1 DEF RegistryInv, EntryInv
  <2> QED BY <2>1, <2>2, <2>3, <2>4
<1>2. /\ op'[t] = Idle /\ \A u \in Threads : u # t => op'[u] = op[u]
      /\ entries' = [entries EXCEPT ![w] = "Ready"]
      /\ runtime' = [runtime EXCEPT ![w] = n]
      /\ UNCHANGED <<repository, shutDown, engines>>
  BY <1>1 DEF FinishRegistration, Return, RegistryTypes
<1>3. /\ Idle.kind = "none" /\ Idle.step = "idle" /\ Idle.queue = {}
      /\ Holds(t, n)
      /\ engines[n].live /\ engines[n].workspace = w
  <2>1. Holds(t, n)
    BY <1>1 DEF Holds
  <2> QED BY <2>1, <1>1 DEF Idle, Op, RegistryInv, EngineInv
<1>4. /\ entries'[w] = "Ready" /\ \A v \in Workspaces : v # w => entries'[v] = entries[v]
      /\ runtime'[w] = n /\ \A v \in Workspaces : v # w => runtime'[v] = runtime[v]
      /\ entries' \in [Workspaces -> States] /\ runtime' \in [Workspaces -> Nat]
  BY <1>1, <1>2 DEF RegistryTypes, States
<1> HIDE DEF w, n
<1>5. OpInv'
  <2> SUFFICES ASSUME NEW u \in Threads
               PROVE  OpInv!(u)'
    BY DEF OpInv
  <2>1. CASE u = t
    BY <2>1, <1>2, <1>3
  <2>2. CASE u # t
    BY <2>2, <1>2 DEF RegistryInv, OpInv
  <2> QED BY <2>1, <2>2
<1>6. EntryInv'
  <2>1. \A u \in Threads : u # t /\ op[u].kind \in {"register", "unregister"} => op[u].workspace # w
    BY <1>1 DEF RegistryInv, EntryInv, Owns, w
  <2> QED BY <2>1, <1>1, <1>2, <1>3, <1>4 DEF RegistryInv, EntryInv, Owns
<1>7. EngineInv'
  <2>1. /\ \A u \in Threads : \A e \in DOMAIN engines : Holds(u, e)' <=> u # t /\ Holds(u, e)
        /\ \A e \in DOMAIN engines : Holds(t, e) => e = n
        /\ \A u \in Threads : op'[u].queue = op[u].queue
        /\ \A u \in Threads : \A e \in DOMAIN engines :
            (op[u].step = "revoke" /\ op[u].engine = e)' <=> op[u].step = "revoke" /\ op[u].engine = e
    BY <1>1, <1>2, <1>3 DEF Holds, n
  <2>2. \A u \in Threads : \A e \in DOMAIN engines : Holds(u, e)' => op'[u] = op[u]
    BY <2>1, <1>2
  <2>3. runtime[w] = 0 /\ 0 \notin DOMAIN engines
    <3>1. DOMAIN engines = 1 .. Len(engines) /\ Len(engines) \in Nat
      BY LenProperties DEF RegistryTypes
    <3> QED BY <3>1, <1>1 DEF RegistryInv, EntryInv
  <2>4. \A u \in Threads : \A e \in DOMAIN engines :
          /\ Holds(u, e)' => engines'[e].live
          /\ Holds(u, e)' /\ op'[u].kind # "shutdown" => engines'[e].workspace = op'[u].workspace
          /\ op'[u].step = "revoke" /\ op'[u].engine = e => ~engines'[e].live
    BY <2>1, <2>2, <1>2 DEF RegistryInv, EngineInv
  <2>5. \A u \in Threads : \A d, e \in op'[u].queue :
          engines'[d].workspace = engines'[e].workspace => d = e
    BY <2>1, <1>2 DEF RegistryInv, EngineInv
  <2>6. ASSUME NEW e \in DOMAIN engines
        PROVE  /\ engines'[e].live =>
                    ~engines'[e].stopped
                    /\ (runtime'[engines'[e].workspace] = e \/ \E u \in Threads : Holds(u, e)')
               /\ engines'[e].stopped => ~engines'[e].fresh
               /\ ~engines'[e].live /\ ~engines'[e].stopped =>
                    \E u \in Threads : op'[u].step = "revoke" /\ op'[u].engine = e
    <3>1. CASE e = n
      BY <3>1, <1>2, <1>3, <1>4 DEF RegistryInv, EngineInv
    <3>2. CASE e # n
      <4>1. engines[e].workspace \in Workspaces
        BY EngineFields DEF EngineRecord
      <4> QED BY <3>2, <4>1, <2>1, <2>3, <1>2, <1>4 DEF RegistryInv, EngineInv
    <3> QED BY <3>1, <3>2
  <2> QED BY <2>4, <2>5, <2>6, <1>2 DEF EngineInv
<1>8. OneRepository'
  <2>1. Registered' = Registered
    BY <1>1, <1>4 DEF Registered
  <2> QED BY <2>1, <1>2 DEF RegistryInv, OneRepository
<1>9. \A v \in Workspaces : entries[v] = "absent" => entries'[v] = "absent"
  BY <1>1, <1>4
<1> QED BY <1>2, <1>4, <1>5, <1>6, <1>7, <1>8, <1>9 DEF RegistryInv

(* The entry's engine is taken by the call that unregisters it.               *)
LEMMA UnregisterKeepsRegistry ==
    ASSUME RegistryTypes, RegistryInv, NEW t \in Threads, NEW w \in Workspaces, Unregister(t, w)
    PROVE  /\ RegistryInv'
           /\ op' \in [Threads -> OpRecord]
           /\ entries' \in [Workspaces -> States] /\ runtime' \in [Workspaces -> Nat]
           /\ \A v \in Workspaces : entries[v] = "absent" => entries'[v] = "absent"
<1> DEFINE n == runtime[w]
           new == Op("unregister", "join", w, {n})
<1>1. /\ op[t] = Idle /\ entries[w] = "Ready"
      /\ op' = [op EXCEPT ![t] = new]
      /\ op'[t] = new /\ \A u \in Threads : u # t => op'[u] = op[u]
      /\ entries' = [entries EXCEPT ![w] = "Stopping"]
      /\ runtime' = [runtime EXCEPT ![w] = 0]
      /\ UNCHANGED <<repository, shutDown, engines>>
  BY DEF Unregister, EntryTaken, RegistryTypes
<1>2. /\ n \in DOMAIN engines /\ n \in Nat /\ n # 0 /\ ~shutDown
      /\ engines[n].live /\ engines[n].workspace = w
  BY <1>1, EngineFields DEF RegistryInv, EntryInv
<1>3. /\ entries'[w] = "Stopping" /\ \A v \in Workspaces : v # w => entries'[v] = entries[v]
      /\ runtime'[w] = 0 /\ \A v \in Workspaces : v # w => runtime'[v] = runtime[v]
      /\ entries' \in [Workspaces -> States] /\ runtime' \in [Workspaces -> Nat]
  BY <1>1 DEF RegistryTypes, States
<1>4. /\ Idle.kind = "none" /\ Idle.step = "idle" /\ Idle.queue = {}
      /\ new.kind = "unregister" /\ new.step = "join" /\ new.workspace = w /\ new.queue = {n}
  BY DEF Idle, Op
<1>5. op' \in [Threads -> OpRecord]
  <2>1. new \in OpRecord
    BY <1>2, OpTypes
  <2> HIDE DEF new
  <2> QED BY <2>1, <1>1 DEF RegistryTypes
<1> HIDE DEF n, new
<1>6. OpInv'
  <2> SUFFICES ASSUME NEW u \in Threads
               PROVE  OpInv!(u)'
    BY DEF OpInv
  <2>1. CASE u = t
    BY <2>1, <1>1, <1>2, <1>4
  <2>2. CASE u # t
    BY <2>2, <1>1 DEF RegistryInv, OpInv
  <2> QED BY <2>1, <2>2
<1>7. EntryInv'
  <2>1. \A u \in Threads : op[u].kind \in {"register", "unregister"} => op[u].workspace # w
    BY <1>1 DEF RegistryInv, EntryInv
  <2> QED BY <2>1, <1>1, <1>2, <1>3, <1>4 DEF RegistryInv, EntryInv, Owns
<1>8. EngineInv'
  <2>1. /\ \A u \in Threads : \A e \in DOMAIN engines :
              Holds(u, e)' <=> (u = t /\ e = n) \/ (u # t /\ Holds(u, e))
        /\ \A e \in DOMAIN engines : ~Holds(t, e)
        /\ \A u \in Threads : \A e \in DOMAIN engines :
            (op[u].step = "revoke" /\ op[u].engine = e)' <=> op[u].step = "revoke" /\ op[u].engine = e
    BY <1>1, <1>4 DEF Holds
  <2>2. \A u \in Threads : \A e \in DOMAIN engines :
          /\ Holds(u, e)' => engines'[e].live
          /\ Holds(u, e)' /\ op'[u].kind # "shutdown" => engines'[e].workspace = op'[u].workspace
          /\ op'[u].step = "revoke" /\ op'[u].engine = e => ~engines'[e].live
    BY <2>1, <1>1, <1>2, <1>4 DEF RegistryInv, EngineInv
  <2>3. \A u \in Threads : \A d, e \in op'[u].queue :
          engines'[d].workspace = engines'[e].workspace => d = e
    BY <1>1, <1>4 DEF RegistryInv, EngineInv
  <2>4. ASSUME NEW e \in DOMAIN engines
        PROVE  /\ engines'[e].live =>
                    ~engines'[e].stopped
                    /\ (runtime'[engines'[e].workspace] = e \/ \E u \in Threads : Holds(u, e)')
               /\ engines'[e].stopped => ~engines'[e].fresh
               /\ ~engines'[e].live /\ ~engines'[e].stopped =>
                    \E u \in Threads : op'[u].step = "revoke" /\ op'[u].engine = e
    <3>1. CASE e = n
      BY <3>1, <2>1, <1>1, <1>2 DEF RegistryInv, EngineInv
    <3>2. CASE e # n
      <4>1. engines[e].workspace \in Workspaces
        BY EngineFields DEF EngineRecord
      <4> QED BY <3>2, <4>1, <2>1, <1>1, <1>3 DEF RegistryInv, EngineInv, n
    <3> QED BY <3>1, <3>2
  <2> QED BY <2>2, <2>3, <2>4, <1>1 DEF EngineInv
<1>9. OneRepository'
  <2>1. Registered' = Registered
    BY <1>1, <1>3 DEF Registered
  <2> QED BY <2>1, <1>1 DEF RegistryInv, OneRepository
<1>10. \A v \in Workspaces : entries[v] = "absent" => entries'[v] = "absent"
  BY <1>1, <1>3
<1> QED BY <1>3, <1>5, <1>6, <1>7, <1>8, <1>9, <1>10 DEF RegistryInv

(* The registry is closed and all its engines taken.                          *)
LEMMA ShutdownKeepsRegistry ==
    ASSUME RegistryTypes, RegistryInv, NEW t \in Threads, Shutdown(t)
    PROVE  /\ RegistryInv'
           /\ op' \in [Threads -> OpRecord]
           /\ entries' \in [Workspaces -> States] /\ runtime' \in [Workspaces -> Nat]
           /\ \A v \in Workspaces : entries[v] = "absent" => entries'[v] = "absent"
<1> DEFINE taken == {runtime[w] : w \in {v \in Workspaces : entries[v] = "Ready"}}
           new == IF taken = {} THEN Idle ELSE Op("shutdown", "join", None, taken)
<1>1. /\ op[t] = Idle /\ ~shutDown /\ shutDown' = TRUE
      /\ op' = [op EXCEPT ![t] = new]
      /\ op'[t] = new /\ \A u \in Threads : u # t => op'[u] = op[u]
      /\ entries' = [w \in Workspaces |-> "absent"]
      /\ runtime' = [w \in Workspaces |-> 0]
      /\ UNCHANGED <<repository, engines>>
  BY DEF Shutdown, RegistryTypes
<1>2. /\ taken \subseteq DOMAIN engines /\ taken \subseteq Nat
      /\ \A d, e \in taken : engines[d].workspace = engines[e].workspace => d = e
      /\ \A e \in taken : engines[e].live
  BY EngineFields DEF RegistryInv, EntryInv
<1>3. \A u \in Threads : op[u].kind \notin {"register", "unregister"}
  BY DEF Shutdown, NoTransitions, InTransition, RegistryInv, EntryInv
<1>4. \A u \in Threads : op[u].kind = "none"
  BY <1>1, <1>3 DEF RegistryInv, OpInv, RegistryTypes, OpRecord
<1>5. /\ Idle.kind = "none" /\ Idle.step = "idle" /\ Idle.queue = {}
      /\ new.queue = taken
      /\ taken # {} => new.kind = "shutdown" /\ new.step = "join"
      /\ taken = {} => new = Idle
  BY DEF Idle, Op
<1>6. op' \in [Threads -> OpRecord]
  <2>1. new \in OpRecord
    BY <1>2, OpTypes
  <2> HIDE DEF new
  <2> QED BY <2>1, <1>1 DEF RegistryTypes
<1>7. \A e \in DOMAIN engines : engines[e].live => e \in taken
  <2> SUFFICES ASSUME NEW e \in DOMAIN engines, engines[e].live
               PROVE  e \in taken
    OBVIOUS
  <2>1. engines[e].workspace \in Workspaces
    BY EngineFields DEF EngineRecord
  <2>2. \A u \in Threads : ~Holds(u, e)
    BY <1>4 DEF RegistryInv, OpInv, Holds
  <2>3. runtime[engines[e].workspace] = e /\ e # 0
    BY <2>2, EngineFields DEF RegistryInv, EngineInv
  <2> QED BY <2>1, <2>3 DEF RegistryInv, EntryInv
<1> HIDE DEF taken, new
<1>8. OpInv'
  <2> SUFFICES ASSUME NEW u \in Threads
               PROVE  OpInv!(u)'
    BY DEF OpInv
  <2>1. CASE u = t
    <3>1. CASE taken = {}
      BY <3>1, <2>1, <1>1, <1>5
    <3>2. CASE taken # {}
      BY <3>2, <2>1, <1>1, <1>2, <1>5
    <3> QED BY <3>1, <3>2
  <2>2. CASE u # t
    BY <2>2, <1>1, <1>4 DEF RegistryInv, OpInv
  <2> QED BY <2>1, <2>2
<1>9. EntryInv'
  BY <1>1, <1>4, <1>5 DEF RegistryInv, EntryInv, Owns
<1>10. EngineInv'
  <2>1. /\ \A u \in Threads : \A e \in DOMAIN engines :
              Holds(u, e)' <=> u = t /\ e \in taken
        /\ \A u \in Threads : op'[u].step # "revoke"
        /\ \A u \in Threads : u # t => op'[u].queue = {}
    BY <1>1, <1>4, <1>5 DEF Holds, RegistryInv, OpInv
  <2>2. \A u \in Threads : op[u].step # "revoke"
    BY <1>4 DEF RegistryInv, OpInv
  <2>3. \A u \in Threads : \A d, e \in op'[u].queue :
          engines'[d].workspace = engines'[e].workspace => d = e
    BY <2>1, <1>1, <1>2, <1>5
  <2>4. taken # {} => op'[t].kind = "shutdown"
    BY <1>1, <1>5
  <2> QED BY <2>1, <2>2, <2>3, <2>4, <1>1, <1>2, <1>7 DEF RegistryInv, EngineInv
<1>11. OneRepository'
  BY <1>1 DEF OneRepository, Registered
<1>12. entries' \in [Workspaces -> States] /\ runtime' \in [Workspaces -> Nat]
  BY <1>1 DEF States
<1>13. \A v \in Workspaces : entries'[v] = "absent"
  BY <1>1
<1> QED BY <1>6, <1>8, <1>9, <1>10, <1>11, <1>12, <1>13 DEF RegistryInv

(* A live index is joined: nobody holds its engine any more, and the call that  *)
(* joined it is about to revoke its freshness.                                 *)
LEMMA JoinKeepsRegistry ==
    ASSUME RegistryTypes, RegistryInv, NEW t \in Threads, Join(t)
    PROVE  RegistryInv' /\ op' \in [Threads -> OpRecord] /\ engines' \in Seq(EngineRecord)
<1>1. PICK n \in op[t].queue :
        /\ engines' = Joined(n)
        /\ op' = [op EXCEPT ![t].step = "revoke", ![t].engine = n, ![t].queue = @ \ {n}]
  BY DEF Join
<1>2. /\ op[t].step = "join" /\ n \in DOMAIN engines /\ n \in Nat
      /\ op[t].kind \in {"unregister", "shutdown"}
  <2>1. op[t].step = "join" /\ op[t] \in OpRecord
    BY DEF Join, RegistryTypes
  <2>2. n \in DOMAIN engines
    BY DEF RegistryInv, OpInv
  <2> QED BY <2>1, <2>2, EngineFields DEF RegistryInv, OpInv, OpRecord, Starts
<1>3. UNCHANGED <<repository, entries, runtime, shutDown>>
  BY DEF Join
<1> DEFINE new == [op[t] EXCEPT !.step = "revoke", !.engine = n, !.queue = op[t].queue \ {n}]
<1>4. /\ op' = [op EXCEPT ![t] = new]
      /\ op'[t] = new /\ \A u \in Threads : u # t => op'[u] = op[u]
      /\ new \in OpRecord
      /\ new.kind = op[t].kind /\ new.workspace = op[t].workspace /\ new.step = "revoke"
      /\ new.engine = n /\ new.queue = op[t].queue \ {n}
  <2>1. op[t] \in OpRecord /\ op[t].queue \in SUBSET Nat
    BY DEF RegistryTypes, OpRecord
  <2>2. new \in OpRecord
    BY <2>1, <1>2 DEF OpRecord, Steps
  <2> QED BY <2>1, <2>2, <1>1 DEF RegistryTypes, OpRecord
<1>5. /\ engines' \in Seq(EngineRecord) /\ DOMAIN engines' = DOMAIN engines
      /\ ~engines'[n].live
      /\ \A e \in DOMAIN engines :
            /\ e # n => engines'[e] = engines[e]
            /\ engines'[e].workspace = engines[e].workspace
            /\ engines'[e].stopped = engines[e].stopped
            /\ engines'[e].fresh = engines[e].fresh
  <2> DEFINE halted == [engines[n] EXCEPT !.live = FALSE]
  <2>1. /\ halted \in EngineRecord /\ ~halted.live
        /\ halted.workspace = engines[n].workspace
        /\ halted.stopped = engines[n].stopped /\ halted.fresh = engines[n].fresh
    BY <1>2, EngineFields DEF EngineRecord
  <2>2. engines' = [engines EXCEPT ![n] = halted]
    BY <1>1 DEF Joined
  <2> HIDE DEF halted
  <2> QED BY <2>1, <2>2, <1>2, EngineChanges
<1> HIDE DEF new
<1>6. op' \in [Threads -> OpRecord]
  BY <1>4 DEF RegistryTypes
<1>7. OpInv'
  <2> SUFFICES ASSUME NEW u \in Threads
               PROVE  OpInv!(u)'
    BY DEF OpInv
  <2>1. CASE u = t
    <3>1. op'[u].kind \in {"unregister", "shutdown"} /\ op'[u].step = "revoke"
      BY <2>1, <1>2, <1>4
    <3>2. op'[u].kind = "unregister" => op'[u].queue = {}
      BY <2>1, <1>2, <1>4 DEF RegistryInv, OpInv
    <3>3. op'[u].kind = "shutdown" => shutDown
      BY <2>1, <1>4 DEF RegistryInv, OpInv
    <3>4. op'[u].engine \in DOMAIN engines /\ op'[u].queue \subseteq DOMAIN engines
      BY <2>1, <1>2, <1>4 DEF RegistryInv, OpInv
    <3> QED BY <3>1, <3>2, <3>3, <3>4, <1>3, <1>5
  <2>2. CASE u # t
    BY <2>2, <1>3, <1>4, <1>5 DEF RegistryInv, OpInv
  <2> QED BY <2>1, <2>2
<1>8. Holds(t, n) /\ engines[n].live
  BY <1>2 DEF Holds, RegistryInv, EngineInv
<1>9. ASSUME NEW u \in Threads, u # t
      PROVE  ~Holds(u, n) /\ ~(op[u].step = "revoke" /\ op[u].engine = n)
  <2>1. ~(op[u].step = "revoke" /\ op[u].engine = n)
    BY <1>2, <1>8 DEF RegistryInv, EngineInv
  <2>2. SUFFICES ASSUME Holds(u, n)
                 PROVE  FALSE
    BY <2>1
  <2>3. op[u].kind \in {"register", "unregister", "shutdown"}
    BY <2>2 DEF Holds, RegistryTypes, OpRecord, RegistryInv, OpInv
  <2>4. engines[n].workspace \in Workspaces
    BY <1>2, EngineFields DEF EngineRecord
  <2>5. CASE op[u].kind = "shutdown" /\ op[t].kind = "shutdown"
    BY <2>5, <1>9 DEF RegistryInv, EntryInv
  <2>6. CASE op[u].kind # "shutdown" /\ op[t].kind # "shutdown"
    <3>1. op[u].workspace = engines[n].workspace /\ op[t].workspace = engines[n].workspace
      BY <2>2, <2>6, <1>2, <1>8 DEF RegistryInv, EngineInv
    <3> QED BY <3>1, <2>3, <2>4, <2>6, <1>2, <1>9 DEF RegistryInv, EntryInv, Owns
  <2>7. CASE op[u].kind = "shutdown" /\ op[t].kind # "shutdown"
    BY <2>7, <1>2 DEF RegistryInv, EntryInv, OpInv
  <2>8. CASE op[u].kind # "shutdown" /\ op[t].kind = "shutdown"
    BY <2>8, <2>3 DEF RegistryInv, EntryInv, OpInv
  <2> QED BY <2>5, <2>6, <2>7, <2>8
<1>10. \A w \in Workspaces : runtime[w] # n
  <2> SUFFICES ASSUME NEW w \in Workspaces, runtime[w] = n
               PROVE  FALSE
    OBVIOUS
  <2>1. n # 0 /\ entries[w] = "Ready" /\ engines[n].workspace = w
    BY <1>2, EngineFields DEF RegistryInv, EntryInv
  <2>2. CASE op[t].kind = "unregister"
    <3>1. op[t].workspace = w
      BY <2>1, <2>2, <1>2, <1>8 DEF RegistryInv, EngineInv
    <3> QED BY <3>1, <2>1, <2>2 DEF RegistryInv, EntryInv
  <2>3. CASE op[t].kind = "shutdown"
    BY <2>1, <2>3 DEF RegistryInv, EntryInv, OpInv
  <2> QED BY <2>2, <2>3, <1>2
<1>11. EntryInv'
  <2>1. \A u \in Threads : op'[u].kind = op[u].kind /\ op'[u].workspace = op[u].workspace
    BY <1>4
  <2> QED BY <2>1, <1>3, <1>5, <1>10 DEF RegistryInv, EntryInv, Owns
<1>12. EngineInv'
  <2>1. /\ \A u \in Threads : \A e \in DOMAIN engines :
              Holds(u, e)' <=> e # n /\ Holds(u, e)
        /\ \A u \in Threads : \A e \in DOMAIN engines :
            (op[u].step = "revoke" /\ op[u].engine = e)' <=>
                (u = t /\ e = n) \/ (op[u].step = "revoke" /\ op[u].engine = e)
        /\ \A u \in Threads : op'[u].queue \subseteq op[u].queue /\ op[u].queue \subseteq DOMAIN engines
        /\ \A u \in Threads : op'[u].kind = op[u].kind /\ op'[u].workspace = op[u].workspace
    <3>1. \A u \in Threads : op[u].queue \subseteq DOMAIN engines
      BY DEF RegistryInv, OpInv
    <3> QED BY <3>1, <1>2, <1>4, <1>9 DEF Holds
  <2>2. \A u \in Threads : \A e \in DOMAIN engines :
          /\ Holds(u, e)' => engines'[e].live
          /\ Holds(u, e)' /\ op'[u].kind # "shutdown" => engines'[e].workspace = op'[u].workspace
          /\ op'[u].step = "revoke" /\ op'[u].engine = e => ~engines'[e].live
    BY <2>1, <1>5 DEF RegistryInv, EngineInv
  <2>3. \A u \in Threads : \A d, e \in op'[u].queue :
          engines'[d].workspace = engines'[e].workspace => d = e
    BY <2>1, <1>5 DEF RegistryInv, EngineInv
  <2>4. ASSUME NEW e \in DOMAIN engines
        PROVE  /\ engines'[e].live =>
                    ~engines'[e].stopped
                    /\ (runtime'[engines'[e].workspace] = e \/ \E u \in Threads : Holds(u, e)')
               /\ engines'[e].stopped => ~engines'[e].fresh
               /\ ~engines'[e].live /\ ~engines'[e].stopped =>
                    \E u \in Threads : op'[u].step = "revoke" /\ op'[u].engine = e
    <3>1. CASE e = n
      BY <3>1, <2>1, <1>5 DEF RegistryInv, EngineInv
    <3>2. CASE e # n
      BY <3>2, <2>1, <1>3, <1>5 DEF RegistryInv, EngineInv
    <3> QED BY <3>1, <3>2
  <2> QED BY <2>2, <2>3, <2>4, <1>5 DEF EngineInv
<1>13. OneRepository'
  BY <1>3 DEF RegistryInv, OneRepository, Registered
<1> QED BY <1>5, <1>6, <1>7, <1>11, <1>12, <1>13 DEF RegistryInv

(* Freshness is revoked, and the call goes on to the next engine or to its end. *)
LEMMA RevokeKeepsRegistry ==
    ASSUME RegistryTypes, RegistryInv, NEW t \in Threads, Revoke(t)
    PROVE  RegistryInv' /\ op' \in [Threads -> OpRecord] /\ engines' \in Seq(EngineRecord)
<1> DEFINE n == op[t].engine
           new == IF op[t].queue # {} THEN [op[t] EXCEPT !.step = "join"]
                  ELSE IF op[t].kind = "unregister" THEN [op[t] EXCEPT !.step = "remove"]
                  ELSE Idle
<1>1. /\ op[t].step = "revoke" /\ n \in DOMAIN engines /\ ~engines[n].live
      /\ op[t].kind \in {"unregister", "shutdown"}
      /\ op[t].kind = "unregister" => op[t].queue = {}
  <2>1. op[t].step = "revoke" /\ op[t] \in OpRecord
    BY DEF Revoke, RegistryTypes
  <2>2. n \in DOMAIN engines /\ ~engines[n].live
    BY <2>1 DEF RegistryInv, OpInv, EngineInv
  <2> QED BY <2>1, <2>2 DEF RegistryInv, OpInv, OpRecord, Starts
<1>2. UNCHANGED <<repository, entries, runtime, shutDown>>
  BY DEF Revoke
<1>3. /\ op' = [op EXCEPT ![t] = new]
      /\ op'[t] = new /\ \A u \in Threads : u # t => op'[u] = op[u]
  BY DEF Revoke, RegistryTypes
<1>4. /\ new \in OpRecord
      /\ new.queue = op[t].queue /\ new.step \notin {"finish", "revoke"}
      /\ op[t].queue # {} => /\ new.step = "join" /\ new.kind = op[t].kind
                             /\ new.workspace = op[t].workspace
      /\ op[t].queue = {} => \/ /\ op[t].kind = "unregister" /\ new.kind = "unregister"
                                /\ new.step = "remove" /\ new.workspace = op[t].workspace
                             \/ op[t].kind = "shutdown" /\ new = Idle
  <2>1. op[t] \in OpRecord
    BY DEF RegistryTypes
  <2>2. [op[t] EXCEPT !.step = "join"] \in OpRecord /\ [op[t] EXCEPT !.step = "remove"] \in OpRecord
        /\ Idle \in OpRecord
    BY <2>1, OpTypes DEF OpRecord, Steps
  <2>3. Idle.queue = {} /\ Idle.step = "idle"
    BY DEF Idle, Op
  <2>4. CASE op[t].queue # {}
    BY <2>4, <2>1, <2>2 DEF OpRecord
  <2>5. CASE op[t].queue = {} /\ op[t].kind = "unregister"
    BY <2>5, <2>1, <2>2 DEF OpRecord
  <2>6. CASE op[t].queue = {} /\ op[t].kind # "unregister"
    BY <2>6, <2>2, <2>3, <1>1
  <2> QED BY <2>4, <2>5, <2>6
<1>5. /\ engines' \in Seq(EngineRecord) /\ DOMAIN engines' = DOMAIN engines
      /\ engines'[n].stopped /\ ~engines'[n].fresh
      /\ \A e \in DOMAIN engines :
            /\ e # n => engines'[e] = engines[e]
            /\ engines'[e].workspace = engines[e].workspace
            /\ engines'[e].live = engines[e].live
  <2> DEFINE ended == [engines[n] EXCEPT !.stopped = TRUE, !.fresh = FALSE]
  <2>1. /\ ended \in EngineRecord /\ ended.stopped /\ ~ended.fresh
        /\ ended.workspace = engines[n].workspace /\ ended.live = engines[n].live
    BY <1>1, EngineFields DEF EngineRecord
  <2>2. engines' = [engines EXCEPT ![n] = ended]
    BY DEF Revoke
  <2> HIDE DEF ended
  <2> QED BY <2>1, <2>2, <1>1, EngineChanges
<1> HIDE DEF new, n
<1>6. op' \in [Threads -> OpRecord]
  BY <1>3, <1>4 DEF RegistryTypes
<1>7. OpInv'
  <2> SUFFICES ASSUME NEW u \in Threads
               PROVE  OpInv!(u)'
    BY DEF OpInv
  <2>1. CASE u = t
    <3>1. /\ op[t].queue \subseteq DOMAIN engines
          /\ op[t].kind = "shutdown" => shutDown
      BY DEF RegistryInv, OpInv
    <3>2. CASE op[t].queue # {}
      <4>1. op[t].kind = "shutdown"
        BY <3>2, <1>1
      <4> QED BY <4>1, <3>1, <3>2, <2>1, <1>2, <1>3, <1>4, <1>5
    <3>3. CASE op[t].queue = {} /\ new = Idle
      BY <3>3, <2>1, <1>2, <1>3, <1>5 DEF Idle, Op
    <3>4. CASE op[t].queue = {} /\ new.kind = "unregister" /\ new.step = "remove"
      BY <3>4, <2>1, <1>2, <1>3, <1>4, <1>5
    <3> QED BY <3>2, <3>3, <3>4, <1>4
  <2>2. CASE u # t
    BY <2>2, <1>2, <1>3, <1>5 DEF RegistryInv, OpInv
  <2> QED BY <2>1, <2>2
<1>8. /\ \A u \in Threads : op'[u].kind \in {"register", "unregister", "shutdown"} =>
            op'[u].kind = op[u].kind /\ op'[u].workspace = op[u].workspace
      /\ \A u \in Threads : op'[u].queue = op[u].queue
  <2>1. Idle.kind = "none"
    BY DEF Idle, Op
  <2> QED BY <2>1, <1>3, <1>4
<1>9. EntryInv'
  BY <1>2, <1>5, <1>8 DEF RegistryInv, EntryInv, Owns
<1>10. EngineInv'
  <2>1. /\ \A u \in Threads : \A e \in DOMAIN engines :
              Holds(u, e)' <=> Holds(u, e)
        /\ \A u \in Threads : \A e \in DOMAIN engines :
            (op[u].step = "revoke" /\ op[u].engine = e)' <=>
                u # t /\ op[u].step = "revoke" /\ op[u].engine = e
        /\ \A e \in DOMAIN engines : op[t].step = "revoke" /\ op[t].engine = e => e = n
    BY <1>1, <1>3, <1>4, <1>8 DEF Holds, n
  <2>2. \A u \in Threads : \A e \in DOMAIN engines : Holds(u, e) /\ op'[u].kind # "shutdown" =>
            op'[u].workspace = op[u].workspace /\ op[u].kind # "shutdown"
    <3>1. \A e \in DOMAIN engines : Holds(t, e) => op[t].queue # {}
      BY <1>1 DEF Holds
    <3> QED BY <3>1, <1>3, <1>4
  <2>3. \A u \in Threads : \A e \in DOMAIN engines :
          /\ Holds(u, e)' => engines'[e].live
          /\ Holds(u, e)' /\ op'[u].kind # "shutdown" => engines'[e].workspace = op'[u].workspace
          /\ op'[u].step = "revoke" /\ op'[u].engine = e => ~engines'[e].live
    BY <2>1, <2>2, <1>5 DEF RegistryInv, EngineInv
  <2>4. \A u \in Threads : \A d, e \in op'[u].queue :
          engines'[d].workspace = engines'[e].workspace => d = e
    <3>1. \A u \in Threads : op[u].queue \subseteq DOMAIN engines
      BY DEF RegistryInv, OpInv
    <3> QED BY <3>1, <1>5, <1>8 DEF RegistryInv, EngineInv
  <2>5. ASSUME NEW e \in DOMAIN engines
        PROVE  /\ engines'[e].live =>
                    ~engines'[e].stopped
                    /\ (runtime'[engines'[e].workspace] = e \/ \E u \in Threads : Holds(u, e)')
               /\ engines'[e].stopped => ~engines'[e].fresh
               /\ ~engines'[e].live /\ ~engines'[e].stopped =>
                    \E u \in Threads : op'[u].step = "revoke" /\ op'[u].engine = e
    <3>1. CASE e = n
      BY <3>1, <1>1, <1>5 DEF n
    <3>2. CASE e # n
      BY <3>2, <2>1, <1>2, <1>5 DEF RegistryInv, EngineInv
    <3> QED BY <3>1, <3>2
  <2> QED BY <2>3, <2>4, <2>5, <1>5 DEF EngineInv
<1>11. OneRepository'
  BY <1>2 DEF RegistryInv, OneRepository, Registered
<1> QED BY <1>5, <1>6, <1>7, <1>9, <1>10, <1>11 DEF RegistryInv

(* The entry of an unregistered worktree is removed.                          *)
LEMMA RemoveKeepsRegistry ==
    ASSUME RegistryTypes, RegistryInv, NEW t \in Threads, RemoveEntry(t)
    PROVE  /\ RegistryInv'
           /\ entries' \in [Workspaces -> States]
           /\ \A v \in Workspaces : entries[v] = "absent" => entries'[v] = "absent"
<1> DEFINE w == op[t].workspace
<1>1. op[t].kind = "unregister" /\ op[t].step = "remove" /\ op[t].queue = {}
  BY DEF RemoveEntry, RegistryTypes, OpRecord, RegistryInv, OpInv, Starts
<1>2. w \in Workspaces /\ entries[w] = "Stopping"
  BY <1>1 DEF RegistryInv, EntryInv
<1>3. /\ op'[t] = Idle
      /\ \A u \in Threads : u # t => op'[u] = op[u]
      /\ entries' = [entries EXCEPT ![w] = "absent"]
      /\ UNCHANGED <<repository, runtime, shutDown, engines>>
  BY DEF RemoveEntry, Return, RegistryTypes
<1>4. /\ entries'[w] = "absent" /\ \A v \in Workspaces : v # w => entries'[v] = entries[v]
      /\ entries' \in [Workspaces -> States]
  BY <1>2, <1>3 DEF RegistryTypes, States
<1>5. Idle.kind = "none" /\ Idle.step = "idle" /\ Idle.queue = {}
  BY DEF Idle, Op
<1> HIDE DEF w
<1>6. OpInv'
  <2> SUFFICES ASSUME NEW u \in Threads
               PROVE  OpInv!(u)'
    BY DEF OpInv
  <2>1. CASE u = t
    BY <2>1, <1>3, <1>5
  <2>2. CASE u # t
    BY <2>2, <1>3 DEF RegistryInv, OpInv
  <2> QED BY <2>1, <2>2
<1>7. EntryInv'
  <2>1. \A u \in Threads : u # t /\ op[u].kind \in {"register", "unregister"} => op[u].workspace # w
    BY <1>1, <1>2 DEF RegistryInv, EntryInv, Owns, w
  <2>2. runtime[w] = 0
    BY <1>2 DEF RegistryInv, EntryInv
  <2> QED BY <1>2, <1>3, <1>4, <1>5, <2>1, <2>2 DEF RegistryInv, EntryInv, Owns
<1>8. EngineInv'
  <2>1. /\ \A u \in Threads : \A e \in DOMAIN engines : Holds(u, e)' <=> Holds(u, e)
        /\ \A u \in Threads : op'[u].queue = op[u].queue
        /\ \A u \in Threads : \A e \in DOMAIN engines :
            (op[u].step = "revoke" /\ op[u].engine = e)' <=> op[u].step = "revoke" /\ op[u].engine = e
    BY <1>1, <1>3, <1>5 DEF Holds
  <2>2. \A u \in Threads : \A e \in DOMAIN engines : Holds(u, e)' => op'[u] = op[u]
    BY <1>1, <1>3, <1>5 DEF Holds
  <2> QED BY <2>1, <2>2, <1>3 DEF RegistryInv, EngineInv
<1>9. OneRepository'
  <2>1. Registered' \subseteq Registered
    BY <1>2, <1>4 DEF Registered
  <2> QED BY <2>1, <1>3 DEF RegistryInv, OneRepository
<1> QED BY <1>2, <1>4, <1>6, <1>7, <1>8, <1>9 DEF RegistryInv

(* A live index or a watcher callback publishes.                              *)
LEMMA PublishKeepsRegistry ==
    ASSUME RegistryTypes, RegistryInv, NEW n \in DOMAIN engines,
           LivePublishesFresh(n) \/ CallbackPublishesStale(n)
    PROVE  RegistryInv' /\ engines' \in Seq(EngineRecord)
<1>1. PICK f \in BOOLEAN : /\ engines' = [engines EXCEPT ![n].fresh = f]
                           /\ f => engines[n].live
  BY DEF LivePublishesFresh, CallbackPublishesStale
<1>2. UNCHANGED <<repository, entries, runtime, shutDown, op>>
  BY DEF LivePublishesFresh, CallbackPublishesStale
<1>3. /\ engines' \in Seq(EngineRecord) /\ DOMAIN engines' = DOMAIN engines
      /\ engines'[n].fresh = f
      /\ \A e \in DOMAIN engines :
            /\ e # n => engines'[e] = engines[e]
            /\ engines'[e].workspace = engines[e].workspace
            /\ engines'[e].live = engines[e].live
            /\ engines'[e].stopped = engines[e].stopped
  <2> DEFINE published == [engines[n] EXCEPT !.fresh = f]
  <2>1. /\ published \in EngineRecord /\ published.fresh = f
        /\ published.workspace = engines[n].workspace /\ published.live = engines[n].live
        /\ published.stopped = engines[n].stopped
    BY EngineFields DEF EngineRecord
  <2>2. engines' = [engines EXCEPT ![n] = published]
    BY <1>1
  <2> HIDE DEF published
  <2> QED BY <2>1, <2>2, EngineChanges
<1>4. OpInv'
  <2> SUFFICES ASSUME NEW u \in Threads
               PROVE  OpInv!(u)'
    BY DEF OpInv
  <2> QED BY <1>2, <1>3 DEF RegistryInv, OpInv
<1>5. EntryInv'
  BY <1>2, <1>3 DEF RegistryInv, EntryInv, Owns
<1>6. EngineInv'
  <2>1. \A u \in Threads : op[u].queue \subseteq DOMAIN engines
    BY DEF RegistryInv, OpInv
  <2>2. \A e \in DOMAIN engines : engines'[e].stopped => ~engines'[e].fresh
    BY <1>1, <1>3 DEF RegistryInv, EngineInv
  <2>3. \A u \in Threads : \A e \in DOMAIN engines : Holds(u, e)' <=> Holds(u, e)
    BY <1>2 DEF Holds
  <2> QED BY <2>1, <2>2, <2>3, <1>2, <1>3 DEF RegistryInv, EngineInv
<1>7. OneRepository'
  BY <1>2 DEF RegistryInv, OneRepository, Registered
<1> QED BY <1>3, <1>4, <1>5, <1>6, <1>7 DEF RegistryInv

-----------------------------------------------------------------------------
(* Everything together.                                                      *)

RegistryState == <<repository, entries, runtime, shutDown, engines, op>>

WorkspaceInv == CacheInv /\ RegistryTypes /\ CallInv /\ RegistryInv

(* It holds initially.                                                      *)
LEMMA WorkspaceInit == Init => WorkspaceInv
<1> SUFFICES ASSUME Init
             PROVE  WorkspaceInv
  OBVIOUS
<1>1. \A t \in Threads : op[t] = Idle /\ call[t] = NoCall
  BY DEF Init, CacheInit, Threads
<1>2. /\ Idle.kind = "none" /\ Idle.step = "idle" /\ Idle.queue = {} /\ NoCall.step = "none"
  BY DEF Idle, Op, NoCall
<1>3. Registered = {}
  BY DEF Init, Registered
<1>4. engines = <<>> /\ DOMAIN engines = {} /\ engines \in Seq(EngineRecord)
  BY EmptySeq DEF Init
<1>5. CacheInv
  <2>1. ready = <<>> /\ ready \in Seq(Commits) /\ Len(ready) = 0
    BY EmptySeq DEF Init, CacheInit
  <2>2. CacheTypeOK
    BY <2>1, CacheAssumption DEF Init, CacheInit, CacheTypeOK
  <2>3. building = {} /\ \A c \in Callers : call[c].step = "none"
    BY <1>1, <1>2 DEF Init, CacheInit, Threads
  <2> QED BY <2>2, <2>3 DEF CacheInv, NoDuplicateBuild
<1>6. RegistryTypes
  <2>1. IsFiniteSet(Registered) /\ Cardinality(Registered) <= MaxWorkspaces
    BY <1>3, FS_EmptySet, RegistryAssumption
  <2>2. op \in [Threads -> OpRecord]
    BY OpTypes DEF Init
  <2>3. moves \in 0 .. MaxHeadMoves /\ registrations \in 0 .. MaxRegistrations
    BY RegistryAssumption DEF Init
  <2> QED BY <1>4, <2>1, <2>2, <2>3 DEF Init, RegistryTypes, States
<1>7. CallInv
  BY <1>1, <1>2 DEF CallInv
<1>8. OpInv
  BY <1>1, <1>2, <1>4 DEF OpInv
<1>9. EntryInv
  BY <1>1, <1>2 DEF Init, EntryInv, Owns
<1>10. EngineInv
  BY <1>1, <1>2, <1>4 DEF EngineInv
<1>11. OneRepository
  BY <1>3 DEF OneRepository
<1> QED BY <1>5, <1>6, <1>7, <1>8, <1>9, <1>10, <1>11 DEF WorkspaceInv, RegistryInv

(* A call of the cache that begins or is over changes nothing but itself.      *)
LEMMA AskKeepsCache ==
    ASSUME CacheInv, NEW t \in Threads, call[t].step # "building",
           UNCHANGED <<ready, building>>,
           \/ call' = [call EXCEPT ![t] = NoCall]
           \/ \E k \in Commits : LoadOrBuild(t, k)
    PROVE  CacheInv'
<1>1. PICK new \in {NoCall} \union [step : {"lookup", "loaded", "failed"}, commit : Commits] :
         call' = [call EXCEPT ![t] = new]
  <2>1. \A k \in Commits : \A s \in {"lookup", "failed"} :
           Call(s, k) \in [step : {"lookup", "loaded", "failed"}, commit : Commits]
    BY DEF Call
  <2> QED BY <2>1 DEF LoadOrBuild
<1>2. ready \in Seq(Commits) /\ Len(ready) <= MaxMemoryEntries /\ t \in Callers
  BY DEF CacheInv, CacheTypeOK, Threads
<1> QED BY <1>1, <1>2, CallChanges

(* A step of the cache alone.                                                  *)
LEMMA CacheKeepsInv ==
    ASSUME WorkspaceInv, NEW t \in Threads, CacheStep(t) \/ CancelWait(t),
           UNCHANGED <<registryVars, envVars>>
    PROVE  WorkspaceInv'
<1>1. CacheInv'
  BY CacheStepKeepsCache DEF WorkspaceInv, Threads
<1>2. UNCHANGED <<RegistryState, head, moves, registrations>>
  BY DEF registryVars, envVars, RegistryState
<1>3. RegistryTypes'
  BY <1>2 DEF WorkspaceInv, RegistryTypes, RegistryState, Registered
<1>4. CallInv'
  <2>1. call[t].step # "none" /\ t \in Callers /\ call \in [Callers -> {NoCall} \union
           [step : {"lookup", "building", "loaded", "failed"}, commit : Commits]]
    BY DEF CacheStep, Hit, Claim, BuildSucceeds, BuildFails, CancelWait, Threads,
           WorkspaceInv, CacheInv, CacheTypeOK
  <2>2. PICK s \in {"building", "loaded", "failed"} : call' = [call EXCEPT ![t].step = s]
    BY DEF CacheStep, Hit, Claim, BuildSucceeds, BuildFails, CancelWait
  <2>3. call'[t].step = s /\ \A u \in Threads : u # t => call'[u] = call[u]
    BY <2>1, <2>2, CallFields DEF Call, Threads, WorkspaceInv, CacheInv
  <2>4. call'[t] # NoCall /\ call[t] # NoCall
    BY <2>1, <2>3 DEF NoCall
  <2> QED BY <2>3, <2>4, <1>2 DEF WorkspaceInv, CallInv, RegistryState
<1>5. RegistryInv'
  BY <1>2 DEF WorkspaceInv, RegistryInv, RegistryState, OpInv, EntryInv, EngineInv, OneRepository,
              Registered, Owns, Holds
<1> QED BY <1>1, <1>3, <1>4, <1>5 DEF WorkspaceInv

(* HEAD moves.                                                               *)
LEMMA MoveHeadKeepsInv ==
    ASSUME WorkspaceInv, NEW w \in Workspaces, MoveHead(w)
    PROVE  WorkspaceInv'
<1>1. UNCHANGED <<RegistryState, registrations, cacheVars>>
  BY DEF MoveHead, registryVars, RegistryState
<1>2. CacheInv' /\ CallInv'
  BY <1>1 DEF WorkspaceInv, CacheInv, CacheTypeOK, NoDuplicateBuild, CallInv, cacheVars, RegistryState
<1>3. RegistryTypes'
  <2>1. head' \in [Workspaces -> Commits] /\ moves' \in 0 .. MaxHeadMoves
    BY RegistryAssumption DEF MoveHead, WorkspaceInv, RegistryTypes
  <2> QED BY <2>1, <1>1 DEF WorkspaceInv, RegistryTypes, RegistryState, Registered
<1>4. RegistryInv'
  BY <1>1 DEF WorkspaceInv, RegistryInv, RegistryState, OpInv, EntryInv, EngineInv, OneRepository,
              Registered, Owns, Holds
<1> QED BY <1>2, <1>3, <1>4 DEF WorkspaceInv

(* The types after a step that moves a registration on.                       *)
LEMMA StartKeepsTypes ==
    ASSUME RegistryTypes, NEW t \in Threads, NEW new \in OpRecord,
           op' = [op EXCEPT ![t] = new],
           UNCHANGED <<repository, entries, runtime, shutDown, engines, envVars>>
    PROVE  RegistryTypes'
BY DEF RegistryTypes, envVars, Registered

(* The types after a rollback.                                               *)
LEMMA RollbackKeepsTypes ==
    ASSUME RegistryTypes, NEW t \in Threads, RollbackReservation(t), UNCHANGED envVars
    PROVE  RegistryTypes'
<1>1. /\ entries' \in [Workspaces -> States]
      /\ \A w \in Workspaces : entries[w] = "absent" => entries'[w] = "absent"
  BY DEF RollbackReservation, RegistryTypes, States
<1>2. IsFiniteSet(Registered') /\ Cardinality(Registered') <= MaxWorkspaces
  BY <1>1, RegisteredShrinks
<1>3. repository' \in Repositories \union {None} /\ op' \in [Threads -> OpRecord]
  BY OpTypes DEF RollbackReservation, RepositoryAfterRollback, Return, RegistryTypes
<1> QED BY <1>1, <1>2, <1>3 DEF RollbackReservation, RegistryTypes, envVars

(* CallInv after a step of t.                                                 *)
LEMMA CallInvStep ==
    ASSUME CallInv, NEW t \in Threads,
           \A u \in Threads \ {t} : op'[u] = op[u] /\ call'[u] = call[u],
           call'[t] # NoCall <=> op'[t].step = "load"
    PROVE  CallInv'
BY DEF CallInv

(* A registration that ends without an engine.                                *)
LEMMA RollbackKeepsInv ==
    ASSUME WorkspaceInv, NEW t \in Threads, RollbackReservation(t), UNCHANGED envVars,
           op[t].step \in {"resolve", "load", "start"},
           UNCHANGED <<ready, building>>,
           \/ op[t].step # "load" /\ UNCHANGED call
           \/ call[t].step \in {"loaded", "failed"} /\ call' = [call EXCEPT ![t] = NoCall]
    PROVE  WorkspaceInv'
<1>1. RegistryTypes' /\ RegistryInv'
  BY RollbackKeepsTypes, RollbackKeepsRegistry DEF WorkspaceInv
<1>2. CacheInv'
  <2>1. CASE UNCHANGED call
    BY <2>1 DEF WorkspaceInv, CacheInv, CacheTypeOK, NoDuplicateBuild
  <2>2. CASE call[t].step \in {"loaded", "failed"} /\ call' = [call EXCEPT ![t] = NoCall]
    BY <2>2, AskKeepsCache DEF WorkspaceInv
  <2> QED BY <2>1, <2>2
<1>3. CallInv'
  <2>1. /\ op'[t].step # "load"
        /\ \A u \in Threads \ {t} : op'[u] = op[u] /\ call'[u] = call[u]
    BY DEF RollbackReservation, Return, Idle, Op, WorkspaceInv, RegistryTypes, CacheInv, CacheTypeOK,
           Threads
  <2>2. call'[t] = NoCall
    BY DEF WorkspaceInv, CallInv, CacheInv, CacheTypeOK, Threads
  <2> QED BY <2>1, <2>2, CallInvStep DEF WorkspaceInv
<1> QED BY <1>1, <1>2, <1>3 DEF WorkspaceInv

(* The cache is asked for the commit of HEAD.                                 *)
LEMMA ResolveHeadKeepsInv ==
    ASSUME WorkspaceInv, NEW t \in Threads, ResolveHead(t)
    PROVE  WorkspaceInv'
<1> DEFINE new == [op[t] EXCEPT !.step = "load"]
<1>1. /\ op[t] \in OpRecord /\ op[t].step = "resolve"
      /\ op[t].kind = "register" /\ op[t].queue = {} /\ op[t].workspace \in Workspaces
  <2>1. op[t] \in OpRecord /\ op[t].step = "resolve"
    BY DEF ResolveHead, WorkspaceInv, RegistryTypes
  <2>2. op[t].kind = "register" /\ op[t].queue = {}
    BY <2>1 DEF OpRecord, WorkspaceInv, RegistryInv, OpInv
  <2> QED BY <2>1, <2>2 DEF WorkspaceInv, RegistryInv, EntryInv
<1>2. /\ new \in OpRecord /\ new.kind = "register" /\ new.workspace = op[t].workspace
      /\ new.queue = {} /\ new.step = "load"
  BY <1>1 DEF OpRecord, Steps
<1>3. op' = [op EXCEPT ![t] = new] /\ UNCHANGED <<repository, entries, runtime, shutDown, engines, envVars>>
  BY DEF ResolveHead, Goto
<1> HIDE DEF new
<1>4. RegistryTypes'
  BY <1>2, <1>3, StartKeepsTypes DEF WorkspaceInv
<1>5. RegistryInv'
  BY <1>1, <1>2, <1>3, StartKeepsRegistry DEF WorkspaceInv
<1>6. CacheInv' /\ call[t] = NoCall
  <2>1. call[t] = NoCall /\ head[op[t].workspace] \in Commits
    BY <1>1 DEF WorkspaceInv, CallInv, RegistryTypes
  <2>2. call[t].step # "building"
    BY <2>1 DEF NoCall
  <2>3. CacheInv /\ LoadOrBuild(t, head[op[t].workspace]) /\ UNCHANGED <<ready, building>>
    BY DEF ResolveHead, WorkspaceInv
  <2> QED BY <2>1, <2>2, <2>3, AskKeepsCache
<1>7. CallInv'
  <2>1. PICK s \in {"lookup", "failed"} :
           call' = [call EXCEPT ![t] = Call(s, head[op[t].workspace])]
    BY DEF ResolveHead, LoadOrBuild
  <2>2. call'[t] = Call(s, head[op[t].workspace]) /\ \A u \in Threads \ {t} : call'[u] = call[u]
    BY <2>1 DEF WorkspaceInv, CacheInv, CacheTypeOK, Threads
  <2>3. call'[t] # NoCall
    BY <2>2 DEF Call, NoCall
  <2>4. op'[t] = new /\ \A u \in Threads \ {t} : op'[u] = op[u]
    BY <1>3 DEF WorkspaceInv, RegistryTypes
  <2> QED BY <2>2, <2>3, <2>4, <1>2, CallInvStep DEF WorkspaceInv
<1> QED BY <1>4, <1>5, <1>6, <1>7 DEF WorkspaceInv

(* The answer of the cache is used, or thrown away for another attempt.        *)
LEMMA ComposeKeepsInv ==
    ASSUME WorkspaceInv, NEW t \in Threads, op[t].step = "load", call[t].step = "loaded",
           call' = [call EXCEPT ![t] = NoCall],
           NEW new \in OpRecord, new.kind = op[t].kind, new.workspace = op[t].workspace,
           new.queue = op[t].queue, new.step \in {"resolve", "start"},
           op' = [op EXCEPT ![t] = new],
           UNCHANGED <<repository, entries, runtime, shutDown, engines, envVars, ready, building>>
    PROVE  WorkspaceInv'
<1>1. op[t].kind = "register" /\ op[t].queue = {}
  BY DEF OpRecord, WorkspaceInv, RegistryTypes, RegistryInv, OpInv
<1>2. RegistryTypes' /\ RegistryInv'
  BY <1>1, StartKeepsTypes, StartKeepsRegistry DEF WorkspaceInv
<1>3. CacheInv'
  BY AskKeepsCache DEF WorkspaceInv
<1>4. CallInv'
  <2>1. /\ op'[t] = new /\ call'[t] = NoCall
        /\ \A u \in Threads \ {t} : op'[u] = op[u] /\ call'[u] = call[u]
    BY DEF WorkspaceInv, RegistryTypes, CacheInv, CacheTypeOK, Threads
  <2> QED BY <2>1, CallInvStep DEF WorkspaceInv
<1> QED BY <1>2, <1>3, <1>4 DEF WorkspaceInv

(* The steps of a call that leave the cache alone, given what they keep.       *)
LEMMA OutsideCacheKeepsInv ==
    ASSUME WorkspaceInv, NEW t \in Threads, UNCHANGED cacheVars, RegistryTypes', RegistryInv',
           \A u \in Threads \ {t} : op'[u] = op[u],
           op[t].step # "load", op'[t].step # "load"
    PROVE  WorkspaceInv'
<1>1. CacheInv'
  BY DEF WorkspaceInv, CacheInv, CacheTypeOK, NoDuplicateBuild, cacheVars
<1>2. CallInv'
  <2>1. call' = call
    BY DEF cacheVars
  <2>2. call'[t] = NoCall
    BY <2>1 DEF WorkspaceInv, CallInv
  <2> QED BY <2>1, <2>2, CallInvStep DEF WorkspaceInv
<1> QED BY <1>1, <1>2 DEF WorkspaceInv

(* WorkspaceInv is inductive.                                                *)
LEMMA WorkspaceNext == WorkspaceInv /\ [Next]_vars => WorkspaceInv'
<1> SUFFICES ASSUME WorkspaceInv, [Next]_vars
             PROVE  WorkspaceInv'
  OBVIOUS
<1> USE DEF WorkspaceInv
<1>0. op \in [Threads -> OpRecord]
  BY DEF RegistryTypes
<1>1. ASSUME NEW t \in Threads, NEW w \in Workspaces, Reserve(t, w)
      PROVE  WorkspaceInv'
  <2>1. /\ op' = [op EXCEPT ![t] = Op("register", "resolve", w, {})]
        /\ op[t].step # "load" /\ op'[t].step # "load"
    BY <1>0, <1>1 DEF Reserve, Idle, Op
  <2>2. RegistryInv'
    BY <1>1, ReserveKeepsRegistry
  <2>3. RegistryTypes'
    <3>1. IsFiniteSet(Registered') /\ Cardinality(Registered') <= MaxWorkspaces
      BY <1>1, RegisteredGrows DEF Reserve
    <3>2. op' \in [Threads -> OpRecord]
      BY <2>1, <1>0, OpTypes
    <3>3. registrations' \in 0 .. MaxRegistrations
      BY <1>1, RegistryAssumption DEF Reserve, RegistryTypes
    <3>4. repository' \in Repositories /\ entries' \in [Workspaces -> States]
      BY <1>1, RegistryAssumption DEF Reserve, RegistryTypes, States
    <3> QED BY <3>1, <3>2, <3>3, <3>4, <1>1 DEF Reserve, RegistryTypes
  <2>4. UNCHANGED cacheVars
    BY <1>1 DEF Reserve
  <2> QED BY <2>1, <2>2, <2>3, <2>4, <1>0, OutsideCacheKeepsInv
<1>2. ASSUME NEW t \in Threads, NEW w \in Workspaces, Unregister(t, w)
      PROVE  WorkspaceInv'
  <2>1. /\ RegistryInv' /\ op' \in [Threads -> OpRecord]
        /\ entries' \in [Workspaces -> States] /\ runtime' \in [Workspaces -> Nat]
        /\ \A v \in Workspaces : entries[v] = "absent" => entries'[v] = "absent"
    BY <1>2, UnregisterKeepsRegistry
  <2>2. RegistryTypes'
    BY <2>1, <1>2, RegisteredShrinks DEF Unregister, RegistryTypes, envVars
  <2>3. /\ op[t].step # "load" /\ op'[t].step # "load" /\ UNCHANGED cacheVars
        /\ \A u \in Threads \ {t} : op'[u] = op[u]
    BY <1>0, <1>2 DEF Unregister, Idle, Op
  <2> QED BY <2>1, <2>2, <2>3, OutsideCacheKeepsInv
<1>3. ASSUME NEW t \in Threads, Shutdown(t)
      PROVE  WorkspaceInv'
  <2>1. /\ RegistryInv' /\ op' \in [Threads -> OpRecord]
        /\ entries' \in [Workspaces -> States] /\ runtime' \in [Workspaces -> Nat]
        /\ \A v \in Workspaces : entries[v] = "absent" => entries'[v] = "absent"
    BY <1>3, ShutdownKeepsRegistry
  <2>2. RegistryTypes'
    BY <2>1, <1>3, RegisteredShrinks DEF Shutdown, RegistryTypes, envVars
  <2>3. /\ op[t].step # "load" /\ op'[t].step # "load" /\ UNCHANGED cacheVars
        /\ \A u \in Threads \ {t} : op'[u] = op[u]
    BY <1>0, <1>3 DEF Shutdown, Idle, Op
  <2> QED BY <2>1, <2>2, <2>3, OutsideCacheKeepsInv
<1>4. ASSUME NEW t \in Threads, ThreadStep(t)
      PROVE  WorkspaceInv'
  <2>1. CASE ResolveHead(t)
    BY <2>1, ResolveHeadKeepsInv
  <2>2. CASE ResolveFails(t)
    BY <2>2, RollbackKeepsInv DEF ResolveFails, cacheVars
  <2>3. CASE CacheStep(t) /\ UNCHANGED <<registryVars, envVars>>
    BY <2>3, CacheKeepsInv
  <2>4. CASE LoadFails(t)
    BY <2>4, RollbackKeepsInv DEF LoadFails
  <2>5. CASE Compose(t)
    <3> DEFINE new == [op[t] EXCEPT !.step = "start"]
    <3>1. /\ new \in OpRecord /\ new.kind = op[t].kind /\ new.workspace = op[t].workspace
          /\ new.queue = op[t].queue /\ new.step = "start"
      BY <1>0 DEF OpRecord, Steps
    <3>2. /\ op[t].step = "load" /\ call[t].step = "loaded" /\ call' = [call EXCEPT ![t] = NoCall]
          /\ op' = [op EXCEPT ![t] = new]
          /\ UNCHANGED <<repository, entries, runtime, shutDown, engines, envVars, ready, building>>
      BY <2>5 DEF Compose, Goto
    <3> HIDE DEF new
    <3> QED BY <3>1, <3>2, ComposeKeepsInv
  <2>6. CASE ComposeUnstable(t) /\ op[t].attempt < MaxLayerCompositionAttempts
    <3> DEFINE new == [op[t] EXCEPT !.step = "resolve", !.attempt = op[t].attempt + 1]
    <3>1. op[t].attempt + 1 \in 1 .. MaxLayerCompositionAttempts
      BY <1>0, <2>6, RegistryAssumption DEF OpRecord
    <3>2. /\ new \in OpRecord /\ new.kind = op[t].kind /\ new.workspace = op[t].workspace
          /\ new.queue = op[t].queue /\ new.step = "resolve"
      BY <1>0, <3>1 DEF OpRecord, Steps
    <3>3. /\ op[t].step = "load" /\ call[t].step = "loaded" /\ call' = [call EXCEPT ![t] = NoCall]
          /\ op' = [op EXCEPT ![t] = new]
          /\ UNCHANGED <<repository, entries, runtime, shutDown, engines, envVars, ready, building>>
      BY <2>6, <1>0 DEF ComposeUnstable
    <3> HIDE DEF new
    <3> QED BY <3>2, <3>3, ComposeKeepsInv
  <2>7. CASE ComposeUnstable(t) /\ ~(op[t].attempt < MaxLayerCompositionAttempts)
    BY <2>7, RollbackKeepsInv DEF ComposeUnstable
  <2>8. CASE ComposeFails(t)
    BY <2>8, RollbackKeepsInv DEF ComposeFails
  <2>9. CASE StartLive(t)
    <3>1. RegistryInv' /\ engines' \in Seq(EngineRecord)
      BY <2>9, StartLiveKeepsRegistry
    <3>2. /\ op'[t].step = "finish" /\ op[t].step = "start" /\ op' \in [Threads -> OpRecord]
          /\ \A u \in Threads \ {t} : op'[u] = op[u]
      <4>1. Len(engines) + 1 \in Nat
        BY EngineFields
      <4>2. [op[t] EXCEPT !.step = "finish", !.engine = Len(engines) + 1] \in OpRecord
        BY <1>0, <4>1 DEF OpRecord, Steps
      <4> QED BY <4>2, <1>0, <2>9 DEF StartLive, OpRecord
    <3>3. RegistryTypes' /\ UNCHANGED cacheVars
      BY <3>1, <3>2, <2>9 DEF StartLive, RegistryTypes, envVars, Registered
    <3> QED BY <3>1, <3>2, <3>3, OutsideCacheKeepsInv
  <2>10. CASE StartLiveFails(t)
    BY <2>10, RollbackKeepsInv DEF StartLiveFails, cacheVars
  <2>11. CASE FinishRegistration(t)
    <3>1. /\ RegistryInv' /\ op'[t] = Idle
          /\ entries' \in [Workspaces -> States] /\ runtime' \in [Workspaces -> Nat]
          /\ \A v \in Workspaces : entries[v] = "absent" => entries'[v] = "absent"
      BY <2>11, FinishKeepsRegistry
    <3>2. /\ op[t].step = "finish" /\ op'[t].step = "idle" /\ op' \in [Threads -> OpRecord]
          /\ \A u \in Threads \ {t} : op'[u] = op[u]
      <4>1. Idle.step = "idle"
        BY DEF Idle, Op
      <4>2. /\ op[t].step = "finish"
            /\ \E new : op' = [op EXCEPT ![t] = new]
        BY <2>11, <1>0 DEF FinishRegistration, Return
      <4> QED BY <4>1, <4>2, <3>1, <1>0, OpTypes
    <3>3. RegistryTypes' /\ UNCHANGED cacheVars
      BY <3>1, <3>2, <2>11, RegisteredShrinks DEF FinishRegistration, RegistryTypes, envVars
    <3> QED BY <3>1, <3>2, <3>3, OutsideCacheKeepsInv
  <2>12. CASE Join(t)
    <3>1. RegistryInv' /\ op' \in [Threads -> OpRecord] /\ engines' \in Seq(EngineRecord)
      BY <2>12, JoinKeepsRegistry
    <3>2. /\ op[t].step = "join" /\ op'[t].step = "revoke"
          /\ \A u \in Threads \ {t} : op'[u] = op[u]
      BY <2>12, <1>0 DEF Join, OpRecord
    <3>3. RegistryTypes' /\ UNCHANGED cacheVars
      BY <3>1, <2>12 DEF Join, RegistryTypes, envVars, Registered
    <3> QED BY <3>1, <3>2, <3>3, OutsideCacheKeepsInv
  <2>13. CASE Revoke(t)
    <3>1. RegistryInv' /\ op' \in [Threads -> OpRecord] /\ engines' \in Seq(EngineRecord)
      BY <2>13, RevokeKeepsRegistry
    <3>2. /\ op[t].step = "revoke" /\ op'[t].step \in {"join", "remove", "idle"}
          /\ \A u \in Threads \ {t} : op'[u] = op[u]
      BY <2>13, <1>0 DEF Revoke, OpRecord, Idle, Op
    <3>3. RegistryTypes' /\ UNCHANGED cacheVars
      BY <3>1, <2>13 DEF Revoke, RegistryTypes, envVars, Registered
    <3> QED BY <3>1, <3>2, <3>3, OutsideCacheKeepsInv
  <2>14. CASE RemoveEntry(t)
    <3>1. /\ RegistryInv' /\ entries' \in [Workspaces -> States]
          /\ \A v \in Workspaces : entries[v] = "absent" => entries'[v] = "absent"
      BY <2>14, RemoveKeepsRegistry
    <3>2. /\ op[t].step = "remove" /\ op'[t].step = "idle" /\ op' \in [Threads -> OpRecord]
          /\ \A u \in Threads \ {t} : op'[u] = op[u]
      <4>1. Idle.step = "idle"
        BY DEF Idle, Op
      <4> QED BY <4>1, <2>14, <1>0, OpTypes DEF RemoveEntry, Return
    <3>3. RegistryTypes' /\ UNCHANGED cacheVars
      BY <3>1, <3>2, <2>14, RegisteredShrinks DEF RemoveEntry, RegistryTypes, envVars
    <3> QED BY <3>1, <3>2, <3>3, OutsideCacheKeepsInv
  <2> QED BY <1>4, <2>1, <2>2, <2>3, <2>4, <2>5, <2>6, <2>7, <2>8, <2>9, <2>10, <2>11, <2>12, <2>13,
             <2>14 DEF ThreadStep
<1>5. ASSUME NEW t \in Threads, CancelWait(t) /\ UNCHANGED <<registryVars, envVars>>
      PROVE  WorkspaceInv'
  BY <1>5, CacheKeepsInv
<1>6. ASSUME NEW n \in DOMAIN engines, LivePublishesFresh(n) \/ CallbackPublishesStale(n)
      PROVE  WorkspaceInv'
  <2>1. RegistryInv' /\ engines' \in Seq(EngineRecord)
    BY <1>6, PublishKeepsRegistry
  <2>2. UNCHANGED <<repository, entries, runtime, shutDown, op, envVars, cacheVars>>
    BY <1>6 DEF LivePublishesFresh, CallbackPublishesStale
  <2>3. RegistryTypes'
    BY <2>1, <2>2 DEF RegistryTypes, envVars, Registered
  <2>4. CacheInv' /\ CallInv'
    BY <2>2 DEF CacheInv, CacheTypeOK, NoDuplicateBuild, CallInv, cacheVars
  <2> QED BY <2>1, <2>3, <2>4
<1>7. ASSUME NEW w \in Workspaces, MoveHead(w)
      PROVE  WorkspaceInv'
  BY <1>7, MoveHeadKeepsInv
<1>8. CASE UNCHANGED vars
  <2>1. UNCHANGED <<RegistryState, head, moves, registrations, cacheVars>>
    BY <1>8 DEF vars, registryVars, envVars, RegistryState
  <2>2. RegistryTypes' /\ RegistryInv'
    BY <2>1 DEF RegistryTypes, RegistryState, Registered, RegistryInv, OpInv, EntryInv, EngineInv,
                OneRepository, Owns, Holds
  <2>3. CacheInv' /\ CallInv'
    BY <2>1 DEF CacheInv, CacheTypeOK, NoDuplicateBuild, CallInv, cacheVars, RegistryState
  <2> QED BY <2>2, <2>3
<1> QED BY <1>1, <1>2, <1>3, <1>4, <1>5, <1>6, <1>7, <1>8 DEF Next

(* It holds in every state of every behaviour.                                *)
LEMMA WorkspaceInvariant == Spec => []WorkspaceInv
BY WorkspaceInit, WorkspaceNext, PTL DEF Spec

-----------------------------------------------------------------------------
(* Every variable of the registry and its cache keeps its type, the cache and  *)
(* the registered worktrees stay within their limits.                          *)
THEOREM TypeCorrect == Spec => []TypeOK
<1>1. WorkspaceInv => TypeOK
  BY TypesSplit DEF WorkspaceInv, CacheInv, Types
<1> QED BY <1>1, WorkspaceInvariant, PTL

(* Concurrent requests for the same commit share one builder                   *)
(* (CommitSnapshotCache::load_or_build).                                       *)
THEOREM BuildsAreShared == Spec => []NoDuplicateBuild
<1>1. WorkspaceInv => NoDuplicateBuild
  BY DEF WorkspaceInv, CacheInv
<1> QED BY <1>1, WorkspaceInvariant, PTL

(* All registered worktrees belong to the recorded repository (reserve,         *)
(* rollback_reservation).                                                     *)
THEOREM RegistryIsScoped == Spec => []OneRepository
<1>1. WorkspaceInv => OneRepository
  BY DEF WorkspaceInv, RegistryInv
<1> QED BY <1>1, WorkspaceInvariant, PTL

(* An engine whose runtime has been shut down never claims freshness again      *)
(* (WorkspaceRuntime::shutdown, mark_engine_stale).                            *)
THEOREM StoppedEnginesAreStale == Spec => []StoppedIsNeverFresh
<1>1. WorkspaceInv => StoppedIsNeverFresh
  BY DEF WorkspaceInv, RegistryInv, EngineInv, StoppedIsNeverFresh
<1> QED BY <1>1, WorkspaceInvariant, PTL

(* One live index for each worktree, and queries reach the right one            *)
(* (reserve, finish_registration, unregister, workspace).                      *)
THEOREM WorktreesHaveOneOwner == Spec => []OneOwnerPerWorktree
<1>1. ASSUME WorkspaceInv PROVE OneOwnerPerWorktree
  <2> USE <1>1 DEF WorkspaceInv
  <2> USE DEF RegistryInv
  <2>1. ASSUME NEW d \in DOMAIN engines, NEW e \in DOMAIN engines, engines[d].live, engines[e].live,
               engines[d].workspace = engines[e].workspace
        PROVE  d = e
    <3> DEFINE w == engines[e].workspace
    <3>1. w \in Workspaces /\ d # 0 /\ e # 0
      BY EngineFields DEF EngineRecord
    <3>2. \A n \in {d, e} : \/ runtime[w] = n
                            \/ \E t \in Threads : Holds(t, n)
      BY <2>1 DEF EngineInv
    <3>3. ASSUME NEW t \in Threads, NEW n \in {d, e}, Holds(t, n)
          PROVE  \/ op[t].kind \in {"register", "unregister"} /\ op[t].workspace = w
                 \/ op[t].kind = "shutdown"
      <4>1. op[t].kind \in {"register", "unregister", "shutdown"}
        BY <3>3 DEF Holds, OpInv, RegistryTypes, OpRecord
      <4>2. op[t].kind # "shutdown" => op[t].workspace = engines[n].workspace
        BY <3>3 DEF EngineInv
      <4> QED BY <4>1, <4>2, <2>1
    <3>4. ASSUME NEW t \in Threads, Holds(t, d), Holds(t, e)
          PROVE  d = e
      <4>1. CASE d \in op[t].queue /\ e \in op[t].queue
        BY <4>1, <2>1 DEF EngineInv
      <4>2. CASE op[t].step = "finish"
        BY <3>4, <4>2 DEF Holds, OpInv, RegistryTypes, OpRecord
      <4> QED BY <3>4, <4>1, <4>2 DEF Holds
    <3>5. ASSUME NEW t \in Threads, NEW u \in Threads, Holds(t, d), Holds(u, e)
          PROVE  t = u
      <4>1. /\ (op[t].kind \in {"register", "unregister"} /\ op[t].workspace = w) \/ op[t].kind = "shutdown"
            /\ (op[u].kind \in {"register", "unregister"} /\ op[u].workspace = w) \/ op[u].kind = "shutdown"
        BY <3>3, <3>5
      <4>2. \A v \in {t, u} : op[v].kind = "shutdown" => shutDown
        BY DEF OpInv
      <4> QED BY <4>1, <4>2, <3>1 DEF EntryInv, Owns
    <3>6. ASSUME NEW t \in Threads, NEW n \in {d, e}, Holds(t, n)
          PROVE  runtime[w] = 0
      <4>1. op[t].kind = "shutdown" => shutDown
        BY DEF OpInv
      <4> QED BY <4>1, <3>1, <3>3, <3>6 DEF EntryInv
    <3> QED BY <3>1, <3>2, <3>4, <3>5, <3>6
  <2>2. ASSUME NEW w \in Workspaces \union {None}, Route(w) # 0
        PROVE  /\ engines[Route(w)].live
               /\ w # None => engines[Route(w)].workspace = w
    <3> DEFINE ReadyEntries == {v \in Workspaces : entries[v] = "Ready"}
    <3>1. CASE w \in ReadyEntries
      <4>1. Route(w) = runtime[w]
        BY <3>1 DEF Route
      <4> QED BY <3>1, <4>1 DEF EntryInv
    <3>2. CASE w \notin ReadyEntries
      <4>1. w = None /\ Cardinality(ReadyEntries) = 1
            /\ Route(w) = runtime[CHOOSE v \in ReadyEntries : TRUE]
        BY <3>2, <2>2 DEF Route
      <4>2. ReadyEntries # {}
        BY <4>1, FS_EmptySet
      <4>3. PICK v \in ReadyEntries : Route(w) = runtime[v]
        BY <4>1, <4>2
      <4> QED BY <4>1, <4>3 DEF EntryInv
    <3> QED BY <3>1, <3>2
  <2> QED BY <2>1, <2>2 DEF OneOwnerPerWorktree
<1> QED BY <1>1, WorkspaceInvariant, PTL

(* After the call that closed the registry has returned nothing is registered,  *)
(* watched or Fresh (WorkspaceRegistry::shutdown).                             *)
THEOREM ShutdownClosesForGood == Spec => []ShutdownIsFinal
<1>1. ASSUME WorkspaceInv PROVE ShutdownIsFinal
  <2> USE <1>1 DEF WorkspaceInv
  <2> USE DEF RegistryInv
  <2> SUFFICES ASSUME shutDown, \A t \in Threads : op[t].kind # "shutdown"
               PROVE  /\ Registered = {}
                      /\ \A e \in DOMAIN engines : ~engines[e].live /\ ~engines[e].fresh
    BY DEF ShutdownIsFinal
  <2>1. Registered = {} /\ \A w \in Workspaces : runtime[w] = 0
    BY DEF EntryInv, Registered
  <2>2. \A t \in Threads : op[t].kind = "none"
    BY <2>1 DEF EntryInv, Registered, RegistryTypes, OpRecord
  <2>3. \A t \in Threads : op[t].step = "idle" /\ op[t].queue = {}
    BY <2>2 DEF OpInv
  <2>4. ASSUME NEW e \in DOMAIN engines
        PROVE  ~engines[e].live /\ ~engines[e].fresh
    <3>1. engines[e].workspace \in Workspaces /\ e # 0
      BY EngineFields DEF EngineRecord
    <3> QED BY <3>1, <2>1, <2>3 DEF EngineInv, Holds
  <2> QED BY <2>1, <2>4
<1> QED BY <1>1, WorkspaceInvariant, PTL

-----------------------------------------------------------------------------
(* The registry implements exclusive ownership.                               *)

(* A step that touches no engine, no route and not the closing is invisible.   *)
LEMMA OwnershipUnchanged ==
    ASSUME engines' = engines, runtime' = runtime, shutDown' = shutDown
    PROVE  UNCHANGED Ownership!ownershipVars
<1>1. Watching' = Watching /\ Retired' = Retired /\ Current' = Current
  BY DEF Watching, Retired, Current
<1> QED BY <1>1 DEF Ownership!ownershipVars

(* A live index starts on a worktree that nobody watches: its reservation has  *)
(* kept everyone else away.                                                   *)
LEMMA StartLiveRefines ==
    ASSUME WorkspaceInv, OneOwnerPerWorktree', NEW t \in Threads, StartLive(t)
    PROVE  \E w \in Workspaces : Ownership!Watch(w)
<1>1. /\ RegistryTypes /\ OpInv /\ EntryInv
      /\ op[t] \in OpRecord
  BY DEF WorkspaceInv, RegistryInv, RegistryTypes
<1>2. op[t].step = "start" /\ op[t].kind = "register"
  BY <1>1 DEF StartLive, OpInv, OpRecord
<1>3. PICK w \in Workspaces : w = op[t].workspace /\ ~shutDown
  BY <1>1, <1>2 DEF EntryInv
<1>4. PICK n \in Nat : /\ n = Len(engines) + 1 /\ DOMAIN engines = 1 .. Len(engines)
                       /\ Len(engines) \in Nat /\ engines \in Seq(EngineRecord)
  BY <1>1, EngineFields DEF RegistryTypes
<1>5. Engine(w) \in EngineRecord
  BY DEF Engine, EngineRecord
<1>6. engines' = Append(engines, Engine(w)) /\ UNCHANGED <<runtime, shutDown>>
  BY <1>3 DEF StartLive
<1>7. /\ DOMAIN engines' = DOMAIN engines \union {n} /\ n \notin DOMAIN engines
      /\ engines'[n] = Engine(w) /\ \A e \in DOMAIN engines : engines'[e] = engines[e]
  <2>1. /\ Append(engines, Engine(w)) \in Seq(EngineRecord)
        /\ Len(Append(engines, Engine(w))) = Len(engines) + 1
        /\ \A i \in 1 .. Len(engines) : Append(engines, Engine(w))[i] = engines[i]
        /\ Append(engines, Engine(w))[Len(engines) + 1] = Engine(w)
    BY <1>4, <1>5, AppendProperties
  <2>2. DOMAIN engines' = 1 .. Len(engines')
    BY <1>6, <2>1, LenProperties
  <2> QED BY <1>4, <1>6, <2>1, <2>2
<1>8. Engine(w).live /\ ~Engine(w).fresh /\ Engine(w).workspace = w
  BY DEF Engine
<1>9. \A e \in DOMAIN engines : ~(engines[e].live /\ engines[e].workspace = w)
  BY <1>7, <1>8 DEF OneOwnerPerWorktree
<1>10. Watching[w] = {} /\ Watching' = [Watching EXCEPT ![w] = {n}]
  <2>1. Watching[w] = {}
    BY <1>9 DEF Watching
  <2>2. ASSUME NEW v \in Workspaces
        PROVE  Watching'[v] = IF v = w THEN {n} ELSE Watching[v]
    BY <1>7, <1>8, <1>9 DEF Watching
  <2>3. Watching' = [v \in Workspaces |-> Watching'[v]] /\ Watching = [v \in Workspaces |-> Watching[v]]
    BY DEF Watching
  <2> QED BY <2>1, <2>2, <2>3
<1>11. Retired' = Retired /\ Current' = Current
  BY <1>7, <1>8 DEF Retired, Current
<1>12. n \in Watching'[w] \ (Retired \union UNION {Watching[v] : v \in Workspaces})
  <2>1. n \in Watching'[w]
    BY <1>7, <1>8 DEF Watching
  <2>2. n \notin Retired /\ \A v \in Workspaces : n \notin Watching[v]
    BY <1>7 DEF Retired, Watching
  <2> QED BY <2>1, <2>2
<1> QED BY <1>3, <1>6, <1>10, <1>11, <1>12 DEF Ownership!Watch

(* A query is routed to the index that the registration has started.          *)
LEMMA FinishRefines ==
    ASSUME WorkspaceInv, NEW t \in Threads, FinishRegistration(t)
    PROVE  \E w \in Workspaces : Ownership!Serve(w)
<1>1. RegistryTypes /\ OpInv /\ EntryInv /\ EngineInv /\ op[t] \in OpRecord
  BY DEF WorkspaceInv, RegistryInv, RegistryTypes
<1>2. op[t].step = "finish" /\ op[t].kind = "register"
  BY <1>1 DEF FinishRegistration, OpInv, OpRecord
<1>3. PICK w \in Workspaces : w = op[t].workspace /\ ~shutDown /\ entries[w] = "Starting"
  BY <1>1, <1>2 DEF EntryInv
<1>4. PICK e \in DOMAIN engines : e = op[t].engine
  BY <1>1, <1>2 DEF OpInv
<1>5. engines[e].live /\ engines[e].workspace = w
  BY <1>1, <1>2, <1>3, <1>4 DEF EngineInv, Holds
<1>6. runtime[w] = 0
  BY <1>1, <1>3 DEF EntryInv
<1>7. runtime' = [runtime EXCEPT ![w] = e] /\ UNCHANGED <<engines, shutDown>>
  BY <1>3, <1>4 DEF FinishRegistration
<1>8. e \in Watching[w] /\ Watching' = Watching /\ Retired' = Retired /\ Current' = Current
  BY <1>5, <1>7 DEF Watching, Retired, Current
<1> QED BY <1>3, <1>6, <1>7, <1>8 DEF Ownership!Serve

LEMMA UnregisterRefines ==
    ASSUME WorkspaceInv, NEW t \in Threads, NEW w \in Workspaces, Unregister(t, w)
    PROVE  Ownership!Dismiss(w)
<1>1. runtime[w] # 0
  BY DEF WorkspaceInv, RegistryInv, EntryInv, Unregister
<1>2. runtime' = [runtime EXCEPT ![w] = 0] /\ UNCHANGED <<engines, shutDown>>
  BY DEF Unregister
<1>3. Watching' = Watching /\ Retired' = Retired /\ Current' = Current
  BY <1>2 DEF Watching, Retired, Current
<1> QED BY <1>1, <1>2, <1>3 DEF Ownership!Dismiss

(* Without a transition every live engine is one that queries are routed to.   *)
LEMMA ShutdownRefines ==
    ASSUME WorkspaceInv, NEW t \in Threads, Shutdown(t)
    PROVE  Ownership!Close
<1>1. RegistryTypes /\ OpInv /\ EntryInv /\ EngineInv /\ ~shutDown /\ InTransition = {}
  BY DEF WorkspaceInv, RegistryInv, Shutdown, NoTransitions
<1>2. ASSUME NEW e \in DOMAIN engines, engines[e].live
      PROVE  runtime[engines[e].workspace] = e
  <2>1. ASSUME NEW u \in Threads, Holds(u, e)
        PROVE  FALSE
    <3>1. op[u].kind \in {"none", "register", "unregister", "shutdown"}
      BY <1>1 DEF RegistryTypes, OpRecord
    <3>2. op[u].kind # "none" /\ op[u].kind # "shutdown"
      BY <1>1, <2>1 DEF OpInv, Holds
    <3>3. op[u].workspace \in InTransition
      BY <1>1, <3>1, <3>2 DEF EntryInv, InTransition
    <3> QED BY <1>1, <3>3
  <2> QED BY <1>1, <1>2, <2>1 DEF EngineInv
<1>3. ASSUME NEW w \in Workspaces
      PROVE  Watching[w] = IF runtime[w] = 0 THEN {} ELSE {runtime[w]}
  <2>1. CASE runtime[w] = 0
    <3>1. 0 \notin DOMAIN engines
      BY <1>1, EngineFields
    <3> QED BY <1>2, <2>1, <3>1 DEF Watching
  <2>2. CASE runtime[w] # 0
    <3>1. runtime[w] \in DOMAIN engines /\ engines[runtime[w]].live /\ engines[runtime[w]].workspace = w
      BY <1>1, <2>2 DEF EntryInv
    <3>2. Watching[w] = {runtime[w]}
      BY <1>2, <3>1 DEF Watching
    <3> QED BY <2>2, <3>2
  <2> QED BY <2>1, <2>2
<1>4. shutDown' = TRUE /\ runtime' = [w \in Workspaces |-> 0] /\ engines' = engines
  BY DEF Shutdown
<1>5. Watching' = Watching /\ Retired' = Retired /\ Current' = Current
  BY <1>4 DEF Watching, Retired, Current
<1> QED BY <1>1, <1>3, <1>4, <1>5 DEF Ownership!Close

(* An index is joined once no query is routed to its engine.                  *)
LEMMA JoinRefines ==
    ASSUME WorkspaceInv, OneOwnerPerWorktree, NEW t \in Threads, Join(t)
    PROVE  \E w \in Workspaces : Ownership!Unwatch(w)
<1>1. /\ RegistryTypes /\ OpInv /\ EntryInv /\ EngineInv /\ op[t] \in OpRecord
      /\ op[t].step = "join"
  BY DEF WorkspaceInv, RegistryInv, RegistryTypes, Join
<1>2. PICK e \in op[t].queue : engines' = [engines EXCEPT ![e].live = FALSE]
  BY DEF Join, Joined
<1>3. e \in DOMAIN engines /\ Holds(t, e) /\ engines[e] \in EngineRecord
  BY <1>1, EngineFields DEF OpInv, Holds
<1>4. PICK w \in Workspaces : engines[e].workspace = w
  BY <1>3 DEF EngineRecord
<1>5. engines[e].live
  BY <1>1, <1>3 DEF EngineInv
<1>6. runtime[w] = 0
  <2>1. op[t].kind = "unregister" \/ op[t].kind = "shutdown"
    BY <1>1 DEF OpInv, OpRecord, Starts
  <2>2. op[t].kind = "unregister" => entries[w] = "Stopping"
    BY <1>1, <1>3, <1>4 DEF EntryInv, EngineInv
  <2>3. op[t].kind = "shutdown" => entries[w] = "absent"
    BY <1>1 DEF OpInv, EntryInv
  <2> QED BY <1>1, <2>1, <2>2, <2>3 DEF EntryInv
<1>7. /\ DOMAIN engines' = DOMAIN engines
      /\ ~engines'[e].live /\ engines'[e].fresh = engines[e].fresh
      /\ engines'[e].workspace = engines[e].workspace
      /\ \A d \in DOMAIN engines : d # e => engines'[d] = engines[d]
  <2>1. engines' = [engines EXCEPT ![e] = [engines[e] EXCEPT !.live = FALSE]]
    BY <1>2
  <2>2. [engines[e] EXCEPT !.live = FALSE] \in EngineRecord
    BY <1>3 DEF EngineRecord
  <2>3. engines'[e] = [engines[e] EXCEPT !.live = FALSE]
    BY <1>1, <1>3, <2>1, <2>2, EngineChanges
  <2>4. /\ DOMAIN engines' = DOMAIN engines
        /\ \A d \in DOMAIN engines : d # e => engines'[d] = engines[d]
    BY <1>1, <1>3, <2>1, <2>2, EngineChanges
  <2> QED BY <1>3, <2>3, <2>4 DEF EngineRecord
<1>8. \A d \in DOMAIN engines : engines[d].live /\ engines[d].workspace = w => d = e
  BY <1>3, <1>4, <1>5 DEF OneOwnerPerWorktree
<1>9. Watching[w] = {e} /\ Watching' = [Watching EXCEPT ![w] = {}]
  <2>1. Watching[w] = {e}
    BY <1>3, <1>4, <1>5, <1>8 DEF Watching
  <2>2. ASSUME NEW v \in Workspaces
        PROVE  Watching'[v] = IF v = w THEN {} ELSE Watching[v]
    BY <1>4, <1>7, <1>8 DEF Watching
  <2>3. Watching' = [v \in Workspaces |-> Watching'[v]] /\ Watching = [v \in Workspaces |-> Watching[v]]
    BY DEF Watching
  <2> QED BY <2>1, <2>2, <2>3
<1>10. Retired' = Retired \union {e} /\ Current' = Current
  BY <1>3, <1>7 DEF Retired, Current
<1>11. UNCHANGED <<runtime, shutDown>>
  BY DEF Join
<1> QED BY <1>4, <1>6, <1>9, <1>10, <1>11 DEF Ownership!Unwatch

(* Only an engine's freshness changes.                                        *)
LEMMA FreshnessRefines ==
    ASSUME RegistryTypes, UNCHANGED <<runtime, shutDown>>, NEW e \in DOMAIN engines,
           NEW new \in EngineRecord, engines' = [engines EXCEPT ![e] = new],
           new.live = engines[e].live, new.workspace = engines[e].workspace,
           new.fresh => engines[e].live
    PROVE  \/ \E w \in Workspaces : \E d \in Watching[w] : Ownership!Claim(d)
           \/ \E d \in Current : Ownership!Retract(d)
           \/ UNCHANGED Ownership!ownershipVars
<1>1. /\ DOMAIN engines' = DOMAIN engines /\ engines'[e] = new
      /\ \A d \in DOMAIN engines : d # e => engines'[d] = engines[d]
      /\ engines[e] \in EngineRecord
  BY EngineChanges, EngineFields
<1>2. Watching' = Watching
  <2>1. \A d \in DOMAIN engines : /\ engines'[d].live = engines[d].live
                                  /\ engines'[d].workspace = engines[d].workspace
    BY <1>1
  <2> QED BY <1>1, <2>1 DEF Watching
<1>3. Retired' = Retired
  BY <1>1 DEF Retired
<1>4. CASE new.fresh
  <2>1. engines[e].workspace \in Workspaces /\ e \in Watching[engines[e].workspace]
    BY <1>1, <1>4 DEF EngineRecord, Watching
  <2>2. Current' = Current \union {e}
    BY <1>1, <1>4 DEF Current
  <2> QED BY <1>2, <1>3, <2>1, <2>2 DEF Ownership!Claim
<1>5. CASE ~new.fresh
  <2>1. Current' = Current \ {e}
    BY <1>1, <1>5 DEF Current
  <2>2. CASE e \in Current
    BY <1>2, <1>3, <2>1, <2>2 DEF Ownership!Retract
  <2>3. CASE e \notin Current
    BY <1>2, <1>3, <2>1, <2>3 DEF Ownership!ownershipVars
  <2> QED BY <2>2, <2>3
<1> QED BY <1>4, <1>5

LEMMA PublishRefines ==
    ASSUME WorkspaceInv,
           \/ \E t \in Threads : Revoke(t)
           \/ \E e \in DOMAIN engines : LivePublishesFresh(e) \/ CallbackPublishesStale(e)
    PROVE  \/ \E w \in Workspaces : \E d \in Watching[w] : Ownership!Claim(d)
           \/ \E d \in Current : Ownership!Retract(d)
           \/ UNCHANGED Ownership!ownershipVars
<1>1. RegistryTypes /\ OpInv /\ UNCHANGED <<runtime, shutDown>>
  BY DEF WorkspaceInv, RegistryInv, Revoke, LivePublishesFresh, CallbackPublishesStale
<1>2. ASSUME NEW t \in Threads, Revoke(t)
      PROVE  \E e \in DOMAIN engines :
                engines' = [engines EXCEPT ![e] = [[engines[e] EXCEPT !.stopped = TRUE] EXCEPT !.fresh = FALSE]]
  <2>1. op[t].engine \in DOMAIN engines
    BY <1>1, <1>2 DEF Revoke, OpInv
  <2>2. engines[op[t].engine] \in EngineRecord
    BY <1>1, <2>1, EngineFields
  <2>3. engines' = [engines EXCEPT ![op[t].engine] =
                       [[engines[op[t].engine] EXCEPT !.stopped = TRUE] EXCEPT !.fresh = FALSE]]
    BY <1>2, <2>1, <2>2 DEF Revoke, EngineRecord
  <2> QED BY <2>1, <2>3
<1>3. CASE \E t \in Threads : Revoke(t)
  <2>1. PICK e \in DOMAIN engines :
           engines' = [engines EXCEPT ![e] = [[engines[e] EXCEPT !.stopped = TRUE] EXCEPT !.fresh = FALSE]]
    BY <1>2, <1>3
  <2> DEFINE new == [[engines[e] EXCEPT !.stopped = TRUE] EXCEPT !.fresh = FALSE]
  <2>2. engines[e] \in EngineRecord
    BY <1>1, EngineFields
  <2>3. /\ new \in EngineRecord /\ new.live = engines[e].live /\ ~new.fresh
        /\ new.workspace = engines[e].workspace
    BY <2>2 DEF EngineRecord
  <2>4. engines' = [engines EXCEPT ![e] = new]
    BY <2>1
  <2> HIDE DEF new
  <2> QED BY <1>1, <2>3, <2>4, FreshnessRefines
<1>4. CASE \E e \in DOMAIN engines : LivePublishesFresh(e) \/ CallbackPublishesStale(e)
  <2>1. PICK e \in DOMAIN engines : LivePublishesFresh(e) \/ CallbackPublishesStale(e)
    BY <1>4
  <2>2. engines[e] \in EngineRecord
    BY <1>1, EngineFields
  <2>3. PICK fresh \in BOOLEAN : /\ engines' = [engines EXCEPT ![e] = [engines[e] EXCEPT !.fresh = fresh]]
                                 /\ fresh => engines[e].live
    BY <2>1 DEF LivePublishesFresh, CallbackPublishesStale
  <2> DEFINE new == [engines[e] EXCEPT !.fresh = fresh]
  <2>4. /\ new \in EngineRecord /\ new.live = engines[e].live /\ new.fresh = fresh
        /\ new.workspace = engines[e].workspace
    BY <2>2 DEF EngineRecord
  <2>5. engines' = [engines EXCEPT ![e] = new]
    BY <2>3
  <2> HIDE DEF new
  <2> QED BY <1>1, <2>3, <2>4, <2>5, FreshnessRefines
<1> QED BY <1>3, <1>4

(* Every step of the registry is a step of the owner or invisible to it.      *)
LEMMA OwnershipStep ==
    ASSUME WorkspaceInv, OneOwnerPerWorktree, OneOwnerPerWorktree', [Next]_vars
    PROVE  [Ownership!OwnershipNext]_(Ownership!ownershipVars)
<1> USE DEF Ownership!OwnershipNext
<1>1. ASSUME NEW t \in Threads, ThreadStep(t)
      PROVE  [Ownership!OwnershipNext]_(Ownership!ownershipVars)
  <2>1. CASE StartLive(t) \/ FinishRegistration(t) \/ Join(t)
    BY <2>1, StartLiveRefines, FinishRefines, JoinRefines
  <2>2. CASE Revoke(t)
    BY <2>2, PublishRefines
  <2>3. CASE \/ ResolveHead(t) \/ ResolveFails(t) \/ LoadFails(t) \/ Compose(t) \/ ComposeUnstable(t)
             \/ ComposeFails(t) \/ StartLiveFails(t) \/ RemoveEntry(t)
             \/ UNCHANGED <<registryVars, envVars>>
    <3>1. UNCHANGED <<engines, runtime, shutDown>>
      BY <2>3 DEF ResolveHead, ResolveFails, LoadFails, Compose, ComposeUnstable, ComposeFails,
                  StartLiveFails, RemoveEntry, RollbackReservation, registryVars
    <3> QED BY <3>1, OwnershipUnchanged
  <2> QED BY <1>1, <2>1, <2>2, <2>3 DEF ThreadStep
<1>2. ASSUME NEW t \in Threads, NEW w \in Workspaces, Unregister(t, w)
      PROVE  [Ownership!OwnershipNext]_(Ownership!ownershipVars)
  BY <1>2, UnregisterRefines
<1>3. ASSUME NEW t \in Threads, Shutdown(t)
      PROVE  [Ownership!OwnershipNext]_(Ownership!ownershipVars)
  BY <1>3, ShutdownRefines
<1>4. CASE \E e \in DOMAIN engines : LivePublishesFresh(e) \/ CallbackPublishesStale(e)
  BY <1>4, PublishRefines
<1>5. CASE \/ \E t \in Threads : \/ \E w \in Workspaces : Reserve(t, w)
                                 \/ CancelWait(t) /\ UNCHANGED <<registryVars, envVars>>
           \/ \E w \in Workspaces : MoveHead(w)
           \/ UNCHANGED vars
  <2>1. UNCHANGED <<engines, runtime, shutDown>>
    BY <1>5 DEF Reserve, MoveHead, registryVars, vars
  <2> QED BY <2>1, OwnershipUnchanged
<1> QED BY <1>1, <1>2, <1>3, <1>4, <1>5 DEF Next

(* The registry implements exclusive ownership of worktrees, for any worktrees, *)
(* threads, repositories, commits and limits (reserve, finish_registration,    *)
(* unregister, shutdown).                                                     *)
THEOREM RegistryImplementsOwnership == Spec => ImplementsOwnership
<1>1. Init => Ownership!OwnershipInit
  <2> SUFFICES ASSUME Init PROVE Ownership!OwnershipInit
    OBVIOUS
  <2>1. DOMAIN engines = {}
    BY EmptySeq DEF Init
  <2>2. Watching = [w \in Workspaces |-> {}] /\ Retired = {} /\ Current = {}
    BY <2>1 DEF Watching, Retired, Current
  <2> QED BY <2>2 DEF Init, Ownership!OwnershipInit
<1> QED BY <1>1, OwnershipStep, WorkspaceInvariant, WorktreesHaveOneOwner, PTL
        DEF Spec, ImplementsOwnership, Ownership!OwnershipSpec
=============================================================================
