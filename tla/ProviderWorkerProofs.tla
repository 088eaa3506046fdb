------------------------ MODULE ProviderWorkerProofs ------------------------
(***************************************************************************)
(* Proofs about ProviderWorker for any documents, any contents of any number *)
(* of revisions, and any bounds.  The argument: the server's overlay is the  *)
(* known revision except inside synchronize_documents, where it is the known *)
(* revision on `todo` and the requested one elsewhere; a question that is    *)
(* awaited was asked about the overlay of now, because nothing is sent       *)
(* while the worker waits.                                                  *)
(***************************************************************************)
EXTENDS ProviderWorker, SequenceTheorems, TLAPS

Serving == step \in {"sync", "documents", "notify", "query", "waiting", "failed"}

IsAskable(r) ==
    r.revision \in DOMAIN source /\ source[r.revision][r.target] # Absent

(* Where the worker may be with and without a request and a session.          *)
ControlInv ==
    /\ Serving => request # {} /\ session
    /\ step \in {"top", "receive", "ended"} => request = {}
    /\ step \in {"start", "ended"} => ~session
    /\ step \notin {"query", "waiting", "failed"} => views = {}
    /\ \A r \in request : IsAskable(r) /\ known <= r.revision
    /\ \A i \in DOMAIN queue : IsAskable(queue[i])
    /\ \A a \in answer : a.revision \in DOMAIN source
    /\ shared # 0 => step \in {"top", "receive", "sync"} /\ session /\ barrier /\ shared = known

Open(served) == {d \in Documents : served[d] # Closed}

(* The overlay against the known and the requested revision.                  *)
SyncInv ==
    /\ session /\ ~torn /\ step \in {"top", "receive", "sync", "query", "waiting"}
         => InStep(opened, overlay)
    /\ ~torn /\ step \in {"documents", "notify"} =>
         /\ opened = Open(overlay)
         /\ \A d \in opened :
              overlay[d] = IF d \in todo THEN source[known][d] ELSE Workspace[d]
    /\ step = "notify" => todo = {} /\ Current.target \in opened
    /\ step \in {"query", "waiting"} => known = Current.revision /\ Current.target \in opened

IsViewOf(view, w, target) ==
    view[target] # Closed /\ \A d \in Documents : view[d] \in {Closed, w[d]}

(* What questions and answers were computed from.                             *)
ViewInv ==
    /\ \A o \in outstanding : o.id <= asked
    /\ step = "waiting" => \A o \in outstanding : o.id = asked => o.view = overlay
    /\ ~torn /\ step \in {"query", "waiting"} =>
         \A view \in views : IsViewOf(view, Workspace, Current.target)

WorkerInv ==
    /\ TypeOK /\ ControlInv /\ SyncInv /\ ViewInv
    /\ AnswersMatchRevision

-----------------------------------------------------------------------------

(* The numbers among the constants.                                           *)
LEMMA Bounds ==
    /\ MaxRevision \in Nat \ {0} /\ CommandCapacity \in Nat \ {0}
    /\ MaxCalls \in Nat /\ MaxQuestions \in Nat
  BY ProviderWorkerAssumption

LEMMA ZeroIsNoRevision ==
    ASSUME TypeOK
    PROVE  Len(source) \in Nat /\ 0 \in 0 .. Len(source)
  BY Bounds DEF TypeOK

(* A document that exists has contents, and they are not the mark of a closed  *)
(* one.                                                                       *)
LEMMA ContentsOf ==
    ASSUME NEW w \in Workspaces, NEW d \in Documents, w[d] # Absent
    PROVE  w[d] \in Contents /\ w[d] # Closed
<1>1. w[d] \in {w[e] : e \in Documents}
  OBVIOUS
<1>2. w[d] \in States
  BY <1>1 DEF States
<1> QED
  BY <1>2, ProviderWorkerAssumption DEF Contents

(* The request in hand.                                                       *)
LEMMA Handling ==
    ASSUME TypeOK, ControlInv, request # {}
    PROVE  /\ request = {Current} /\ Current \in Requests
           /\ Current.revision \in DOMAIN source /\ Current.revision \in Nat
           /\ Current.target \in Documents
           /\ Workspace \in Workspaces /\ Workspace[Current.target] # Absent
           /\ known <= Current.revision
<1>1. PICK r \in request : TRUE
  OBVIOUS
<1>2. request = {r} /\ Current = r
  BY <1>1 DEF TypeOK, Current
<1>3. r \in Requests /\ IsAskable(r) /\ known <= r.revision
  BY <1>1 DEF TypeOK, ControlInv
<1> QED
  BY <1>2, <1>3 DEF TypeOK, Workspace, IsAskable, Requests

(* The first command of the channel.                                          *)
LEMMA FirstCommand ==
    ASSUME TypeOK, ControlInv, queue # <<>>
    PROVE  /\ Head(queue) \in Requests /\ IsAskable(Head(queue))
           /\ Tail(queue) \in Seq(Requests) /\ Len(Tail(queue)) <= CommandCapacity
           /\ \A i \in DOMAIN Tail(queue) : IsAskable(Tail(queue)[i])
<1>1. queue \in Seq(Requests) /\ Len(queue) <= CommandCapacity /\ CommandCapacity \in Nat
  BY ProviderWorkerAssumption DEF TypeOK
<1>2. /\ Head(queue) \in Requests /\ Tail(queue) \in Seq(Requests)
      /\ Len(Tail(queue)) = Len(queue) - 1
      /\ \A i \in 1 .. Len(Tail(queue)) : Tail(queue)[i] = queue[i + 1]
      /\ Head(queue) = queue[1]
  BY <1>1, HeadTailProperties
<1>3. 1 \in DOMAIN queue /\ \A i \in DOMAIN Tail(queue) : i + 1 \in DOMAIN queue
  BY <1>1, <1>2
<1> QED
  BY <1>1, <1>2, <1>3 DEF ControlInv

(* Sending a document keeps the types, and on delivery the open documents are   *)
(* the server's.                                                              *)
LEMMA SendDocument ==
    ASSUME TypeOK, NEW d \in Documents, NEW content \in Contents \union {Closed}, NEW ok \in BOOLEAN,
           Send(d, content, ok)
    PROVE  /\ opened' \in SUBSET Documents /\ overlay' \in Overlays
           /\ ok => /\ overlay' = [overlay EXCEPT ![d] = content]
                    /\ opened = Open(overlay) => opened' = Open(overlay')
                    /\ content # Closed => d \in opened'
                    /\ opened \ {d} \subseteq opened'
<1>1. overlay \in Overlays /\ opened \in SUBSET Documents
  BY DEF TypeOK
<1>2. [overlay EXCEPT ![d] = content] \in Overlays
  BY <1>1 DEF Overlays
<1>3. opened' \in SUBSET Documents /\ overlay' \in Overlays
  BY <1>1, <1>2 DEF Send
<1>4. ASSUME ok, opened = Open(overlay) PROVE opened' = Open(overlay')
  BY <1>1, <1>4 DEF Send, Open, Overlays
<1> QED
  BY <1>3, <1>4 DEF Send

-----------------------------------------------------------------------------
(* TypeOK is preserved.                                                        *)
LEMMA TypeInit == Init => TypeOK
<1> SUFFICES ASSUME Init PROVE TypeOK
  OBVIOUS
<1>1. Nothing \in Overlays
  BY DEF Nothing, Overlays
<1>2. PICK w \in Workspaces : source = <<w>>
  BY DEF Init
<1>3. source \in Seq(Workspaces) /\ Len(source) = 1 /\ 1 \in DOMAIN source
  BY <1>2
<1>4. Len(source) \in 1 .. MaxRevision
  BY <1>3, Bounds
<1>5. queue \in Seq(Requests) /\ Len(queue) <= CommandCapacity /\ calls \in 0 .. MaxCalls
  BY Bounds DEF Init
<1>6. known \in DOMAIN source /\ shared \in 0 .. Len(source)
  BY <1>3 DEF Init
<1> QED
  BY <1>1, <1>3, <1>4, <1>5, <1>6 DEF Init, TypeOK, Steps

LEMMA PublishType ==
    ASSUME TypeOK, NEW w \in Workspaces, Publish(w)
    PROVE  /\ source' \in Seq(Workspaces) /\ Len(source') = Len(source) + 1
           /\ DOMAIN source \subseteq DOMAIN source'
           /\ \A r \in DOMAIN source : source'[r] = source[r]
  BY AppendProperties DEF TypeOK, Publish

LEMMA TypeStep ==
    ASSUME TypeOK, ControlInv, [Next]_vars
    PROVE  TypeOK'
<1>1. CASE UNCHANGED vars
  BY <1>1 DEF TypeOK, vars, sourceVars, requestVars, serverVars, documentVars
<1>2. ASSUME NEW w \in Workspaces, Publish(w) PROVE TypeOK'
  BY <1>2, PublishType, Bounds DEF TypeOK, Publish, requestVars, serverVars, documentVars
<1>3. ASSUME NEW revision \in DOMAIN source, NEW target \in Documents, Submit(revision, target)
      PROVE  TypeOK'
  <2>1. [revision |-> revision, target |-> target] \in Requests
    BY Bounds DEF TypeOK, Requests
  <2>2. queue' \in Seq(Requests) /\ Len(queue') <= CommandCapacity
    BY <1>3, <2>1, AppendProperties, Bounds DEF TypeOK, Submit
  <2> QED
    BY <1>3, <2>2, Bounds
    DEF TypeOK, Submit, requestVars, serverVars, documentVars
<1>4. ASSUME NEW response \in outstanding, Receive(response) PROVE TypeOK'
  <2>1. views' \in SUBSET Overlays
    BY <1>4 DEF TypeOK, Receive, Responses
  <2> QED
    BY <1>4, <2>1 DEF TypeOK, Receive, Steps, sourceVars, requestVars, documentVars
<1>5. CASE RequestStop
  BY <1>5 DEF TypeOK, RequestStop, requestVars, serverVars, documentVars
<1>6. CASE ServerDies
  BY <1>6 DEF TypeOK, ServerDies, sourceVars, requestVars, documentVars
<1>7. CASE StartSession
  <2>1. Nothing \in Overlays
    BY DEF Nothing, Overlays
  <2> QED
    BY <1>7, <2>1, ZeroIsNoRevision DEF TypeOK, StartSession, OpenAtStart, Steps, sourceVars, requestVars
<1>8. CASE StartFails
  BY <1>8, ZeroIsNoRevision DEF TypeOK, StartFails, Fallback, EndRequest, Steps, sourceVars, serverVars, documentVars
<1>9. CASE RetryAfterFailure \/ RestartRequired
  <2>1. Current.revision \in DOMAIN source
    BY <1>9, Handling DEF RetryAfterFailure, RestartRequired, ControlInv, Serving
  <2>2. Nothing \in Overlays
    BY DEF Nothing, Overlays
  <2>3. CASE RetryAfterFailure
    BY <2>1, <2>2, <2>3, ZeroIsNoRevision
    DEF TypeOK, RetryAfterFailure, Restart, StopSession, Steps, sourceVars
  <2>4. CASE RestartRequired
    BY <2>1, <2>2, <2>4, ZeroIsNoRevision
    DEF TypeOK, RestartRequired, Restart, StopSession, Steps, sourceVars
  <2> QED
    BY <1>9, <2>3, <2>4
<1>10. CASE FailTwice \/ Abandon
  BY <1>10, ZeroIsNoRevision DEF TypeOK, FailTwice, Abandon, Fallback, EndRequest, InStep, Steps, sourceVars, serverVars
<1>11. CASE Poll \/ ConnectionLost
  BY <1>11
  DEF TypeOK, Poll, ConnectionLost, Steps, sourceVars, requestVars, serverVars, documentVars
<1>12. CASE End
  <2>1. Nothing \in Overlays /\ <<>> \in Seq(Requests) /\ Len(<<>>) = 0
    BY DEF Nothing, Overlays
  <2>2. queue' \in Seq(Requests) /\ Len(queue') <= CommandCapacity
    BY <1>12, <2>1, Bounds DEF End
  <2> QED
    BY <1>12, <2>1, <2>2, ZeroIsNoRevision DEF TypeOK, End, StopSession, Steps, requestVars
<1>13. ASSUME SeesClosed \/ SeesNothing
       PROVE  /\ session' \in BOOLEAN /\ alive' \in BOOLEAN /\ torn' \in BOOLEAN
              /\ opened' \in SUBSET Documents /\ overlay' \in Overlays
              /\ outstanding' \in SUBSET Responses /\ asked' \in Nat
              /\ shared' \in 0 .. Len(source)
  <2>1. Nothing \in Overlays /\ 0 \in 0 .. Len(source)
    BY DEF Nothing, Overlays, TypeOK
  <2>2. CASE SeesClosed
    BY <2>1, <2>2 DEF TypeOK, SeesClosed
  <2>3. CASE SeesNothing
    BY <2>3 DEF TypeOK, SeesNothing, serverVars, documentVars
  <2> QED
    BY <1>13, <2>2, <2>3
<1>14. CASE Idle
  BY <1>13, <1>14 DEF TypeOK, Idle, Steps, sourceVars, requestVars
<1>15. CASE Refuse
  BY <1>13, <1>15, FirstCommand DEF TypeOK, Refuse, Steps, requestVars
<1>16. CASE TakeRequest
  <2>1. Head(queue) \in Requests /\ Head(queue).revision \in DOMAIN source
    BY <1>16, FirstCommand DEF TakeRequest, IsAskable
  <2> QED
    BY <1>13, <1>16, <2>1, FirstCommand DEF TypeOK, TakeRequest, Steps
<1>17. ASSUME NEW build \in BOOLEAN, BeginSync(build) PROVE TypeOK'
  BY <1>17 DEF TypeOK, BeginSync, Steps, sourceVars, requestVars, serverVars, documentVars
<1>18. ASSUME NEW d \in Documents, NEW ok \in BOOLEAN, SyncDocument(d, ok) PROVE TypeOK'
  <2>1. CASE d \notin opened
    BY <1>18, <2>1 DEF TypeOK, SyncDocument, Steps, sourceVars, requestVars, serverVars
  <2>2. CASE d \in opened
    <3> DEFINE content == IF Workspace[d] = Absent THEN Closed ELSE Workspace[d]
    <3>1. content \in Contents \union {Closed}
      BY <1>18, Handling, ContentsOf DEF SyncDocument, ControlInv, Serving
    <3>2. Send(d, content, ok)
      BY <1>18, <2>2 DEF SyncDocument
    <3> HIDE DEF content
    <3>3. opened' \in SUBSET Documents /\ overlay' \in Overlays
      BY <3>1, <3>2, SendDocument
    <3> QED
      BY <1>18, <3>3 DEF TypeOK, SyncDocument, Steps, sourceVars, requestVars, serverVars
  <2> QED
    BY <2>1, <2>2
<1>19. ASSUME NEW ok \in BOOLEAN, OpenTarget(ok) PROVE TypeOK'
  <2>1. /\ Current.target \in Documents /\ Workspace[Current.target] \in Contents
        /\ Send(Current.target, Workspace[Current.target], ok)
    BY <1>19, Handling, ContentsOf DEF OpenTarget, ControlInv, Serving
  <2>2. opened' \in SUBSET Documents /\ overlay' \in Overlays
    BY <2>1, SendDocument
  <2> QED
    BY <1>19, <2>2 DEF TypeOK, OpenTarget, Steps, sourceVars, requestVars, serverVars
<1>20. ASSUME NEW ok \in BOOLEAN, FinishSync(ok) PROVE TypeOK'
  <2>1. Current.revision \in DOMAIN source
    BY <1>20, Handling DEF FinishSync, ControlInv, Serving
  <2> QED
    BY <1>20, <2>1 DEF TypeOK, FinishSync, Steps, sourceVars, requestVars, serverVars, documentVars
<1>21. ASSUME NEW d \in Documents, NEW ok \in BOOLEAN, OpenDocument(d, ok) PROVE TypeOK'
  <2>1. Workspace[d] \in Contents /\ Send(d, Workspace[d], ok)
    BY <1>21, Handling, ContentsOf DEF OpenDocument, ControlInv, Serving
  <2>2. opened' \in SUBSET Documents /\ overlay' \in Overlays
    BY <2>1, SendDocument
  <2> QED
    BY <1>21, <2>2 DEF TypeOK, OpenDocument, Steps, sourceVars, requestVars, serverVars
<1>22. ASSUME NEW ok \in BOOLEAN, Ask(ok) PROVE TypeOK'
  <2>1. [id |-> asked + 1, view |-> overlay] \in Responses
    BY DEF TypeOK, Responses
  <2>2. outstanding' \in SUBSET Responses
    BY <1>22, <2>1 DEF TypeOK, Ask
  <2> QED
    BY <1>22, <2>2 DEF TypeOK, Ask, Steps, sourceVars, requestVars, documentVars
<1>23. CASE GiveUp
  BY <1>23, ZeroIsNoRevision
  DEF TypeOK, GiveUp, Fallback, EndRequest, Steps, sourceVars, serverVars, documentVars
<1>24. ASSUME NEW ready \in BOOLEAN, FinishQuery(ready) PROVE TypeOK'
  <2>1. Current \in Requests
    BY <1>24, Handling DEF FinishQuery, ControlInv, Serving
  <2>2. [revision |-> Current.revision, target |-> Current.target, views |-> views, torn |-> torn]
          \in Answers
    BY <2>1 DEF Requests, TypeOK, Answers
  <2>3. answer' \in SUBSET Answers
    BY <1>24, <2>2 DEF FinishQuery
  <2>4. known \in 0 .. Len(source)
    BY ZeroIsNoRevision DEF TypeOK
  <2> QED
    BY <1>24, <2>3, <2>4 DEF TypeOK, FinishQuery, EndRequest, Steps, sourceVars, serverVars, documentVars
<1> QED
  BY <1>1, <1>2, <1>3, <1>4, <1>5, <1>6, <1>7, <1>8, <1>9, <1>10, <1>11, <1>12, <1>14, <1>15,
     <1>16, <1>17, <1>18, <1>19, <1>20, <1>21, <1>22, <1>23, <1>24
  DEF Next, Worker

-----------------------------------------------------------------------------
(* ControlInv is preserved.                                                    *)
LEMMA ControlInit == Init => ControlInv
  BY DEF Init, ControlInv, Serving

LEMMA ControlStep ==
    ASSUME TypeOK, ControlInv, [Next]_vars
    PROVE  ControlInv'
<1>1. CASE UNCHANGED vars
  BY <1>1
  DEF ControlInv, Serving, IsAskable, vars, sourceVars, requestVars, serverVars, documentVars
<1>2. ASSUME NEW w \in Workspaces, Publish(w) PROVE ControlInv'
  <2>1. ASSUME NEW r, IsAskable(r) PROVE IsAskable(r)'
    BY <1>2, <2>1, PublishType DEF IsAskable
  <2>2. \A a \in answer' : a.revision \in DOMAIN source'
    BY <1>2, PublishType DEF Publish, ControlInv
  <2> QED
    BY <1>2, <2>1, <2>2
    DEF ControlInv, Serving, Publish, requestVars, serverVars, documentVars
<1>3. ASSUME NEW revision \in DOMAIN source, NEW target \in Documents, Submit(revision, target)
      PROVE  ControlInv'
  <2> DEFINE asking == [revision |-> revision, target |-> target]
  <2>1. IsAskable(asking)
    BY <1>3 DEF Submit, IsAskable
  <2>2. asking \in Requests
    BY Bounds DEF TypeOK, Requests
  <2>3. /\ Len(queue') = Len(queue) + 1 /\ DOMAIN queue' = 1 .. Len(queue')
        /\ DOMAIN queue = 1 .. Len(queue) /\ Len(queue) \in Nat
        /\ \A i \in 1 .. Len(queue) : queue'[i] = queue[i]
        /\ queue'[Len(queue) + 1] = asking
    BY <1>3, <2>2, AppendProperties DEF TypeOK, Submit
  <2> HIDE DEF asking
  <2>4. \A i \in DOMAIN queue' : IsAskable(queue'[i])
    BY <2>1, <2>3 DEF ControlInv
  <2> QED
    BY <1>3, <2>4
    DEF ControlInv, Serving, Submit, IsAskable, requestVars, serverVars, documentVars
<1>4. ASSUME NEW response \in outstanding, Receive(response) PROVE ControlInv'
  BY <1>4 DEF ControlInv, Serving, IsAskable, Receive, sourceVars, requestVars, documentVars
<1>5. CASE RequestStop
  BY <1>5 DEF ControlInv, Serving, IsAskable, RequestStop, requestVars, serverVars, documentVars
<1>6. CASE ServerDies
  BY <1>6 DEF ControlInv, Serving, IsAskable, ServerDies, sourceVars, requestVars, documentVars
<1>7. CASE StartSession
  BY <1>7 DEF ControlInv, Serving, IsAskable, StartSession, sourceVars, requestVars
<1>8. CASE StartFails
  BY <1>8
  DEF ControlInv, Serving, IsAskable, StartFails, Fallback, EndRequest, sourceVars, serverVars,
      documentVars
<1>9. CASE RetryAfterFailure
  <2>1. \A r \in request : Current.revision <= r.revision
    BY <1>9, Handling DEF RetryAfterFailure, ControlInv, Serving
  <2> QED
    BY <1>9, <2>1
    DEF ControlInv, Serving, IsAskable, RetryAfterFailure, Restart, StopSession, sourceVars
<1>10. CASE RestartRequired
  <2>1. \A r \in request : Current.revision <= r.revision
    BY <1>10, Handling DEF RestartRequired, ControlInv, Serving
  <2> QED
    BY <1>10, <2>1
    DEF ControlInv, Serving, IsAskable, RestartRequired, Restart, StopSession, sourceVars
<1>11. CASE FailTwice \/ Abandon
  BY <1>11
  DEF ControlInv, Serving, IsAskable, FailTwice, Abandon, Fallback, EndRequest, sourceVars, serverVars
<1>12. CASE Poll \/ ConnectionLost
  BY <1>12
  DEF ControlInv, Serving, IsAskable, Poll, ConnectionLost, sourceVars, requestVars, serverVars,
      documentVars
<1>13. CASE End
  <2>1. DOMAIN queue' = {}
    BY <1>13 DEF End
  <2> QED
    BY <1>13, <2>1 DEF ControlInv, Serving, IsAskable, End, StopSession, requestVars
<1>14. CASE Idle
  BY <1>14
  DEF ControlInv, Serving, IsAskable, Idle, SeesClosed, SeesNothing, sourceVars, requestVars,
      serverVars, documentVars
<1>15. CASE Refuse
  <2>1. \A i \in DOMAIN queue' : IsAskable(queue'[i])
    BY <1>15, FirstCommand DEF Refuse
  <2> QED
    BY <1>15, <2>1
    DEF ControlInv, Serving, IsAskable, Refuse, SeesClosed, SeesNothing, requestVars, serverVars,
        documentVars
<1>16. CASE TakeRequest
  <2>1. /\ \A i \in DOMAIN queue' : IsAskable(queue'[i])
        /\ IsAskable(Head(queue)) /\ Head(queue).revision \in Nat
    BY <1>16, FirstCommand DEF TakeRequest, Requests
  <2>2. known \in Nat /\ known <= Head(queue).revision
    BY <1>16, <2>1 DEF TakeRequest, TypeOK
  <2>3. \A r \in request' : IsAskable(r)' /\ known' <= r.revision
    BY <1>16, <2>1, <2>2 DEF TakeRequest, IsAskable
  <2> QED
    BY <1>16, <2>1, <2>3
    DEF ControlInv, Serving, IsAskable, TakeRequest, SeesClosed, SeesNothing, serverVars,
        documentVars
<1>17. ASSUME NEW build \in BOOLEAN, BeginSync(build) PROVE ControlInv'
  BY <1>17
  DEF ControlInv, Serving, IsAskable, BeginSync, sourceVars, requestVars, serverVars, documentVars
<1>18. ASSUME NEW d \in Documents, NEW ok \in BOOLEAN, SyncDocument(d, ok) PROVE ControlInv'
  BY <1>18 DEF ControlInv, Serving, IsAskable, SyncDocument, sourceVars, requestVars, serverVars
<1>19. ASSUME NEW ok \in BOOLEAN, OpenTarget(ok) PROVE ControlInv'
  BY <1>19 DEF ControlInv, Serving, IsAskable, OpenTarget, sourceVars, requestVars, serverVars
<1>20. ASSUME NEW ok \in BOOLEAN, FinishSync(ok) PROVE ControlInv'
  <2>1. \A r \in request : Current.revision <= r.revision
    BY <1>20, Handling DEF FinishSync, ControlInv, Serving
  <2> QED
    BY <1>20, <2>1
    DEF ControlInv, Serving, IsAskable, FinishSync, sourceVars, requestVars, serverVars, documentVars
<1>21. ASSUME NEW d \in Documents, NEW ok \in BOOLEAN, OpenDocument(d, ok) PROVE ControlInv'
  BY <1>21 DEF ControlInv, Serving, IsAskable, OpenDocument, sourceVars, requestVars, serverVars
<1>22. ASSUME NEW ok \in BOOLEAN, Ask(ok) PROVE ControlInv'
  BY <1>22 DEF ControlInv, Serving, IsAskable, Ask, sourceVars, requestVars, documentVars
<1>23. CASE GiveUp
  BY <1>23
  DEF ControlInv, Serving, IsAskable, GiveUp, Fallback, EndRequest, sourceVars, serverVars,
      documentVars
<1>24. ASSUME NEW ready \in BOOLEAN, FinishQuery(ready) PROVE ControlInv'
  <2>1. \A a \in answer' : a.revision \in DOMAIN source'
    BY <1>24, Handling DEF FinishQuery, ControlInv, Serving, sourceVars
  <2> QED
    BY <1>24, <2>1
    DEF ControlInv, Serving, IsAskable, FinishQuery, EndRequest, sourceVars, serverVars, documentVars
<1> QED
  BY <1>1, <1>2, <1>3, <1>4, <1>5, <1>6, <1>7, <1>8, <1>9, <1>10, <1>11, <1>12, <1>13, <1>14,
     <1>15, <1>16, <1>17, <1>18, <1>19, <1>20, <1>21, <1>22, <1>23, <1>24
  DEF Next, Worker

-----------------------------------------------------------------------------
(* SyncInv is preserved.  Actions after which the worker is not in a step that  *)
(* SyncInv speaks of, or that leave documents, request and revisions alone, are *)
(* immediate; the others say what they do to the overlay.                      *)
LEMMA SyncInit == Init => SyncInv
  BY DEF Init, SyncInv

(* The delta covers everything in which the two revisions differ.             *)
LEMMA BeginMoving ==
    ASSUME TypeOK, ControlInv, SyncInv, NEW build \in BOOLEAN, BeginSync(build)
    PROVE  SyncInv'
<1>1. /\ step = "sync" /\ step' = "documents"
      /\ todo' = {d \in Documents : source[known][d] # Workspace[d]}
      /\ UNCHANGED <<source, request, known, session, opened, overlay, torn>>
  BY DEF BeginSync, sourceVars, requestVars, serverVars, documentVars
<1>2. session /\ Current' = Current /\ Workspace' = Workspace
  BY <1>1 DEF ControlInv, Serving, Current, Workspace
<1>3. ASSUME ~torn
      PROVE  /\ opened = Open(overlay)
             /\ \A d \in opened : overlay[d] = IF d \in todo' THEN source[known][d] ELSE Workspace[d]
  <2>1. InStep(opened, overlay)
    BY <1>1, <1>2, <1>3 DEF SyncInv
  <2> QED
    BY <1>1, <2>1 DEF InStep, Open, TypeOK
<1> QED
  BY <1>1, <1>2, <1>3 DEF SyncInv, Open

(* One document moves from the known to the requested revision.               *)
LEMMA SyncOne ==
    ASSUME TypeOK, ControlInv, SyncInv, NEW d \in Documents, NEW ok \in BOOLEAN, SyncDocument(d, ok)
    PROVE  SyncInv'
<1>1. CASE ~ok
  BY <1>1 DEF SyncDocument, SyncInv
<1>2. CASE ok
  <2>1. /\ step = "documents" /\ step' = "documents" /\ todo' = todo \ {d}
        /\ UNCHANGED <<source, request, known, session, torn>>
    BY <1>2 DEF SyncDocument, sourceVars, requestVars, serverVars
  <2>2. Current' = Current /\ Workspace' = Workspace
    BY <2>1 DEF Current, Workspace
  <2>3. Workspace \in Workspaces
    BY <2>1, Handling DEF ControlInv, Serving
  <2>4. ASSUME ~torn
        PROVE  /\ opened' = Open(overlay)'
               /\ \A e \in opened' :
                    overlay'[e] = IF e \in todo' THEN source[known][e] ELSE Workspace[e]
    <3>1. /\ opened = Open(overlay) /\ overlay \in Overlays
          /\ \A e \in opened : overlay[e] = IF e \in todo THEN source[known][e] ELSE Workspace[e]
      BY <2>1, <2>4 DEF SyncInv, TypeOK
    <3>2. CASE d \notin opened
      BY <2>1, <3>1, <3>2 DEF SyncDocument, Open
    <3>3. CASE d \in opened
      <4> DEFINE content == IF Workspace[d] = Absent THEN Closed ELSE Workspace[d]
      <4>1. content \in Contents \union {Closed}
        BY <2>3, ContentsOf
      <4>2. Send(d, content, ok)
        BY <3>3 DEF SyncDocument
      <4>3. content = Closed \/ (content = Workspace[d] /\ content # Closed)
        BY <2>3, ContentsOf
      <4>4. opened' = IF content = Closed THEN opened \ {d} ELSE opened \union {d}
        BY <4>2 DEF Send
      <4> HIDE DEF content
      <4>5. opened' = Open(overlay') /\ overlay' = [overlay EXCEPT ![d] = content]
        BY <1>2, <3>1, <4>1, <4>2, SendDocument
      <4>6. ASSUME NEW e \in opened'
            PROVE  overlay'[e] = IF e \in todo' THEN source[known][e] ELSE Workspace[e]
        <5>1. e \in opened
          BY <3>3, <4>4, <4>6
        <5>2. CASE e = d
          BY <2>1, <3>1, <4>3, <4>4, <4>5, <5>2, <4>6 DEF Overlays
        <5>3. CASE e # d
          BY <2>1, <3>1, <4>5, <5>1, <5>3, <4>6 DEF Overlays, Open
        <5> QED
          BY <5>2, <5>3
      <4> QED
        BY <4>5, <4>6 DEF Open
    <3> QED
      BY <3>2, <3>3
  <2> QED
    BY <2>1, <2>2, <2>4 DEF SyncInv
<1> QED
  BY <1>1, <1>2

LEMMA OpenTheTarget ==
    ASSUME TypeOK, ControlInv, SyncInv, NEW ok \in BOOLEAN, OpenTarget(ok)
    PROVE  SyncInv'
<1>1. CASE ~ok
  BY <1>1 DEF OpenTarget, SyncInv
<1>2. CASE ok
  <2> DEFINE d == Current.target
             content == Workspace[d]
  <2>1. /\ step = "documents" /\ step' = "notify" /\ todo = {} /\ todo' = {}
        /\ UNCHANGED <<source, request, known, session, torn>>
        /\ Send(d, content, ok)
    BY <1>2 DEF OpenTarget, sourceVars, requestVars, serverVars
  <2>2. Current' = Current /\ Workspace' = Workspace
    BY <2>1 DEF Current, Workspace
  <2>3. d \in Documents /\ content \in Contents /\ content # Closed
    BY <2>1, Handling, ContentsOf DEF ControlInv, Serving
  <2>4. opened' = opened \union {d} /\ overlay' = [overlay EXCEPT ![d] = content]
    BY <1>2, <2>1, <2>3 DEF Send
  <2>5. ASSUME ~torn
        PROVE  opened' = Open(overlay)' /\ \A e \in opened' : overlay'[e] = Workspace[e]
    <3>1. /\ opened = Open(overlay) /\ overlay \in Overlays
          /\ \A e \in opened : overlay[e] = Workspace[e]
      BY <2>1, <2>5 DEF SyncInv, TypeOK
    <3>2. opened' = Open(overlay')
      BY <1>2, <2>1, <2>3, <3>1, SendDocument
    <3>3. \A e \in opened' : overlay'[e] = Workspace[e]
      BY <2>3, <2>4, <3>1 DEF Overlays, Open
    <3> QED
      BY <3>2, <3>3 DEF Open
  <2> HIDE DEF d, content
  <2>6. d \in opened' /\ Current'.target = d
    BY <2>2, <2>4 DEF d
  <2> QED
    BY <2>1, <2>2, <2>5, <2>6 DEF SyncInv, d
<1> QED
  BY <1>1, <1>2

LEMMA SyncFinished ==
    ASSUME TypeOK, ControlInv, SyncInv, NEW ok \in BOOLEAN, FinishSync(ok)
    PROVE  SyncInv'
<1>1. CASE ~ok
  BY <1>1 DEF FinishSync, SyncInv
<1>2. CASE ok
  <2>1. /\ step \in {"documents", "notify"} /\ step' = "query" /\ known' = Current.revision
        /\ todo = {} /\ Current.target \in opened
        /\ UNCHANGED <<source, request, session, opened, overlay, torn>>
    BY <1>2 DEF FinishSync, SyncInv, sourceVars, requestVars, serverVars, documentVars
  <2>2. Current' = Current /\ Workspace' = Workspace
    BY <2>1 DEF Current, Workspace
  <2>3. ASSUME ~torn PROVE InStep(opened, overlay)'
    BY <2>1, <2>3 DEF SyncInv, InStep, Open, Workspace
  <2> QED
    BY <2>1, <2>2, <2>3 DEF SyncInv
<1> QED
  BY <1>1, <1>2

LEMMA OpenMore ==
    ASSUME TypeOK, ControlInv, SyncInv, NEW d \in Documents, NEW ok \in BOOLEAN, OpenDocument(d, ok)
    PROVE  SyncInv'
<1>1. CASE ~ok
  BY <1>1 DEF OpenDocument, SyncInv
<1>2. CASE ok
  <2> DEFINE content == Workspace[d]
  <2>1. /\ step = "query" /\ step' = "query"
        /\ UNCHANGED <<source, request, known, session, torn>>
        /\ Send(d, content, ok) /\ content # Absent
    BY <1>2 DEF OpenDocument, sourceVars, requestVars, serverVars
  <2>2. Current' = Current /\ Workspace' = Workspace
    BY <2>1 DEF Current, Workspace
  <2>3. content \in Contents /\ content # Closed
    BY <2>1, Handling, ContentsOf DEF ControlInv, Serving
  <2>4. opened' = opened \union {d} /\ overlay' = [overlay EXCEPT ![d] = content]
    BY <1>2, <2>1, <2>3 DEF Send
  <2>5. known = Current.revision /\ Current.target \in opened /\ source[known][d] = content
    BY <2>1 DEF SyncInv, Workspace
  <2>6. ASSUME ~torn, session PROVE InStep(opened, overlay)'
    <3>1. InStep(opened, overlay) /\ overlay \in Overlays
      BY <2>1, <2>6 DEF SyncInv, TypeOK
    <3>2. opened' = Open(overlay')
      BY <1>2, <2>1, <2>3, <3>1, SendDocument DEF InStep, Open
    <3> HIDE DEF content
    <3>3. \A e \in opened' : overlay'[e] = source[known][e]
      BY <2>4, <2>5, <3>1 DEF InStep, Overlays
    <3> QED
      BY <2>1, <3>2, <3>3 DEF InStep, Open
  <2> QED
    BY <2>1, <2>2, <2>4, <2>5, <2>6 DEF SyncInv
<1> QED
  BY <1>1, <1>2

LEMMA SyncStep ==
    ASSUME TypeOK, ControlInv, SyncInv, [Next]_vars
    PROVE  SyncInv'
<1>1. ASSUME UNCHANGED <<source, request, known, session, opened, todo, overlay, torn>>,
             step' = step \/ (step = "query" /\ step' = "waiting") \/ (step = "waiting" /\ step' = "query")
               \/ (step = "top" /\ step' = "receive") \/ step' = "failed"
      PROVE  SyncInv'
  BY <1>1 DEF SyncInv, InStep, Open, Current, Workspace
<1>2. CASE UNCHANGED vars
  BY <1>1, <1>2 DEF vars, sourceVars, requestVars, serverVars, documentVars
<1>3. ASSUME NEW w \in Workspaces, Publish(w) PROVE SyncInv'
  <2>1. /\ UNCHANGED <<step, request, known, session, opened, todo, overlay, torn>>
        /\ source'[known] = source[known] /\ Current' = Current
    BY <1>3, PublishType
    DEF Publish, Current, TypeOK, requestVars, serverVars, documentVars
  <2>2. request # {} => Workspace' = Workspace
    BY <2>1, <1>3, Handling, PublishType DEF Workspace
  <2>3. step \in {"documents", "notify"} => request # {}
    BY DEF ControlInv, Serving
  <2> QED
    BY <2>1, <2>2, <2>3 DEF SyncInv, InStep, Open
<1>4. ASSUME NEW revision \in DOMAIN source, NEW target \in Documents, Submit(revision, target)
      PROVE  SyncInv'
  BY <1>1, <1>4 DEF Submit, requestVars, serverVars, documentVars
<1>5. ASSUME NEW response \in outstanding, Receive(response) PROVE SyncInv'
  BY <1>1, <1>5 DEF Receive, sourceVars, requestVars, documentVars
<1>6. CASE RequestStop \/ ServerDies
  BY <1>1, <1>6
  DEF RequestStop, ServerDies, sourceVars, requestVars, serverVars, documentVars
<1>7. CASE StartSession
  BY <1>7 DEF StartSession, OpenAtStart, SyncInv, InStep, Nothing
<1>8. CASE StartFails
  BY <1>8
  DEF StartFails, Fallback, EndRequest, SyncInv, ControlInv, sourceVars, serverVars, documentVars
<1>9. CASE RetryAfterFailure \/ RestartRequired
  BY <1>9 DEF RetryAfterFailure, RestartRequired, Restart, StopSession, SyncInv
<1>10. CASE FailTwice \/ Abandon
  BY <1>10
  DEF FailTwice, Abandon, Fallback, EndRequest, SyncInv, InStep, sourceVars, serverVars
<1>11. CASE Poll \/ ConnectionLost
  BY <1>1, <1>11 DEF Poll, ConnectionLost, sourceVars, requestVars, serverVars, documentVars
<1>12. CASE End
  BY <1>12 DEF End, StopSession, SyncInv
<1>13. CASE Idle \/ Refuse \/ TakeRequest
  <2>1. /\ step = "receive" /\ step' \in {"top", "sync", "start"}
        /\ UNCHANGED <<source, opened, todo, torn>>
        /\ session' => session /\ UNCHANGED <<overlay, known>>
    BY <1>13
    DEF Idle, Refuse, TakeRequest, SeesClosed, SeesNothing, sourceVars, serverVars, documentVars
  <2> QED
    BY <2>1 DEF SyncInv, InStep
<1>14. ASSUME NEW build \in BOOLEAN, BeginSync(build) PROVE SyncInv'
  BY <1>14, BeginMoving
<1>15. ASSUME NEW d \in Documents, NEW ok \in BOOLEAN, SyncDocument(d, ok) \/ OpenDocument(d, ok)
       PROVE  SyncInv'
  BY <1>15, SyncOne, OpenMore
<1>16. ASSUME NEW ok \in BOOLEAN, OpenTarget(ok) \/ FinishSync(ok) PROVE SyncInv'
  BY <1>16, OpenTheTarget, SyncFinished
<1>17. ASSUME NEW ok \in BOOLEAN, Ask(ok) PROVE SyncInv'
  BY <1>1, <1>17 DEF Ask, sourceVars, requestVars, documentVars
<1>18. CASE GiveUp
  BY <1>18
  DEF GiveUp, Fallback, EndRequest, SyncInv, InStep, sourceVars, serverVars, documentVars
<1>19. ASSUME NEW ready \in BOOLEAN, FinishQuery(ready) PROVE SyncInv'
  BY <1>19 DEF FinishQuery, EndRequest, SyncInv, InStep, sourceVars, serverVars, documentVars
<1> QED
  BY <1>2, <1>3, <1>4, <1>5, <1>6, <1>7, <1>8, <1>9, <1>10, <1>11, <1>12, <1>13, <1>14, <1>15,
     <1>16, <1>17, <1>18, <1>19
  DEF Next, Worker

-----------------------------------------------------------------------------
(* ViewInv is preserved: nothing is sent while the worker waits, so the awaited *)
(* answer comes from the overlay of now, which SyncInv relates to the request.  *)
LEMMA ViewInit == Init => ViewInv
  BY DEF Init, ViewInv

(* Outside "query" and "waiting" only the ids matter.                          *)
LEMMA NotAsking ==
    ASSUME ViewInv, step' \notin {"query", "waiting"}, outstanding' \in {outstanding, {}},
           asked' = asked \/ outstanding' = {}
    PROVE  ViewInv'
  BY DEF ViewInv

(* A step that leaves the request, what was asked and the overlay alone.       *)
LEMMA ViewKept ==
    ASSUME ViewInv, outstanding' = outstanding, asked' = asked, step' = step, overlay' = overlay,
           views' = views, torn' = torn,
           step \in {"query", "waiting"} => Workspace' = Workspace /\ Current' = Current
    PROVE  ViewInv'
  BY DEF ViewInv

(* The view of an awaited answer fits the request.                            *)
LEMMA AwaitedView ==
    ASSUME TypeOK, ControlInv, SyncInv, ViewInv, step = "waiting", ~torn,
           NEW response \in outstanding, IsAwaited(response)
    PROVE  IsViewOf(response.view, Workspace, Current.target)
<1>1. response.view = overlay
  BY DEF ViewInv, IsAwaited
<1>2. /\ InStep(opened, overlay) /\ known = Current.revision
      /\ Current.target \in opened /\ opened \in SUBSET Documents
  BY DEF SyncInv, ControlInv, Serving, TypeOK
<1> QED
  BY <1>1, <1>2 DEF InStep, IsViewOf, Workspace

LEMMA ViewStep ==
    ASSUME TypeOK, ControlInv, SyncInv, ViewInv, [Next]_vars
    PROVE  ViewInv'
<1>1. CASE UNCHANGED vars
  BY <1>1, ViewKept
  DEF vars, sourceVars, requestVars, serverVars, documentVars, Current, Workspace
<1>2. ASSUME NEW w \in Workspaces, Publish(w) PROVE ViewInv'
  <2>1. /\ UNCHANGED <<outstanding, asked, step, overlay, views, torn, request>>
        /\ Current' = Current
    BY <1>2 DEF Publish, requestVars, serverVars, documentVars, Current
  <2>2. step \in {"query", "waiting"} => Workspace' = Workspace
    BY <1>2, <2>1, Handling, PublishType DEF ControlInv, Serving, Workspace
  <2> QED
    BY <2>1, <2>2, ViewKept
<1>3. ASSUME NEW revision \in DOMAIN source, NEW target \in Documents, Submit(revision, target)
      PROVE  ViewInv'
  BY <1>3, ViewKept DEF Submit, requestVars, serverVars, documentVars, Current, Workspace
<1>4. ASSUME NEW response \in outstanding, Receive(response) PROVE ViewInv'
  <2>1. /\ step = "waiting" /\ outstanding' = outstanding \ {response}
        /\ Current' = Current /\ Workspace' = Workspace
        /\ UNCHANGED <<asked, overlay, torn>>
    BY <1>4 DEF Receive, sourceVars, requestVars, documentVars, Current, Workspace
  <2>2. CASE IsAwaited(response)
    <3>1. step' = "query" /\ views' = views \union {response.view}
      BY <1>4, <2>2 DEF Receive
    <3>2. ASSUME ~torn PROVE \A view \in views' : IsViewOf(view, Workspace, Current.target)
      BY <2>1, <2>2, <3>1, <3>2, AwaitedView DEF ViewInv
    <3> QED
      BY <2>1, <3>1, <3>2 DEF ViewInv
  <2>3. CASE ~IsAwaited(response)
    BY <1>4, <2>1, <2>3 DEF Receive, ViewInv
  <2> QED
    BY <2>2, <2>3
<1>5. CASE RequestStop \/ ServerDies
  BY <1>5, ViewKept
  DEF RequestStop, ServerDies, sourceVars, requestVars, serverVars, documentVars, Current, Workspace
<1>6. CASE StartSession
  BY <1>6, NotAsking DEF StartSession
<1>7. CASE StartFails \/ FailTwice \/ Abandon \/ GiveUp
  BY <1>7, NotAsking
  DEF StartFails, FailTwice, Abandon, GiveUp, Fallback, EndRequest, serverVars
<1>8. CASE RetryAfterFailure \/ RestartRequired \/ End
  BY <1>8, NotAsking DEF RetryAfterFailure, RestartRequired, End, Restart, StopSession
<1>9. CASE Poll \/ ConnectionLost
  BY <1>9, NotAsking DEF Poll, ConnectionLost, serverVars
<1>10. CASE Idle \/ Refuse \/ TakeRequest
  BY <1>10, NotAsking
  DEF Idle, Refuse, TakeRequest, SeesClosed, SeesNothing, serverVars
<1>11. ASSUME NEW build \in BOOLEAN, BeginSync(build) PROVE ViewInv'
  BY <1>11, NotAsking DEF BeginSync, serverVars
<1>12. ASSUME NEW d \in Documents, NEW ok \in BOOLEAN, SyncDocument(d, ok) PROVE ViewInv'
  BY <1>12, NotAsking DEF SyncDocument, serverVars
<1>13. ASSUME NEW ok \in BOOLEAN, OpenTarget(ok) PROVE ViewInv'
  BY <1>13, NotAsking DEF OpenTarget, serverVars
<1>14. ASSUME NEW ok \in BOOLEAN, FinishSync(ok) PROVE ViewInv'
  <2>1. views = {}
    BY <1>14 DEF FinishSync, ControlInv
  <2> QED
    BY <1>14, <2>1 DEF FinishSync, ViewInv, serverVars
<1>15. ASSUME NEW d \in Documents, NEW ok \in BOOLEAN, OpenDocument(d, ok) PROVE ViewInv'
  BY <1>15
  DEF OpenDocument, ViewInv, sourceVars, requestVars, serverVars, Current, Workspace
<1>16. ASSUME NEW ok \in BOOLEAN, Ask(ok) PROVE ViewInv'
  <2> DEFINE question == [id |-> asked + 1, view |-> overlay]
  <2>1. /\ asked' = asked + 1 /\ asked \in Nat
        /\ outstanding' \subseteq outstanding \union {question}
        /\ step' \in {"waiting", "failed"}
        /\ Current' = Current /\ Workspace' = Workspace /\ step = "query"
        /\ UNCHANGED <<overlay, views, torn>>
    BY <1>16 DEF Ask, TypeOK, sourceVars, requestVars, documentVars, Current, Workspace
  <2>2. \A o \in outstanding : o.id <= asked /\ o.id \in Nat
    BY DEF ViewInv, TypeOK, Responses
  <2>3. \A o \in outstanding' : o.id <= asked' /\ (o.id = asked' => o.view = overlay)
    BY <2>1, <2>2
  <2> QED
    BY <2>1, <2>3 DEF ViewInv
<1>17. ASSUME NEW ready \in BOOLEAN, FinishQuery(ready) PROVE ViewInv'
  BY <1>17, NotAsking DEF FinishQuery, EndRequest, serverVars
<1> QED
  BY <1>1, <1>2, <1>3, <1>4, <1>5, <1>6, <1>7, <1>8, <1>9, <1>10, <1>11, <1>12, <1>13, <1>14,
     <1>15, <1>16, <1>17
  DEF Next, Worker

-----------------------------------------------------------------------------
(* An answer consists of views that fit its request; later steps forget it or   *)
(* leave it alone, and published revisions never change.                      *)
LEMMA AnswersStep ==
    ASSUME TypeOK, ControlInv, ViewInv, AnswersMatchRevision, [Next]_vars
    PROVE  AnswersMatchRevision'
<1>1. ASSUME answer' \in {answer, {}}, source' = source PROVE AnswersMatchRevision'
  BY <1>1 DEF AnswersMatchRevision
<1>2. ASSUME NEW w \in Workspaces, Publish(w) PROVE AnswersMatchRevision'
  <2>1. \A a \in answer : source'[a.revision] = source[a.revision]
    BY <1>2, PublishType DEF ControlInv
  <2> QED
    BY <1>2, <2>1 DEF Publish, AnswersMatchRevision
<1>3. ASSUME NEW ready \in BOOLEAN, FinishQuery(ready) PROVE AnswersMatchRevision'
  <2>1. step = "query" /\ source' = source
    BY <1>3 DEF FinishQuery, sourceVars
  <2>2. ~torn => \A view \in views : IsViewOf(view, Workspace, Current.target)
    BY <2>1 DEF ViewInv
  <2>3. \A a \in answer' : /\ a.views = views /\ a.torn = torn /\ a.target = Current.target
                           /\ source[a.revision] = Workspace
    BY <1>3 DEF FinishQuery, Workspace
  <2> QED
    BY <2>1, <2>2, <2>3 DEF AnswersMatchRevision, IsViewOf
<1>4. CASE StartSession \/ StartFails \/ RetryAfterFailure \/ FailTwice \/ RestartRequired
  BY <1>1, <1>4
  DEF StartSession, StartFails, RetryAfterFailure, FailTwice, RestartRequired, Fallback, sourceVars
<1>5. CASE Poll \/ End \/ Idle \/ Refuse \/ TakeRequest
  BY <1>1, <1>5 DEF Poll, End, Idle, Refuse, TakeRequest, sourceVars
<1>6. CASE Abandon \/ GiveUp \/ ConnectionLost \/ RequestStop \/ ServerDies
  BY <1>1, <1>6
  DEF Abandon, GiveUp, ConnectionLost, RequestStop, ServerDies, Fallback, sourceVars
<1>7. ASSUME NEW build \in BOOLEAN, BeginSync(build) PROVE AnswersMatchRevision'
  BY <1>1, <1>7 DEF BeginSync, sourceVars
<1>8. ASSUME NEW d \in Documents, NEW ok \in BOOLEAN, SyncDocument(d, ok) \/ OpenDocument(d, ok)
      PROVE  AnswersMatchRevision'
  BY <1>1, <1>8 DEF SyncDocument, OpenDocument, sourceVars
<1>9. ASSUME NEW ok \in BOOLEAN, OpenTarget(ok) \/ FinishSync(ok) \/ Ask(ok)
      PROVE  AnswersMatchRevision'
  BY <1>1, <1>9 DEF OpenTarget, FinishSync, Ask, sourceVars
<1>10. ASSUME NEW response \in outstanding, Receive(response) PROVE AnswersMatchRevision'
  BY <1>1, <1>10 DEF Receive, sourceVars
<1>11. ASSUME NEW revision \in DOMAIN source, NEW target \in Documents, Submit(revision, target)
       PROVE  AnswersMatchRevision'
  BY <1>1, <1>11 DEF Submit
<1>12. CASE UNCHANGED vars
  BY <1>1, <1>12 DEF vars
<1> QED
  BY <1>2, <1>3, <1>4, <1>5, <1>6, <1>7, <1>8, <1>9, <1>10, <1>11, <1>12 DEF Next, Worker

LEMMA WorkerInvariant == Spec => []WorkerInv
<1>1. Init => WorkerInv
  BY TypeInit, ControlInit, SyncInit, ViewInit DEF WorkerInv, Init, AnswersMatchRevision
<1>2. WorkerInv /\ [Next]_vars => WorkerInv'
  BY TypeStep, ControlStep, SyncStep, ViewStep, AnswersStep DEF WorkerInv
<1> QED
  BY <1>1, <1>2, PTL DEF Spec

-----------------------------------------------------------------------------
(* The owner thread's variables keep their types, whatever server and callers    *)
(* do.                                                                        *)
THEOREM TypeCorrect == Spec => []TypeOK
  BY WorkerInvariant, PTL DEF WorkerInv

(* A Ready result of a session that was not left out of step was computed         *)
(* from the documents of its own revision (wait_for_response, synchronize_documents *)
(* and the restarts of handle_enrich_inner together).                          *)
THEOREM ReadyAnswersAreExact == Spec => []AnswersMatchRevision
  BY WorkerInvariant, PTL DEF WorkerInv

(* opened_versions and known_workspace describe the server between              *)
(* synchronizations, in a session that was not left out of step, and state_for   *)
(* says Ready only for the known revision.                                     *)
THEOREM RecordOfDocumentsIsExact == Spec => []SessionInStep
<1>1. WorkerInv => SessionInStep
  <2> SUFFICES ASSUME WorkerInv PROVE SessionInStep
    OBVIOUS
  <2>1. step \in Steps /\ ControlInv /\ SyncInv
    BY DEF WorkerInv, TypeOK
  <2>2. ASSUME session, ~torn, step \notin {"documents", "notify", "failed"}
        PROVE  InStep(opened, overlay)
    BY <2>1, <2>2 DEF Steps, ControlInv, SyncInv
  <2>3. shared # 0 => session /\ barrier /\ shared = known
    BY <2>1 DEF ControlInv
  <2> QED
    BY <2>2, <2>3 DEF SessionInStep
<1> QED
  BY <1>1, WorkerInvariant, PTL

=============================================================================
