--------------------------- MODULE ProviderWorker ---------------------------
(***************************************************************************)
(* The owner thread of one precise provider: WorkerCore of                  *)
(* crates/chakra-provider-worker/src/worker.rs, the handle that feeds it     *)
(* (provider.rs) and the Client it drives (crates/chakra-lsp/src/client.rs). *)
(*                                                                         *)
(* The worker tells a language server the documents of the revision a        *)
(* request is about, asks its questions, and says "Ready at that revision".  *)
(* The server may be slow, answer late, or die; the operation of a request   *)
(* may expire at every check; a write may time out although its message is   *)
(* still delivered later.                                                   *)
(*                                                                         *)
(* The pipe to the server is first-in first-out: `overlay` is what the       *)
(* server has once it has read everything sent, and a question is answered   *)
(* from what was sent before it.  Document versions, URIs, progress and      *)
(* metrics are left out; of inputs (build files) only that some changed.      *)
(***************************************************************************)
EXTENDS Integers, Sequences, FiniteSets

CONSTANTS
    Documents,         \* paths the hooks synchronize
    Workspaces,        \* the contents a revision can have: Documents -> Contents or Absent
    Absent,            \* the document does not exist in a revision
    Closed,            \* the server does not have the document open
    CommandCapacity,   \* config.command_capacity
    MaxRevision,       \* bound: revisions the engine publishes
    MaxCalls,          \* bound: requests submitted
    MaxQuestions       \* bound: questions asked in one session

States == UNION {{w[d] : d \in Documents} : w \in Workspaces}
Contents == States \ {Absent}
Overlays == [Documents -> Contents \union {Closed}]

ASSUME ProviderWorkerAssumption ==
    /\ IsFiniteSet(Documents) /\ Documents # {} /\ Workspaces # {}
    /\ Closed \notin States /\ Closed # Absent
    /\ \A w \in Workspaces : DOMAIN w = Documents
    /\ CommandCapacity \in Nat \ {0} /\ MaxRevision \in Nat \ {0}
    /\ MaxCalls \in Nat /\ MaxQuestions \in Nat \ {0}

VARIABLES
    source,        \* source[r]: the workspace published as revision r
    queue, calls,  \* the bounded command channel; requests submitted so far (for the bound)
    stop,          \* force_stop
    step,          \* where the owner thread is
    request,       \* the request it handles: none or one [revision, target]
    retry,         \* this is the second query_with_owned_session of the request
    inputs,        \* the delta being sent has build inputs that are still to be gone through
    known,         \* known_revision, always that of known_workspace
    session,       \* session.is_some()
    alive,         \* the server process of the session runs
    opened,        \* keys of opened_versions
    todo,          \* documents of the delta still to be sent
    barrier,       \* barrier_generation == Some(sync_generation)
    overlay,       \* what the server has open, and with which content
    outstanding,   \* questions of this session without an answer yet
    asked,         \* questions asked in this session; the current one has this id
    views,         \* the overlays the answers accepted for this request came from
    shared,        \* synced_revision while the shared state is Ready, else 0
    answer,        \* the Ready result of the request that has just ended, if any
    torn           \* history: this session was left out of step by a synchronization that was
                   \* abandoned or failed a second time

sourceVars == <<source, queue, calls, stop>>
requestVars == <<request, retry, inputs>>
serverVars == <<session, alive, outstanding, asked>>
documentVars == <<opened, overlay, torn>>
vars == <<source, queue, calls, stop, step, request, retry, inputs, known, session, alive, opened,
          todo, barrier, overlay, outstanding, asked, views, shared, answer, torn>>

Requests == [revision : 1 .. MaxRevision, target : Documents]

Responses == [id : Nat \ {0}, view : Overlays]

Answers == [revision : 1 .. MaxRevision, target : Documents, views : SUBSET Overlays, torn : BOOLEAN]

Steps == {"start", "top", "receive", "sync", "documents", "notify", "query", "waiting", "failed",
          "ended"}

TypeOK ==
    /\ source \in Seq(Workspaces) /\ Len(source) \in 1 .. MaxRevision
    /\ queue \in Seq(Requests) /\ Len(queue) <= CommandCapacity
    /\ calls \in 0 .. MaxCalls /\ stop \in BOOLEAN /\ step \in Steps
    /\ request \in SUBSET Requests /\ (\A r, s \in request : r = s)
    /\ retry \in BOOLEAN /\ inputs \in BOOLEAN
    /\ known \in DOMAIN source
    /\ session \in BOOLEAN /\ alive \in BOOLEAN /\ barrier \in BOOLEAN /\ torn \in BOOLEAN
    /\ opened \in SUBSET Documents /\ todo \in SUBSET Documents
    /\ overlay \in Overlays
    /\ outstanding \in SUBSET Responses /\ asked \in Nat
    /\ views \in SUBSET Overlays
    /\ shared \in 0 .. Len(source)
    /\ answer \in SUBSET Answers

Nothing == [d \in Documents |-> Closed]

(* ProviderHandle::start and WorkerCore::new; run begins with start_session.  *)
Init ==
    /\ source \in {<<w>> : w \in Workspaces}
    /\ queue = <<>> /\ calls = 0 /\ stop = FALSE
    /\ step = "start" /\ request = {} /\ retry = FALSE /\ inputs = FALSE /\ known = 1
    /\ session = FALSE /\ alive = FALSE /\ opened = {} /\ todo = {} /\ barrier = FALSE
    /\ overlay = Nothing /\ outstanding = {} /\ asked = 0 /\ views = {}
    /\ shared = 0 /\ answer = {} /\ torn = FALSE

(* The request in hand and its workspace.                                     *)
Current == CHOOSE r \in request : TRUE
Workspace == source[Current.revision]

-----------------------------------------------------------------------------
(* Around the worker.                                                         *)

Publish(w) ==
    /\ Len(source) < MaxRevision
    /\ source' = Append(source, w)
    /\ UNCHANGED <<queue, calls, stop, step, requestVars, known, serverVars, documentVars, todo,
                   barrier, views, shared, answer>>

(* ProviderHandle::enrich_with_context up to the send: the workspace was       *)
(* captured when its revision was published, so an older one may arrive after  *)
(* a newer one.  `stopped` is read before the send, so a stop may come between.   *)
Submit(revision, target) ==
    /\ step # "ended" /\ calls < MaxCalls
    /\ revision \in DOMAIN source
    /\ source[revision][target] # Absent
    /\ Len(queue) < CommandCapacity
    /\ queue' = Append(queue, [revision |-> revision, target |-> target])
    /\ calls' = calls + 1
    /\ UNCHANGED <<source, stop, step, requestVars, known, serverVars, documentVars, todo, barrier,
                   views, shared, answer>>

(* ProviderHandle::shutdown (and drop) before the join.                       *)
RequestStop ==
    /\ ~stop
    /\ stop' = TRUE
    /\ UNCHANGED <<source, queue, calls, step, requestVars, known, serverVars, documentVars, todo,
                   barrier, views, shared, answer>>

(* The process exits; answers it has already written may still be read.       *)
ServerDies ==
    /\ alive
    /\ alive' = FALSE
    /\ UNCHANGED <<sourceVars, step, requestVars, known, session, documentVars, todo, barrier,
                   outstanding, asked, views, shared, answer>>

-----------------------------------------------------------------------------
(* Sessions.                                                                  *)

(* What the worker takes the server to have open is what it has open, with     *)
(* the contents of the known revision.                                        *)
InStep(open, served) ==
    /\ open = {d \in Documents : served[d] # Closed}
    /\ \A d \in open : served[d] = source[known][d]

(* fallback, and the other results that are not Ready: the request ends here.  *)
EndRequest ==
    /\ step' = "top"
    /\ request' = {} /\ retry' = FALSE /\ inputs' = FALSE /\ todo' = {} /\ views' = {}

Fallback ==
    /\ EndRequest
    /\ shared' = 0 /\ answer' = {}

(* Faulty: the new session inherits the list of open documents.               *)
OpenBefore == opened

OpenAtStart == {}

(* start_session succeeds: a new process that has nothing open.               *)
StartSession ==
    /\ step = "start"
    /\ session' = TRUE /\ alive' = TRUE
    /\ opened' = OpenAtStart /\ overlay' = Nothing /\ torn' = FALSE
    /\ barrier' = FALSE
    /\ outstanding' = {} /\ asked' = 0
    /\ shared' = 0
    /\ step' = IF request = {} THEN "top" ELSE "sync"
    /\ UNCHANGED <<sourceVars, requestVars, known, todo, views, answer>>

(* start_session fails before or after the spawn; the Client it drops kills     *)
(* its process.                                                               *)
StartFails ==
    /\ step = "start"
    /\ Fallback
    /\ barrier' \in {barrier, FALSE}
    /\ UNCHANGED <<sourceVars, known, serverVars, documentVars>>

(* stop_session: the process is shut down or killed.                          *)
StopSession ==
    /\ session' = FALSE /\ alive' = FALSE
    /\ opened' = IF session THEN {} ELSE opened
    /\ overlay' = Nothing /\ torn' = FALSE
    /\ outstanding' = {} /\ asked' = 0

(* restart_for: the new session starts from the request's workspace.          *)
Restart ==
    /\ StopSession
    /\ known' = Current.revision
    /\ step' = "start"

(* Transport failure: the first one restarts the session and asks again, the    *)
(* second ends the request with the session kept.                             *)
RetryAfterFailure ==
    /\ step = "failed" /\ ~retry
    /\ Restart
    /\ retry' = TRUE /\ inputs' = FALSE /\ todo' = {} /\ views' = {} /\ shared' = 0
    /\ UNCHANGED <<sourceVars, request, barrier, answer>>

FailTwice ==
    /\ step = "failed" /\ retry
    /\ Fallback
    /\ torn' = (torn \/ ~InStep(opened, overlay))
    /\ UNCHANGED <<sourceVars, known, serverVars, opened, overlay, barrier>>

(* WorkerError::RestartRequired: the hooks want a new session for this delta.  *)
RestartRequired ==
    /\ step = "sync" /\ known < Current.revision
    /\ Restart
    /\ retry' = TRUE /\ todo' = {} /\ shared' = 0
    /\ UNCHANGED <<sourceVars, request, inputs, barrier, views, answer>>

-----------------------------------------------------------------------------
(* The loop.                                                                  *)

(* The loop's condition; at the end the session is stopped.                    *)
Poll ==
    /\ step = "top" /\ ~stop
    /\ step' = "receive" /\ answer' = {}
    /\ UNCHANGED <<sourceVars, requestVars, known, serverVars, documentVars, todo, barrier, views,
                   shared>>

End ==
    /\ step = "top" /\ stop
    /\ StopSession
    /\ step' = "ended" /\ shared' = 0 /\ queue' = <<>> /\ answer' = {}
    /\ UNCHANGED <<source, calls, stop, requestVars, known, todo, barrier, views>>

(* drain_session_events: a closed output drops the session and not its         *)
(* opened_versions; the reader may report the end of a dead process later.     *)
SeesClosed ==
    /\ session /\ ~alive
    /\ session' = FALSE /\ shared' = 0
    /\ overlay' = Nothing /\ outstanding' = {} /\ asked' = 0
    /\ UNCHANGED <<alive, opened, torn>>

SeesNothing == UNCHANGED <<serverVars, documentVars, shared>>

(* recv_timeout found no command.                                             *)
Idle ==
    /\ step = "receive" /\ queue = <<>>
    /\ SeesClosed \/ SeesNothing
    /\ step' = "top"
    /\ UNCHANGED <<sourceVars, requestVars, known, todo, barrier, views, answer>>

(* handle_enrich: the operation has expired, or the worker knows a newer        *)
(* revision.                                                                  *)
Refuse ==
    /\ step = "receive" /\ queue # <<>>
    /\ \/ SeesNothing
       \/ SeesClosed /\ Head(queue).revision < known
    /\ queue' = Tail(queue)
    /\ step' = "top"
    /\ UNCHANGED <<source, calls, stop, requestVars, known, todo, barrier, views, answer>>

(* handle_enrich up to query_session: without a session one is started first.  *)
TakeRequest ==
    /\ step = "receive" /\ queue # <<>>
    /\ Head(queue).revision >= known
    /\ SeesClosed \/ SeesNothing
    /\ request' = {Head(queue)} /\ queue' = Tail(queue)
    /\ IF session'
         THEN step' = "sync" /\ known' = known
         ELSE step' = "start" /\ known' = Head(queue).revision
    /\ UNCHANGED <<source, calls, stop, retry, inputs, todo, barrier, views, answer>>

-----------------------------------------------------------------------------
(* synchronize_documents.                                                     *)

(* The delta between the known and the requested workspace; `build` says that    *)
(* build inputs differ as well.  The target exists in the request's workspace    *)
(* (Submit).                                                                  *)
BeginSync(build) ==
    /\ step = "sync"
    /\ build => known < Current.revision
    /\ LET delta == {d \in Documents : source[known][d] # Workspace[d]} IN
         /\ todo' = delta
         /\ barrier' = (barrier /\ delta = {} /\ ~build /\ Current.target \in opened)
    /\ inputs' = build
    /\ shared' = 0
    /\ step' = "documents"
    /\ UNCHANGED <<sourceVars, request, retry, known, serverVars, documentVars, views, answer>>

(* Deleted documents go first, then created, then changed ones.               *)
Rank(d) ==
    IF Workspace[d] = Absent THEN 1 ELSE IF source[known][d] = Absent THEN 2 ELSE 3

(* send_notification with a document's new state.  opened_versions changes       *)
(* before the write; a write that fails may still deliver its message.         *)
Send(d, content, ok) ==
    LET delivered == [overlay EXCEPT ![d] = content] IN
      /\ opened' = IF content = Closed THEN opened \ {d} ELSE opened \union {d}
      /\ overlay' \in IF ok THEN {delivered} ELSE {delivered, overlay}

(* One document of the delta: only the ones the server has open are sent.      *)
SyncDocument(d, ok) ==
    /\ step = "documents" /\ d \in todo
    /\ \A e \in todo : Rank(d) <= Rank(e)
    /\ IF d \in opened
         THEN Send(d, IF Workspace[d] = Absent THEN Closed ELSE Workspace[d], ok)
         ELSE ok /\ UNCHANGED <<opened, overlay>>
    /\ todo' = todo \ {d}
    /\ step' = IF ok THEN step ELSE "failed"
    /\ UNCHANGED <<sourceVars, requestVars, known, serverVars, torn, barrier, views, shared, answer>>

OpenTarget(ok) ==
    /\ step = "documents" /\ todo = {} /\ Current.target \notin opened
    /\ Send(Current.target, Workspace[Current.target], ok)
    /\ step' = IF ok THEN "notify" ELSE "failed"
    /\ UNCHANGED <<sourceVars, requestVars, known, serverVars, todo, torn, barrier, views, shared,
                   answer>>

(* didChangeWatchedFiles, then the new revision is the known one.              *)
FinishSync(ok) ==
    /\ \/ step = "notify"
       \/ step = "documents" /\ todo = {} /\ Current.target \in opened
    /\ known' = IF ok THEN Current.revision ELSE known
    /\ step' = IF ok THEN "query" ELSE "failed"
    /\ inputs' = FALSE
    /\ UNCHANGED <<sourceVars, request, retry, serverVars, documentVars, todo, barrier, views, shared,
                   answer>>

(* The operation is cancelled or past its deadline, or the hooks give up, and    *)
(* the worker looks: before the delta, before each of its documents and inputs   *)
(* (not after the last of them), or in the query.  The request ends and the      *)
(* session stays as it is.                                                    *)
Abandon ==
    /\ \/ step \in {"sync", "query"}
       \/ step = "documents" /\ (todo # {} \/ inputs)
    /\ Fallback
    /\ torn' = (torn \/ ~InStep(opened, overlay))
    /\ UNCHANGED <<sourceVars, known, serverVars, opened, overlay, barrier>>

-----------------------------------------------------------------------------
(* hooks.query through CoreChannel.                                           *)

(* CoreChannel::open_document, of a document the hooks synchronize; a hook may   *)
(* open others, which no delta updates.                                       *)
OpenDocument(d, ok) ==
    /\ step = "query" /\ views # {}
    /\ Workspace[d] # Absent /\ d \notin opened
    /\ Send(d, Workspace[d], ok)
    /\ barrier' = FALSE
    /\ step' = IF ok THEN step ELSE "failed"
    /\ UNCHANGED <<sourceVars, requestVars, known, serverVars, todo, torn, views, shared, answer>>

(* Client::request up to its wait.                                            *)
Ask(ok) ==
    /\ step = "query" /\ asked < MaxQuestions
    /\ asked' = asked + 1
    /\ LET sent == outstanding \union {[id |-> asked + 1, view |-> overlay]} IN
         outstanding' \in IF ok THEN {sent} ELSE {sent, outstanding}
    /\ step' = IF ok THEN "waiting" ELSE "failed"
    /\ UNCHANGED <<sourceVars, requestVars, known, session, alive, documentVars, todo, barrier, views,
                   shared, answer>>

(* Faulty: any response ends the wait.                                        *)
IsAnswer(response) == TRUE

(* wait_for_response: a response with another id is dropped.                  *)
IsAwaited(response) == response.id = asked

Receive(response) ==
    /\ step = "waiting" /\ response \in outstanding
    /\ outstanding' = outstanding \ {response}
    /\ IF IsAwaited(response)
         THEN step' = "query" /\ views' = views \union {response.view}
         ELSE UNCHANGED <<step, views>>
    /\ UNCHANGED <<sourceVars, requestVars, known, session, alive, asked, documentVars, todo, barrier,
                   shared, answer>>

(* Faulty: a wait without a deadline ends when the caller cancels it.         *)
WaitsForStop == stop

(* Every wait has a deadline.                                                 *)
WaitIsOver == TRUE

(* The deadline passes, the caller cancels, force_stop is set, or the server    *)
(* answers with an error: the session stays, its answer may come later.        *)
GiveUp ==
    /\ step = "waiting" /\ WaitIsOver
    /\ Fallback
    /\ UNCHANGED <<sourceVars, known, serverVars, documentVars, barrier>>

(* The reader reports the end of the process, to wait_for_response or wait_until. *)
ConnectionLost ==
    /\ step \in {"waiting", "query"} /\ ~alive
    /\ step' = "failed"
    /\ UNCHANGED <<sourceVars, requestVars, known, serverVars, documentVars, todo, barrier, views,
                   shared, answer>>

(* confirm_sync_barrier and the end of handle_enrich.  `ready`: the hooks found  *)
(* the symbol; otherwise the result is a fallback of this query only.          *)
FinishQuery(ready) ==
    /\ step = "query" /\ views # {}
    /\ EndRequest
    /\ barrier' = TRUE
    /\ shared' = known
    /\ answer' = IF ready
                   THEN {[revision |-> Current.revision, target |-> Current.target, views |-> views,
                           torn |-> torn]}
                   ELSE {}
    /\ UNCHANGED <<sourceVars, known, serverVars, documentVars>>

-----------------------------------------------------------------------------
Worker ==
    \/ StartSession \/ StartFails \/ RetryAfterFailure \/ FailTwice \/ RestartRequired
    \/ Poll \/ End \/ Idle \/ Refuse \/ TakeRequest
    \/ \E build \in BOOLEAN : BeginSync(build)
    \/ \E d \in Documents, ok \in BOOLEAN : SyncDocument(d, ok) \/ OpenDocument(d, ok)
    \/ \E ok \in BOOLEAN : OpenTarget(ok) \/ FinishSync(ok) \/ Ask(ok)
    \/ Abandon \/ GiveUp \/ ConnectionLost
    \/ \E ready \in BOOLEAN : FinishQuery(ready)

Next ==
    \/ Worker
    \/ \E w \in Workspaces : Publish(w)
    \/ \E revision \in DOMAIN source, target \in Documents : Submit(revision, target)
    \/ \E response \in outstanding : Receive(response)
    \/ RequestStop
    \/ ServerDies

(* The owner thread keeps running and every wait of it ends at a deadline; the   *)
(* server need not answer.                                                    *)
Fairness == WF_vars(Worker)

Spec == Init /\ [][Next]_vars /\ Fairness

-----------------------------------------------------------------------------
(* A Ready result was computed from its own revision: when every question of    *)
(* the request was asked, the server had the request's document open and every  *)
(* open document had the contents of that revision.  A session that an           *)
(* abandoned synchronization or a second failure left out of step is exempt.   *)
AnswersMatchRevision ==
    \A a \in answer : ~a.torn =>
        \A view \in a.views :
            /\ view[a.target] # Closed
            /\ \A d \in Documents : view[d] \in {Closed, source[a.revision][d]}

(* The same of every answer about the revision that is still the newest, with no *)
(* exemption: what the comment on the barrier says.                            *)
BarrierIsTheCurrentGeneration ==
    \A a \in answer : a.revision = Len(source) =>
        \A view \in a.views, d \in Documents : view[d] \in {Closed, source[a.revision][d]}

(* Between synchronizations opened_versions and known_workspace describe what    *)
(* the server really has open, across restarts, deaths and retries; and state_for *)
(* says Ready only for that revision.  The same sessions are exempt.            *)
SessionInStep ==
    /\ session /\ ~torn /\ step \notin {"documents", "notify", "failed"} => InStep(opened, overlay)
    /\ shared # 0 => session /\ barrier /\ shared = known

(* Every request the worker takes is answered, and shutdown's join returns,      *)
(* whatever the server does.                                                  *)
WorkerReturns ==
    /\ (request # {}) ~> (request = {})
    /\ stop ~> (step = "ended")

=============================================================================
