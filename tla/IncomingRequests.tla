-------------------------- MODULE IncomingRequests --------------------------
(***************************************************************************)
(* The serving side of a session: the table of incoming requests, the      *)
(* handler MessageDispatcher::on_request calls for each, the tasks spawned *)
(* by RequestContext::handle_async, and cancel_incoming_request.           *)
(*                                                                         *)
(* Requests are numbered in the order they are read. incoming_requests[id] *)
(* is the entry of one of them, NoEntry when the table has none; the       *)
(* number in an entry and the fates in `requests` are history: the code    *)
(* has only the id, which a peer may use again once it has its answer.     *)
(* A handler's Response is taken to be of its own context: one kept back   *)
(* for another request, or taken from a notification, is not modelled.     *)
(***************************************************************************)
EXTENDS SessionTasks

VARIABLES
  incoming_requests,
  requests           \* id and fate of every request read, and if disowned

incomingVars == <<incoming_requests, requests>>

\* IncomingRequestState: is_init_finished, task.is_abort, task.task.is_some()
\* and is_response_sent. Its is_task_finished is set only as the entry goes.
Entries == [req: HandlerIds, init: BOOLEAN, abort: BOOLEAN, task: BOOLEAN,
            sent: BOOLEAN]
NewEntry(n) == [req |-> n, init |-> FALSE, abort |-> FALSE, task |-> FALSE,
                sent |-> FALSE]
NoEntry == [req |-> 0]

Filed(id) == incoming_requests[id] # NoEntry

\* What became of a request besides its handler: "reused" was refused for its
\* id, "cancelled" and "shutdown" were cancelled by those operations.
Fates == {"open", "reused", "cancelled", "shutdown"}

\* A request is disowned when its handler spawned a task and then failed: the
\* JoinHandle goes with the Response, which detaches the task.
RequestRecords == [id: RequestIds, fate: Fates, disowned: BOOLEAN]
NewRequest(id, fate) == [id |-> id, fate |-> fate, disowned |-> FALSE]

\* Mutant: the entry stays in the table.
RemoveNothing(id) == UNCHANGED incoming_requests

Remove(id) == incoming_requests' = [incoming_requests EXCEPT ![id] = NoEntry]

\* One response of entry e, unless is_response_sent
Answer(id, e, by) ==
  IF e.sent THEN UNCHANGED outbox ELSE Push(Response(id, e.req, by))
-----------------------------------------------------------------------------
(* MessageDispatcher::on_request                                           *)

requestFrame == <<read_state, write_state, cancel_state, is_shutdown,
                  session_open, taken, written, writer, canceller, waiters>>

\* Mutant: an entry under the same id is overwritten, not refused.
OnRequestOverwrites ==
  LET m == Head(dispatcher.batch)
      n == Len(requests) + 1
  IN  /\ dispatcher.pc = "batch"
      /\ m.type = "Request"
      /\ incoming_requests' = [incoming_requests EXCEPT ![m.id] = NewEntry(n)]
      /\ requests' = Append(requests, NewRequest(m.id, "open"))
      /\ dispatcher' = [dispatcher EXCEPT !.pc = "handler", !.req = n,
                                          !.batch = Tail(dispatcher.batch)]
      /\ UNCHANGED <<requestFrame, outbox, handlers, aborted, aborts>>

\* Mutant: an entry under the same id is used for the new request.
OnRequestShares ==
  LET m == Head(dispatcher.batch)
      n == Len(requests) + 1
  IN  /\ dispatcher.pc = "batch"
      /\ m.type = "Request"
      /\ IF Filed(m.id) THEN UNCHANGED incoming_requests
         ELSE incoming_requests' = [incoming_requests EXCEPT ![m.id] = NewEntry(n)]
      /\ requests' = Append(requests, NewRequest(m.id, "open"))
      /\ dispatcher' = [dispatcher EXCEPT !.pc = "handler", !.req = n,
                                          !.batch = Tail(dispatcher.batch)]
      /\ UNCHANGED <<requestFrame, outbox, handlers, aborted, aborts>>

\* SessionState::insert_incoming_request
OnRequest ==
  LET m == Head(dispatcher.batch)
      rest == Tail(dispatcher.batch)
      n == Len(requests) + 1
  IN  /\ dispatcher.pc = "batch"
      /\ m.type = "Request"
      /\ \/ /\ Filed(m.id)
            /\ Push(Response(m.id, n, n))
            /\ requests' = Append(requests, NewRequest(m.id, "reused"))
            /\ dispatcher' = [dispatcher EXCEPT !.pc = NextPc(rest), !.batch = rest]
            /\ UNCHANGED incoming_requests
         \/ /\ ~Filed(m.id)
            /\ incoming_requests' = [incoming_requests EXCEPT ![m.id] = NewEntry(n)]
            /\ requests' = Append(requests, NewRequest(m.id, "open"))
            /\ dispatcher' = [dispatcher EXCEPT !.pc = "handler", !.batch = rest,
                                                !.req = n]
            /\ UNCHANGED outbox
      /\ UNCHANGED <<requestFrame, handlers, aborted, aborts>>

\* Handler::request returns a result or an error, and has spawned nothing.
HandlerReplies ==
  /\ dispatcher.pc = "handler"
  /\ dispatcher' = [dispatcher EXCEPT !.pc = "replied"]
  /\ UNCHANGED <<requestFrame, outbox, handlers, aborted, aborts, incomingVars>>

\* Handler::request calls handle_async, which takes its context: the task runs
\* from here on, and the handler goes on to return the Response to InitFinish.
HandlerSpawns ==
  /\ dispatcher.pc = "handler"
  /\ dispatcher' = [dispatcher EXCEPT !.pc = "spawned"]
  /\ handlers' = [handlers EXCEPT ![dispatcher.req] = "running"]
  /\ UNCHANGED <<requestFrame, outbox, aborted, aborts, incomingVars>>

Disown == requests' = [requests EXCEPT ![dispatcher.req].disowned = TRUE]

\* Handler::request returns an error after handle_async, without its Response.
HandlerDisowns ==
  /\ dispatcher.pc = "spawned"
  /\ dispatcher' = [dispatcher EXCEPT !.pc = "replied"]
  /\ Disown
  /\ UNCHANGED <<requestFrame, outbox, handlers, aborted, aborts,
                 incoming_requests>>

\* A panic of Handler::request, before or after handle_async, or of
\* Handler::notification ends the read task: nothing after it runs,
\* finish_read_state neither.
HandlerPanics ==
  /\ Panics
  /\ \/ dispatcher.pc = "handler" /\ UNCHANGED requests
     \/ dispatcher.pc = "spawned" /\ Disown
     \/ /\ dispatcher.pc = "batch"
        /\ Head(dispatcher.batch).type = "Notification"
        /\ UNCHANGED requests
  /\ dispatcher' = [dispatcher EXCEPT !.pc = "done"]
  /\ UNCHANGED <<requestFrame, outbox, handlers, aborted, aborts,
                 incoming_requests>>

\* IncomingRequestState::init_finish with TaskHandle::set_task, and the
\* removal that follows. When the entry has gone meanwhile the result is
\* dropped, which detaches a task: nobody can abort it any more.
InitFinish ==
  LET n == dispatcher.req
      id == requests[n].id
      e == incoming_requests[id]
  IN  /\ dispatcher.pc \in {"replied", "spawned"}
      /\ dispatcher' = [dispatcher EXCEPT !.pc = NextPc(dispatcher.batch),
                                          !.req = 0]
      /\ \/ /\ ~Filed(id)
            /\ UNCHANGED <<outbox, aborted, aborts, incoming_requests>>
         \/ /\ Filed(id) /\ dispatcher.pc = "replied"
            /\ Answer(id, e, n)
            /\ Remove(id)
            /\ UNCHANGED <<aborted, aborts>>
         \/ /\ Filed(id) /\ dispatcher.pc = "spawned"
            /\ IF e.abort THEN PushAborts({HandlerTask(n)})
                          ELSE UNCHANGED <<aborted, aborts>>
            /\ IF e.sent THEN Remove(id)
               ELSE incoming_requests' =
                      [incoming_requests EXCEPT ![id].init = TRUE,
                                                ![id].task = ~e.abort]
            /\ UNCHANGED outbox
      /\ UNCHANGED <<requestFrame, handlers, requests>>
-----------------------------------------------------------------------------
(* The task of RequestContext::handle_async                                *)

taskFrame == <<requestFrame, dispatcher, aborted, aborts, requests>>

\* The application's future is ready.
TaskReturns(n) ==
  /\ handlers[n] = "running"
  /\ handlers' = [handlers EXCEPT ![n] = "returned"]
  /\ UNCHANGED <<taskFrame, outbox, incoming_requests>>

\* Mutant: a task that ends before init_finish finds nothing to finish.
TaskFinishNeedsInit(n) ==
  LET id == requests[n].id
      e == incoming_requests[id]
  IN  /\ handlers[n] = "returned"
      /\ handlers' = [handlers EXCEPT ![n] = "done"]
      /\ IF Filed(id) /\ e.init THEN Answer(id, e, n) /\ Remove(id)
         ELSE UNCHANGED <<outbox, incoming_requests>>
      /\ UNCHANGED taskFrame

\* task_finish on the entry found under the id, whichever request that is.
TaskFinish(n) ==
  LET id == requests[n].id
      e == incoming_requests[id]
  IN  /\ handlers[n] = "returned"
      /\ handlers' = [handlers EXCEPT ![n] = "done"]
      /\ \/ Filed(id) /\ Answer(id, e, n) /\ Remove(id)
         \/ ~Filed(id) /\ UNCHANGED <<outbox, incoming_requests>>
      /\ UNCHANGED taskFrame

\* The RawSession is gone, and its table with it.
TaskOutlivesSession(n) ==
  /\ handlers[n] = "returned"
  /\ handlers' = [handlers EXCEPT ![n] = "done"]
  /\ UNCHANGED <<taskFrame, outbox, incoming_requests>>

\* The application's future panics: the entry stays, and is never answered.
TaskPanics(n) ==
  /\ Panics
  /\ handlers[n] = "running"
  /\ handlers' = [handlers EXCEPT ![n] = "done"]
  /\ UNCHANGED <<taskFrame, outbox, incoming_requests>>
-----------------------------------------------------------------------------
\* Mutant: entries do not give their tasks up to be aborted.
HeldTasksNone(ids) == {}

\* The tasks whose handles the entries of ids hold
HeldTasks(ids) ==
  {HandlerTask(incoming_requests[id].req) :
     id \in {i \in ids : Filed(i) /\ incoming_requests[i].task}}

\* RawSession::cancel_incoming_request, with or without an error to respond
CancelIncoming(id) ==
  LET e == incoming_requests[id]
  IN  /\ Filed(id)
      /\ PushAborts(HeldTasks({id}))
      /\ \/ UNCHANGED outbox
         \/ ~e.sent /\ Push(Response(id, e.req, e.req))
      /\ Remove(id)
      /\ requests' = [requests EXCEPT ![e.req].fate = "cancelled"]
      /\ UNCHANGED <<requestFrame, dispatcher, handlers>>

\* Mutant: is_response_sent is not set.
CancelAllUnsent ==
  /\ incoming_requests' =
       [id \in RequestIds |->
          IF Filed(id)
          THEN [incoming_requests[id] EXCEPT !.abort = TRUE, !.task = FALSE]
          ELSE NoEntry]
  /\ requests' =
       [n \in DOMAIN requests |->
          IF \E id \in RequestIds : incoming_requests[id].req = n
          THEN [requests[n] EXCEPT !.fate = "shutdown"] ELSE requests[n]]

\* IncomingRequestState::cancel on every entry, as SessionState::shutdown
\* does: no response is queued and the entries stay.
CancelAll ==
  /\ incoming_requests' =
       [id \in RequestIds |->
          IF Filed(id)
          THEN [incoming_requests[id] EXCEPT !.abort = TRUE, !.task = FALSE,
                                             !.sent = TRUE]
          ELSE NoEntry]
  /\ requests' =
       [n \in DOMAIN requests |->
          IF \E id \in RequestIds : /\ incoming_requests[id].req = n
                                    /\ ~incoming_requests[id].sent
          THEN [requests[n] EXCEPT !.fate = "shutdown"] ELSE requests[n]]
-----------------------------------------------------------------------------
IncomingInit ==
  /\ incoming_requests = [id \in RequestIds |-> NoEntry]
  /\ requests = <<>>

IncomingTypeOK ==
  /\ incoming_requests \in [RequestIds -> Entries \union {NoEntry}]
  /\ requests \in Seq(RequestRecords)
  /\ Len(requests) <= MaxRequests
=============================================================================
