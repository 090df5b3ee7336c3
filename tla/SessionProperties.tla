------------------------- MODULE SessionProperties -------------------------
(***************************************************************************)
(* What makes a Session correct, for any application and any peer.         *)
(***************************************************************************)
EXTENDS Session

\* The error new requests get, if the session refuses them
SessionDead ==
  OutgoingRequestError(is_shutdown, write_state, read_state) # NoResult
-----------------------------------------------------------------------------
(* Outgoing requests                                                       *)

Resolving(c) == dispatcher.pc = "resolve" /\ dispatcher.caller = c

\* No request is left waiting on a session that is over: whoever ended it
\* resolved every request of the table, except one on_response has taken out
\* and is about to resolve itself. (apply_error, on_response and
\* OutgoingRequestGuard::new against each other, lib.rs:521, 749, 982.)
NoStrandedCaller ==
  \A c \in Callers :
    SessionDead /\ InFlight(c) /\ slot[c].st \in Unresolved => Resolving(c)

EntriesAreCalls ==
  \A id \in OutgoingIds :
    LET c == outgoing_requests[id]
    IN  c # NoCaller => InFlight(c) /\ callers[c].id = id

PendingAreFiled ==
  \A c \in Callers :
    InFlight(c) /\ slot[c].st \in Unresolved
      => Resolving(c) \/ outgoing_requests[callers[c].id] = c

\* The table and the guards agree: an entry belongs to a call in flight, under
\* the id of its guard, and a call that has no result yet has an entry or is
\* being resolved: nothing else could ever wake it. (lib.rs:525, 682, 1010)
PendingIsReachable == EntriesAreCalls /\ PendingAreFiled

\* A call that sleeps has left its waker in its slot, so that the result that
\* comes from the read task or from apply_error wakes it. (lib.rs:352-385)
NoLostWakeup ==
  \A c \in Callers : callers[c].pc = "parked" => slot[c].st = "Waker"

Abandoned(c) ==
  \/ callers[c].pc = "withdrawn"
  \/ callers[c].pc = "returned" /\ callers[c].result = ToSessionError("Serialize")

\* Cancellations are queued for exactly the calls that ended without having
\* seen their response, once for each. (OutgoingRequestGuard::drop, lib.rs:1004)
CancelledExactlyOnce ==
  /\ {outgoing_cancellations[i] : i \in DOMAIN outgoing_cancellations}
       = {callers[c].id : c \in {d \in Callers : Abandoned(d)}}
  /\ \A i, j \in DOMAIN outgoing_cancellations :
       outgoing_cancellations[i] = outgoing_cancellations[j] => i = j

\* No two requests share an id, so that a response finds its own caller, up
\* to the last id there is. (insert_outgoing_request, lib.rs:670-683)
OneCallPerId ==
  \A c, d \in Callers :
    c # d /\ callers[c].id = callers[d].id => callers[c].id = IdMax

\* The peer hears of the cancellation of a request only after the request,
\* although two tasks and two queues bring them there. Only a request that
\* could not be serialized is cancelled without ever being sent.
\* (RawSession::request and run_cancel_task_raw, lib.rs:801, 868)
CancelFollowsRequest ==
  \A p \in DOMAIN outbox :
    outbox[p].type = "Cancel" =>
      \/ \E q \in 1..(p - 1) : outbox[q] = Request(outbox[p].id)
      \/ \E c \in Callers : /\ callers[c].id = outbox[p].id
                            /\ callers[c].result = ToSessionError("Serialize")

\* A call whose response has been read, or whose session is over, returns: no
\* wakeup is lost and no call is overlooked. (lib.rs:352, 521, 749)
EveryCallReturns ==
  \A c \in Callers :
    InFlight(c) /\ (SessionDead \/ Resolving(c)) ~> ~InFlight(c)

\* An abandoned request reaches the hook unless the session is shut down.
\* (outgoing_cancellations and run_cancel_task, lib.rs:757-773, 868)
AbandonedIsReported ==
  \A c \in Callers :
    callers[c].pc = "withdrawn" ~>
      is_shutdown \/ \E i \in 1..called : outgoing_cancellations[i] = callers[c].id
-----------------------------------------------------------------------------
(* Incoming requests                                                       *)

IsResponse(m) == m.type = "Response"

\* No request gets two responses, whoever may give one: its handler, its
\* task, cancel_incoming_request. (is_response_sent, lib.rs:284, 300, 314)
AnsweredOnce ==
  \A p, q \in DOMAIN outbox :
    /\ IsResponse(outbox[p]) /\ IsResponse(outbox[q])
    /\ outbox[p].for = outbox[q].for
    => p = q

Answered(n) == \E p \in DOMAIN outbox : IsResponse(outbox[p]) /\ outbox[p].for = n
Pending(n) ==
  \E id \in RequestIds : /\ incoming_requests[id].req = n
                          /\ ~incoming_requests[id].sent

\* No request is forgotten, and none is answered after the application or the
\* shutdown took it back: at any time a request is answered, or pending in
\* the table, or was cancelled. (lib.rs:261-322, 643, 816)
RequestsAccounted ==
  \A n \in DOMAIN requests :
    LET fate == requests[n].fate
    IN  /\ fate = "open" => (Answered(n) <=> ~Pending(n))
        /\ fate = "reused" => Answered(n)
        /\ fate = "shutdown" => ~Answered(n)
        /\ fate # "open" => ~Pending(n)

TakenBack(n) == requests[n].fate \in {"cancelled", "shutdown"}

\* The session gave up its hold of the task of request n: by a cancellation,
\* by a shutdown, or because the handler failed after handle_async.
LostHold(n) == TakenBack(n) \/ requests[n].disowned

\* A response is what the handler of its own request computed, unless the
\* session lost its hold of a request with the same id before: when its task
\* still runs, that task answers, and removes, whatever has the id now, whose
\* own task may do the same to the next one. (lib.rs:130-140)
StaleAnswerNeedsLostHold ==
  \A p \in DOMAIN outbox :
    LET m == outbox[p]
    IN  IsResponse(m) /\ m.for # m.by =>
          /\ m.by < m.for /\ requests[m.by].id = requests[m.for].id
          /\ \E k \in 1..m.by :
               LostHold(k) /\ requests[k].id = requests[m.by].id

\* assert!(!self.is_init_finished) holds, lib.rs:270: the entry that on_request
\* finds after the handler returned is the one it made.
InitFinishAsserts ==
  dispatcher.pc \in {"replied", "spawned"} =>
    LET e == incoming_requests[requests[dispatcher.req].id]
    IN  e # NoEntry => e.req = dispatcher.req /\ ~e.init

TaskRuns(n) ==
  /\ handlers[n] \in {"running", "returned"}
  /\ ~(dispatcher.pc = "spawned" /\ dispatcher.req = n)

\* A task the session has spawned can be aborted, or was, once on_request is
\* through with it; so shutdown leaves none behind. A task gets away only if
\* its request was cancelled, or its handler failed after handle_async, or the
\* session lost its hold of an earlier request with its id.
\* (init_finish, set_task and shutdown, lib.rs:261, 574, 628)
TasksAreTracked ==
  \A n \in HandlerIds : TaskRuns(n) =>
    \/ HandlerTask(n) \in aborted
    \/ \E id \in RequestIds : /\ incoming_requests[id].req = n
                             /\ incoming_requests[id].task
    \/ requests[n].fate = "cancelled" \/ requests[n].disowned
    \/ \E k \in 1..(n - 1) : LostHold(k) /\ requests[k].id = requests[n].id

\* A cancelled request's task is aborted. tests/session.rs:529 expects it
\* ("long_wait_drop"), and TaskHandle::set_task aborts a task that comes after
\* the abort, lib.rs:574; but cancel_incoming_request drops that handle.
CancelReachesTask ==
  \A n \in HandlerIds :
    TaskRuns(n) /\ requests[n].fate = "cancelled" => HandlerTask(n) \in aborted

\* Every request the peer sends gets its answer, on the wire, unless it is
\* taken back or the writer is over first.
EveryRequestSettled ==
  \A n \in HandlerIds :
    n \in DOMAIN requests ~>
      \/ \E p \in 1..written : IsResponse(outbox[p]) /\ outbox[p].for = n
      \/ n \in DOMAIN requests /\ TakenBack(n)
      \/ writer = "done"
-----------------------------------------------------------------------------
(* The tasks, shutdown and wait                                            *)

\* A reader that ends with an error tells the peer: when the writer ends
\* without failing, the error message is among what it wrote.
\* (finish_read_state, lib.rs:735-744)
ReadErrorIsWritten ==
  /\ ~is_shutdown
  /\ read_state \in ReadCauses
  /\ writer = "ended" \/ write_state = "End"
  => \E p \in 1..written : outbox[p] = ErrorWithoutId

HeldByWait(t) == \E w \in Waiters : t \in waiters[w].task

\* A task being aborted is not lost from sight: as long as it runs it is in
\* the list of aborts or some wait has popped it. (lib.rs:945, 1015)
AbortedIsTracked ==
  \A t \in aborted : Finished(t) \/ t \in aborts \/ HeldByWait(t)

\* When wait stops waiting, every aborted task has ended, other than one that
\* another call of wait has popped. (lib.rs:948)
WaitJoinsAborted ==
  [][\A w \in Waiters :
       waiters[w].pc = "popping" /\ waiters'[w].pc = "report" =>
         \A t \in aborted : \/ Finished(t)
                            \/ \E v \in Waiters \ {w} : t \in waiters[v].task]_vars

\* examples/session_error.rs:40 unwraps the error object of what wait returns
\* after the peer reported an error.
WaitGivesErrorObject ==
  \A w \in Waiters :
    waiters[w].result.cause = "PeerError" => HasErrorObject(waiters[w].result)

\* wait returns once both tasks are over, whether they ended or were aborted,
\* or its caller drops it. (poll_wait_server and the join loop)
WaitReturns ==
  \A w \in Waiters :
    Waiting(w) /\ read_state # "Running" /\ write_state # "Running"
      ~> ~Waiting(w)

\* What is queued reaches the transport, or the writer is over.
QueuedIsWritten ==
  \A n \in 1..(MaxNotifications + MaxRequests + 1) :
    Len(outbox) >= n ~> written >= n \/ writer = "done"

\* The writer ends after the reader, so that wait returns.
WriterFollowsReader == read_state # "Running" ~> write_state # "Running"

\* A session that was dropped is freed: no task, call or handler keeps it.
DroppedIsFreed == ~session_open ~> ~Alive
=============================================================================
