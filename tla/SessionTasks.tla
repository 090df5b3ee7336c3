---------------------------- MODULE SessionTasks ----------------------------
(***************************************************************************)
(* The part of a jsoncall Session that every other part leans on: the      *)
(* states of its read, write and cancel tasks, the queue of outgoing       *)
(* messages with the task that writes it, the list of tasks being aborted  *)
(* and Session::wait.                                                      *)
(*                                                                         *)
(* All of SessionState sits behind one lock (sigwake's StateContainer), so *)
(* a closure given to `update` or one poll of `poll_fn` is one step here.  *)
(* What a task does between two such closures is a step of its own.        *)
(*                                                                         *)
(* A JoinHandle::abort is a request: a task that is being polled keeps     *)
(* running until it next returns Pending, so an aborted task may still     *)
(* take its ordinary steps until Reap drops it at one of its awaits.       *)
(***************************************************************************)
EXTENDS Naturals, Sequences, FiniteSets

CONSTANTS
  Callers,       \* the calls of Session::request that may be made
  NoCaller,      \* not a caller
  Waiters,       \* the calls of Session::wait that may be made
  RequestIds,    \* ids a peer may put on its requests
  IdMax,         \* u128::MAX, never given to a request
  MaxRequests,   \* bound: requests read from the peer
  MaxNotifications, \* bound: notifications sent by the application
  Lines,         \* lines the peer may send: sequences of messages
  Panics         \* do panics unwind (release) instead of aborting (dev)?

ASSUME CallersAssumption == NoCaller \notin Callers
ASSUME BoundsAssumption ==
  IdMax \in Nat /\ MaxRequests \in Nat /\ MaxNotifications \in Nat
ASSUME PanicsAssumption == Panics \in BOOLEAN

VARIABLES
  read_state, write_state, cancel_state, \* TaskState of each session task
  is_shutdown,
  session_open,  \* the application still owns the Session value
  outbox,        \* every message ever pushed on outgoing_messages
  taken,         \* how many of them the writer's QueueReader has fetched
  written,       \* how many of them are on the wire
  writer,        \* where run_write_task stands
  dispatcher,    \* where MessageDispatcher::run stands
  canceller,     \* where run_cancel_task stands
  handlers,      \* the task spawned by handle_async for the n-th request
  aborted,       \* tasks whose JoinHandle was aborted
  aborts,        \* AbortingHandles: aborted tasks nobody has joined yet
  waiters        \* the calls of Session::wait

taskVars == <<read_state, write_state, cancel_state, is_shutdown,
              session_open, outbox, taken, written, writer, dispatcher,
              canceller, handlers, aborted, aborts, waiters>>
-----------------------------------------------------------------------------
(* Errors, results and task states.                                        *)

ReadCauses == {"ReadError", "ParseError", "InvalidRequest", "PeerError"}
ErrorCauses == ReadCauses \union {"WriteError"}
TaskStates == {"Running", "End"} \union ErrorCauses

Result(raw, cause) == [raw |-> raw, cause |-> cause]
Ok == Result("Ok", "none")
NoResult == Result("none", "none")
ShutdownError == Result("Shutdown", "none")
ToSessionError(cause) == Result("Error", cause)
Results == [raw: {"none", "Ok", "Shutdown", "ErrorObject", "Error", "Message"},
            cause: ErrorCauses \union {"none", "Deserialize", "Serialize"}]

\* SessionError::error_object().is_some()
HasErrorObject(r) == r.raw = "ErrorObject"

\* TaskState::finish. r is Ok or an error; an error replaces everything, a
\* success only ends a task that was running.
Finish(state, r) ==
  IF r # Ok THEN r.cause ELSE IF state = "Running" THEN "End" ELSE state

\* Mutant: a session whose input has ended well still takes requests.
OutgoingRequestErrorOnly(shutdown, write, read) ==
  CASE shutdown             -> ShutdownError
    [] ~shutdown /\ write \in ErrorCauses -> ToSessionError(write)
    [] ~shutdown /\ write \notin ErrorCauses /\ read \in ErrorCauses
                            -> ToSessionError(read)
    [] OTHER                -> NoResult

\* SessionState::outgoing_request_error, NoResult for None.
OutgoingRequestError(shutdown, write, read) ==
  CASE shutdown             -> ShutdownError
    [] ~shutdown /\ write \in ErrorCauses -> ToSessionError(write)
    [] ~shutdown /\ write \notin ErrorCauses /\ read \in ErrorCauses
                            -> ToSessionError(read)
    [] ~shutdown /\ write \notin ErrorCauses /\ read = "End" -> ShutdownError
    [] OTHER                -> NoResult

\* Mutant: wait reports what new requests would get.
ServerErrorOfRequests ==
  LET e == OutgoingRequestError(is_shutdown, write_state, read_state)
  IN  IF e = NoResult THEN Ok ELSE e

\* SessionState::server_error
ServerError ==
  CASE write_state \in ErrorCauses -> ToSessionError(write_state)
    [] write_state \notin ErrorCauses /\ read_state \in ErrorCauses
                                   -> ToSessionError(read_state)
    [] OTHER                       -> Ok
-----------------------------------------------------------------------------
(* Messages. "Request", "Success" and "Error" carry the RequestId of the   *)
(* JSON message; what a response holds is kept as far as a caller can tell *)
(* it apart. A response of ours also records, for the properties only, the *)
(* request it answers and the request whose handler computed it.           *)

OutgoingIds == 0..(IdMax - 1)
HandlerIds == 1..MaxRequests

Request(id) == [type |-> "Request", id |-> id]
Cancel(id) == [type |-> "Cancel", id |-> id]
Response(id, for, by) ==
  [type |-> "Response", id |-> id, for |-> for, by |-> by]
Notification == [type |-> "Notification"]
ErrorWithoutId == [type |-> "ErrorWithoutId"]

OutgoingMessages ==
  [type: {"Request", "Cancel"}, id: OutgoingIds]
  \union [type: {"Response"}, id: RequestIds, for: HandlerIds, by: HandlerIds]
  \union {Notification, ErrorWithoutId}

IncomingMessages ==
  [type: {"Request"}, id: RequestIds]
  \union [type: {"Success"}, id: Nat, result: {"value", "mistyped"}]
  \union [type: {"Error"}, id: Nat]
  \union {Notification, ErrorWithoutId, [type |-> "Invalid"]}

ASSUME LinesAssumption == Lines \subseteq Seq(IncomingMessages) \ {<<>>}

\* Where run_raw goes after a message: on to the next line, or through the
\* rest of a batch
NextPc(rest) == IF rest = <<>> THEN "await" ELSE "batch"

\* Queue::push on outgoing_messages
Push(m) == outbox' = Append(outbox, m)
-----------------------------------------------------------------------------
(* Tasks, their handles and AbortingHandles.                               *)

ReadTask == <<"read", 0>>
WriteTask == <<"write", 0>>
CancelTask == <<"cancel", 0>>
SessionTaskSet == {ReadTask, WriteTask, CancelTask}
HandlerTask(n) == <<"handler", n>>
Tasks == SessionTaskSet \union {HandlerTask(n) : n \in HandlerIds}

\* JoinHandle::is_finished
Finished(t) ==
  CASE t = ReadTask   -> dispatcher.pc = "done"
    [] t = WriteTask  -> writer = "done"
    [] t = CancelTask -> canceller = "done"
    [] OTHER          -> handlers[t[2]] = "done"

\* Mutant: the tasks are aborted but their handles are not kept.
PushAbortsForgets(ts) ==
  /\ aborted' = aborted \union {t \in ts : ~Finished(t)}
  /\ UNCHANGED aborts

\* AbortingHandles::push for each task of ts. Whether finished tasks already
\* in the list are dropped depends on its capacity and shows nowhere.
PushAborts(ts) ==
  LET running == {t \in ts : ~Finished(t)}
  IN  /\ aborted' = aborted \union running
      /\ aborts' = aborts \union running

\* tokio drops the future of an aborted task once it is not being polled.
\* The sections after the last await of a task run to their end.
Reap(t) ==
  /\ t \in aborted
  /\ \/ /\ t = ReadTask
        /\ dispatcher.pc = "await"
        /\ dispatcher' = [dispatcher EXCEPT !.pc = "done"]
        /\ UNCHANGED <<writer, canceller, handlers>>
     \/ /\ t = WriteTask
        /\ writer \in {"fetch", "write", "flush"}
        /\ writer' = "done"
        /\ UNCHANGED <<dispatcher, canceller, handlers>>
     \/ /\ t = CancelTask
        /\ canceller = "fetch"
        /\ canceller' = "done"
        /\ UNCHANGED <<dispatcher, writer, handlers>>
     \/ \E n \in HandlerIds :
          /\ t = HandlerTask(n)
          /\ handlers[n] = "running"
          /\ handlers' = [handlers EXCEPT ![n] = "done"]
          /\ UNCHANGED <<dispatcher, writer, canceller>>
  /\ UNCHANGED <<read_state, write_state, cancel_state, is_shutdown,
                 session_open, outbox, taken, written, aborted, aborts,
                 waiters>>
-----------------------------------------------------------------------------
(* run_write_task_raw. outgoing_messages is outbox after `taken`, and what *)
(* the QueueReader still holds is outbox between `written` and `taken`.    *)

writerVars == <<outbox, taken, written, writer>>
writerFrame == <<read_state, write_state, cancel_state, is_shutdown,
                 session_open, dispatcher, canceller, handlers, aborted,
                 aborts, waiters>>

\* Mutant: an empty queue ends the writer while the reader runs.
FetchMessagesEndsWhenEmpty ==
  /\ writer = "fetch"
  /\ taken' = Len(outbox)
  /\ writer' = IF taken < Len(outbox) THEN "write" ELSE "ended"
  /\ UNCHANGED <<outbox, written, writerFrame>>

\* Mutant: read_state is looked at before the queue.
FetchMessagesEndsFirst ==
  /\ writer = "fetch"
  /\ \/ /\ read_state = "Running" /\ taken < Len(outbox)
        /\ taken' = Len(outbox) /\ writer' = "write"
     \/ /\ read_state # "Running"
        /\ writer' = "ended" /\ UNCHANGED taken
  /\ UNCHANGED <<outbox, written, writerFrame>>

\* Mutant: the end of the reader does not end the writer.
FetchMessagesForever ==
  /\ writer = "fetch"
  /\ taken < Len(outbox)
  /\ taken' = Len(outbox) /\ writer' = "write"
  /\ UNCHANGED <<outbox, written, writerFrame>>

\* Mutant: a push does not wake the writer, only the end of the reader does.
FetchMessagesUnwoken ==
  /\ writer = "fetch" /\ read_state # "Running"
  /\ taken' = Len(outbox)
  /\ writer' = IF taken < Len(outbox) THEN "write" ELSE "ended"
  /\ UNCHANGED <<outbox, written, writerFrame>>

\* SessionState::fetch_outgoing_messages, when its poll is Ready
FetchMessages ==
  /\ writer = "fetch"
  /\ \/ /\ taken < Len(outbox)
        /\ taken' = Len(outbox)
        /\ writer' = "write"
     \/ /\ taken = Len(outbox)
        /\ read_state # "Running"
        /\ writer' = "ended"
        /\ UNCHANGED taken
  /\ UNCHANGED <<outbox, written, writerFrame>>

\* Mutant: off by one at the end of what was fetched.
WriteMessageOneMore ==
  /\ writer = "write"
  /\ written' = written + 1
  /\ writer' = IF written' > taken THEN "flush" ELSE "write"
  /\ UNCHANGED <<outbox, taken, writerFrame>>

\* Mutant: one message is written for every fetch.
WriteMessageOnlyOne ==
  /\ writer = "write"
  /\ written' = written + 1
  /\ writer' = "flush"
  /\ UNCHANGED <<outbox, taken, writerFrame>>

\* write_all of one message; the flush follows the last one fetched
WriteMessage ==
  /\ writer = "write"
  /\ written' = written + 1
  /\ writer' = IF written' = taken THEN "flush" ELSE "write"
  /\ UNCHANGED <<outbox, taken, writerFrame>>

Flush ==
  /\ writer = "flush"
  /\ writer' = "fetch"
  /\ UNCHANGED <<outbox, taken, written, writerFrame>>

\* write_all or flush returns an io::Error
WriteFails ==
  /\ writer \in {"write", "flush"}
  /\ writer' = "failed"
  /\ UNCHANGED <<outbox, taken, written, writerFrame>>
-----------------------------------------------------------------------------
(* Session::wait                                                           *)

waitFrame == <<read_state, write_state, cancel_state, is_shutdown,
               session_open, writerVars, dispatcher, canceller, handlers,
               aborted>>

Waiting(w) == waiters[w].pc \in {"polling", "popping", "joining", "report"}

WaitStart(w) ==
  /\ session_open
  /\ waiters[w].pc = "idle"
  /\ waiters' = [waiters EXCEPT ![w].pc = "polling"]
  /\ UNCHANGED <<aborts, waitFrame>>

\* Mutant: wait waits for the cancel task too.
WaitServerForAll(w) ==
  /\ waiters[w].pc = "polling"
  /\ read_state # "Running" /\ write_state # "Running"
  /\ cancel_state # "Running"
  /\ waiters' = [waiters EXCEPT ![w].pc = "popping"]
  /\ UNCHANGED <<aborts, waitFrame>>

\* SessionState::poll_wait_server, when it is Ready
WaitServer(w) ==
  /\ waiters[w].pc = "polling"
  /\ read_state # "Running"
  /\ write_state # "Running"
  /\ waiters' = [waiters EXCEPT ![w].pc = "popping"]
  /\ UNCHANGED <<aborts, waitFrame>>

\* Mutant: pop gives up at the first handle whose task has finished.
WaitPopStopsAtFinished(w) ==
  /\ waiters[w].pc = "popping"
  /\ \/ \E t \in aborts :
          /\ ~Finished(t)
          /\ aborts' = aborts \ {t}
          /\ waiters' = [waiters EXCEPT ![w].pc = "joining", ![w].task = {t}]
     \/ /\ aborts = {} \/ \E t \in aborts : Finished(t)
        /\ waiters' = [waiters EXCEPT ![w].pc = "report"]
        /\ UNCHANGED aborts
  /\ UNCHANGED waitFrame

\* AbortingHandles::pop. The list is kept as a set: which unfinished task
\* comes first does not matter to who waits for whom.
WaitPop(w) ==
  /\ waiters[w].pc = "popping"
  /\ LET running == {t \in aborts : ~Finished(t)}
     IN \/ \E t \in running :
             /\ aborts' = running \ {t}
             /\ waiters' = [waiters EXCEPT ![w].pc = "joining",
                                            ![w].task = {t}]
        \/ /\ running = {}
           /\ aborts' = {}
           /\ waiters' = [waiters EXCEPT ![w].pc = "report"]
  /\ UNCHANGED waitFrame

\* `task.await` on the popped handle
WaitJoin(w) ==
  /\ waiters[w].pc = "joining"
  /\ \A t \in waiters[w].task : Finished(t)
  /\ waiters' = [waiters EXCEPT ![w].pc = "popping", ![w].task = {}]
  /\ UNCHANGED <<aborts, waitFrame>>

WaitReturn(w) ==
  /\ waiters[w].pc = "report"
  /\ waiters' = [waiters EXCEPT ![w].pc = "returned",
                                ![w].result = ServerError]
  /\ UNCHANGED <<aborts, waitFrame>>

\* The future of wait is dropped at an await, with the handle it had popped.
WaitDropped(w) ==
  /\ waiters[w].pc \in {"polling", "joining"}
  /\ waiters' = [waiters EXCEPT ![w].pc = "dropped"]
  /\ UNCHANGED <<aborts, waitFrame>>
-----------------------------------------------------------------------------
\* Session::new: the three tasks are spawned and their handles stored before
\* the lock is released, so none of them sees the session without handles.
TasksInit ==
  /\ read_state = "Running" /\ write_state = "Running"
  /\ cancel_state = "Running"
  /\ is_shutdown = FALSE /\ session_open = TRUE
  /\ outbox = <<>> /\ taken = 0 /\ written = 0
  /\ writer = "fetch"
  /\ dispatcher = [pc |-> "await", batch |-> <<>>, req |-> 0,
                   caller |-> NoCaller, result |-> NoResult]
  /\ canceller = "fetch"
  /\ handlers = [n \in HandlerIds |-> "unborn"]
  /\ aborted = {} /\ aborts = {}
  /\ waiters = [w \in Waiters |->
                  [pc |-> "idle", task |-> {}, result |-> NoResult]]

StatesTypeOK ==
  /\ read_state \in TaskStates /\ write_state \in TaskStates
  /\ cancel_state \in TaskStates
  /\ is_shutdown \in BOOLEAN /\ session_open \in BOOLEAN

WriterTypeOK ==
  /\ outbox \in Seq(OutgoingMessages)
  /\ taken \in Nat /\ written \in Nat
  /\ written <= taken /\ taken <= Len(outbox)
  /\ writer \in {"fetch", "write", "flush", "ended", "failed", "done"}

DispatcherTypeOK ==
  dispatcher \in
    [pc: {"await", "batch", "resolve", "handler", "replied", "spawned",
          "ended", "done"},
     batch: Seq(IncomingMessages), req: {0} \union HandlerIds,
     caller: Callers \union {NoCaller}, result: Results]

HandlersTypeOK ==
  handlers \in [HandlerIds -> {"unborn", "running", "returned", "done"}]

AbortsTypeOK ==
  /\ aborted \subseteq Tasks /\ aborts \subseteq aborted
  /\ waiters \in [Waiters ->
        [pc: {"idle", "polling", "popping", "joining", "report", "returned",
              "dropped"},
         task: SUBSET Tasks, result: Results]]

TasksTypeOK ==
  /\ StatesTypeOK /\ WriterTypeOK /\ DispatcherTypeOK /\ HandlersTypeOK
  /\ AbortsTypeOK
  /\ canceller \in {"fetch", "hooks", "ended", "done"}
=============================================================================
