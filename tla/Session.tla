------------------------------ MODULE Session -------------------------------
(***************************************************************************)
(* One jsoncall Session: its read, write and cancel tasks, both request    *)
(* tables, shutdown, wait and drop, with an application that may call      *)
(* anything at any time and a peer that may send any of Lines, close or    *)
(* break the transport in either direction, or stop reading.               *)
(***************************************************************************)
EXTENDS OutgoingRequests, IncomingRequests

vars == <<taskVars, outgoingVars, incomingVars>>

\* A strong reference to the RawSession exists: the Session's, a session
\* task's, or that of a call of SessionContext::request under way.
Alive ==
  \/ session_open
  \/ dispatcher.pc # "done" \/ writer # "done" \/ canceller # "done"
  \/ \E c \in Callers : InFlight(c)
-----------------------------------------------------------------------------
(* MessageDispatcher::run and run_raw                                      *)

readFrame == <<read_state, write_state, cancel_state, is_shutdown,
               session_open, outbox, taken, written, writer, canceller,
               handlers, aborted, aborts, waiters, outgoingVars, incomingVars>>

HasRequest(batch) == \E i \in DOMAIN batch : batch[i].type = "Request"

\* A line is read and parsed by RawMessage::from_line. No line with requests
\* comes when it might exceed MaxRequests.
ReadLine ==
  /\ dispatcher.pc = "await"
  /\ \E line \in Lines :
       /\ HasRequest(line) => Len(requests) + Len(line) <= MaxRequests
       /\ dispatcher' = [dispatcher EXCEPT !.pc = "batch", !.batch = line]
  /\ UNCHANGED readFrame

\* run_raw returns r, dropping what is left of a batch.
Stops(r) ==
  dispatcher' = [dispatcher EXCEPT !.pc = "ended", !.batch = <<>>, !.result = r]

ReadEnds ==
  /\ dispatcher.pc = "await"
  /\ Stops(Ok)
  /\ UNCHANGED readFrame

\* read_line fails, or from_line does.
ReadFails ==
  /\ dispatcher.pc = "await"
  /\ \E cause \in {"ReadError", "ParseError"} : Stops(ToSessionError(cause))
  /\ UNCHANGED readFrame

\* dispatch_message returns an error: the message is not a valid one, or it
\* is an error the peer attributes to no request.
DispatchFails ==
  /\ dispatcher.pc = "batch"
  /\ \/ /\ Head(dispatcher.batch).type = "Invalid"
        /\ Stops(ToSessionError("InvalidRequest"))
     \/ /\ Head(dispatcher.batch).type = "ErrorWithoutId"
        /\ Stops(ToSessionError("PeerError"))
  /\ UNCHANGED readFrame

\* Handler::notification has returned; what it returns is dropped.
OnNotification ==
  /\ dispatcher.pc = "batch"
  /\ Head(dispatcher.batch).type = "Notification"
  /\ LET rest == Tail(dispatcher.batch)
     IN  dispatcher' = [dispatcher EXCEPT !.pc = NextPc(rest), !.batch = rest]
  /\ UNCHANGED readFrame
-----------------------------------------------------------------------------
(* The ends of the three tasks                                             *)

finishFrame == <<is_shutdown, session_open, taken, written, handlers, aborted,
                 aborts, waiters, outgoing_requests, outgoing_request_id_next,
                 outgoing_cancellations, fetched, called, incomingVars>>

\* SessionState::finish_read_state
FinishRead ==
  /\ dispatcher.pc = "ended"
  /\ IF dispatcher.result = Ok THEN UNCHANGED outbox ELSE Push(ErrorWithoutId)
  /\ read_state' = Finish(read_state, dispatcher.result)
  /\ UNCHANGED <<write_state, cancel_state, is_shutdown>>
  /\ ApplyError
  /\ dispatcher' = [dispatcher EXCEPT !.pc = "done"]
  /\ UNCHANGED <<finishFrame, writer, canceller>>

\* SessionState::finish_write_state
FinishWrite ==
  /\ writer \in {"ended", "failed"}
  /\ write_state' = Finish(write_state, IF writer = "failed"
                                        THEN ToSessionError("WriteError")
                                        ELSE Ok)
  /\ UNCHANGED <<read_state, cancel_state, is_shutdown>>
  /\ ApplyError
  /\ writer' = "done"
  /\ UNCHANGED <<finishFrame, outbox, dispatcher, canceller>>

\* SessionState::finish_cancel_state
FinishCancel ==
  /\ canceller = "ended"
  /\ cancel_state' = Finish(cancel_state, Ok)
  /\ UNCHANGED <<read_state, write_state, is_shutdown>>
  /\ ApplyError
  /\ canceller' = "done"
  /\ UNCHANGED <<finishFrame, outbox, dispatcher, writer>>
-----------------------------------------------------------------------------
\* Mutant: the read task is not aborted.
ShutdownAbortsNoReader == {WriteTask, CancelTask} \union HeldTasks(RequestIds)

ShutdownAborts == SessionTaskSet \union HeldTasks(RequestIds)

\* SessionState::shutdown when is_shutdown is not set yet
ShutdownSession ==
  /\ is_shutdown' = TRUE
  /\ read_state' = Finish(read_state, Ok)
  /\ write_state' = Finish(write_state, Ok)
  /\ cancel_state' = Finish(cancel_state, Ok)
  /\ ApplyError
  /\ PushAborts(ShutdownAborts)
  /\ CancelAll
  /\ UNCHANGED <<outbox, taken, written, writer, dispatcher, canceller,
                 handlers, waiters, outgoing_requests,
                 outgoing_request_id_next, outgoing_cancellations, fetched,
                 called>>

\* Session::shutdown or SessionContext::shutdown, from any task or handler
Shutdown ==
  /\ Alive /\ ~is_shutdown
  /\ ShutdownSession
  /\ UNCHANGED session_open

\* Drop of the Session, which no call of wait may still borrow
DropSession ==
  /\ session_open
  /\ \A w \in Waiters : ~Waiting(w)
  /\ session_open' = FALSE
  /\ \/ ~is_shutdown /\ ShutdownSession
     \/ /\ is_shutdown
        /\ UNCHANGED <<read_state, write_state, cancel_state, is_shutdown,
                       outbox, taken, written, writer, dispatcher, canceller,
                       handlers, aborted, aborts, waiters, outgoingVars,
                       incomingVars>>

IsNotification(m) == m = Notification

\* RawSession::notification: no state of the session refuses it.
Notify ==
  /\ Alive
  /\ Len(SelectSeq(outbox, IsNotification)) < MaxNotifications
  /\ Push(Notification)
  /\ UNCHANGED <<read_state, write_state, cancel_state, is_shutdown,
                 session_open, taken, written, writer, dispatcher, canceller,
                 handlers, aborted, aborts, waiters, outgoingVars,
                 incomingVars>>
-----------------------------------------------------------------------------
Init == TasksInit /\ OutgoingInit /\ IncomingInit

CallerStep(c) ==
  /\ \/ RequestRefused(c) \/ RequestRegistered(c) \/ RequestSent(c)
     \/ SerializeFails(c) \/ PollSlot(c) \/ RequestReturns(c)
     \/ RequestDropped(c)
  /\ UNCHANGED incomingVars

ReaderStep ==
  \/ ReadLine \/ ReadEnds \/ ReadFails
  \/ DispatchFails \/ OnNotification \/ FinishRead
  \/ (OnResponse \/ ResolveSlot) /\ UNCHANGED incomingVars
  \/ /\ OnRequest \/ HandlerReplies \/ HandlerSpawns \/ HandlerDisowns
        \/ HandlerPanics \/ InitFinish
     /\ UNCHANGED outgoingVars

WriterStep ==
  \/ FinishWrite
  \/ /\ FetchMessages \/ WriteMessage \/ Flush \/ WriteFails
     /\ UNCHANGED <<outgoingVars, incomingVars>>

CancellerStep ==
  \/ FinishCancel
  \/ (FetchCancellations \/ CallHook) /\ UNCHANGED incomingVars

TaskStep(n) ==
  /\ \/ TaskReturns(n) \/ TaskPanics(n)
     \/ Alive /\ TaskFinish(n)
     \/ ~Alive /\ TaskOutlivesSession(n)
  /\ UNCHANGED outgoingVars

WaiterStep(w) ==
  /\ \/ WaitStart(w) \/ WaitServer(w) \/ WaitPop(w) \/ WaitJoin(w)
     \/ WaitReturn(w) \/ WaitDropped(w)
  /\ UNCHANGED <<outgoingVars, incomingVars>>

RuntimeStep == \E t \in Tasks : Reap(t) /\ UNCHANGED <<outgoingVars, incomingVars>>

ApplicationStep ==
  \/ Shutdown \/ DropSession \/ Notify
  \/ \E id \in RequestIds : Alive /\ CancelIncoming(id) /\ UNCHANGED outgoingVars

\* The session is freed, every call has returned and every task has ended.
Terminated ==
  /\ ~Alive
  /\ \A c \in Callers : callers[c].pc \in {"returned", "withdrawn"}
  /\ \A n \in HandlerIds : handlers[n] \in {"unborn", "done"}
  /\ UNCHANGED vars

Next ==
  \/ \E c \in Callers : CallerStep(c)
  \/ \E w \in Waiters : WaiterStep(w)
  \/ \E n \in HandlerIds : TaskStep(n)
  \/ ReaderStep \/ WriterStep \/ CancellerStep
  \/ RuntimeStep \/ ApplicationStep \/ Terminated

Spec == Init /\ [][Next]_vars
-----------------------------------------------------------------------------
(* Fairness                                                                *)

\* What the tokio runtime and the tasks' own code guarantee: a task that can
\* go on is polled again, and a call or a wait that is not dropped is polled
\* by the application that made it. Reading a line is left to the peer.
\* Handlers run on the runtime's threads and must return.
TasksProgress ==
  /\ WF_vars(ReaderStep /\ dispatcher.pc # "await")
  /\ WF_vars(WriterStep /\ writer \in {"fetch", "ended", "failed"})
  /\ WF_vars(CancellerStep)
  /\ \A n \in HandlerIds : WF_vars(TaskStep(n) /\ handlers[n] = "returned")

CallsProgress ==
  /\ \A c \in Callers :
       WF_vars(/\ RequestSent(c) \/ SerializeFails(c) \/ RequestReturns(c)
                  \/ PollSlot(c)
               /\ UNCHANGED incomingVars)
  /\ \A w \in Waiters :
       WF_vars(/\ WaitServer(w) \/ WaitPop(w) \/ WaitJoin(w) \/ WaitReturn(w)
               /\ UNCHANGED <<outgoingVars, incomingVars>>)

\* An aborted task is dropped at an await. The read task passes through its
\* await without yielding as long as its reader has lines, but tokio's
\* cooperative budget makes it yield in the end: strong fairness.
AbortsProgress ==
  /\ SF_vars(Reap(ReadTask) /\ UNCHANGED <<outgoingVars, incomingVars>>)
  /\ \A t \in Tasks \ {ReadTask} :
       WF_vars(Reap(t) /\ UNCHANGED <<outgoingVars, incomingVars>>)

RuntimeFairness == TasksProgress /\ CallsProgress /\ AbortsProgress

\* The transport accepts what is written, or reports an error.
TransportFairness == WF_vars(WriterStep)

\* The futures given to handle_async become ready.
ApplicationFairness ==
  \A n \in HandlerIds : WF_vars(TaskStep(n))

FairSpec == Spec /\ RuntimeFairness
FairTransportSpec == FairSpec /\ TransportFairness
FairApplicationSpec == FairTransportSpec /\ ApplicationFairness
-----------------------------------------------------------------------------
\* Every variable keeps the type the code gives it.
TypeOK == TasksTypeOK /\ OutgoingTypeOK /\ IncomingTypeOK
=============================================================================
