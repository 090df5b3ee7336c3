--------------------------- MODULE EndpointProofs ---------------------------
(***************************************************************************)
(* Proofs about one end of a channel, for any peer that sends what a       *)
(* session may send: it behaves as a Session, and keeps EndpointInv. What  *)
(* an end takes over from the other is stated relative to a set of ids.    *)
(***************************************************************************)
EXTENDS EndpointInvariants, OutcomeProofs, RequestProofs

-----------------------------------------------------------------------------
(* What any step of a session does                                         *)

\* Why a message may be queued
Warranted(m) ==
  /\ m.type = "Request" =>
       \E c \in Callers : RequestSent(c) /\ m = Request(callers[c].id)
  /\ m.type = "ErrorWithoutId" => dispatcher.pc = "ended" /\ dispatcher.result # Ok
  /\ IsResponse(m) => /\ m.for \in DOMAIN requests' /\ m.by \in DOMAIN requests'
                      /\ requests'[m.for].id = m.id /\ requests'[m.by].id = m.id

Queues == \E m \in OutgoingMessages : Push(m) /\ Warranted(m)

\* An answer is warranted by its entry.
LEMMA AnswerQueues ==
  ASSUME TypeInv, AnswerInv, NEW n \in DOMAIN requests, NEW id,
         id = requests[n].id, Filed(id), Answer(id, incoming_requests[id], n),
         UNCHANGED requests
  PROVE  UNCHANGED outbox \/ Queues
<1>1. PICK e : e = incoming_requests[id]
  OBVIOUS
<1>2. /\ id \in RequestIds /\ n \in HandlerIds
      /\ e.req \in DOMAIN requests /\ e.req \in HandlerIds /\ requests[e.req].id = id
  BY <1>1, RequestType DEF TypeInv, AnswerInv, EntriesAreRequests
<1>3. PICK m : m = Response(id, e.req, n)
  OBVIOUS
<1>4. m \in OutgoingMessages /\ Warranted(m)
  BY <1>2, <1>3 DEF Response, OutgoingMessages, Warranted, IsResponse
<1>5. QED
  BY <1>1, <1>3, <1>4 DEF Answer, Queues

\* Every message is queued for a reason.
LEMMA OutboxMoves ==
  ASSUME TypeInv, AnswerInv, [Next]_vars
  PROVE  UNCHANGED outbox \/ Queues
<1>1. CASE UNCHANGED vars \/ Terminated
  BY <1>1 DEF vars, taskVars, Terminated
<1>2. ASSUME NEW c \in Callers, CallerStep(c) PROVE UNCHANGED outbox \/ Queues
  <2>1. CASE RequestSent(c)
    <3>1. callers[c].id \in OutgoingIds
      BY <2>1, InFlightId DEF RequestSent, InFlight
    <3>2. PICK m : m = Request(callers[c].id)
      OBVIOUS
    <3>3. m \in OutgoingMessages /\ Warranted(m)
      BY <2>1, <3>1, <3>2 DEF Request, OutgoingMessages, Warranted, IsResponse
    <3>4. QED
      BY <2>1, <3>2, <3>3 DEF RequestSent, Queues
  <2>2. CASE ~RequestSent(c)
    BY <1>2, <2>2 DEF CallerStep, RequestRefused, RequestRegistered,
       SerializeFails, PollSlot, RequestReturns, RequestDropped, taskVars
  <2>3. QED
    BY <2>1, <2>2
<1>3. ASSUME NEW w \in Waiters, WaiterStep(w) PROVE UNCHANGED outbox
  BY <1>3 DEF WaiterStep, WaitStart, WaitServer, WaitPop, WaitJoin,
     WaitReturn, WaitDropped, waitFrame, writerVars
<1>4. ASSUME NEW n \in HandlerIds, TaskStep(n) PROVE UNCHANGED outbox \/ Queues
  <2>1. CASE TaskFinish(n)
    <3>1. n \in DOMAIN requests
      BY <2>1 DEF TaskFinish, TypeInv, HandlersInv
    <3>2. QED
      BY <2>1, <3>1, AnswerQueues DEF TaskFinish, taskFrame
  <2>2. QED
    BY <1>4, <2>1 DEF TaskStep, TaskReturns, TaskPanics, TaskOutlivesSession
<1>5. CASE WriterStep \/ RuntimeStep
  BY <1>5 DEF WriterStep, FinishWrite, FetchMessages, WriteMessage, Flush,
     WriteFails, RuntimeStep, Reap
<1>6. CASE CancellerStep
  <2>1. CASE CallHook
    <3>1. PICK id : id = outgoing_cancellations[called']
      OBVIOUS
    <3>2. id \in OutgoingIds
      BY <2>1, <3>1, ElementOfSeq DEF CallHook, TypeInv, CancellerInv, CancellationsTypeOK
    <3>3. PICK m : m = Cancel(id)
      OBVIOUS
    <3>4. m \in OutgoingMessages /\ Warranted(m)
      BY <3>2, <3>3 DEF Cancel, OutgoingMessages, Warranted, IsResponse
    <3>5. QED
      BY <2>1, <3>1, <3>3, <3>4 DEF CallHook, Queues
  <2>2. QED
    BY <1>6, <2>1 DEF CancellerStep, FinishCancel, FetchCancellations
<1>7. CASE ReaderStep
  <2>1. CASE FinishRead
    <3>1. PICK m : m = ErrorWithoutId
      OBVIOUS
    <3>2. m \in OutgoingMessages /\ (dispatcher.result # Ok => Warranted(m))
      BY <2>1, <3>1 DEF ErrorWithoutId, OutgoingMessages, Warranted, IsResponse, FinishRead
    <3>3. QED
      BY <2>1, <3>1, <3>2 DEF FinishRead, Queues
  <2>2. CASE OnRequest
    <3>1. PICK m, n, id : /\ n = Len(requests) + 1 /\ id = Head(dispatcher.batch).id
                          /\ m = Response(id, n, n)
      OBVIOUS
    <3>2. id \in RequestIds /\ n \in HandlerIds
      BY <2>2, <3>1, OnRequestArgs
    <3>3. CASE Push(m)
      <4>1. PICK r : r = NewRequest(id, "reused")
        OBVIOUS
      <4>2. r \in RequestRecords
        BY <3>2, <4>1, NewRequestType DEF Fates
      <4>3. requests' = Append(requests, r)
        BY <2>2, <3>1, <3>3, <4>1 DEF OnRequest, Push, TypeInv, WriterInv, WriterTypeOK
      <4>4. n \in DOMAIN requests' /\ requests'[n].id = id
        BY <3>1, <3>2, <4>1, <4>2, <4>3, ReadRequest, NewRequestType DEF Fates
      <4>5. m \in OutgoingMessages /\ Warranted(m)
        BY <3>1, <3>2, <4>4 DEF Response, OutgoingMessages, Warranted, IsResponse
      <4>6. QED
        BY <3>3, <4>5 DEF Queues
    <3>4. QED
      BY <2>2, <3>1, <3>3 DEF OnRequest
  <2>3. CASE InitFinish
    <3>1. dispatcher.req \in DOMAIN requests
      BY <2>3 DEF InitFinish, TypeInv, DispatcherInv
    <3>2. QED
      BY <2>3, <3>1, AnswerQueues DEF InitFinish
  <2>4. QED
    BY <1>7, <2>1, <2>2, <2>3 DEF ReaderStep, ReadLine, ReadEnds, ReadFails,
       DispatchFails, OnNotification, readFrame, OnResponse, ResolveSlot,
       dispatcherFrame, HandlerReplies, HandlerSpawns, HandlerDisowns, Disown,
       HandlerPanics
<1>8. CASE ApplicationStep
  <2>1. ASSUME NEW id \in RequestIds, CancelIncoming(id) PROVE UNCHANGED outbox \/ Queues
    <3>1. PICK e, m : e = incoming_requests[id] /\ m = Response(id, e.req, e.req)
      OBVIOUS
    <3>2. e.req \in DOMAIN requests /\ e.req \in HandlerIds /\ requests[e.req].id = id
      BY <2>1, <3>1, RequestType DEF CancelIncoming, TypeInv, AnswerInv, EntriesAreRequests
    <3>3. requests' = [requests EXCEPT ![e.req].fate = "cancelled"]
      BY <2>1, <3>1 DEF CancelIncoming
    <3>4. e.req \in DOMAIN requests' /\ requests'[e.req].id = id
      BY <3>2, <3>3, RequestsSeq DEF TypeInv, RequestRecords
    <3>5. m \in OutgoingMessages /\ Warranted(m)
      BY <3>1, <3>2, <3>4 DEF Response, OutgoingMessages, Warranted, IsResponse
    <3>6. QED
      BY <2>1, <3>1, <3>5 DEF CancelIncoming, Queues
  <2>2. CASE Notify
    <3>1. PICK m : m = Notification
      OBVIOUS
    <3>2. m \in OutgoingMessages /\ Warranted(m)
      BY <3>1 DEF Notification, OutgoingMessages, Warranted, IsResponse
    <3>3. QED
      BY <2>2, <3>1, <3>2 DEF Notify, Queues
  <2>3. QED
    BY <1>8, <2>1, <2>2 DEF ApplicationStep, Shutdown, DropSession, ShutdownSession
<1>9. QED
  BY <1>1, <1>2, <1>3, <1>4, <1>5, <1>6, <1>7, <1>8 DEF Next

\* Requests keep their ids, and only on_request adds one.
LEMMA RequestsMove ==
  ASSUME TypeInv, AnswerInv, [Next]_vars
  PROVE  \/ OnRequest
         \/ /\ DOMAIN requests' = DOMAIN requests
            /\ \A n \in DOMAIN requests : requests'[n].id = requests[n].id
<1>1. CASE UNCHANGED vars \/ Terminated
  BY <1>1 DEF vars, incomingVars, Terminated
<1>2. CASE (\E c \in Callers : CallerStep(c)) \/ WriterStep \/ CancellerStep
  BY <1>2 DEF CallerStep, WriterStep, FinishWrite, finishFrame, CancellerStep,
     FinishCancel, incomingVars
<1>3. CASE \/ \E w \in Waiters : WaiterStep(w)
           \/ \E n \in HandlerIds : TaskStep(n)
           \/ RuntimeStep
  BY <1>3 DEF WaiterStep, TaskStep, TaskReturns, TaskPanics, TaskFinish,
     TaskOutlivesSession, taskFrame, RuntimeStep, incomingVars
<1>4. CASE ReaderStep
  BY <1>4, HandlerRequests DEF ReaderStep, ReadLine, ReadEnds, ReadFails,
     DispatchFails, OnNotification, readFrame, FinishRead, finishFrame,
     incomingVars, InitFinish
<1>5. ASSUME NEW id \in RequestIds, CancelIncoming(id)
      PROVE  /\ DOMAIN requests' = DOMAIN requests
             /\ \A n \in DOMAIN requests : requests'[n].id = requests[n].id
  <2>1. PICK k : k = incoming_requests[id].req
    OBVIOUS
  <2>2. requests' = [requests EXCEPT ![k].fate = "cancelled"]
    BY <1>5, <2>1 DEF CancelIncoming
  <2>3. QED
    BY <2>2, RequestsSeq DEF TypeInv, RequestRecords
<1>6. ASSUME CancelAll
      PROVE  /\ DOMAIN requests' = DOMAIN requests
             /\ \A n \in DOMAIN requests : requests'[n].id = requests[n].id
  <2>1. /\ DOMAIN requests' = DOMAIN requests
        /\ \A n \in DOMAIN requests :
             requests'[n] \in {requests[n], [requests[n] EXCEPT !.fate = "shutdown"]}
    BY <1>6 DEF CancelAll
  <2>2. QED
    BY <2>1, RequestsSeq DEF TypeInv, RequestRecords
<1>7. CASE ApplicationStep
  BY <1>5, <1>6, <1>7 DEF ApplicationStep, Shutdown, DropSession, ShutdownSession,
     Notify, incomingVars
<1>8. QED
  BY <1>1, <1>2, <1>3, <1>4, <1>7 DEF Next

\* Requests stay what they were, whatever is added.
LEMMA RequestsStay ==
  ASSUME TypeInv, AnswerInv, [Next]_vars
  PROVE  \A n \in DOMAIN requests :
           n \in DOMAIN requests' /\ requests'[n].id = requests[n].id
<1>1. CASE OnRequest
  <2>1. PICK r : /\ requests' = Append(requests, r) /\ r \in RequestRecords
    BY <1>1, OnRequestArgs, NewRequestType DEF OnRequest, Fates
  <2>2. QED
    BY <2>1, ReadRequest
<1>2. QED
  BY <1>1, RequestsMove

\* A step at the end of a task or of the session
Ending == FinishRead \/ FinishWrite \/ FinishCancel \/ ShutdownSession

\* Who moves calls and their slots
LEMMA CallersMove ==
  ASSUME [Next]_vars
  PROVE  \/ UNCHANGED <<slot, callers>>
         \/ \E c \in Callers : CallerStep(c)
         \/ ResolveSlot
         \/ Ending /\ ApplyError
<1>1. CASE UNCHANGED vars \/ Terminated
  BY <1>1 DEF vars, outgoingVars, Terminated
<1>2. CASE WriterStep \/ CancellerStep
  BY <1>2 DEF WriterStep, FinishWrite, CancellerStep, FinishCancel,
     FetchCancellations, CallHook, outgoingVars, Ending
<1>3. CASE \/ \E w \in Waiters : WaiterStep(w)
           \/ \E n \in HandlerIds : TaskStep(n)
           \/ RuntimeStep
  BY <1>3 DEF WaiterStep, TaskStep, RuntimeStep, outgoingVars
<1>4. CASE ReaderStep
  BY <1>4 DEF ReaderStep, ReadLine, ReadEnds, ReadFails, DispatchFails,
     OnNotification, readFrame, FinishRead, OnResponse, outgoingVars, Ending
<1>5. CASE ApplicationStep
  BY <1>5 DEF ApplicationStep, Shutdown, DropSession, ShutdownSession, Notify,
     outgoingVars, Ending
<1>6. QED
  BY <1>1, <1>2, <1>3, <1>4, <1>5 DEF Next

\* Only the reader moves itself, until it is dropped.
LEMMA ReaderMoves ==
  ASSUME [Next]_vars
  PROVE  \/ UNCHANGED dispatcher
         \/ ReaderStep
         \/ /\ dispatcher.pc = "await" /\ dispatcher' = [dispatcher EXCEPT !.pc = "done"]
            /\ Reap(ReadTask)
<1>1. CASE UNCHANGED vars \/ Terminated
  BY <1>1 DEF vars, taskVars, Terminated
<1>2. CASE (\E c \in Callers : CallerStep(c)) \/ WriterStep \/ CancellerStep
  BY <1>2 DEF CallerStep, RequestRefused, RequestRegistered, RequestSent,
     SerializeFails, PollSlot, RequestReturns, RequestDropped, taskVars,
     WriterStep, FinishWrite, finishFrame, FetchMessages, WriteMessage, Flush,
     WriteFails, writerFrame, CancellerStep, FinishCancel, FetchCancellations,
     CallHook, cancellerFrame
<1>3. CASE \/ \E w \in Waiters : WaiterStep(w)
           \/ \E n \in HandlerIds : TaskStep(n)
  BY <1>3 DEF TaskStep, TaskReturns, TaskPanics, TaskFinish, TaskOutlivesSession,
     taskFrame, WaiterStep, WaitStart, WaitServer, WaitPop, WaitJoin, WaitReturn,
     WaitDropped, waitFrame
<1>4. CASE RuntimeStep
  BY <1>4 DEF RuntimeStep, Reap
<1>5. CASE ApplicationStep
  BY <1>5 DEF ApplicationStep, Shutdown, DropSession, ShutdownSession, Notify,
     CancelIncoming
<1>6. QED
  BY <1>1, <1>2, <1>3, <1>4, <1>5 DEF Next

\* Only the writer moves itself, until it is dropped.
LEMMA WriterMoves ==
  ASSUME [Next]_vars
  PROVE  \/ UNCHANGED <<taken, written, writer>>
         \/ WriterStep
         \/ writer \in {"fetch", "write", "flush"} /\ Reap(WriteTask)
<1>1. CASE UNCHANGED vars \/ Terminated
  BY <1>1 DEF vars, taskVars, Terminated
<1>2. CASE (\E c \in Callers : CallerStep(c)) \/ CancellerStep
  BY <1>2 DEF CallerStep, RequestRefused, RequestRegistered, RequestSent,
     SerializeFails, PollSlot, RequestReturns, RequestDropped, taskVars,
     CancellerStep, FinishCancel, finishFrame, FetchCancellations,
     CallHook, cancellerFrame
<1>3. CASE \/ \E w \in Waiters : WaiterStep(w)
           \/ \E n \in HandlerIds : TaskStep(n)
  BY <1>3 DEF TaskStep, TaskReturns, TaskPanics, TaskFinish, TaskOutlivesSession,
     taskFrame, requestFrame, WaiterStep, WaitStart, WaitServer, WaitPop, WaitJoin,
     WaitReturn, WaitDropped, waitFrame, writerVars
<1>4. CASE RuntimeStep
  BY <1>4 DEF RuntimeStep, Reap
<1>5. CASE ReaderStep
  BY <1>5 DEF ReaderStep, ReadLine, ReadEnds, ReadFails, DispatchFails,
     OnNotification, readFrame, FinishRead, finishFrame, OnResponse,
     ResolveSlot, dispatcherFrame, OnRequest, HandlerReplies, HandlerSpawns,
     HandlerDisowns, Disown, HandlerPanics, InitFinish, requestFrame
<1>6. CASE ApplicationStep
  BY <1>6 DEF ApplicationStep, Shutdown, DropSession, ShutdownSession, Notify,
     CancelIncoming, requestFrame
<1>7. QED
  BY <1>1, <1>2, <1>3, <1>4, <1>5, <1>6 DEF Next

\* Only a call of wait moves a call of wait.
LEMMA WaitersMove ==
  ASSUME [Next]_vars
  PROVE  UNCHANGED waiters \/ \E w \in Waiters : WaiterStep(w)
<1>1. CASE UNCHANGED vars \/ Terminated
  BY <1>1 DEF vars, taskVars, Terminated
<1>2. CASE (\E c \in Callers : CallerStep(c)) \/ WriterStep \/ CancellerStep
  BY <1>2 DEF CallerStep, RequestRefused, RequestRegistered, RequestSent,
     SerializeFails, PollSlot, RequestReturns, RequestDropped, taskVars,
     WriterStep, FinishWrite, finishFrame, FetchMessages, WriteMessage, Flush,
     WriteFails, writerFrame, CancellerStep, FinishCancel, FetchCancellations,
     CallHook, cancellerFrame
<1>3. CASE (\E n \in HandlerIds : TaskStep(n)) \/ RuntimeStep
  BY <1>3 DEF TaskStep, TaskReturns, TaskPanics, TaskFinish, TaskOutlivesSession,
     taskFrame, requestFrame, RuntimeStep, Reap
<1>4. CASE ReaderStep
  BY <1>4 DEF ReaderStep, ReadLine, ReadEnds, ReadFails, DispatchFails,
     OnNotification, readFrame, FinishRead, finishFrame, OnResponse,
     ResolveSlot, dispatcherFrame, OnRequest, HandlerReplies, HandlerSpawns,
     HandlerDisowns, Disown, HandlerPanics, InitFinish, requestFrame
<1>5. CASE ApplicationStep
  BY <1>5 DEF ApplicationStep, Shutdown, DropSession, ShutdownSession, Notify,
     CancelIncoming, requestFrame
<1>6. QED
  BY <1>1, <1>2, <1>3, <1>4, <1>5 DEF Next

\* A state of a task changes only as the task or the session ends.
LEMMA StatesMove ==
  ASSUME [Next]_vars
  PROVE  UNCHANGED <<read_state, write_state, cancel_state>> \/ Ending
<1>1. CASE UNCHANGED vars \/ Terminated
  BY <1>1 DEF vars, taskVars, Terminated
<1>2. CASE (\E c \in Callers : CallerStep(c)) \/ WriterStep \/ CancellerStep
  BY <1>2 DEF CallerStep, RequestRefused, RequestRegistered, RequestSent,
     SerializeFails, PollSlot, RequestReturns, RequestDropped, taskVars,
     WriterStep, FetchMessages, WriteMessage, Flush, WriteFails, writerFrame,
     CancellerStep, FetchCancellations, CallHook, cancellerFrame, Ending
<1>3. CASE \/ \E w \in Waiters : WaiterStep(w)
           \/ \E n \in HandlerIds : TaskStep(n)
           \/ RuntimeStep
  BY <1>3 DEF TaskStep, TaskReturns, TaskPanics, TaskFinish, TaskOutlivesSession,
     taskFrame, requestFrame, WaiterStep, WaitStart, WaitServer, WaitPop, WaitJoin,
     WaitReturn, WaitDropped, waitFrame, RuntimeStep, Reap
<1>4. CASE ReaderStep
  BY <1>4 DEF ReaderStep, ReadLine, ReadEnds, ReadFails, DispatchFails,
     OnNotification, readFrame, OnResponse, ResolveSlot, dispatcherFrame,
     OnRequest, HandlerReplies, HandlerSpawns, HandlerDisowns, Disown,
     HandlerPanics, InitFinish, requestFrame, Ending
<1>5. CASE ApplicationStep
  BY <1>5 DEF ApplicationStep, Shutdown, DropSession, Notify, CancelIncoming,
     requestFrame, Ending
<1>6. QED
  BY <1>1, <1>2, <1>3, <1>4, <1>5 DEF Next
-----------------------------------------------------------------------------
(* An endpoint is a Session                                                *)

\* A step of an endpoint is one of a Session: what the pipe and the hooks
\* decide are choices of the peer and the application.
LEMMA EndpointStep ==
  ASSUME TypeInv, OneLineInHand, PeerTypeOK, [EndpointNext]_endpointVars
  PROVE  [Next]_vars
<1>1. CASE UNCHANGED endpointVars
  BY <1>1 DEF endpointVars
<1>2. CASE ReadMessage \/ ReadEnd \/ Dispatch
  BY <1>2 DEF ReadMessage, ReadEnd, Dispatch, ReaderStep, Next
<1>3. CASE HandlerCancels
  <2>1. PICK id : id = inbound[received].id
    OBVIOUS
  <2>2. dispatcher.pc = "batch" /\ inbound[received].type = "Cancel"
    BY <1>3 DEF HandlerCancels, Cancelling
  <2>3. received \in 1..Len(inbound)
    BY <2>2 DEF TypeInv, DispatcherInv, OneLineInHand, PeerTypeOK
  <2>4. inbound[received] \in PeerMessages
    BY <2>3, ElementOfSeq DEF PeerTypeOK
  <2>5. id \in RequestIds
    BY <2>1, <2>2, <2>4 DEF PeerMessages, Notification, ErrorWithoutId
  <2>6. CancelIncoming(id) /\ UNCHANGED outgoingVars /\ Alive
    BY <1>3, <2>1, <2>2 DEF HandlerCancels, Alive
  <2>7. QED
    BY <2>5, <2>6 DEF ApplicationStep, Next
<1>4. CASE Write \/ TellPeer
  BY <1>4 DEF Write, TellPeer, Next
<1>5. ASSUME NEW t \in Tasks, ReapTask(t) PROVE Next
  BY <1>5 DEF ReapTask, RuntimeStep, Next
<1>6. CASE \/ \E c \in Callers : CallerStep(c)
           \/ \E w \in Waiters : WaiterStep(w)
           \/ \E n \in HandlerIds : TaskStep(n)
           \/ Shutdown \/ DropSession \/ Notify
  BY <1>6 DEF ApplicationStep, Next
<1>7. QED
  BY <1>1, <1>2, <1>3, <1>4, <1>5, <1>6 DEF EndpointNext, Read

\* The message dispatched next is the first of the batch.
LEMMA HeadIsFirst ==
  ASSUME DispatcherTypeOK, dispatcher.pc = "batch" => dispatcher.batch # <<>>,
         dispatcher.pc = "batch"
  PROVE  Head(dispatcher.batch) = dispatcher.batch[1] /\ 1 \in DOMAIN dispatcher.batch
BY LenProperties DEF DispatcherTypeOK

\* What a message is read as
LEMMA ReadAsKinds ==
  ASSUME NEW m \in PeerMessages, NEW r \in ReadAs(m)
  PROVE  /\ r.type # "Invalid"
         /\ r.type = "Request" => r = m
         /\ r.type \in {"Success", "Error"} => m.type = "Response" /\ r.id = m.id
         /\ r.type = "ErrorWithoutId" => m.type = "ErrorWithoutId"
<1>1. CASE m.type = "Response"
  BY <1>1 DEF ReadAs
<1>2. CASE m.type = "Cancel"
  BY <1>2 DEF ReadAs, Notification
<1>3. CASE m.type \notin {"Response", "Cancel"}
  <2>1. r = m
    BY <1>3 DEF ReadAs
  <2>2. QED
    BY <1>3, <2>1 DEF PeerMessages, Notification, ErrorWithoutId
<1>4. QED
  BY <1>1, <1>2, <1>3

\* The reader takes the next line on the wire.
LEMMA MessageRead ==
  ASSUME TypeInv, PeerTypeOK, ReadMessage
  PROVE  /\ received' = received + 1 /\ received' \in DOMAIN inbound
         /\ inbound[received'] \in PeerMessages
         /\ dispatcher.pc = "await" /\ dispatcher'.pc = "batch"
         /\ dispatcher'.caller = dispatcher.caller
         /\ dispatcher'.result = dispatcher.result
         /\ \E r \in ReadAs(inbound[received']) : dispatcher'.batch = <<r>>
         /\ UNCHANGED readFrame
<1>1. received' = received + 1 /\ received' \in 1..Len(inbound)
  BY DEF ReadMessage, PeerTypeOK
<1>2. inbound[received'] \in PeerMessages /\ DOMAIN inbound = 1..Len(inbound)
  BY <1>1, ElementOfSeq, LenProperties DEF PeerTypeOK
<1>3. QED
  BY <1>1, <1>2 DEF ReadMessage, ReadLine, TypeInv, DispatcherInv, DispatcherTypeOK

\* Nothing is left of a line after its message.
LEMMA NoRest ==
  ASSUME TypeInv, OneLineInHand, dispatcher.batch # <<>>
  PROVE  Tail(dispatcher.batch) = <<>>
<1>1. /\ Tail(dispatcher.batch) \in Seq(IncomingMessages)
      /\ Len(Tail(dispatcher.batch)) = Len(dispatcher.batch) - 1
  BY RestType DEF TypeInv, DispatcherInv
<1>2. Len(Tail(dispatcher.batch)) = 0
  BY <1>1 DEF OneLineInHand
<1>3. QED
  BY <1>1, <1>2, EmptySeq

\* A message in hand is dispatched in the reader's next step.
LEMMA HandEmpties ==
  ASSUME TypeInv, OneLineInHand, ~Panics, ReaderStep, ~ReadLine
  PROVE  dispatcher'.batch = <<>> /\ dispatcher'.pc # "batch"
<1>1. dispatcher.batch # <<>> => Tail(dispatcher.batch) = <<>>
  BY NoRest
<1>2. /\ dispatcher.pc # "batch" => dispatcher.batch = <<>>
      /\ dispatcher.pc = "batch" => dispatcher.batch # <<>>
      /\ NextPc(<<>>) = "await"
  BY DEF OneLineInHand, TypeInv, DispatcherInv, NextPc
<1> USE DEF TypeInv, DispatcherInv, DispatcherTypeOK
<1>3. CASE ReadEnds \/ ReadFails \/ DispatchFails \/ FinishRead
  BY <1>2, <1>3 DEF ReadEnds, ReadFails, DispatchFails, Stops, FinishRead
<1>4. CASE OnNotification
  BY <1>1, <1>2, <1>4 DEF OnNotification
<1>5. CASE OnResponse
  BY <1>1, <1>2, <1>5 DEF OnResponse
<1>6. CASE OnRequest
  BY <1>1, <1>2, <1>6 DEF OnRequest
<1>7. CASE ResolveSlot \/ HandlerReplies \/ HandlerSpawns \/ HandlerDisowns \/ InitFinish
  BY <1>2, <1>7 DEF ResolveSlot, HandlerReplies, HandlerSpawns, HandlerDisowns,
     InitFinish
<1>8. QED
  BY <1>3, <1>4, <1>5, <1>6, <1>7 DEF ReaderStep, HandlerPanics

\* The message in hand is a new one, or is what it was, or has been dispatched.
LEMMA HandMoves ==
  ASSUME TypeInv, OneLineInHand, ~Panics, [EndpointNext]_endpointVars
  PROVE  \/ ReadMessage
         \/ /\ received' = received
            /\ UNCHANGED dispatcher \/ (dispatcher'.batch = <<>> /\ dispatcher'.pc # "batch")
<1> DEFINE Emptied == dispatcher'.batch = <<>> /\ dispatcher'.pc # "batch"
<1>1. CASE UNCHANGED endpointVars
  BY <1>1 DEF endpointVars, pipeVars, vars, taskVars
<1>2. CASE ReadEnd
  BY <1>2 DEF ReadEnd, ReadEnds, ReadFails, Stops, pipeVars, TypeInv, DispatcherInv,
     DispatcherTypeOK
<1>3. CASE HandlerCancels
  BY <1>3 DEF HandlerCancels, CancelIncoming, pipeVars
<1>4. CASE Dispatch
  BY <1>4, HandEmpties DEF Dispatch, ReadLine, pipeVars
<1>5. CASE Write \/ TellPeer
  BY <1>5 DEF Write, WriterStep, FinishWrite, finishFrame, FetchMessages,
     WriteMessage, Flush, WriteFails, writerFrame, TellPeer, CancellerStep,
     FinishCancel, FetchCancellations, CallHook, cancellerFrame, pipeVars
<1>6. ASSUME NEW t \in Tasks, ReapTask(t)
      PROVE  received' = received /\ (UNCHANGED dispatcher \/ Emptied)
  <2>1. dispatcher.pc = "await" => dispatcher.batch = <<>>
    BY DEF OneLineInHand
  <2>2. QED
    BY <1>6, <2>1 DEF ReapTask, Reap, TypeInv, DispatcherInv, DispatcherTypeOK
<1>7. CASE /\ \/ \E c \in Callers : CallerStep(c)
              \/ \E w \in Waiters : WaiterStep(w)
              \/ \E n \in HandlerIds : TaskStep(n)
              \/ Shutdown \/ DropSession \/ Notify
           /\ UNCHANGED pipeVars
  BY <1>7 DEF CallerStep, RequestRefused, RequestRegistered, RequestSent,
     SerializeFails, PollSlot, RequestReturns, RequestDropped, taskVars,
     TaskStep, TaskReturns, TaskPanics, TaskFinish, TaskOutlivesSession,
     taskFrame, WaiterStep, WaitStart, WaitServer, WaitPop, WaitJoin, WaitReturn,
     WaitDropped, waitFrame, Shutdown, DropSession, ShutdownSession, Notify, pipeVars
<1>8. QED
  BY <1>1, <1>2, <1>3, <1>4, <1>5, <1>6, <1>7 DEF EndpointNext, Read

\* A batch in hand is the one message of the line read last.
LEMMA OneLineStep ==
  ASSUME TypeInv, OneLineInHand, PeerTypeOK, ~Panics, [EndpointNext]_endpointVars
  PROVE  OneLineInHand'
<1>1. CASE ReadMessage
  <2>1. PICK r : /\ r \in ReadAs(inbound[received']) /\ dispatcher'.batch = <<r>>
                 /\ r.type # "Invalid"
    BY <1>1, MessageRead, ReadAsKinds
  <2>2. /\ Len(dispatcher'.batch) = 1 /\ dispatcher'.batch[1] = r
        /\ dispatcher'.pc = "batch" /\ received' \in Nat /\ received' # 0
    BY <1>1, <2>1, MessageRead DEF OneLineInHand
  <2>3. QED
    BY <2>1, <2>2 DEF OneLineInHand
<1>2. QED
  BY <1>1, HandMoves DEF OneLineInHand
-----------------------------------------------------------------------------
(* Errors and ends                                                         *)

\* The queue as the wire sees it: nothing in it changes or goes.
OutboxGrows ==
  /\ Len(outbox) <= Len(outbox')
  /\ \A p \in DOMAIN outbox : p \in DOMAIN outbox' /\ outbox'[p] = outbox[p]

\* What was queued stays queued, in its place.
LEMMA OutboxStays ==
  ASSUME TypeInv, AnswerInv, [Next]_vars PROVE OutboxGrows
<1>1. CASE UNCHANGED outbox
  BY <1>1 DEF OutboxGrows, TypeInv, WriterInv, WriterTypeOK
<1>2. CASE Queues
  <2>1. PICK m \in OutgoingMessages : Push(m)
    BY <1>2 DEF Queues
  <2>2. Len(outbox') = Len(outbox) + 1 /\ Len(outbox) \in Nat
    BY <2>1, AppendProperties, LenProperties DEF Push, TypeInv, WriterInv, WriterTypeOK
  <2>3. QED
    BY <2>1, <2>2, PushedAt DEF OutboxGrows, TypeInv, WriterInv
<1>3. QED
  BY <1>1, <1>2, OutboxMoves

\* A writer that is over writes no more.
LEMMA WriterRests ==
  ASSUME [Next]_vars, writer \in {"failed", "done"}
  PROVE  /\ written' = written /\ writer' \in {"failed", "done"}
         /\ writer = "done" => writer' = "done"
BY WriterMoves DEF WriterStep, FinishWrite, finishFrame, FetchMessages,
   WriteMessage, Flush, WriteFails

\* What will not be written stays so.
LEMMA BrokenStays ==
  ASSUME TypeInv, AnswerInv, Broken, [Next]_vars PROVE Broken'
<1>1. /\ OutboxGrows /\ Len(outbox) \in Nat /\ Len(outbox') \in Nat
      /\ written \in Nat
  BY OutboxStays, TypeStep, LenProperties DEF TypeInv, WriterInv, WriterTypeOK
<1>2. QED
  BY <1>1, WriterRests DEF Broken, OutboxGrows

\* Nothing is torn or failed at first.
LEMMA BreaksInit == EndpointInit => BreaksShow
BY DEF EndpointInit, Init, TasksInit, BreaksShow, ErrorCauses, ReadCauses

\* A line is torn or a write fails only with something left to write.
LEMMA BreaksStep ==
  ASSUME TypeInv, AnswerInv, BreaksShow, [Next]_vars, [EndpointNext]_endpointVars
  PROVE  BreaksShow'
<1>1. /\ OutboxGrows /\ Len(outbox) \in Nat /\ Len(outbox') \in Nat
      /\ written \in Nat /\ taken \in Nat /\ taken <= Len(outbox)
      /\ writer = "write" => written < taken
      /\ Broken => Broken'
  BY OutboxStays, TypeStep, BrokenStays, LenProperties DEF TypeInv, WriterInv, WriterTypeOK
<1>2. CASE torn' = torn /\ (writer = "failed" \/ write_state \in ErrorCauses
                            \/ ~(writer' = "failed" \/ write_state' \in ErrorCauses))
  BY <1>1, <1>2, WriterRests DEF BreaksShow, OutboxGrows, Broken
<1>3. CASE /\ UNCHANGED endpointVars
  BY <1>2, <1>3 DEF endpointVars, pipeVars, vars, taskVars
<1>4. CASE Read \/ TellPeer
  <2>1. UNCHANGED <<torn, writer>> /\ write_state' = write_state
    BY <1>4 DEF Read, ReadMessage, ReadEnd, HandlerCancels, Dispatch, TellPeer,
       pipeVars, ReaderStep, ReadLine, ReadEnds, ReadFails, DispatchFails,
       OnNotification, readFrame, FinishRead, finishFrame, OnResponse,
       ResolveSlot, dispatcherFrame, OnRequest, HandlerReplies, HandlerSpawns,
       HandlerDisowns, Disown, HandlerPanics, InitFinish, CancelIncoming,
       requestFrame, CancellerStep, FinishCancel, FetchCancellations, CallHook,
       cancellerFrame
  <2>2. QED
    BY <1>2, <2>1
<1>5. CASE Write
  <2>1. torn' = torn
    BY <1>5 DEF Write, pipeVars
  <2>2. CASE WriteFails
    <3>1. writer = "write" /\ writer' = "failed" /\ UNCHANGED <<outbox, written>>
      BY <1>5, <2>2 DEF Write, WriteFails
    <3>2. Broken' /\ (torn # "none" => writer = "done")
      BY <1>1, <3>1 DEF Broken, BreaksShow
    <3>3. QED
      BY <2>1, <3>1, <3>2 DEF BreaksShow
  <2>3. CASE FinishWrite
    <3>1. /\ writer' # "failed"
          /\ writer # "failed" => write_state' = Finish(write_state, Ok)
      BY <2>3 DEF FinishWrite
    <3>2. write_state' \in ErrorCauses => writer = "failed" \/ write_state \in ErrorCauses
      BY <3>1 DEF Finish, ErrorCauses, ReadCauses
    <3>3. QED
      BY <1>2, <2>1, <3>1, <3>2
  <2>4. CASE FetchMessages \/ WriteMessage \/ Flush
    <3>1. writer' # "failed" /\ write_state' = write_state
      BY <2>4 DEF FetchMessages, WriteMessage, Flush, writerFrame
    <3>2. QED
      BY <1>2, <2>1, <3>1
  <2>5. QED
    BY <1>5, <2>2, <2>3, <2>4 DEF Write, WriterStep
<1>6. ASSUME NEW t \in Tasks, ReapTask(t) PROVE BreaksShow'
  <2>1. /\ write_state' = write_state /\ UNCHANGED <<outbox, written>>
        /\ writer' \in {writer, "done"}
        /\ torn' = torn \/ (/\ torn' \in {"none", "cut", "whole"} /\ writer = "write"
                            /\ writer' = "done")
    BY <1>6 DEF ReapTask, Reap, ReadTask, WriteTask, CancelTask, HandlerTask
  <2>2. CASE torn' = torn
    BY <1>2, <2>1, <2>2
  <2>3. CASE torn' # torn
    BY <1>1, <2>1, <2>3 DEF BreaksShow
  <2>4. QED
    BY <2>2, <2>3
<1>7. CASE /\ \/ \E c \in Callers : CallerStep(c)
              \/ \E w \in Waiters : WaiterStep(w)
              \/ \E n \in HandlerIds : TaskStep(n)
              \/ Notify
           /\ UNCHANGED pipeVars
  <2>1. UNCHANGED <<torn, writer>> /\ write_state' = write_state
    BY <1>7 DEF CallerStep, RequestRefused, RequestRegistered, RequestSent,
       SerializeFails, PollSlot, RequestReturns, RequestDropped, taskVars,
       TaskStep, TaskReturns, TaskPanics, TaskFinish, TaskOutlivesSession,
       taskFrame, requestFrame, WaiterStep, WaitStart, WaitServer, WaitPop,
       WaitJoin, WaitReturn, WaitDropped, waitFrame, writerVars, Notify, pipeVars
  <2>2. QED
    BY <1>2, <2>1
<1>8. CASE (Shutdown \/ DropSession) /\ UNCHANGED pipeVars
  <2>1. /\ UNCHANGED <<torn, writer>>
        /\ write_state' \in {write_state, Finish(write_state, Ok)}
    BY <1>8 DEF Shutdown, DropSession, ShutdownSession, pipeVars
  <2>2. write_state' \in ErrorCauses => write_state \in ErrorCauses
    BY <2>1 DEF Finish, ErrorCauses, ReadCauses
  <2>3. QED
    BY <1>2, <2>1, <2>2
<1>9. QED
  BY <1>3, <1>4, <1>5, <1>6, <1>7, <1>8 DEF EndpointNext

\* An error of the reader stays one, so that wait reports it.
LEMMA ReadErrorStays ==
  ASSUME TypeInv, [Next]_vars, read_state \in ErrorCauses
  PROVE  read_state' \in ErrorCauses
<1>1. CASE FinishRead
  <2>1. dispatcher.result \in {Ok} \union {ToSessionError(x) : x \in ErrorCauses}
    BY <1>1 DEF FinishRead, TypeInv, DispatcherInv, ErrorCauses
  <2>2. QED
    BY <1>1, <2>1, FinishEnds DEF FinishRead, TypeInv, StatesTypeOK
<1>2. CASE ShutdownSession
  BY <1>2 DEF ShutdownSession, Finish, ErrorCauses, ReadCauses
<1>3. QED
  BY <1>1, <1>2, StatesMove DEF Ending, FinishWrite, FinishCancel

\* A wait reports what has gone wrong by then.
LEMMA WaitsTellStep ==
  ASSUME TypeInv, AnswerInv, BreaksShow, WaitsTellErrors, [Next]_vars
  PROVE  WaitsTellErrors'
<1>1. SUFFICES ASSUME NEW w \in Waiters, waiters'[w].pc = "returned",
                      waiters'[w].result # Ok
               PROVE  read_state' \in ErrorCauses \/ Broken'
  BY DEF WaitsTellErrors
<1>2. CASE read_state \in ErrorCauses \/ Broken
  BY <1>2, ReadErrorStays, BrokenStays
<1>3. CASE ~(read_state \in ErrorCauses \/ Broken)
  <2>1. ServerError = Ok
    BY <1>3 DEF ServerError, BreaksShow
  <2>2. ~(waiters[w].pc = "returned" /\ waiters[w].result # Ok)
    BY <1>3 DEF WaitsTellErrors
  <2>3. PICK v \in Waiters : WaiterStep(v)
    BY <1>1, <2>2, WaitersMove
  <2>4. QED
    BY <1>1, <2>1, <2>2, <2>3 DEF WaiterStep, WaitStart, WaitServer, WaitPop,
       WaitJoin, WaitReturn, WaitDropped, TypeInv, AbortsTypeOK
<1>4. QED
  BY <1>2, <1>3

\* Reading fails only at the end of what the peer has left.
LEMMA ReadFailsAtEnd ==
  ASSUME TypeInv, OneLineInHand, PeerTypeOK, [EndpointNext]_endpointVars,
         dispatcher.pc = "await", dispatcher'.pc = "ended"
  PROVE  ReadEnd
<1>1. CASE UNCHANGED endpointVars
  BY <1>1 DEF endpointVars, vars, taskVars
<1>2. ~ReadMessage
  BY MessageRead
<1>3. ~HandlerCancels /\ ~Dispatch
  BY DEF HandlerCancels, Cancelling, Dispatch
<1>4. CASE Write \/ TellPeer
  BY <1>4 DEF Write, WriterStep, FinishWrite, finishFrame, FetchMessages,
     WriteMessage, Flush, WriteFails, writerFrame, TellPeer, CancellerStep,
     FinishCancel, FetchCancellations, CallHook, cancellerFrame
<1>5. ASSUME NEW t \in Tasks, ReapTask(t) PROVE dispatcher'.pc # "ended"
  BY <1>5 DEF ReapTask, Reap, TypeInv, DispatcherInv, DispatcherTypeOK
<1>6. CASE \/ \E c \in Callers : CallerStep(c)
           \/ \E w \in Waiters : WaiterStep(w)
           \/ \E n \in HandlerIds : TaskStep(n)
           \/ Shutdown \/ DropSession \/ Notify
  BY <1>6 DEF CallerStep, RequestRefused, RequestRegistered, RequestSent,
     SerializeFails, PollSlot, RequestReturns, RequestDropped, taskVars,
     TaskStep, TaskReturns, TaskPanics, TaskFinish, TaskOutlivesSession,
     taskFrame, WaiterStep, WaitStart, WaitServer, WaitPop, WaitJoin, WaitReturn,
     WaitDropped, waitFrame, Shutdown, DropSession, ShutdownSession, Notify
<1>7. QED
  BY <1>1, <1>2, <1>3, <1>4, <1>5, <1>6 DEF EndpointNext, Read

\* An error comes from a line that was cut or one the peer sent an error in.
LEMMA ErrorsCome ==
  ASSUME TypeInv, AnswerInv, OneLineInHand, PeerTypeOK, ~Panics, [Next]_vars,
         [EndpointNext]_endpointVars, ~Erroneous, Erroneous'
  PROVE  inbound_cut \/ \E p \in DOMAIN inbound : inbound[p].type = "ErrorWithoutId"
<1>1. ~\E p \in DOMAIN outbox' : outbox'[p].type = "ErrorWithoutId"
  <2>1. CASE UNCHANGED outbox
    BY <2>1 DEF Erroneous
  <2>2. CASE Queues
    <3>1. PICK m \in OutgoingMessages : Push(m) /\ Warranted(m)
      BY <2>2 DEF Queues
    <3>2. m.type # "ErrorWithoutId"
      BY <3>1 DEF Warranted, Erroneous
    <3>3. QED
      BY <3>1, <3>2, PushedAt DEF Erroneous, TypeInv, WriterInv
  <2>3. QED
    BY <2>1, <2>2, OutboxMoves
<1>2. read_state' \notin ErrorCauses
  <2>1. CASE FinishRead
    <3>1. dispatcher.result = Ok
      BY <2>1 DEF FinishRead, Erroneous
    <3>2. QED
      BY <2>1, <3>1 DEF FinishRead, Finish, Erroneous, ErrorCauses, ReadCauses
  <2>2. CASE ShutdownSession
    BY <2>2 DEF ShutdownSession, Finish, Erroneous, ErrorCauses, ReadCauses
  <2>3. QED
    BY <2>1, <2>2, StatesMove DEF Ending, FinishWrite, FinishCancel, Erroneous
<1>3. CASE \E i \in DOMAIN dispatcher'.batch : dispatcher'.batch[i].type = "ErrorWithoutId"
  <2>1. ReadMessage
    BY <1>3, HandMoves DEF Erroneous
  <2>2. PICK r \in ReadAs(inbound[received']) : dispatcher'.batch = <<r>>
    BY <2>1, MessageRead
  <2>3. r.type = "ErrorWithoutId"
    BY <1>3, <2>2
  <2>4. QED
    BY <2>1, <2>2, <2>3, MessageRead, ReadAsKinds
<1>4. CASE dispatcher'.pc = "ended" /\ dispatcher'.result # Ok
  <2>1. dispatcher' # dispatcher
    BY <1>4 DEF Erroneous
  <2>2. ReadFails \/ DispatchFails \/ ReadEnds
    <3>1. ReaderStep
      BY <1>4, <2>1, ReaderMoves DEF TypeInv, DispatcherInv, DispatcherTypeOK
    <3>2. QED
      BY <1>4, <2>1, <3>1 DEF ReaderStep, ReadLine, OnNotification, FinishRead,
         OnResponse, ResolveSlot, OnRequest, HandlerReplies, HandlerSpawns,
         HandlerDisowns, Disown,
     HandlerPanics, InitFinish, NextPc, TypeInv, DispatcherInv, DispatcherTypeOK
  <2>3. ~ReadEnds
    BY <1>4 DEF ReadEnds, Stops, TypeInv, DispatcherInv, DispatcherTypeOK
  <2>4. ~DispatchFails
    <3>1. SUFFICES ASSUME DispatchFails PROVE FALSE
      OBVIOUS
    <3>2. /\ dispatcher.batch # <<>> /\ Head(dispatcher.batch) = dispatcher.batch[1]
          /\ 1 \in DOMAIN dispatcher.batch
      BY <3>1, LenProperties DEF DispatchFails, OneLineInHand, TypeInv, DispatcherInv,
         DispatcherTypeOK
    <3>3. QED
      BY <3>1, <3>2 DEF DispatchFails, OneLineInHand, Erroneous
  <2>5. ReadFails
    BY <2>2, <2>3, <2>4
  <2>6. ReadEnd
    BY <1>4, <2>5, ReadFailsAtEnd DEF ReadFails
  <2>7. QED
    BY <2>3, <2>6 DEF ReadEnd
<1>5. QED
  BY <1>1, <1>2, <1>3, <1>4 DEF Erroneous
-----------------------------------------------------------------------------
(* Calls                                                                   *)

Message == Result("Message", "none")

\* Where a call may stand once it has queued its request
PastSending == {"sent", "parked", "woken", "ready", "returned", "withdrawn"}

\* How a step may change a call and its slot
CallMoves(c) ==
  /\ \/ callers'[c].id = callers[c].id
     \/ /\ callers[c].pc = "idle"
        /\ callers'[c].result = callers[c].result /\ slot'[c] = slot[c]
  /\ callers[c].pc \in PastSending =>
       callers'[c].pc \in PastSending /\ callers'[c].id = callers[c].id
  /\ RequestSent(c) => callers'[c].pc = "sent" /\ callers'[c].id = callers[c].id
  /\ \/ callers'[c].result \in {callers[c].result, NoResult, Serialize, Message}
     \/ /\ callers'[c].result \in Endings
        /\ OutgoingRequestError(is_shutdown, write_state, read_state) # NoResult
     \/ callers'[c].result = slot[c].result /\ slot[c].st \notin Unresolved
  /\ \/ /\ slot'[c].result = slot[c].result
        /\ slot'[c].st \notin Unresolved => slot[c].st \notin Unresolved
     \/ slot'[c].result \in Endings /\ Ending
     \/ slot'[c].result = dispatcher.result /\ Resolving(c)

\* set_ready changes no call but for waking it, and no slot but those it sets.
LEMMA SetReadyMoves ==
  ASSUME TypeInv, NEW cs, NEW r, SetReady(cs, r), NEW c \in Callers
  PROVE  /\ callers'[c].id = callers[c].id /\ callers'[c].result = callers[c].result
         /\ callers'[c].pc = callers[c].pc
              \/ (callers[c].pc = "parked" /\ callers'[c].pc = "woken")
         /\ slot'[c] = slot[c] \/ (c \in cs /\ slot'[c].result = r)
<1>1. callers'[c] \in {callers[c], [callers[c] EXCEPT !.pc = "woken"]}
  BY DEF SetReady
<1>2. callers'[c] # callers[c] => callers[c].pc = "parked"
  BY DEF SetReady
<1>3. slot'[c] = slot[c] \/ (c \in cs /\ slot'[c] = [st |-> "Ready", result |-> r])
  BY DEF SetReady
<1>4. QED
  BY <1>1, <1>2, <1>3 DEF TypeInv, CallersInv, CallersTypeOK

\* A call moves by its own steps, by its answer or by the end of the session.
LEMMA CallsMove ==
  ASSUME TypeInv, CallInv, OutcomeInv, [Next]_vars, NEW c \in Callers
  PROVE  CallMoves(c)
<1> USE DEF TypeInv, CallersInv, CallersTypeOK
<1>1. CASE UNCHANGED <<slot, callers>>
  BY <1>1 DEF CallMoves, RequestSent
<1>2. ASSUME NEW d \in Callers, CallerStep(d) PROVE CallMoves(c)
  <2>1. CASE c # d
    <3>1. callers'[c] = callers[c] /\ slot'[c] = slot[c] /\ ~RequestSent(c)
      BY <1>2, <2>1 DEF CallerStep, RequestRefused, RequestRegistered, RequestSent,
         SerializeFails, PollSlot, RequestReturns, RequestDropped, DropGuard
    <3>2. QED
      BY <3>1 DEF CallMoves
  <2>2. CASE RequestRefused(c)
    <3>1. PICK e : e = OutgoingRequestError(is_shutdown, write_state, read_state)
      OBVIOUS
    <3>2. e \in Endings \union {NoResult}
      BY <3>1, RefusalEnds DEF StatesTypeOK
    <3>3. /\ callers'[c].id = callers[c].id /\ slot' = slot /\ callers[c].pc = "idle"
          /\ \/ callers'[c].result = e /\ e # NoResult
             \/ callers'[c].result = Message
      BY <2>2, <3>1 DEF RequestRefused, Message
    <3>4. QED
      BY <3>1, <3>2, <3>3 DEF CallMoves, PastSending, RequestSent
  <2>3. CASE RequestRegistered(c)
    <3>1. /\ callers'[c].result = callers[c].result /\ slot' = slot
          /\ callers[c].pc = "idle"
      BY <2>3 DEF RequestRegistered
    <3>2. QED
      BY <3>1 DEF CallMoves, PastSending, RequestSent
  <2>4. CASE RequestSent(c)
    BY <2>4 DEF RequestSent, CallMoves, PastSending
  <2>5. CASE SerializeFails(c) \/ RequestReturns(c) \/ RequestDropped(c)
    <3>1. CASE SerializeFails(c)
      <4>1. /\ callers'[c].id = callers[c].id /\ callers[c].pc = "registered"
            /\ callers'[c].result = Serialize /\ slot' = slot
            /\ callers'[c].pc = "returned"
        BY <3>1 DEF SerializeFails, DropGuard, Serialize
      <4>2. QED
        BY <4>1 DEF CallMoves, PastSending, RequestSent
    <3>2. CASE RequestReturns(c)
      <4>1. /\ callers'[c].id = callers[c].id /\ callers[c].pc = "ready"
            /\ callers'[c].pc = "returned"
            /\ callers'[c].result = slot[c].result /\ slot' = slot
        BY <3>2 DEF RequestReturns, DropGuard
      <4>2. slot[c].st = "End"
        BY <4>1 DEF OutcomeInv, SlotsFollowCalls
      <4>3. QED
        BY <4>1, <4>2 DEF CallMoves, PastSending, RequestSent, Unresolved
    <3>3. CASE RequestDropped(c)
      <4>1. /\ callers'[c].id = callers[c].id /\ callers[c].pc \in {"parked", "woken"}
            /\ callers'[c].pc = "withdrawn"
            /\ callers'[c].result = NoResult /\ slot' = slot
        BY <3>3 DEF RequestDropped, DropGuard
      <4>2. QED
        BY <4>1 DEF CallMoves, PastSending, RequestSent
    <3>4. QED
      BY <2>5, <3>1, <3>2, <3>3
  <2>6. CASE PollSlot(c)
    <3>1. /\ callers'[c].id = callers[c].id /\ callers'[c].result = callers[c].result
          /\ callers'[c].pc \in {"parked", "ready"} /\ callers[c].pc # "registered"
          /\ slot'[c].result = slot[c].result
          /\ slot'[c].st \notin Unresolved => slot[c].st \notin Unresolved
      BY <2>6 DEF PollSlot, Unresolved
    <3>2. QED
      BY <3>1 DEF CallMoves, PastSending, RequestSent
  <2>7. QED
    BY <1>2, <2>1, <2>2, <2>3, <2>4, <2>5, <2>6 DEF CallerStep
<1>3. ASSUME NEW cs, NEW r, SetReady(cs, r),
             c \in cs => \/ r \in Endings /\ Ending
                         \/ r = dispatcher.result /\ Resolving(c)
      PROVE  CallMoves(c)
  <2>1. /\ callers'[c].id = callers[c].id /\ callers'[c].result = callers[c].result
        /\ callers'[c].pc = callers[c].pc
             \/ (callers[c].pc = "parked" /\ callers'[c].pc = "woken")
        /\ slot'[c] = slot[c] \/ (c \in cs /\ slot'[c].result = r)
    BY <1>3, SetReadyMoves
  <2>2. ~RequestSent(c)
    BY <2>1 DEF RequestSent
  <2>3. QED
    BY <1>3, <2>1, <2>2 DEF CallMoves, PastSending
<1>4. CASE ResolveSlot
  <2>1. SetReady({dispatcher.caller}, dispatcher.result) /\ dispatcher.pc = "resolve"
    BY <1>4 DEF ResolveSlot
  <2>2. QED
    BY <1>3, <2>1 DEF Resolving
<1>5. CASE Ending /\ ApplyError
  <2>1. PICK e, filed : /\ e = OutgoingRequestError(is_shutdown', write_state', read_state')
                        /\ e = NoResult => UNCHANGED <<slot, callers>>
                        /\ e # NoResult => SetReady(filed, e)
    BY <1>5 DEF ApplyError
  <2>2. e \in Endings \union {NoResult}
    BY <2>1, RefusalEnds, TypeStep DEF StatesTypeOK
  <2>3. QED
    BY <1>1, <1>3, <1>5, <2>1, <2>2
<1>6. QED
  BY <1>1, <1>2, <1>4, <1>5, CallersMove

\* A request is queued by its call alone, and once.
LEMMA SentOnceStep ==
  ASSUME TypeInv, CallInv, OutcomeInv, AnswerInv, RequestsSentOnce, [Next]_vars
  PROVE  RequestsSentOnce'
<1>1. ASSUME NEW p \in DOMAIN outbox, outbox[p].type = "Request"
      PROVE  \E c \in Callers : /\ callers'[c].id = outbox[p].id
                                /\ callers'[c].pc \notin {"idle", "registered"}
  <2>1. PICK c \in Callers : /\ callers[c].id = outbox[p].id
                             /\ callers[c].pc \notin {"idle", "registered"}
    BY <1>1 DEF RequestsSentOnce
  <2>2. callers[c].pc \in PastSending
    BY <2>1 DEF PastSending, TypeInv, CallersInv, CallersTypeOK
  <2>3. callers'[c].pc \in PastSending /\ callers'[c].id = callers[c].id
    BY <2>2, CallsMove DEF CallMoves
  <2>4. QED
    BY <2>1, <2>3 DEF PastSending
<1>2. CASE UNCHANGED outbox
  BY <1>1, <1>2 DEF RequestsSentOnce
<1>3. CASE Queues
  <2>1. PICK m \in OutgoingMessages : Push(m) /\ Warranted(m)
    BY <1>3 DEF Queues
  <2>2. PICK k : k = Len(outbox) + 1
    OBVIOUS
  <2>3. /\ DOMAIN outbox' = DOMAIN outbox \union {k} /\ k \notin DOMAIN outbox
        /\ \A p \in DOMAIN outbox : outbox'[p] = outbox[p]
        /\ outbox'[k] = m
    BY <2>1, <2>2, PushedAt DEF TypeInv, WriterInv
  <2>4. ASSUME m.type = "Request"
        PROVE  /\ \E c \in Callers : /\ callers'[c].id = m.id
                                     /\ callers'[c].pc \notin {"idle", "registered"}
               /\ \A q \in DOMAIN outbox : outbox[q] # m
    <3>1. PICK c \in Callers : RequestSent(c) /\ m = Request(callers[c].id)
      BY <2>1, <2>4 DEF Warranted
    <3>2. /\ m.id = callers[c].id /\ callers[c].pc = "registered"
          /\ callers'[c].pc = "sent" /\ callers'[c].id = callers[c].id
      BY <3>1, CallsMove DEF Request, CallMoves, RequestSent
    <3>3. callers[c].id \in OutgoingIds /\ callers[c].id # IdMax
      BY <3>2, InFlightId, BoundsAssumption DEF InFlight, OutgoingIds
    <3>4. ASSUME NEW q \in DOMAIN outbox, outbox[q] = m PROVE FALSE
      <4>1. PICK d \in Callers : /\ callers[d].id = m.id
                                 /\ callers[d].pc \notin {"idle", "registered"}
        BY <2>4, <3>4 DEF RequestsSentOnce
      <4>2. d # c /\ callers[d].id = callers[c].id
        BY <3>2, <4>1
      <4>3. QED
        BY <3>3, <4>2 DEF CallInv, OneCallPerId
    <3>5. QED
      BY <3>2, <3>4
  <2>5. QED
    BY <1>1, <2>3, <2>4 DEF RequestsSentOnce
<1>4. QED
  BY <1>2, <1>3, OutboxMoves

\* A response says whose request it answers.
LEMMA RespondStep ==
  ASSUME TypeInv, AnswerInv, ResponsesRespond, [Next]_vars
  PROVE  ResponsesRespond'
<1>1. ASSUME NEW p \in DOMAIN outbox, IsResponse(outbox[p])
      PROVE  /\ requests'[outbox[p].for].id = outbox[p].id
             /\ requests'[outbox[p].by].id = outbox[p].id
  BY <1>1, RequestsStay DEF AnswerInv, AnsweredWereRead, ResponsesRespond
<1>2. CASE UNCHANGED outbox
  BY <1>1, <1>2 DEF ResponsesRespond, IsResponse
<1>3. CASE Queues
  <2>1. PICK m \in OutgoingMessages : Push(m) /\ Warranted(m)
    BY <1>3 DEF Queues
  <2>2. QED
    BY <1>1, <2>1, PushedAt DEF ResponsesRespond, IsResponse, Warranted, TypeInv,
       WriterInv
<1>4. QED
  BY <1>2, <1>3, OutboxMoves

\* An answer reaches no call whose id was not on a response that was read.
LEMMA AnswersStep ==
  ASSUME TypeInv, CallInv, OutcomeInv, OneLineInHand, PeerTypeOK, ~Panics,
         [Next]_vars, [EndpointNext]_endpointVars,
         NEW A, NEW B, A \subseteq B, AnswersWithin(A),
         ReadMessage /\ inbound[received'].type = "Response"
           => inbound[received'].id \in B
  PROVE  AnswersWithin(B)'
<1>1. ASSUME dispatcher'.pc = "batch", dispatcher'.batch[1].type \in {"Success", "Error"}
      PROVE  dispatcher'.batch[1].id \in B
  <2>1. CASE UNCHANGED dispatcher
    BY <1>1, <2>1 DEF AnswersWithin
  <2>2. CASE ReadMessage
    <3>1. PICK r \in ReadAs(inbound[received']) : dispatcher'.batch = <<r>>
      BY <2>2, MessageRead
    <3>2. inbound[received'].type = "Response" /\ r.id = inbound[received'].id
      BY <1>1, <2>2, <3>1, MessageRead, ReadAsKinds
    <3>3. QED
      BY <2>2, <3>1, <3>2
  <2>3. QED
    BY <1>1, <2>1, <2>2, HandMoves
<1>2. ASSUME NEW c \in Callers, Resolving(c) PROVE callers[c].id \in A
  BY <1>2 DEF Resolving, AnswersWithin
<1>3. ASSUME NEW c \in Callers
      PROVE  /\ slot'[c].st \notin Unresolved /\ slot'[c].result \in AnswerResults
                  => callers'[c].id \in B
             /\ callers'[c].result \in AnswerResults => callers'[c].id \in B
  <2>1. CallMoves(c)
    BY CallsMove
  <2>2. /\ slot[c].st \notin Unresolved /\ slot[c].result \in AnswerResults
             => callers[c].id \in B
        /\ callers[c].result \in AnswerResults => callers[c].id \in B
    BY DEF AnswersWithin
  <2>3. \A r \in Endings \union {NoResult, Serialize, Message} : r \notin AnswerResults
    BY EndingsApart DEF Message, AnswerResults, Endings, Ok, Result, ToSessionError,
       ShutdownError, ErrorCauses, ReadCauses
  <2>4. CASE callers'[c].id = callers[c].id
    BY <1>2, <2>1, <2>2, <2>3, <2>4 DEF CallMoves
  <2>5. CASE /\ callers[c].pc = "idle" /\ slot'[c] = slot[c]
             /\ callers'[c].result = callers[c].result
    <3>1. slot[c].st = "None" /\ callers[c].result = NoResult
      BY <2>5 DEF OutcomeInv, SlotsFollowCalls
    <3>2. QED
      BY <2>3, <2>5, <3>1 DEF Unresolved
  <2>6. QED
    BY <2>1, <2>4, <2>5 DEF CallMoves
<1>4. ASSUME dispatcher'.pc = "resolve" PROVE callers'[dispatcher'.caller].id \in B
  <2>1. CASE UNCHANGED dispatcher
    <3>1. dispatcher.caller \in Callers /\ callers[dispatcher.caller].pc # "idle"
      BY <1>4, <2>1 DEF TypeInv, DispatcherInv, OutcomeInv, AnswerOnItsWay
    <3>2. callers'[dispatcher.caller].id = callers[dispatcher.caller].id
      BY <3>1, CallsMove DEF CallMoves
    <3>3. QED
      BY <1>4, <2>1, <3>2 DEF AnswersWithin
  <2>2. CASE OnResponse
    <3>1. PICK id : id = Head(dispatcher.batch).id
      OBVIOUS
    <3>2. /\ dispatcher.pc = "batch" /\ Head(dispatcher.batch) = dispatcher.batch[1]
          /\ dispatcher.batch[1].type \in {"Success", "Error"}
      BY <2>2, HeadIsFirst DEF OnResponse, TypeInv, DispatcherInv, DispatcherTypeOK
    <3>3. id \in A
      BY <3>1, <3>2 DEF AnswersWithin
    <3>4. PICK c : /\ c = dispatcher'.caller /\ id \in OutgoingIds
                   /\ c = outgoing_requests[id] /\ c # NoCaller
                   /\ UNCHANGED callers
      BY <1>4, <2>2, <3>1 DEF OnResponse, NextPc, TypeInv, DispatcherInv, DispatcherTypeOK
    <3>5. c \in Callers /\ callers[c].id = id
      BY <3>4, FiledInFlight, CallersAssumption DEF TypeInv, TableTypeOK
    <3>6. QED
      BY <3>3, <3>4, <3>5
  <2>3. CASE ~UNCHANGED dispatcher /\ ~OnResponse
    <3>1. ReaderStep
      BY <1>4, <2>3, ReaderMoves DEF TypeInv, DispatcherInv, DispatcherTypeOK
    <3>2. QED
      BY <1>4, <2>3, <3>1 DEF ReaderStep, ReadLine, ReadEnds, ReadFails,
         DispatchFails, Stops, OnNotification, FinishRead, ResolveSlot,
         OnRequest, HandlerReplies, HandlerSpawns, HandlerDisowns, Disown,
     HandlerPanics, InitFinish, NextPc, TypeInv, DispatcherInv,
         DispatcherTypeOK
  <2>4. QED
    BY <2>1, <2>2, <2>3
<1>5. QED
  BY <1>1, <1>3, <1>4 DEF AnswersWithin

\* Requests that were read under different ids are kept under them.
LEMMA RequestsStep ==
  ASSUME TypeInv, AnswerInv, OneLineInHand, PeerTypeOK, ~Panics,
         [Next]_vars, [EndpointNext]_endpointVars,
         NEW A, NEW B, A \subseteq B, RequestsWithin(A),
         ReadMessage /\ inbound[received'].type = "Request"
           => inbound[received'].id \in B \ A
  PROVE  RequestsWithin(B)'
<1>1. CASE OnRequest
  <2>1. PICK id, k : id = Head(dispatcher.batch).id /\ k = Len(requests) + 1
    OBVIOUS
  <2>2. /\ dispatcher.batch[1].id = id /\ dispatcher.pc = "batch"
        /\ dispatcher.batch[1].type = "Request"
    BY <1>1, <2>1, HeadIsFirst DEF OnRequest, TypeInv, DispatcherInv
  <2>3. id \in A /\ \A n \in DOMAIN requests : requests[n].id # id
    BY <2>2 DEF RequestsWithin
  <2>4. PICK r : /\ requests' = Append(requests, r) /\ r \in RequestRecords /\ r.id = id
    BY <1>1, <2>1, OnRequestArgs, NewRequestType DEF OnRequest, Fates
  <2>5. /\ DOMAIN requests' = DOMAIN requests \union {k} /\ requests'[k].id = id
        /\ \A n \in DOMAIN requests : requests'[n] = requests[n]
    BY <2>1, <2>4, ReadRequest
  <2>6. ~ReadMessage /\ ~UNCHANGED dispatcher
    <3>1. Tail(dispatcher.batch) = <<>>
      BY <2>2, NoRest DEF TypeInv, DispatcherInv
    <3>2. dispatcher'.pc # "batch"
      BY <1>1, <3>1 DEF OnRequest, NextPc, TypeInv, DispatcherInv, DispatcherTypeOK
    <3>3. QED
      BY <2>2, <3>2 DEF ReadMessage, ReadLine
  <2>7. dispatcher'.pc # "batch"
    BY <2>6, HandMoves
  <2>8. QED
    BY <2>3, <2>5, <2>7 DEF RequestsWithin
<1>2. CASE /\ DOMAIN requests' = DOMAIN requests
           /\ \A n \in DOMAIN requests : requests'[n].id = requests[n].id
  <2>1. CASE dispatcher'.pc = "batch" /\ dispatcher'.batch[1].type = "Request"
    <3>1. CASE UNCHANGED dispatcher
      BY <1>2, <2>1, <3>1 DEF RequestsWithin
    <3>2. CASE ReadMessage
      <4>1. PICK r \in ReadAs(inbound[received']) : dispatcher'.batch = <<r>>
        BY <3>2, MessageRead
      <4>2. r = inbound[received'] /\ r.type = "Request"
        BY <2>1, <3>2, <4>1, MessageRead, ReadAsKinds
      <4>3. dispatcher'.batch[1].id \in B \ A
        BY <3>2, <4>1, <4>2
      <4>4. QED
        BY <1>2, <4>3 DEF RequestsWithin
    <3>3. QED
      BY <2>1, <3>1, <3>2, HandMoves
  <2>2. QED
    BY <1>2, <2>1 DEF RequestsWithin
<1>3. QED
  BY <1>1, <1>2, RequestsMove

\* Two requests differ in their ids.
LEMMA SameRequest ==
  ASSUME NEW m \in OutgoingMessages, NEW n \in OutgoingMessages,
         m.type = "Request", n.type = "Request", m.id = n.id
  PROVE  m = n
BY DEF OutgoingMessages, Notification, ErrorWithoutId
-----------------------------------------------------------------------------
(* What an endpoint keeps                                                  *)

\* What holds of any session holds of an endpoint.
LEMMA SessionInit == Init => SessionInv
BY TypeInit, CallInit, OutcomeInit, AnswerInit DEF SessionInv

\* What holds of any session is kept.
LEMMA SessionStep == SessionInv /\ [Next]_vars => SessionInv'
BY TypeStep, CallStep, OutcomeStep, AnswerStep DEF SessionInv

\* What an endpoint keeps holds at first.
LEMMA EndpointInvInit == EndpointInit => EndpointInv
<1> SUFFICES ASSUME EndpointInit PROVE EndpointInv
  OBVIOUS
<1>1. SessionInv
  BY SessionInit DEF EndpointInit
<1>2. OneLineInHand /\ BreaksShow /\ WaitsTellErrors
  BY BreaksInit DEF EndpointInit, Init, TasksInit, OneLineInHand, WaitsTellErrors
<1>3. RequestsSentOnce /\ ResponsesRespond
  BY DEF EndpointInit, Init, TasksInit, RequestsSentOnce, ResponsesRespond
<1>4. QED
  BY <1>1, <1>2, <1>3 DEF EndpointInv

\* At first no call has an answer and nothing was read.
LEMMA NothingWithin == EndpointInit => AnswersWithin({}) /\ RequestsWithin({})
<1> SUFFICES ASSUME EndpointInit PROVE AnswersWithin({}) /\ RequestsWithin({})
  OBVIOUS
<1>1. AnswersWithin({})
  BY EndingsApart DEF EndpointInit, Init, TasksInit, OutgoingInit, AnswersWithin,
     Unresolved
<1>2. RequestsWithin({})
  BY DEF EndpointInit, Init, TasksInit, IncomingInit, RequestsWithin
<1>3. QED
  BY <1>1, <1>2

\* Every step of an endpoint keeps it, and is a step of a Session.
LEMMA EndpointInvStep ==
  ASSUME EndpointInv, PeerTypeOK, ~Panics, [EndpointNext]_endpointVars
  PROVE  EndpointInv' /\ [Next]_vars
<1>1. [Next]_vars
  BY EndpointStep DEF EndpointInv, SessionInv
<1>2. QED
  BY <1>1, SessionStep, OneLineStep, BreaksStep, WaitsTellStep, SentOnceStep,
     RespondStep DEF EndpointInv, SessionInv

\* A session that was shut down stays so.
LEMMA ShutdownStays == ASSUME [Next]_vars, is_shutdown PROVE is_shutdown'
<1>1. CASE UNCHANGED vars \/ Terminated
  BY <1>1 DEF vars, taskVars, Terminated
<1>2. CASE (\E c \in Callers : CallerStep(c)) \/ WriterStep \/ CancellerStep
  BY <1>2 DEF CallerStep, RequestRefused, RequestRegistered, RequestSent,
     SerializeFails, PollSlot, RequestReturns, RequestDropped, taskVars,
     WriterStep, FetchMessages, WriteMessage, Flush, WriteFails, writerFrame,
     CancellerStep, FetchCancellations, CallHook, cancellerFrame, FinishWrite,
     FinishCancel
<1>3. CASE \/ \E w \in Waiters : WaiterStep(w)
           \/ \E n \in HandlerIds : TaskStep(n)
           \/ RuntimeStep
  BY <1>3 DEF TaskStep, TaskReturns, TaskPanics, TaskFinish, TaskOutlivesSession,
     taskFrame, requestFrame, WaiterStep, WaitStart, WaitServer, WaitPop, WaitJoin,
     WaitReturn, WaitDropped, waitFrame, RuntimeStep, Reap
<1>4. CASE ReaderStep
  BY <1>4 DEF ReaderStep, ReadLine, ReadEnds, ReadFails, DispatchFails,
     OnNotification, readFrame, OnResponse, ResolveSlot, FinishRead,
     dispatcherFrame, OnRequest, HandlerReplies, HandlerSpawns, HandlerDisowns,
     Disown, HandlerPanics, InitFinish, requestFrame
<1>5. CASE ApplicationStep
  BY <1>5 DEF ApplicationStep, Shutdown, DropSession, ShutdownSession, Notify,
     CancelIncoming, requestFrame
<1>6. QED
  BY <1>1, <1>2, <1>3, <1>4, <1>5 DEF Next
-----------------------------------------------------------------------------
(* Nothing ends by itself                                                  *)

\* Nothing has ended at first.
LEMMA QuietInit == EndpointInit => Quiet
BY DEF EndpointInit, Init, TasksInit, OutgoingInit, Quiet, Erroneous, ErrorCauses,
   ReadCauses, SessionTaskSet

\* Writing fails only when the peer is gone.
LEMMA WritesFail ==
  ASSUME [EndpointNext]_endpointVars, writer # "failed", writer' = "failed"
  PROVE  ~peer_open
<1>1. CASE UNCHANGED endpointVars
  BY <1>1 DEF endpointVars, vars, taskVars
<1>2. CASE Read \/ TellPeer
  BY <1>2 DEF Read, ReadMessage, ReadEnd, HandlerCancels, Dispatch, TellPeer,
     ReaderStep, ReadLine, ReadEnds, ReadFails, DispatchFails, OnNotification,
     readFrame, FinishRead, finishFrame, OnResponse, ResolveSlot,
     dispatcherFrame, OnRequest, HandlerReplies, HandlerSpawns, HandlerDisowns,
     Disown, HandlerPanics, InitFinish, CancelIncoming, requestFrame,
     CancellerStep, FinishCancel, FetchCancellations, CallHook, cancellerFrame
<1>3. CASE Write
  BY <1>3 DEF Write
<1>4. ASSUME NEW t \in Tasks, ReapTask(t) PROVE writer' # "failed"
  BY <1>4 DEF ReapTask, Reap
<1>5. CASE \/ \E c \in Callers : CallerStep(c)
           \/ \E w \in Waiters : WaiterStep(w)
           \/ \E n \in HandlerIds : TaskStep(n)
           \/ Shutdown \/ DropSession \/ Notify
  BY <1>5 DEF CallerStep, RequestRefused, RequestRegistered, RequestSent,
     SerializeFails, PollSlot, RequestReturns, RequestDropped, taskVars,
     TaskStep, TaskReturns, TaskPanics, TaskFinish, TaskOutlivesSession,
     taskFrame, requestFrame, WaiterStep, WaitStart, WaitServer, WaitPop,
     WaitJoin, WaitReturn, WaitDropped, waitFrame, writerVars, Notify, Shutdown,
     DropSession, ShutdownSession
<1>6. QED
  BY <1>1, <1>2, <1>3, <1>4, <1>5 DEF EndpointNext

\* Only a shutdown aborts the tasks of the session.
LEMMA AbortsMove ==
  ASSUME [Next]_vars, ~ShutdownSession
  PROVE  aborted' \intersect SessionTaskSet = aborted \intersect SessionTaskSet
<1>1. \A n : HandlerTask(n) \notin SessionTaskSet
  BY DEF HandlerTask, SessionTaskSet, ReadTask, WriteTask, CancelTask
<1>2. ASSUME NEW ts, \A x \in ts : x \notin SessionTaskSet, PushAborts(ts)
      PROVE  aborted' \intersect SessionTaskSet = aborted \intersect SessionTaskSet
  BY <1>2 DEF PushAborts
<1>3. CASE UNCHANGED vars \/ Terminated
  BY <1>3 DEF vars, taskVars, Terminated
<1>4. CASE (\E c \in Callers : CallerStep(c)) \/ WriterStep \/ CancellerStep
  BY <1>4 DEF CallerStep, RequestRefused, RequestRegistered, RequestSent,
     SerializeFails, PollSlot, RequestReturns, RequestDropped, taskVars,
     WriterStep, FetchMessages, WriteMessage, Flush, WriteFails, writerFrame,
     CancellerStep, FetchCancellations, CallHook, cancellerFrame, FinishWrite,
     FinishCancel, finishFrame
<1>5. CASE \/ \E w \in Waiters : WaiterStep(w)
           \/ \E n \in HandlerIds : TaskStep(n)
           \/ RuntimeStep
  BY <1>5 DEF TaskStep, TaskReturns, TaskPanics, TaskFinish, TaskOutlivesSession,
     taskFrame, WaiterStep, WaitStart, WaitServer, WaitPop, WaitJoin,
     WaitReturn, WaitDropped, waitFrame, RuntimeStep, Reap
<1>6. CASE ReaderStep
  <2>1. CASE InitFinish
    <3>1. CASE UNCHANGED aborted
      BY <3>1
    <3>2. CASE ~UNCHANGED aborted
      <4>1. PushAborts({HandlerTask(dispatcher.req)})
        BY <2>1, <3>2 DEF InitFinish
      <4>2. \A x \in {HandlerTask(dispatcher.req)} : x \notin SessionTaskSet
        BY <1>1
      <4>3. QED
        BY <1>2, <4>1, <4>2
    <3>3. QED
      BY <3>1, <3>2
  <2>2. QED
    BY <1>6, <2>1 DEF ReaderStep, ReadLine, ReadEnds, ReadFails, DispatchFails,
       OnNotification, readFrame, OnResponse, ResolveSlot, FinishRead,
       finishFrame, dispatcherFrame, OnRequest, HandlerReplies, HandlerSpawns,
       HandlerDisowns, Disown, HandlerPanics
<1>7. CASE ApplicationStep
  <2>1. ASSUME NEW id \in RequestIds, CancelIncoming(id)
        PROVE  aborted' \intersect SessionTaskSet = aborted \intersect SessionTaskSet
    <3>1. \A x \in HeldTasks({id}) : x \notin SessionTaskSet
      BY <1>1 DEF HeldTasks
    <3>2. QED
      BY <1>2, <2>1, <3>1 DEF CancelIncoming
  <2>2. QED
    BY <1>7, <2>1 DEF ApplicationStep, Shutdown, DropSession, Notify
<1>8. QED
  BY <1>3, <1>4, <1>5, <1>6, <1>7 DEF Next

\* Only the cancel task moves itself, until it is dropped.
LEMMA CancellerMoves ==
  ASSUME [Next]_vars
  PROVE  UNCHANGED canceller \/ CancellerStep \/ Reap(CancelTask)
<1>1. CASE UNCHANGED vars \/ Terminated
  BY <1>1 DEF vars, taskVars, Terminated
<1>2. CASE (\E c \in Callers : CallerStep(c)) \/ WriterStep
  BY <1>2 DEF CallerStep, RequestRefused, RequestRegistered, RequestSent,
     SerializeFails, PollSlot, RequestReturns, RequestDropped, taskVars,
     WriterStep, FinishWrite, FetchMessages, WriteMessage, Flush, WriteFails,
     writerFrame
<1>3. CASE \/ \E w \in Waiters : WaiterStep(w)
           \/ \E n \in HandlerIds : TaskStep(n)
  BY <1>3 DEF TaskStep, TaskReturns, TaskPanics, TaskFinish, TaskOutlivesSession,
     taskFrame, requestFrame, WaiterStep, WaitStart, WaitServer, WaitPop, WaitJoin,
     WaitReturn, WaitDropped, waitFrame
<1>4. CASE RuntimeStep
  BY <1>4 DEF RuntimeStep, Reap
<1>5. CASE ReaderStep
  BY <1>5 DEF ReaderStep, ReadLine, ReadEnds, ReadFails, DispatchFails,
     OnNotification, readFrame, FinishRead, OnResponse, ResolveSlot,
     dispatcherFrame, OnRequest, HandlerReplies, HandlerSpawns, HandlerDisowns,
     Disown, HandlerPanics, InitFinish, requestFrame
<1>6. CASE ApplicationStep
  BY <1>6 DEF ApplicationStep, Shutdown, DropSession, ShutdownSession, Notify,
     CancelIncoming, requestFrame
<1>7. QED
  BY <1>1, <1>2, <1>3, <1>4, <1>5, <1>6 DEF Next

\* Nothing ends while nobody shuts the session down, the peer keeps its stream
\* and sends no error.
LEMMA QuietStep ==
  ASSUME EndpointInv, Quiet, PeerTypeOK, ~Panics, [EndpointNext]_endpointVars,
         ~is_shutdown', peer_open, ~inbound_cut,
         \A p \in DOMAIN inbound : inbound[p].type # "ErrorWithoutId"
  PROVE  Quiet'
<1>1. [Next]_vars /\ ~is_shutdown /\ ~ShutdownSession
  BY EndpointInvStep, ShutdownStays DEF ShutdownSession
<1>2. TypeInv /\ CallInv /\ OutcomeInv /\ AnswerInv /\ OneLineInHand /\ TypeInv'
  BY <1>1, TypeStep DEF EndpointInv, SessionInv
<1>3. ~Ending
  BY <1>1 DEF Ending, FinishRead, FinishWrite, FinishCancel, Quiet
<1>4. /\ read_state' = "Running" /\ write_state' = "Running" /\ cancel_state' = "Running"
      /\ aborted' \intersect SessionTaskSet = {}
  BY <1>1, <1>3, StatesMove, AbortsMove DEF Quiet
<1>5. ReadTask \notin aborted /\ WriteTask \notin aborted /\ CancelTask \notin aborted
  BY DEF Quiet, SessionTaskSet
<1>6. ~Erroneous'
  BY <1>1, <1>2, ErrorsCome DEF Quiet
<1>7. dispatcher'.pc \notin {"ended", "done"}
  <2>1. CASE UNCHANGED dispatcher
    BY <2>1 DEF Quiet
  <2>2. CASE dispatcher.pc = "await"
    <3>1. dispatcher'.pc # "ended"
      BY <1>2, <2>2, ReadFailsAtEnd DEF ReadEnd
    <3>2. dispatcher'.pc # "done"
      <4>1. ReaderStep \/ UNCHANGED dispatcher
        BY <1>1, <1>5, ReaderMoves DEF Reap
      <4>2. QED
        BY <1>2, <2>1, <2>2, <4>1 DEF ReaderStep, ReadLine, ReadEnds,
           ReadFails, Stops, DispatchFails, OnNotification, FinishRead,
           OnResponse, ResolveSlot, OnRequest, HandlerReplies, HandlerSpawns,
           HandlerDisowns, Disown,
     HandlerPanics, InitFinish,
           TypeInv, DispatcherInv, DispatcherTypeOK
    <3>3. QED
      BY <3>1, <3>2
  <2>3. CASE dispatcher.pc # "await" /\ ReaderStep
    <3>1. ~DispatchFails
      <4>1. SUFFICES ASSUME DispatchFails PROVE FALSE
        OBVIOUS
      <4>2. /\ dispatcher.batch # <<>> /\ Head(dispatcher.batch) = dispatcher.batch[1]
            /\ 1 \in DOMAIN dispatcher.batch
        BY <1>2, <4>1, HeadIsFirst DEF DispatchFails, TypeInv, DispatcherInv
      <4>3. QED
        BY <1>2, <4>1, <4>2 DEF DispatchFails, OneLineInHand, Quiet, Erroneous
    <3>2. QED
      BY <1>2, <2>3, <3>1 DEF ReaderStep, ReadLine, ReadEnds, ReadFails,
         OnNotification, FinishRead, OnResponse, ResolveSlot, OnRequest,
         HandlerReplies, HandlerSpawns, HandlerDisowns, Disown,
     HandlerPanics, InitFinish, NextPc, Quiet,
         TypeInv, DispatcherInv, DispatcherTypeOK
  <2>4. QED
    BY <1>1, <2>1, <2>2, <2>3, ReaderMoves
<1>8. writer' \notin {"ended", "failed", "done"}
  <2>1. writer' # "failed"
    BY WritesFail DEF Quiet
  <2>2. QED
    BY <1>1, <1>5, <2>1, WriterMoves DEF WriterStep, FinishWrite, FetchMessages,
       WriteMessage, Flush, WriteFails, Reap, Quiet
<1>9. canceller' \notin {"ended", "done"}
  BY <1>1, <1>5, CancellerMoves DEF CancellerStep, FinishCancel, FetchCancellations,
     CallHook, Reap, Quiet
<1>10. OutgoingRequestError(is_shutdown, write_state, read_state) = NoResult
  BY <1>1 DEF Quiet, OutgoingRequestError, ErrorCauses, ReadCauses
<1>11. ASSUME NEW c \in Callers
       PROVE  /\ slot'[c].result \in AnswerResults \union {NoResult}
              /\ callers'[c].result \in AnswerResults \union {NoResult, Serialize, Message}
  <2>1. CallMoves(c)
    BY <1>1, <1>2, CallsMove
  <2>2. /\ slot[c].result \in AnswerResults \union {NoResult}
        /\ callers[c].result \in AnswerResults \union {NoResult, Serialize, Message}
    BY DEF Quiet, Serialize, Message
  <2>3. Resolving(c) => dispatcher.result \in AnswerResults
    BY <1>2 DEF Resolving, OutcomeInv, AnswerOnItsWay
  <2>4. QED
    BY <1>3, <1>10, <2>1, <2>2, <2>3 DEF CallMoves
<1>12. QED
  BY <1>4, <1>6, <1>7, <1>8, <1>9, <1>11 DEF Quiet, Serialize, Message
-----------------------------------------------------------------------------
(* The lines on the wire                                                   *)

\* No more is on the wire than was queued.
LEMMA WireBound ==
  EndpointInv => /\ outbox \in Seq(OutgoingMessages)
                 /\ OnWire \in Nat /\ OnWire <= Len(outbox) /\ Len(outbox) \in Nat
<1> SUFFICES ASSUME TypeInv, BreaksShow
             PROVE  /\ outbox \in Seq(OutgoingMessages)
                    /\ OnWire \in Nat /\ OnWire <= Len(outbox) /\ Len(outbox) \in Nat
  BY DEF EndpointInv, SessionInv
<1>1. written \in Nat /\ written <= Len(outbox) /\ Len(outbox) \in Nat
  BY LenProperties DEF TypeInv, WriterInv, WriterTypeOK
<1>2. QED
  BY <1>1 DEF OnWire, BreaksShow, TypeInv, WriterInv, WriterTypeOK

\* What is on the wire stays there, and a line that is cut stays cut.
LEMMA WireStays ==
  ASSUME TypeInv, AnswerInv, BreaksShow, [Next]_vars, [EndpointNext]_endpointVars
  PROVE  OnWire <= OnWire' /\ (torn # "none" => torn' = torn)
<1>1. written \in Nat /\ written' \in Nat
  BY TypeStep DEF TypeInv, WriterInv, WriterTypeOK
<1>2. written <= written'
  BY <1>1, WriterMoves DEF WriterStep, FinishWrite, finishFrame, FetchMessages,
     WriteMessage, Flush, WriteFails, Reap
<1>3. torn # "none" => torn' = torn
  <2>1. torn' # torn => writer = "write"
    BY DEF EndpointNext, endpointVars, pipeVars, Read, ReadMessage, ReadEnd,
       HandlerCancels, Dispatch, Write, TellPeer, ReapTask
  <2>2. QED
    BY <2>1 DEF BreaksShow
<1>4. CASE torn = "whole" /\ ~Holding
  <2>1. writer = "done" /\ writer' = "done" /\ written' = written
    BY <1>4, WriterRests DEF BreaksShow
  <2>2. dispatcher'.pc \in {"ended", "done"}
    <3>1. ReaderStep \/ UNCHANGED dispatcher
      BY <1>4, ReaderMoves DEF Holding
    <3>2. QED
      BY <1>4, <3>1 DEF Holding, ReaderStep, ReadLine, ReadEnds, ReadFails,
         DispatchFails, OnNotification, FinishRead, OnResponse, ResolveSlot,
         OnRequest, HandlerReplies, HandlerSpawns, HandlerDisowns, Disown,
     HandlerPanics, InitFinish,
         TypeInv, DispatcherInv, DispatcherTypeOK
  <2>3. QED
    BY <1>1, <1>3, <1>4, <2>1, <2>2 DEF OnWire, Holding
<1>5. CASE ~(torn = "whole" /\ ~Holding)
  <2>1. OnWire = written
    BY <1>5 DEF OnWire
  <2>2. OnWire' = written' \/ OnWire' = written' + 1
    BY DEF OnWire
  <2>3. \A i, j \in Nat : i <= j => i <= j + 1
    OBVIOUS
  <2>4. QED
    BY <1>1, <1>2, <1>3, <2>1, <2>2, <2>3
<1>6. QED
  BY <1>3, <1>4, <1>5
=============================================================================
