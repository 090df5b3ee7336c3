--------------------------- MODULE SessionProofs ---------------------------
(***************************************************************************)
(* Proofs about Session for any number of calls, waits, requests and ids:  *)
(* every variable keeps its type.                                          *)
(***************************************************************************)
EXTENDS SessionInvariants, SequenceTheorems, TLAPS

stateVars == <<read_state, write_state, cancel_state, is_shutdown, session_open>>
cancellerVars == <<canceller, outgoing_cancellations, fetched, called>>
abortVars == <<aborted, aborts, waiters>>
tableVars == <<outgoing_requests, outgoing_request_id_next>>
callVars == <<slot, callers>>
-----------------------------------------------------------------------------
(* What the helpers return                                                 *)

LEMMA ResultTypes ==
  /\ Ok \in Results /\ NoResult \in Results /\ ShutdownError \in Results
  /\ \A x \in ErrorCauses : ToSessionError(x) \in Results
  /\ ToSessionError("Serialize") \in Results
  /\ ToSessionError("Deserialize") \in Results
  /\ Result("ErrorObject", "none") \in Results
  /\ Result("Message", "none") \in Results
BY DEF Ok, NoResult, ShutdownError, ToSessionError, Results, Result

LEMMA RefusalType ==
  ASSUME NEW shutdown \in BOOLEAN, NEW write \in TaskStates,
         NEW read \in TaskStates
  PROVE  OutgoingRequestError(shutdown, write, read) \in Results
BY ResultTypes DEF OutgoingRequestError, TaskStates

LEMMA ServerErrorType == StatesTypeOK => ServerError \in Results
BY ResultTypes DEF ServerError, StatesTypeOK, TaskStates

LEMMA FinishType ==
  ASSUME NEW state \in TaskStates,
         NEW r \in {Ok} \union {ToSessionError(x) : x \in ErrorCauses}
  PROVE  Finish(state, r) \in TaskStates
BY DEF Finish, TaskStates, Ok, ToSessionError, Result

LEMMA PushType ==
  ASSUME WriterInv, NEW m \in OutgoingMessages, Push(m),
         UNCHANGED <<taken, written, writer>>
  PROVE  WriterInv'
BY DEF WriterInv, WriterTypeOK, Push

\* The outbox after a push
LEMMA PushedAt ==
  ASSUME WriterTypeOK, NEW m \in OutgoingMessages, Push(m)
  PROVE  /\ DOMAIN outbox' = DOMAIN outbox \union {Len(outbox) + 1}
         /\ \A p \in DOMAIN outbox : outbox'[p] = outbox[p]
         /\ outbox'[Len(outbox) + 1] = m
         /\ Len(outbox) + 1 \notin DOMAIN outbox
<1>1. outbox \in Seq(OutgoingMessages) /\ outbox' = Append(outbox, m)
  BY DEF WriterTypeOK, Push
<1>2. /\ Len(outbox) \in Nat /\ DOMAIN outbox = 1..Len(outbox)
      /\ outbox' \in Seq(OutgoingMessages) /\ Len(outbox') = Len(outbox) + 1
  BY <1>1, LenProperties, AppendProperties
<1>3. DOMAIN outbox' = 1..(Len(outbox) + 1)
  BY <1>2, LenProperties
<1>4. QED
  BY <1>1, <1>2, <1>3, AppendProperties

LEMMA PushAbortsType ==
  ASSUME AbortsTypeOK, NEW ts \in SUBSET Tasks, PushAborts(ts), UNCHANGED waiters
  PROVE  AbortsTypeOK'
BY DEF AbortsTypeOK, PushAborts

LEMMA SetReadyType ==
  ASSUME CallersInv, NEW cs, NEW r \in Results, SetReady(cs, r)
  PROVE  CallersInv'
BY DEF CallersInv, CallersTypeOK, SetReady, InFlight

LEMMA ApplyErrorType ==
  ASSUME CallersInv, StatesTypeOK', ApplyError
  PROVE  CallersInv'
<1>1. OutgoingRequestError(is_shutdown', write_state', read_state') \in Results
  BY RefusalType DEF StatesTypeOK
<1>2. CASE UNCHANGED callVars
  BY <1>2 DEF CallersInv, CallersTypeOK, InFlight, callVars
<1>3. QED
  BY <1>1, <1>2, SetReadyType DEF ApplyError, callVars

\* A part of TypeInv holds on when the variables it is about do not change.
LEMMA Frame ==
  ASSUME TypeInv
  PROVE  /\ UNCHANGED stateVars => StatesTypeOK'
         /\ UNCHANGED writerVars => WriterInv'
         /\ UNCHANGED <<dispatcher, requests>> => DispatcherInv'
         /\ UNCHANGED <<handlers, requests>> => HandlersInv'
         /\ UNCHANGED abortVars => AbortsTypeOK'
         /\ UNCHANGED tableVars => TableTypeOK'
         /\ UNCHANGED callVars => CallersInv'
         /\ UNCHANGED cancellerVars => CancellerInv'
         /\ UNCHANGED incomingVars => IncomingTypeOK'
<1>1. UNCHANGED stateVars => StatesTypeOK'
  BY DEF TypeInv, StatesTypeOK, stateVars
<1>2. UNCHANGED writerVars => WriterInv'
  BY DEF TypeInv, WriterInv, WriterTypeOK, writerVars
<1>3. UNCHANGED <<dispatcher, requests>> => DispatcherInv'
  BY DEF TypeInv, DispatcherInv, DispatcherTypeOK
<1>4. UNCHANGED <<handlers, requests>> => HandlersInv'
  BY DEF TypeInv, HandlersInv, HandlersTypeOK
<1>5. UNCHANGED abortVars => AbortsTypeOK'
  BY DEF TypeInv, AbortsTypeOK, abortVars
<1>6. UNCHANGED tableVars => TableTypeOK'
  BY DEF TypeInv, TableTypeOK, tableVars
<1>7. UNCHANGED callVars => CallersInv'
  BY DEF TypeInv, CallersInv, CallersTypeOK, InFlight, callVars
<1>8. UNCHANGED cancellerVars => CancellerInv'
  BY DEF TypeInv, CancellerInv, CancellationsTypeOK, cancellerVars
<1>9. UNCHANGED incomingVars => IncomingTypeOK'
  BY DEF TypeInv, IncomingTypeOK, incomingVars
<1>10. QED
  BY <1>1, <1>2, <1>3, <1>4, <1>5, <1>6, <1>7, <1>8, <1>9
-----------------------------------------------------------------------------
(* The steps of the writer, of wait and of the runtime                     *)

LEMMA WriterStepType == ASSUME TypeInv, WriterStep PROVE TypeInv'
<1> DEFINE Rest == UNCHANGED <<outgoingVars, incomingVars>>
<1>1. CASE FetchMessages /\ Rest
  <2>1. WriterInv'
    BY <1>1 DEF TypeInv, WriterInv, WriterTypeOK, FetchMessages
  <2>2. QED
    BY <1>1, <2>1, Frame DEF TypeInv, FetchMessages, writerFrame, stateVars,
       abortVars, tableVars, callVars, cancellerVars, outgoingVars, incomingVars
<1>2. CASE WriteMessage /\ Rest
  <2>1. WriterInv'
    BY <1>2 DEF TypeInv, WriterInv, WriterTypeOK, WriteMessage
  <2>2. QED
    BY <1>2, <2>1, Frame DEF TypeInv, WriteMessage, writerFrame, stateVars,
       abortVars, tableVars, callVars, cancellerVars, outgoingVars, incomingVars
<1>3. CASE (Flush \/ WriteFails) /\ Rest
  <2>1. WriterInv'
    BY <1>3 DEF TypeInv, WriterInv, WriterTypeOK, Flush, WriteFails
  <2>2. QED
    BY <1>3, <2>1, Frame DEF TypeInv, Flush, WriteFails, writerFrame, stateVars,
       abortVars, tableVars, callVars, cancellerVars, outgoingVars, incomingVars
<1>4. CASE FinishWrite
  <2>1. StatesTypeOK'
    BY <1>4, FinishType DEF TypeInv, StatesTypeOK, FinishWrite, finishFrame,
       ErrorCauses
  <2>2. CallersInv'
    BY <1>4, <2>1, ApplyErrorType DEF TypeInv, FinishWrite
  <2>3. WriterInv'
    BY <1>4 DEF TypeInv, WriterInv, WriterTypeOK, FinishWrite, finishFrame
  <2>4. QED
    BY <1>4, <2>1, <2>2, <2>3, Frame DEF TypeInv, FinishWrite, finishFrame,
       abortVars, tableVars, cancellerVars, incomingVars
<1>5. QED
  BY <1>1, <1>2, <1>3, <1>4 DEF WriterStep

LEMMA WaiterStepType ==
  ASSUME TypeInv, NEW w \in Waiters, WaiterStep(w) PROVE TypeInv'
<1> USE DEF WaitStart, WaitServer, WaitPop, WaitJoin, WaitReturn, WaitDropped
<1>1. AbortsTypeOK'
  <2>1. CASE WaitPop(w)
    BY <2>1 DEF TypeInv, AbortsTypeOK, waitFrame
  <2>2. CASE WaitReturn(w)
    BY <2>2, ServerErrorType DEF TypeInv, AbortsTypeOK, waitFrame
  <2>3. CASE WaitStart(w) \/ WaitServer(w) \/ WaitJoin(w) \/ WaitDropped(w)
    BY <2>3 DEF TypeInv, AbortsTypeOK, waitFrame
  <2>4. QED
    BY <2>1, <2>2, <2>3 DEF WaiterStep
<1>2. QED
  BY <1>1, Frame DEF TypeInv, WaiterStep, waitFrame, writerVars, stateVars,
     tableVars, callVars, cancellerVars, outgoingVars, incomingVars

LEMMA RuntimeStepType == ASSUME TypeInv, RuntimeStep PROVE TypeInv'
<1>1. PICK t \in Tasks : Reap(t) /\ UNCHANGED <<outgoingVars, incomingVars>>
  BY DEF RuntimeStep
<1>2. WriterInv'
  BY <1>1 DEF TypeInv, WriterInv, WriterTypeOK, Reap
<1>3. DispatcherInv'
  BY <1>1 DEF TypeInv, DispatcherInv, DispatcherTypeOK, Reap, incomingVars,
     HasRequest
<1>4. CancellerInv'
  BY <1>1 DEF TypeInv, CancellerInv, CancellationsTypeOK, Reap, outgoingVars
<1>5. HandlersInv'
  BY <1>1 DEF TypeInv, HandlersInv, HandlersTypeOK, Reap, incomingVars
<1>6. QED
  BY <1>1, <1>2, <1>3, <1>4, <1>5, Frame DEF TypeInv, Reap, stateVars,
     abortVars, tableVars, callVars, outgoingVars, incomingVars
-----------------------------------------------------------------------------
(* The steps of a call and of the cancel task                              *)

LEMMA DropGuardType ==
  ASSUME TypeInv, NEW c \in Callers, InFlight(c),
         NEW pc \in {"returned", "withdrawn"}, NEW r \in Results,
         NEW received \in BOOLEAN, DropGuard(c, pc, r, received),
         UNCHANGED <<slot, outgoing_request_id_next, canceller, fetched, called>>
  PROVE  CallersInv' /\ TableTypeOK' /\ CancellerInv'
<1>1. callers[c].id \in OutgoingIds
  BY BoundsAssumption DEF TypeInv, CallersInv, CallersTypeOK, OutgoingIds
<1>2. CallersInv'
  BY DEF TypeInv, CallersInv, CallersTypeOK, DropGuard, InFlight
<1>3. TableTypeOK'
  BY DEF TypeInv, TableTypeOK, DropGuard
<1>4. CancellerInv'
  BY <1>1 DEF TypeInv, CancellerInv, CancellationsTypeOK, DropGuard
<1>5. QED
  BY <1>2, <1>3, <1>4

LEMMA CallerStepType ==
  ASSUME TypeInv, NEW c \in Callers, CallerStep(c) PROVE TypeInv'
<1> USE DEF CallerStep
<1>1. CASE RequestRefused(c)
  <2>1. PICK r \in Results :
          callers' = [callers EXCEPT ![c].pc = "returned", ![c].result = r]
    BY <1>1, RefusalType, ResultTypes DEF TypeInv, StatesTypeOK, RequestRefused
  <2>2. CallersInv'
    BY <1>1, <2>1 DEF TypeInv, CallersInv, CallersTypeOK, RequestRefused, InFlight
  <2>3. QED
    BY <1>1, <2>2, Frame DEF TypeInv, RequestRefused, taskVars, writerVars,
       stateVars, abortVars, tableVars, cancellerVars, incomingVars
<1>2. CASE RequestRegistered(c)
  <2>1. CallersInv'
    BY <1>2, BoundsAssumption DEF TypeInv, TableTypeOK, CallersInv,
       CallersTypeOK, RequestRegistered, NextId, InFlight
  <2>2. TableTypeOK'
    BY <1>2, BoundsAssumption DEF TypeInv, TableTypeOK, RequestRegistered,
       NextId, OutgoingIds
  <2>3. QED
    BY <1>2, <2>1, <2>2, Frame DEF TypeInv, RequestRegistered, taskVars,
       writerVars, stateVars, abortVars, cancellerVars, incomingVars
<1>3. CASE RequestSent(c)
  <2>1. Request(callers[c].id) \in OutgoingMessages
    BY <1>3, BoundsAssumption DEF TypeInv, CallersInv, CallersTypeOK, InFlight,
       RequestSent, Request, OutgoingMessages, OutgoingIds
  <2>2. WriterInv'
    BY <1>3, <2>1, PushType DEF TypeInv, RequestSent
  <2>3. CallersInv'
    BY <1>3 DEF TypeInv, CallersInv, CallersTypeOK, RequestSent, InFlight
  <2>4. QED
    BY <1>3, <2>2, <2>3, Frame DEF TypeInv, RequestSent, stateVars, abortVars,
       tableVars, cancellerVars, incomingVars
<1>4. CASE SerializeFails(c)
  <2>1. CallersInv' /\ TableTypeOK' /\ CancellerInv'
    BY <1>4, DropGuardType, ResultTypes DEF SerializeFails, InFlight, taskVars
  <2>2. QED
    BY <1>4, <2>1, Frame DEF TypeInv, SerializeFails, taskVars, writerVars,
       stateVars, abortVars, incomingVars
<1>5. CASE PollSlot(c)
  <2>1. PICK pc \in {"parked", "ready"}, st \in {"Waker", "End"} :
          /\ slot' = [slot EXCEPT ![c].st = st]
          /\ callers' = [callers EXCEPT ![c].pc = pc]
    BY <1>5 DEF PollSlot
  <2>2. InFlight(c)
    BY <1>5 DEF PollSlot, InFlight
  <2>3. CallersInv'
    BY <2>1, <2>2 DEF TypeInv, CallersInv, CallersTypeOK, InFlight
  <2>4. QED
    BY <1>5, <2>3, Frame DEF TypeInv, PollSlot, taskVars, writerVars,
       stateVars, abortVars, tableVars, cancellerVars, incomingVars
<1>6. CASE RequestReturns(c)
  <2>1. slot[c].result \in Results
    BY DEF TypeInv, CallersInv, CallersTypeOK
  <2>2. CallersInv' /\ TableTypeOK' /\ CancellerInv'
    BY <1>6, <2>1, DropGuardType DEF RequestReturns, InFlight, taskVars
  <2>3. QED
    BY <1>6, <2>2, Frame DEF TypeInv, RequestReturns, taskVars, writerVars,
       stateVars, abortVars, incomingVars
<1>7. CASE RequestDropped(c)
  <2>1. CallersInv' /\ TableTypeOK' /\ CancellerInv'
    BY <1>7, DropGuardType, ResultTypes DEF RequestDropped, InFlight, taskVars
  <2>2. QED
    BY <1>7, <2>1, Frame DEF TypeInv, RequestDropped, taskVars, writerVars,
       stateVars, abortVars, incomingVars
<1>8. QED
  BY <1>1, <1>2, <1>3, <1>4, <1>5, <1>6, <1>7

LEMMA CancellerStepType == ASSUME TypeInv, CancellerStep PROVE TypeInv'
<1>1. CASE FetchCancellations /\ UNCHANGED incomingVars
  <2>1. CancellerInv'
    BY <1>1 DEF TypeInv, CancellerInv, CancellationsTypeOK, FetchCancellations
  <2>2. QED
    BY <1>1, <2>1, Frame DEF TypeInv, FetchCancellations, cancellerFrame,
       writerVars, stateVars, abortVars, tableVars, callVars, incomingVars
<1>2. CASE CallHook /\ UNCHANGED incomingVars
  <2>1. CancellerInv'
    BY <1>2 DEF TypeInv, CancellerInv, CancellationsTypeOK, CallHook
  <2>2. Cancel(outgoing_cancellations[called']) \in OutgoingMessages
    BY <1>2 DEF TypeInv, CancellerInv, CancellationsTypeOK, CallHook, Cancel,
       OutgoingMessages
  <2>3. WriterInv'
    <3>1. CASE UNCHANGED outbox
      BY <1>2, <3>1, Frame DEF CallHook, cancellerFrame, writerVars
    <3>2. QED
      BY <1>2, <2>2, <3>1, PushType DEF TypeInv, CallHook, cancellerFrame
  <2>4. QED
    BY <1>2, <2>1, <2>3, Frame DEF TypeInv, CallHook, cancellerFrame,
       stateVars, abortVars, tableVars, callVars, incomingVars
<1>3. CASE FinishCancel
  <2>1. StatesTypeOK'
    BY <1>3, FinishType DEF TypeInv, StatesTypeOK, FinishCancel, finishFrame
  <2>2. CallersInv'
    BY <1>3, <2>1, ApplyErrorType DEF TypeInv, FinishCancel
  <2>3. CancellerInv'
    BY <1>3 DEF TypeInv, CancellerInv, CancellationsTypeOK, FinishCancel,
       finishFrame
  <2>4. QED
    BY <1>3, <2>1, <2>2, <2>3, Frame DEF TypeInv, FinishCancel, finishFrame,
       writerVars, abortVars, tableVars, incomingVars
<1>4. QED
  BY <1>1, <1>2, <1>3 DEF CancellerStep
-----------------------------------------------------------------------------
(* The steps of the read task                                              *)

\* The rest of a batch, after a message that has been dealt with
LEMMA RestType ==
  ASSUME DispatcherTypeOK, dispatcher.batch # <<>>
  PROVE  /\ Head(dispatcher.batch) \in IncomingMessages
         /\ Tail(dispatcher.batch) \in Seq(IncomingMessages)
         /\ Len(Tail(dispatcher.batch)) = Len(dispatcher.batch) - 1
         /\ HasRequest(Tail(dispatcher.batch)) => HasRequest(dispatcher.batch)
         /\ Head(dispatcher.batch).type = "Request" => HasRequest(dispatcher.batch)
         /\ NextPc(Tail(dispatcher.batch)) = "batch"
              => Tail(dispatcher.batch) # <<>>
         /\ NextPc(Tail(dispatcher.batch)) \in {"await", "batch"}
<1>1. dispatcher.batch \in Seq(IncomingMessages)
  BY DEF DispatcherTypeOK
<1>2. \A i \in DOMAIN Tail(dispatcher.batch) :
         /\ i + 1 \in DOMAIN dispatcher.batch
         /\ Tail(dispatcher.batch)[i] = dispatcher.batch[i + 1]
  BY <1>1
<1>3. QED
  BY <1>1, <1>2 DEF HasRequest, NextPc

LEMMA SkipType ==
  ASSUME TypeInv, dispatcher.batch # <<>>, UNCHANGED requests,
         NEW pc \in {"await", "batch", "resolve"},
         NEW caller \in Callers \union {NoCaller}, NEW r \in Results,
         pc = "batch" => Tail(dispatcher.batch) # <<>>,
         pc = "resolve" => caller \in Callers,
         dispatcher' = [dispatcher EXCEPT !.pc = pc, !.caller = caller,
                          !.batch = Tail(dispatcher.batch), !.result = r]
  PROVE  DispatcherInv'
<1>1. DispatcherTypeOK'
  BY RestType DEF TypeInv, DispatcherInv, DispatcherTypeOK
<1>2. /\ dispatcher'.pc = pc /\ dispatcher'.caller = caller
      /\ dispatcher'.batch = Tail(dispatcher.batch)
  BY DEF TypeInv, DispatcherInv, DispatcherTypeOK
<1>3. HasRequest(dispatcher.batch)'
        => Len(requests)' + Len(dispatcher.batch)' <= MaxRequests
  BY <1>2, RestType, BoundsAssumption
     DEF TypeInv, DispatcherInv, DispatcherTypeOK, IncomingTypeOK
<1>4. QED
  BY <1>1, <1>2, <1>3 DEF DispatcherInv

LEMMA ReaderLeafType ==
  ASSUME TypeInv, UNCHANGED readFrame,
         ReadLine \/ ReadEnds \/ ReadFails \/ DispatchFails \/ OnNotification
  PROVE  TypeInv'
<1>1. DispatcherInv'
  <2>1. CASE ReadLine
    BY <2>1, LinesAssumption DEF TypeInv, DispatcherInv, DispatcherTypeOK,
       ReadLine, HasRequest, readFrame, incomingVars
  <2>2. CASE ReadEnds \/ ReadFails \/ DispatchFails
    <3>1. PICK r \in {Ok} \union {ToSessionError(x) : x \in ReadCauses} : Stops(r)
      BY <2>2 DEF ReadEnds, ReadFails, DispatchFails, ReadCauses
    <3>2. r \in Results /\ <<>> \in Seq(IncomingMessages)
      BY ResultTypes DEF ErrorCauses
    <3>3. DispatcherTypeOK'
      BY <3>1, <3>2 DEF TypeInv, DispatcherInv, DispatcherTypeOK, Stops
    <3>4. dispatcher'.pc = "ended" /\ dispatcher'.batch = <<>> /\ dispatcher'.result = r
      BY <3>1 DEF TypeInv, DispatcherInv, DispatcherTypeOK, Stops
    <3>5. ~HasRequest(dispatcher.batch)'
      BY <3>4 DEF HasRequest
    <3>6. QED
      BY <3>1, <3>3, <3>4, <3>5 DEF DispatcherInv
  <2>3. CASE OnNotification
    <3>1. dispatcher.batch # <<>>
      BY <2>3 DEF TypeInv, DispatcherInv, OnNotification
    <3>2. QED
      <4>1. dispatcher' = [dispatcher EXCEPT
                !.pc = NextPc(Tail(dispatcher.batch)),
                !.caller = dispatcher.caller,
                !.batch = Tail(dispatcher.batch),
                !.result = dispatcher.result]
        BY <2>3 DEF TypeInv, DispatcherInv, DispatcherTypeOK, OnNotification
      <4>2. QED
        BY <3>1, <4>1, RestType, SkipType DEF TypeInv, DispatcherInv,
           DispatcherTypeOK, readFrame, incomingVars
  <2>4. QED
    BY <2>1, <2>2, <2>3
<1>2. QED
  BY <1>1, Frame DEF TypeInv, readFrame, writerVars, stateVars, abortVars,
     tableVars, callVars, cancellerVars, outgoingVars, incomingVars

LEMMA FinishReadType == ASSUME TypeInv, FinishRead PROVE TypeInv'
<1>1. dispatcher.result \in {Ok} \union {ToSessionError(x) : x \in ErrorCauses}
  BY DEF TypeInv, DispatcherInv, FinishRead, ErrorCauses
<1>2. StatesTypeOK'
  BY <1>1, FinishType DEF TypeInv, StatesTypeOK, FinishRead, finishFrame
<1>3. CallersInv'
  BY <1>2, ApplyErrorType DEF TypeInv, FinishRead
<1>4. DispatcherInv'
  BY DEF TypeInv, DispatcherInv, DispatcherTypeOK, FinishRead, finishFrame,
     incomingVars, HasRequest
<1>5. WriterInv'
  <2>1. CASE UNCHANGED outbox
    BY <2>1, Frame DEF FinishRead, finishFrame, writerVars
  <2>2. CASE Push(ErrorWithoutId)
    BY <2>2, PushType DEF TypeInv, FinishRead, finishFrame, OutgoingMessages
  <2>3. QED
    BY <2>1, <2>2 DEF FinishRead
<1>6. QED
  BY <1>2, <1>3, <1>4, <1>5, Frame DEF TypeInv, FinishRead, finishFrame,
     abortVars, tableVars, cancellerVars, incomingVars

LEMMA OnResponseType ==
  ASSUME TypeInv, OnResponse, UNCHANGED incomingVars PROVE TypeInv'
<1> DEFINE m == Head(dispatcher.batch)
           found == IF m.id \in OutgoingIds THEN outgoing_requests[m.id]
                    ELSE NoCaller
<1>1. dispatcher.batch # <<>>
  BY DEF TypeInv, DispatcherInv, OnResponse
<1>2. found \in Callers \union {NoCaller}
  BY DEF TypeInv, TableTypeOK
<1>3. ResponseResult(m) \in Results
  <2>1. m.type = "Success" => m.result \in {"value", "mistyped"}
    BY <1>1, RestType DEF TypeInv, DispatcherInv, IncomingMessages,
       Notification, ErrorWithoutId
  <2>2. QED
    BY <2>1, ResultTypes DEF OnResponse, ResponseResult
<1>4. DispatcherInv'
  <2>1. CASE found = NoCaller
    <3>1. dispatcher' = [dispatcher EXCEPT
              !.pc = NextPc(Tail(dispatcher.batch)),
              !.caller = dispatcher.caller,
              !.batch = Tail(dispatcher.batch), !.result = dispatcher.result]
      BY <2>1 DEF TypeInv, DispatcherInv, DispatcherTypeOK, OnResponse
    <3>2. QED
      BY <1>1, <3>1, RestType, SkipType DEF TypeInv, DispatcherInv,
         DispatcherTypeOK, incomingVars
  <2>2. CASE found # NoCaller
    <3>1. dispatcher' = [dispatcher EXCEPT !.pc = "resolve", !.caller = found,
              !.batch = Tail(dispatcher.batch), !.result = ResponseResult(m)]
      BY <2>2 DEF TypeInv, DispatcherInv, DispatcherTypeOK, OnResponse
    <3>2. QED
      BY <1>1, <1>2, <1>3, <2>2, <3>1, SkipType DEF incomingVars
  <2>3. QED
    BY <2>1, <2>2
<1>5. TableTypeOK'
  BY DEF TypeInv, TableTypeOK, OnResponse
<1>6. QED
  BY <1>4, <1>5, Frame DEF TypeInv, OnResponse, dispatcherFrame, writerVars,
     stateVars, abortVars, callVars, cancellerVars, incomingVars

LEMMA ResolveSlotType ==
  ASSUME TypeInv, ResolveSlot, UNCHANGED incomingVars PROVE TypeInv'
<1>1. CallersInv'
  BY SetReadyType DEF TypeInv, DispatcherInv, DispatcherTypeOK, ResolveSlot
<1>2. DispatcherInv'
  BY ResultTypes DEF TypeInv, DispatcherInv, DispatcherTypeOK, ResolveSlot,
     NextPc, incomingVars, HasRequest
<1>3. QED
  BY <1>1, <1>2, Frame DEF TypeInv, ResolveSlot, dispatcherFrame, writerVars,
     stateVars, abortVars, tableVars, cancellerVars, incomingVars
-----------------------------------------------------------------------------
(* The steps of incoming requests                                          *)

\* The sequence of the requests that were read
LEMMA RequestsSeq ==
  ASSUME IncomingTypeOK
  PROVE  /\ Len(requests) \in Nat /\ Len(requests) <= MaxRequests
         /\ DOMAIN requests = 1..Len(requests)
         /\ \A n \in DOMAIN requests : requests[n] \in RequestRecords
<1>1. requests \in Seq(RequestRecords) /\ Len(requests) <= MaxRequests
  BY DEF IncomingTypeOK
<1>2. /\ Len(requests) \in Nat /\ DOMAIN requests = 1..Len(requests)
      /\ requests \in [1..Len(requests) -> RequestRecords]
  BY <1>1, LenProperties
<1>3. QED
  BY <1>1, <1>2

\* A request that was read has an id.
LEMMA RequestType ==
  ASSUME IncomingTypeOK, NEW n \in DOMAIN requests
  PROVE  n \in HandlerIds /\ requests[n].id \in RequestIds
<1>1. n \in 1..Len(requests) /\ requests[n] \in RequestRecords
  BY RequestsSeq
<1>2. n \in HandlerIds
  BY <1>1, RequestsSeq, BoundsAssumption DEF HandlerIds
<1>3. QED
  BY <1>1, <1>2 DEF RequestRecords

LEMMA NewRequestType ==
  ASSUME NEW id \in RequestIds, NEW fate \in Fates
  PROVE  /\ NewRequest(id, fate) \in RequestRecords
         /\ NewRequest(id, fate).id = id /\ NewRequest(id, fate).fate = fate
BY DEF NewRequest, RequestRecords

\* Changing what became of requests keeps the sequence they are in.
LEMMA FatesType ==
  ASSUME IncomingTypeOK,
         requests' = [n \in DOMAIN requests |-> requests'[n]],
         \A n \in DOMAIN requests : requests'[n] \in RequestRecords
  PROVE  /\ requests' \in Seq(RequestRecords)
         /\ Len(requests)' = Len(requests)
         /\ DOMAIN requests' = DOMAIN requests
<1> DEFINE k == Len(requests)
<1>1. k \in Nat /\ DOMAIN requests = 1..k
  BY RequestsSeq
<1>2. requests' \in [1..k -> RequestRecords]
  BY <1>1
<1>3. requests' \in Seq(RequestRecords)
  BY <1>1, <1>2, SeqDef
<1>4. DOMAIN requests' = 1..k
  BY <1>1
<1>5. Len(requests)' = k
  BY <1>1, <1>3, <1>4, LenProperties
<1>6. QED
  BY <1>1, <1>3, <1>4, <1>5

\* What insert_incoming_request needs of the message and leaves room for
LEMMA OnRequestArgs ==
  ASSUME TypeInv, OnRequest
  PROVE  /\ dispatcher.batch # <<>>
         /\ Head(dispatcher.batch).id \in RequestIds
         /\ Len(requests) + 1 \in HandlerIds
         /\ Len(requests) + Len(dispatcher.batch) <= MaxRequests
<1>1. dispatcher.batch # <<>> /\ Head(dispatcher.batch).type = "Request"
  BY DEF TypeInv, DispatcherInv, OnRequest
<1>2. Head(dispatcher.batch).id \in RequestIds
  BY <1>1, RestType DEF TypeInv, DispatcherInv, IncomingMessages,
     Notification, ErrorWithoutId
<1>3. Len(requests) + Len(dispatcher.batch) <= MaxRequests
  BY <1>1, RestType DEF TypeInv, DispatcherInv
<1>4. Len(requests) \in Nat /\ Len(dispatcher.batch) \in Nat \ {0}
  BY <1>1 DEF TypeInv, DispatcherInv, DispatcherTypeOK, IncomingTypeOK
<1>5. QED
  BY <1>1, <1>2, <1>3, <1>4, BoundsAssumption DEF HandlerIds

LEMMA ReadOneMore ==
  ASSUME NEW a \in Nat, NEW b \in Nat, NEW bound \in Nat, a + b <= bound
  PROVE  (a + 1) + (b - 1) <= bound
OBVIOUS

LEMMA OnRequestType ==
  ASSUME TypeInv, OnRequest, UNCHANGED outgoingVars PROVE TypeInv'
<1> DEFINE m == Head(dispatcher.batch)
           rest == Tail(dispatcher.batch)
           n == Len(requests) + 1
<1>1. PICK fate \in {"reused", "open"} :
        requests' = Append(requests, NewRequest(m.id, fate))
  BY DEF OnRequest
<1>2. /\ requests' \in Seq(RequestRecords)
      /\ Len(requests)' = Len(requests) + 1
      /\ DOMAIN requests \subseteq DOMAIN requests'
      /\ n \in DOMAIN requests'
  <2>1. NewRequest(m.id, fate) \in RequestRecords
    BY OnRequestArgs, NewRequestType DEF Fates
  <2>2. requests \in Seq(RequestRecords)
    BY DEF TypeInv, IncomingTypeOK
  <2>3. requests' \in Seq(RequestRecords) /\ Len(requests)' = Len(requests) + 1
    BY <1>1, <2>1, <2>2, AppendProperties
  <2>4. DOMAIN requests' = 1..(Len(requests) + 1)
    BY <2>3, LenProperties
  <2>5. QED
    BY <2>3, <2>4, RequestsSeq DEF TypeInv
<1>3. IncomingTypeOK'
  <2>1. NewEntry(n) \in Entries
    BY OnRequestArgs DEF NewEntry, Entries
  <2>2. incoming_requests' \in [RequestIds -> Entries \union {NoEntry}]
    BY <2>1 DEF TypeInv, IncomingTypeOK, OnRequest
  <2>3. Len(requests)' <= MaxRequests
    BY <1>2, OnRequestArgs, BoundsAssumption DEF HandlerIds
  <2>4. QED
    BY <1>2, <2>2, <2>3 DEF IncomingTypeOK
<1>4. WriterInv'
  <2>1. CASE UNCHANGED outbox
    BY <2>1, Frame DEF OnRequest, requestFrame, writerVars
  <2>2. CASE Push(Response(m.id, n, n))
    <3>1. Response(m.id, n, n) \in OutgoingMessages
      BY OnRequestArgs DEF Response, OutgoingMessages
    <3>2. QED
      BY <2>2, <3>1, PushType DEF TypeInv, OnRequest, requestFrame
  <2>3. QED
    BY <2>1, <2>2 DEF OnRequest
<1>5. DispatcherInv'
  <2>1. PICK pc \in {"await", "batch", "handler"}, k \in {0} \union HandlerIds :
          /\ dispatcher' = [dispatcher EXCEPT !.pc = pc, !.batch = rest, !.req = k]
          /\ pc = "handler" => k = n
          /\ pc = "batch" => rest # <<>>
    <3>1. dispatcher.req \in {0} \union HandlerIds
      BY DEF TypeInv, DispatcherInv, DispatcherTypeOK
    <3>2. CASE dispatcher' = [dispatcher EXCEPT !.pc = NextPc(rest), !.batch = rest]
      <4>1. dispatcher' = [dispatcher EXCEPT !.pc = NextPc(rest), !.batch = rest,
                                             !.req = dispatcher.req]
        BY <3>2 DEF TypeInv, DispatcherInv, DispatcherTypeOK
      <4>2. QED
        BY <3>1, <4>1, OnRequestArgs, RestType DEF TypeInv, DispatcherInv
    <3>3. CASE dispatcher' = [dispatcher EXCEPT !.pc = "handler",
                                !.batch = rest, !.req = n]
      BY <3>3, OnRequestArgs
    <3>4. QED
      BY <3>2, <3>3 DEF OnRequest
  <2>2. DispatcherTypeOK'
    BY <2>1, OnRequestArgs, RestType DEF TypeInv, DispatcherInv, DispatcherTypeOK
  <2>3. /\ dispatcher'.pc = pc /\ dispatcher'.batch = rest /\ dispatcher'.req = k
    BY <2>1 DEF TypeInv, DispatcherInv, DispatcherTypeOK
  <2>4. Len(requests)' + Len(dispatcher.batch)' <= MaxRequests
    <3>1. Len(requests) \in Nat /\ Len(dispatcher.batch) \in Nat
      BY RequestsSeq DEF TypeInv, DispatcherInv, DispatcherTypeOK
    <3>2. Len(dispatcher.batch)' = Len(dispatcher.batch) - 1
      BY <2>3, OnRequestArgs, RestType DEF TypeInv, DispatcherInv
    <3>3. Len(requests) + Len(dispatcher.batch) <= MaxRequests
      BY OnRequestArgs
    <3>4. Len(requests)' = Len(requests) + 1
      BY <1>2
    <3>5. (Len(requests) + 1) + (Len(dispatcher.batch) - 1) <= MaxRequests
      BY <3>1, <3>3, ReadOneMore, BoundsAssumption
    <3>6. QED
      BY <3>2, <3>4, <3>5
  <2>5. QED
    BY <1>2, <2>1, <2>2, <2>3, <2>4 DEF DispatcherInv
<1>6. HandlersInv'
  BY <1>2 DEF TypeInv, HandlersInv, HandlersTypeOK, OnRequest
<1>7. QED
  BY <1>3, <1>4, <1>5, <1>6, Frame DEF TypeInv, OnRequest, requestFrame,
     stateVars, abortVars, tableVars, callVars, cancellerVars, outgoingVars

\* A handler changes nothing of the requests but that it may disown its own.
LEMMA HandlerRequests ==
  ASSUME TypeInv,
         HandlerReplies \/ HandlerSpawns \/ HandlerDisowns \/ HandlerPanics
  PROVE  /\ IncomingTypeOK' /\ UNCHANGED incoming_requests
         /\ Len(requests)' = Len(requests) /\ DOMAIN requests' = DOMAIN requests
         /\ \A n \in DOMAIN requests :
              /\ requests'[n].id = requests[n].id
              /\ requests'[n].fate = requests[n].fate
              /\ requests[n].disowned => requests'[n].disowned
         /\ dispatcher.pc = "spawned" => requests'[dispatcher.req].disowned
         /\ dispatcher.pc # "spawned" => UNCHANGED requests
<1>1. UNCHANGED incoming_requests
  BY DEF HandlerReplies, HandlerSpawns, HandlerDisowns, HandlerPanics,
     incomingVars
<1>2. CASE UNCHANGED requests /\ dispatcher.pc # "spawned"
  BY <1>1, <1>2 DEF TypeInv, IncomingTypeOK
<1>3. CASE Disown /\ dispatcher.pc = "spawned"
  <2>1. dispatcher.req \in DOMAIN requests
    BY <1>3 DEF TypeInv, DispatcherInv
  <2>2. \A n \in DOMAIN requests : requests[n] \in RequestRecords
    BY RequestsSeq DEF TypeInv
  <2>3. /\ requests' = [n \in DOMAIN requests |-> requests'[n]]
        /\ \A n \in DOMAIN requests :
             requests'[n] = IF n = dispatcher.req
                            THEN [requests[n] EXCEPT !.disowned = TRUE]
                            ELSE requests[n]
    BY <1>3, <2>1 DEF Disown
  <2>4. \A n \in DOMAIN requests :
          /\ requests'[n] \in RequestRecords
          /\ requests'[n].id = requests[n].id
          /\ requests'[n].fate = requests[n].fate
          /\ requests'[n].disowned <=> (n = dispatcher.req \/ requests[n].disowned)
    BY <2>2, <2>3 DEF RequestRecords
  <2>5. /\ requests' \in Seq(RequestRecords)
        /\ Len(requests)' = Len(requests) /\ DOMAIN requests' = DOMAIN requests
    BY <2>3, <2>4, FatesType DEF TypeInv
  <2>6. IncomingTypeOK'
    BY <1>1, <2>5 DEF TypeInv, IncomingTypeOK
  <2>7. QED
    BY <1>1, <1>3, <2>1, <2>4, <2>5, <2>6
<1>4. QED
  BY <1>2, <1>3 DEF HandlerReplies, HandlerSpawns, HandlerDisowns,
     HandlerPanics, incomingVars

LEMMA HandlerType ==
  ASSUME TypeInv, UNCHANGED outgoingVars,
         HandlerReplies \/ HandlerSpawns \/ HandlerDisowns \/ HandlerPanics
  PROVE  TypeInv'
<1>1. DispatcherInv'
  BY HandlerRequests DEF TypeInv, DispatcherInv, DispatcherTypeOK,
     HandlerReplies, HandlerSpawns, HandlerDisowns, HandlerPanics
<1>2. HandlersInv'
  BY HandlerRequests DEF TypeInv, HandlersInv, HandlersTypeOK, DispatcherInv,
     HandlerReplies, HandlerSpawns, HandlerDisowns, HandlerPanics
<1>3. QED
  BY <1>1, <1>2, HandlerRequests, Frame DEF TypeInv, HandlerReplies,
     HandlerSpawns, HandlerDisowns, HandlerPanics, requestFrame, writerVars,
     stateVars, abortVars, tableVars, callVars, cancellerVars, outgoingVars

LEMMA AnswerType ==
  ASSUME TypeInv, NEW id \in RequestIds, Filed(id), NEW by \in HandlerIds,
         Answer(id, incoming_requests[id], by), UNCHANGED <<taken, written, writer>>
  PROVE  WriterInv'
<1>1. incoming_requests[id].req \in HandlerIds
  BY DEF TypeInv, IncomingTypeOK, Filed, Entries
<1>2. Response(id, incoming_requests[id].req, by) \in OutgoingMessages
  BY <1>1 DEF Response, OutgoingMessages
<1>3. QED
  BY <1>2, PushType, Frame DEF TypeInv, Answer, writerVars

LEMMA RemoveType ==
  ASSUME TypeInv, NEW id \in RequestIds, Remove(id), UNCHANGED requests
  PROVE  IncomingTypeOK'
BY DEF TypeInv, IncomingTypeOK, Remove

LEMMA InitFinishType ==
  ASSUME TypeInv, InitFinish, UNCHANGED outgoingVars PROVE TypeInv'
<1> DEFINE n == dispatcher.req
           id == requests[n].id
           e == incoming_requests[id]
<1>1. n \in HandlerIds /\ n \in DOMAIN requests /\ id \in RequestIds
  <2>1. n \in DOMAIN requests
    BY DEF TypeInv, DispatcherInv, InitFinish
  <2>2. QED
    BY <2>1, RequestType DEF TypeInv
<1>2. DispatcherInv'
  <2>1. UNCHANGED requests /\ 0 \in {0} \union HandlerIds
    BY DEF InitFinish
  <2>2. QED
    BY <2>1, RestType DEF TypeInv, DispatcherInv, DispatcherTypeOK, InitFinish,
       NextPc, HasRequest
<1>3. WriterInv'
  BY <1>1, AnswerType, Frame DEF InitFinish, requestFrame, writerVars
<1>4. IncomingTypeOK'
  <2>1. CASE UNCHANGED incoming_requests \/ Remove(id)
    BY <1>1, <2>1, RemoveType DEF TypeInv, IncomingTypeOK, InitFinish
  <2>2. CASE /\ Filed(id)
             /\ incoming_requests' = [incoming_requests EXCEPT
                                         ![id].init = TRUE, ![id].task = ~e.abort]
    <3>1. e \in Entries
      BY <1>1, <2>2 DEF TypeInv, IncomingTypeOK, Filed
    <3>2. [e EXCEPT !.init = TRUE, !.task = ~e.abort] \in Entries
      BY <3>1 DEF Entries
    <3>3. QED
      BY <1>1, <2>2, <3>2 DEF TypeInv, IncomingTypeOK, InitFinish
  <2>3. QED
    BY <2>1, <2>2 DEF InitFinish
<1>5. AbortsTypeOK'
  <2>1. CASE UNCHANGED <<aborted, aborts>>
    BY <2>1, Frame DEF InitFinish, requestFrame, abortVars
  <2>2. CASE PushAborts({HandlerTask(n)})
    BY <1>1, <2>2, PushAbortsType DEF TypeInv, InitFinish, requestFrame, Tasks
  <2>3. QED
    BY <2>1, <2>2 DEF InitFinish
<1>6. QED
  BY <1>2, <1>3, <1>4, <1>5, Frame DEF TypeInv, InitFinish, requestFrame,
     stateVars, tableVars, callVars, cancellerVars, outgoingVars

LEMMA ReaderStepType == ASSUME TypeInv, ReaderStep PROVE TypeInv'
<1>1. CASE ReadLine \/ ReadEnds \/ ReadFails \/ DispatchFails \/ OnNotification
  BY <1>1, ReaderLeafType DEF ReadLine, ReadEnds, ReadFails, DispatchFails,
     OnNotification
<1>2. QED
  BY <1>1, FinishReadType, OnResponseType, ResolveSlotType, OnRequestType,
     HandlerType, InitFinishType DEF ReaderStep

LEMMA TaskStepType ==
  ASSUME TypeInv, NEW n \in HandlerIds, TaskStep(n) PROVE TypeInv'
<1> USE DEF TaskStep, TaskReturns, TaskPanics, TaskFinish, TaskOutlivesSession
<1>1. HandlersInv'
  BY DEF TypeInv, HandlersInv, HandlersTypeOK, taskFrame
<1>2. WriterInv' /\ IncomingTypeOK'
  <2>1. CASE UNCHANGED <<outbox, incoming_requests>>
    BY <2>1, Frame DEF taskFrame, requestFrame, writerVars, incomingVars
  <2>2. CASE TaskFinish(n) /\ Filed(requests[n].id)
    <3>1. requests[n].id \in RequestIds
      BY <2>2, RequestType DEF TypeInv, HandlersInv
    <3>2. QED
      BY <2>2, <3>1, AnswerType, RemoveType DEF taskFrame, requestFrame
  <2>3. QED
    BY <2>1, <2>2
<1>3. QED
  BY <1>1, <1>2, Frame DEF TypeInv, taskFrame, requestFrame, stateVars,
     abortVars, tableVars, callVars, cancellerVars, outgoingVars
-----------------------------------------------------------------------------
(* The steps of the application                                            *)

LEMMA HeldTasksType ==
  ASSUME IncomingTypeOK, NEW ids \in SUBSET RequestIds
  PROVE  HeldTasks(ids) \subseteq Tasks
<1>1. \A id \in ids : Filed(id) => incoming_requests[id].req \in HandlerIds
  BY DEF IncomingTypeOK, Filed, Entries
<1>2. QED
  BY <1>1 DEF HeldTasks, Tasks

LEMMA ShutdownType ==
  ASSUME TypeInv, ShutdownSession, session_open' \in BOOLEAN PROVE TypeInv'
<1>1. StatesTypeOK'
  BY FinishType DEF TypeInv, StatesTypeOK, ShutdownSession
<1>2. CallersInv'
  BY <1>1, ApplyErrorType DEF TypeInv, ShutdownSession
<1>3. AbortsTypeOK'
  <2>1. ShutdownAborts \in SUBSET Tasks
    BY HeldTasksType DEF TypeInv, ShutdownAborts, Tasks
  <2>2. QED
    BY <2>1, PushAbortsType DEF TypeInv, ShutdownSession
<1>4. /\ DOMAIN requests' = DOMAIN requests /\ Len(requests)' = Len(requests)
      /\ IncomingTypeOK'
  <2>1. incoming_requests' \in [RequestIds -> Entries \union {NoEntry}]
    BY DEF TypeInv, IncomingTypeOK, ShutdownSession, CancelAll, Entries, Filed
  <2>2. \A n \in DOMAIN requests :
          requests'[n] \in {requests[n], [requests[n] EXCEPT !.fate = "shutdown"]}
    BY DEF ShutdownSession, CancelAll
  <2>3. \A n \in DOMAIN requests : requests'[n] \in RequestRecords
    BY <2>2, RequestsSeq DEF TypeInv, RequestRecords, Fates
  <2>4. requests' = [n \in DOMAIN requests |-> requests'[n]]
    BY DEF ShutdownSession, CancelAll
  <2>5. QED
    BY <2>1, <2>3, <2>4, FatesType DEF TypeInv, IncomingTypeOK
<1>5. DispatcherInv'
  BY <1>4 DEF TypeInv, DispatcherInv, DispatcherTypeOK, ShutdownSession
<1>6. HandlersInv'
  BY <1>4 DEF TypeInv, HandlersInv, HandlersTypeOK, ShutdownSession
<1>7. QED
  BY <1>1, <1>2, <1>3, <1>4, <1>5, <1>6, Frame DEF TypeInv, ShutdownSession,
     writerVars, tableVars, cancellerVars

LEMMA CancelIncomingType ==
  ASSUME TypeInv, NEW id \in RequestIds, CancelIncoming(id),
         UNCHANGED outgoingVars
  PROVE  TypeInv'
<1> DEFINE e == incoming_requests[id]
<1>1. e.req \in HandlerIds
  BY DEF TypeInv, IncomingTypeOK, CancelIncoming, Filed, Entries
<1>2. WriterInv'
  <2>1. CASE UNCHANGED outbox
    BY <2>1, Frame DEF CancelIncoming, requestFrame, writerVars
  <2>2. CASE Push(Response(id, e.req, e.req))
    <3>1. Response(id, e.req, e.req) \in OutgoingMessages
      BY <1>1 DEF Response, OutgoingMessages
    <3>2. QED
      BY <2>2, <3>1, PushType DEF TypeInv, CancelIncoming, requestFrame
  <2>3. QED
    BY <2>1, <2>2 DEF CancelIncoming
<1>3. AbortsTypeOK'
  <2>1. HeldTasks({id}) \in SUBSET Tasks
    BY HeldTasksType DEF TypeInv
  <2>2. QED
    BY <2>1, PushAbortsType DEF TypeInv, CancelIncoming, requestFrame
<1>4. /\ DOMAIN requests' = DOMAIN requests /\ Len(requests)' = Len(requests)
      /\ requests' \in Seq(RequestRecords)
  <2>1. requests' = [requests EXCEPT
                        ![e.req] = [requests[e.req] EXCEPT !.fate = "cancelled"]]
    BY DEF CancelIncoming
  <2>2. \A n \in DOMAIN requests :
          requests'[n] \in {requests[n], [requests[n] EXCEPT !.fate = "cancelled"]}
    BY <2>1
  <2>3. \A n \in DOMAIN requests : requests'[n] \in RequestRecords
    BY <2>2, RequestsSeq DEF TypeInv, RequestRecords, Fates
  <2>4. requests' = [n \in DOMAIN requests |-> requests'[n]]
    BY <2>1
  <2>5. QED
    BY <2>3, <2>4, FatesType DEF TypeInv
<1>5. IncomingTypeOK'
  BY <1>4 DEF TypeInv, IncomingTypeOK, CancelIncoming, Remove
<1>6. DispatcherInv'
  BY <1>4 DEF TypeInv, DispatcherInv, DispatcherTypeOK, CancelIncoming
<1>7. HandlersInv'
  BY <1>4 DEF TypeInv, HandlersInv, HandlersTypeOK, CancelIncoming
<1>8. QED
  BY <1>2, <1>3, <1>5, <1>6, <1>7, Frame DEF TypeInv, CancelIncoming,
     requestFrame, stateVars, tableVars, callVars, cancellerVars, outgoingVars

LEMMA ApplicationStepType == ASSUME TypeInv, ApplicationStep PROVE TypeInv'
<1>1. CASE Shutdown
  BY <1>1, ShutdownType DEF TypeInv, StatesTypeOK, Shutdown
<1>2. CASE DropSession
  <2>1. CASE ShutdownSession
    BY <1>2, <2>1, ShutdownType DEF DropSession
  <2>2. CASE ~ShutdownSession
    <3>1. StatesTypeOK'
      BY <1>2, <2>2 DEF TypeInv, StatesTypeOK, DropSession
    <3>2. QED
      BY <1>2, <2>2, <3>1, Frame DEF TypeInv, DropSession, writerVars,
         abortVars, tableVars, callVars, cancellerVars, outgoingVars,
         incomingVars
  <2>3. QED
    BY <2>1, <2>2
<1>3. CASE Notify
  <2>1. WriterInv'
    BY <1>3, PushType DEF TypeInv, Notify, OutgoingMessages
  <2>2. QED
    BY <1>3, <2>1, Frame DEF TypeInv, Notify, stateVars, abortVars, tableVars,
       callVars, cancellerVars, outgoingVars, incomingVars
<1>4. QED
  BY <1>1, <1>2, <1>3, CancelIncomingType DEF ApplicationStep
-----------------------------------------------------------------------------
LEMMA TypeInit == Init => TypeInv
<1> SUFFICES ASSUME Init PROVE TypeInv
  OBVIOUS
<1> USE DEF Init, TasksInit, OutgoingInit, IncomingInit
<1>1. StatesTypeOK /\ HandlersInv /\ TableTypeOK
  <2>1. StatesTypeOK
    BY DEF StatesTypeOK, TaskStates
  <2>2. HandlersInv
    BY DEF HandlersInv, HandlersTypeOK
  <2>3. TableTypeOK
    BY BoundsAssumption DEF TableTypeOK
  <2>4. QED
    BY <2>1, <2>2, <2>3
<1>2. WriterInv /\ CancellerInv
  BY DEF WriterInv, WriterTypeOK, CancellerInv, CancellationsTypeOK
<1>3. DispatcherInv
  BY ResultTypes DEF DispatcherInv, DispatcherTypeOK, HasRequest
<1>4. AbortsTypeOK /\ CallersInv
  BY BoundsAssumption, ResultTypes DEF AbortsTypeOK, CallersInv, CallersTypeOK,
     InFlight
<1>5. IncomingTypeOK
  <2>1. <<>> \in Seq(RequestRecords) /\ Len(<<>>) = 0
    BY EmptySeq
  <2>2. QED
    BY <2>1, BoundsAssumption DEF IncomingTypeOK
<1>6. QED
  BY <1>1, <1>2, <1>3, <1>4, <1>5 DEF TypeInv

LEMMA TypeStep == TypeInv /\ [Next]_vars => TypeInv'
<1> SUFFICES ASSUME TypeInv, [Next]_vars PROVE TypeInv'
  OBVIOUS
<1>1. CASE UNCHANGED vars
  BY <1>1, Frame DEF TypeInv, vars, taskVars, outgoingVars, incomingVars,
     writerVars, stateVars, abortVars, tableVars, callVars, cancellerVars
<1>2. CASE Terminated
  BY <1>1, <1>2 DEF Terminated
<1>3. QED
  BY <1>1, <1>2, CallerStepType, WaiterStepType, TaskStepType, ReaderStepType,
     WriterStepType, CancellerStepType, RuntimeStepType, ApplicationStepType
     DEF Next

\* Every variable of a session keeps its type; in particular no cursor passes
\* the end of its queue, and every task that runs belongs to a request.
THEOREM TypeCorrect == Spec => []TypeOK
<1>1. TypeInv => TypeOK
  BY DEF TypeInv, TypeOK, TasksTypeOK, OutgoingTypeOK, WriterInv, DispatcherInv,
     HandlersInv, CallersInv, CancellerInv
<1>2. QED
  BY <1>1, TypeInit, TypeStep, PTL DEF Spec
=============================================================================
