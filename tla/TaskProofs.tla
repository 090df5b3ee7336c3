----------------------------- MODULE TaskProofs -----------------------------
(***************************************************************************)
(* Proofs about the tasks of Session for any number of calls, waits,       *)
(* requests and ids: no aborted task gets lost, wait joins them all, and   *)
(* the error of the reader is written.                                     *)
(***************************************************************************)
EXTENDS SessionProofs

\* No task that has finished runs again.
DoneStays ==
  /\ dispatcher.pc = "done" => dispatcher'.pc = "done"
  /\ writer = "done" => writer' = "done"
  /\ canceller = "done" => canceller' = "done"
  /\ \A n \in HandlerIds : handlers[n] = "done" => handlers'[n] = "done"

\* A step that takes no task out of the list of aborts
Tracks ==
  /\ UNCHANGED waiters
  /\ UNCHANGED <<aborted, aborts>> \/ \E ts \in SUBSET Tasks : PushAborts(ts)

LEMMA FinishedStays ==
  ASSUME DoneStays
  PROVE  \A t \in Tasks : Finished(t) => Finished(t)'
<1>1. ASSUME NEW t \in SessionTaskSet, Finished(t) PROVE Finished(t)'
  BY <1>1 DEF DoneStays, Finished, SessionTaskSet, ReadTask, WriteTask, CancelTask
<1>2. ASSUME NEW n \in HandlerIds, Finished(HandlerTask(n))
      PROVE  Finished(HandlerTask(n))'
  BY <1>2 DEF DoneStays, Finished, HandlerTask, ReadTask, WriteTask, CancelTask
<1>3. QED
  BY <1>1, <1>2 DEF Tasks

LEMMA TracksAborted ==
  ASSUME TypeInv, WaitInv, DoneStays, Tracks
  PROVE  PopsEmptyHanded' /\ AbortedIsTracked'
<1>1. PopsEmptyHanded'
  BY DEF WaitInv, PopsEmptyHanded, Tracks
<1>2. ASSUME NEW t \in aborted', ~(Finished(t)') PROVE t \in aborts' \/ HeldByWait(t)'
  <2>1. CASE t \in aborted
    <3>1. t \in aborts \/ HeldByWait(t)
      BY <1>2, <2>1, FinishedStays DEF WaitInv, AbortedIsTracked, TypeInv, AbortsTypeOK
    <3>2. QED
      BY <3>1 DEF Tracks, PushAborts, HeldByWait
  <2>2. CASE t \notin aborted
    BY <1>2, <2>2 DEF Tracks, PushAborts
  <2>3. QED
    BY <2>1, <2>2
<1>3. QED
  BY <1>1, <1>2 DEF AbortedIsTracked

\* Steps that leave the reader and the handlers alone
LEMMA OtherStepWait ==
  ASSUME TypeInv, WaitInv, UNCHANGED <<dispatcher, handlers>>, Tracks,
         writer = "done" => writer' = "done",
         canceller = "done" => canceller' = "done"
  PROVE  WaitInv'
<1>1. DoneStays
  BY DEF DoneStays
<1>2. SpawnedOnce'
  BY DEF WaitInv, SpawnedOnce
<1>3. QED
  BY <1>1, <1>2, TracksAborted DEF WaitInv

LEMMA TaskStepWait ==
  ASSUME TypeInv, WaitInv, NEW n \in HandlerIds, TaskStep(n) PROVE WaitInv'
<1> USE DEF TaskStep, TaskReturns, TaskPanics, TaskFinish, TaskOutlivesSession,
        taskFrame, requestFrame
<1>1. /\ UNCHANGED <<dispatcher, writer, canceller>> /\ Tracks
      /\ handlers[n] \in {"running", "returned"}
      /\ \A k \in HandlerIds \ {n} : handlers'[k] = handlers[k]
  BY DEF TypeInv, HandlersInv, HandlersTypeOK, Tracks, outgoingVars
<1>2. DoneStays
  BY <1>1 DEF DoneStays
<1>3. SpawnedOnce'
  <2> SUFFICES ASSUME dispatcher.pc = "handler"
               PROVE  handlers'[dispatcher.req] = "unborn"
    BY <1>1 DEF SpawnedOnce
  <2>1. dispatcher.req \in HandlerIds /\ handlers[dispatcher.req] = "unborn"
    BY RequestType DEF WaitInv, SpawnedOnce, TypeInv, DispatcherInv
  <2>2. QED
    BY <1>1, <2>1
<1>4. QED
  BY <1>2, <1>3, <1>1, TracksAborted DEF WaitInv

LEMMA ReapWait ==
  ASSUME TypeInv, WaitInv, RuntimeStep PROVE WaitInv'
<1> PICK t \in Tasks : Reap(t) /\ UNCHANGED <<outgoingVars, incomingVars>>
  BY DEF RuntimeStep
<1>1. Tracks
  BY DEF Tracks, Reap
<1>2. DoneStays
  BY DEF DoneStays, Reap, TypeInv, DispatcherInv, DispatcherTypeOK, HandlersInv,
     HandlersTypeOK
<1>3. SpawnedOnce'
  BY RequestType DEF SpawnedOnce, WaitInv, Reap, TypeInv, DispatcherInv,
     DispatcherTypeOK, HandlersInv, HandlersTypeOK
<1>4. QED
  BY <1>1, <1>2, <1>3, TracksAborted DEF WaitInv

LEMMA ReaderStepWait ==
  ASSUME TypeInv, WaitInv, ReaderStep PROVE WaitInv'
<1> USE DEF TypeInv, DispatcherInv, DispatcherTypeOK, HandlersInv, HandlersTypeOK
<1>1. /\ writer' = writer /\ canceller' = canceller /\ waiters' = waiters
      /\ dispatcher.pc # "done"
  BY DEF ReaderStep, ReadLine, ReadEnds, ReadFails, DispatchFails,
     OnNotification, readFrame, FinishRead, finishFrame, OnResponse,
     ResolveSlot, dispatcherFrame, OnRequest, HandlerReplies, HandlerSpawns,
     HandlerDisowns, Disown, HandlerPanics, InitFinish, requestFrame
<1>2. CASE OnRequest
  <2>1. Tracks /\ UNCHANGED handlers
    BY <1>2 DEF OnRequest, requestFrame, Tracks
  <2>2. DoneStays
    BY <1>1, <2>1 DEF DoneStays
  <2>3. ASSUME dispatcher'.pc = "handler" PROVE handlers'[dispatcher'.req] = "unborn"
    <3>1. dispatcher'.req = Len(requests) + 1
      BY <1>2, <2>3 DEF OnRequest, NextPc
    <3>2. Len(requests) + 1 \notin DOMAIN requests
      BY RequestsSeq
    <3>3. Len(requests) + 1 \in HandlerIds
      BY <1>2, OnRequestArgs
    <3>4. QED
      BY <2>1, <3>1, <3>2, <3>3
  <2>4. SpawnedOnce'
    BY <2>3 DEF SpawnedOnce
  <2>5. QED
    BY <2>1, <2>2, <2>4, TracksAborted DEF WaitInv
<1>3. CASE HandlerSpawns
  <2>1. Tracks
    BY <1>3 DEF HandlerSpawns, requestFrame, Tracks
  <2>2. handlers[dispatcher.req] = "unborn"
    BY <1>3 DEF HandlerSpawns, WaitInv, SpawnedOnce
  <2>3. DoneStays
    BY <1>1, <1>3, <2>2 DEF DoneStays, HandlerSpawns
  <2>4. SpawnedOnce'
    BY <1>3 DEF HandlerSpawns, SpawnedOnce
  <2>5. QED
    BY <2>1, <2>3, <2>4, TracksAborted DEF WaitInv
<1>4. CASE InitFinish
  <2>1. Tracks
    <3>1. {HandlerTask(dispatcher.req)} \in SUBSET Tasks
      BY <1>4, RequestType DEF InitFinish, Tasks
    <3>2. QED
      BY <1>1, <1>4, <3>1 DEF InitFinish, Tracks
  <2>2. DoneStays /\ SpawnedOnce'
    BY <1>1, <1>4 DEF InitFinish, requestFrame, DoneStays, SpawnedOnce, NextPc
  <2>3. QED
    BY <2>1, <2>2, TracksAborted DEF WaitInv
<1>5. CASE \/ ReadLine \/ ReadEnds \/ ReadFails \/ DispatchFails
           \/ OnNotification \/ FinishRead \/ OnResponse \/ ResolveSlot
           \/ HandlerReplies \/ HandlerDisowns \/ HandlerPanics
  <2>1. UNCHANGED <<handlers, aborted, aborts>> /\ dispatcher'.pc # "handler"
    BY <1>5 DEF ReadLine, ReadEnds, ReadFails, DispatchFails, OnNotification,
       Stops, readFrame, FinishRead, finishFrame, OnResponse, ResolveSlot,
       dispatcherFrame, HandlerReplies, HandlerDisowns, Disown, HandlerPanics,
       requestFrame, NextPc
  <2>2. Tracks /\ DoneStays /\ SpawnedOnce'
    BY <1>1, <2>1 DEF Tracks, DoneStays, SpawnedOnce
  <2>3. QED
    BY <2>2, TracksAborted DEF WaitInv
<1>6. QED
  BY <1>2, <1>3, <1>4, <1>5 DEF ReaderStep

\* The steps of wait: what leaves the list of aborts has finished or is held.
LEMMA WaiterStepWait ==
  ASSUME TypeInv, WaitInv, NEW w \in Waiters, WaiterStep(w) PROVE WaitInv'
<1> USE DEF TypeInv, AbortsTypeOK
<1>1. UNCHANGED <<dispatcher, writer, canceller, handlers, aborted>>
  BY DEF WaiterStep, WaitStart, WaitServer, WaitPop, WaitJoin, WaitReturn,
     WaitDropped, waitFrame, writerVars
<1>2. \A t \in Tasks : Finished(t)' = Finished(t)
  BY <1>1 DEF Finished
<1>3. SpawnedOnce'
  BY <1>1 DEF WaitInv, SpawnedOnce
<1>4. PopsEmptyHanded'
  BY DEF WaitInv, PopsEmptyHanded, WaiterStep, WaitStart, WaitServer, WaitPop,
     WaitJoin, WaitReturn, WaitDropped
<1>5. ASSUME NEW t \in aborted
      PROVE  Finished(t) \/ t \in aborts' \/ HeldByWait(t)'
  <2>1. t \in Tasks /\ (Finished(t) \/ t \in aborts \/ HeldByWait(t))
    BY DEF WaitInv, AbortedIsTracked
  <2>2. CASE WaitPop(w)
    <3>1. waiters[w].task = {}
      BY <2>2 DEF WaitInv, PopsEmptyHanded, WaitPop
    <3>2. t \in aborts => Finished(t) \/ t \in aborts' \/ HeldByWait(t)'
      BY <2>2 DEF WaitPop, HeldByWait
    <3>3. HeldByWait(t) => HeldByWait(t)'
      BY <2>2, <3>1 DEF WaitPop, HeldByWait
    <3>4. QED
      BY <2>1, <3>2, <3>3
  <2>3. CASE WaitJoin(w)
    BY <2>1, <2>3 DEF WaitJoin, HeldByWait
  <2>4. CASE WaitStart(w) \/ WaitServer(w) \/ WaitReturn(w) \/ WaitDropped(w)
    BY <2>1, <2>4 DEF WaitStart, WaitServer, WaitReturn, WaitDropped, HeldByWait
  <2>5. QED
    BY <2>2, <2>3, <2>4 DEF WaiterStep
<1>6. AbortedIsTracked'
  BY <1>1, <1>2, <1>5 DEF AbortedIsTracked
<1>7. QED
  BY <1>3, <1>4, <1>6 DEF WaitInv

LEMMA ShutdownWait ==
  ASSUME TypeInv, WaitInv, ShutdownSession PROVE WaitInv'
<1>1. ShutdownAborts \in SUBSET Tasks
  BY HeldTasksType DEF TypeInv, ShutdownAborts, Tasks
<1>2. Tracks
  BY <1>1 DEF ShutdownSession, Tracks
<1>3. QED
  BY <1>2, OtherStepWait DEF ShutdownSession

LEMMA ApplicationStepWait ==
  ASSUME TypeInv, WaitInv, ApplicationStep PROVE WaitInv'
<1>1. CASE Shutdown
  BY <1>1, ShutdownWait DEF Shutdown
<1>2. CASE DropSession
  <2>1. CASE ~ShutdownSession
    BY <1>2, <2>1, OtherStepWait DEF DropSession, Tracks
  <2>2. QED
    BY <2>1, ShutdownWait
<1>3. CASE Notify
  BY <1>3, OtherStepWait DEF Notify, Tracks
<1>4. CASE \E id \in RequestIds : CancelIncoming(id)
  <2>1. PICK id \in RequestIds : CancelIncoming(id)
    BY <1>4
  <2>2. HeldTasks({id}) \in SUBSET Tasks
    BY HeldTasksType DEF TypeInv
  <2>3. Tracks
    BY <2>1, <2>2 DEF CancelIncoming, requestFrame, Tracks
  <2>4. QED
    BY <2>1, <2>3, OtherStepWait DEF CancelIncoming, requestFrame
<1>5. QED
  BY <1>1, <1>2, <1>3, <1>4 DEF ApplicationStep

LEMMA CallerStepWait ==
  ASSUME TypeInv, WaitInv, NEW c \in Callers, CallerStep(c) PROVE WaitInv'
<1>1. UNCHANGED <<dispatcher, handlers, writer, canceller>> /\ Tracks
  BY DEF CallerStep, RequestRefused, RequestRegistered, RequestSent,
     SerializeFails, PollSlot, RequestReturns, RequestDropped, taskVars, Tracks
<1>2. QED
  BY <1>1, OtherStepWait

LEMMA WriterStepWait ==
  ASSUME TypeInv, WaitInv, WriterStep PROVE WaitInv'
<1>1. /\ UNCHANGED <<dispatcher, handlers, canceller>> /\ Tracks
      /\ writer # "done"
  BY DEF WriterStep, FinishWrite, finishFrame, FetchMessages, WriteMessage,
     Flush, WriteFails, writerFrame, Tracks
<1>2. QED
  BY <1>1, OtherStepWait

LEMMA CancellerStepWait ==
  ASSUME TypeInv, WaitInv, CancellerStep PROVE WaitInv'
<1>1. /\ UNCHANGED <<dispatcher, handlers, writer>> /\ Tracks
      /\ canceller # "done"
  BY DEF CancellerStep, FinishCancel, finishFrame, FetchCancellations, CallHook,
     cancellerFrame, Tracks
<1>2. QED
  BY <1>1, OtherStepWait

LEMMA WaitInit == Init => WaitInv
BY DEF Init, TasksInit, WaitInv, SpawnedOnce, PopsEmptyHanded, AbortedIsTracked

LEMMA WaitStep == TypeInv /\ WaitInv /\ [Next]_vars => WaitInv'
<1> SUFFICES ASSUME TypeInv, WaitInv, [Next]_vars PROVE WaitInv'
  OBVIOUS
<1>1. CASE UNCHANGED vars
  BY <1>1, OtherStepWait DEF vars, taskVars, Tracks
<1>2. CASE Terminated
  BY <1>1, <1>2 DEF Terminated
<1>3. QED
  BY <1>1, <1>2, CallerStepWait, WaiterStepWait, TaskStepWait, ReaderStepWait,
     WriterStepWait, CancellerStepWait, ReapWait, ApplicationStepWait DEF Next

LEMMA WaitsCorrect == Spec => []WaitInv
BY TypeInit, TypeStep, WaitInit, WaitStep, PTL DEF Spec

\* No aborted task is lost, however many waits come and go and whatever is
\* spawned, cancelled or shut down meanwhile.
THEOREM AbortedTasksTracked == Spec => []AbortedIsTracked
<1>1. WaitInv => AbortedIsTracked
  BY DEF WaitInv
<1>2. QED
  BY <1>1, WaitsCorrect, PTL

\* Only a call of wait moves a call of wait.
LEMMA OnlyWaitsMoveWaits ==
  ASSUME [Next]_vars
  PROVE  UNCHANGED waiters \/ \E w \in Waiters : WaiterStep(w)
<1>1. CASE UNCHANGED vars \/ Terminated
  BY <1>1 DEF vars, taskVars, Terminated
<1>2. CASE (\E c \in Callers : CallerStep(c)) \/ WriterStep \/ CancellerStep
  BY <1>2 DEF CallerStep, RequestRefused, RequestRegistered, RequestSent,
     SerializeFails, PollSlot, RequestReturns, RequestDropped, taskVars,
     WriterStep, FinishWrite, finishFrame, FetchMessages, WriteMessage, Flush,
     WriteFails, writerFrame, CancellerStep, FinishCancel, FetchCancellations,
     CallHook, cancellerFrame
<1>3. CASE (\E n \in HandlerIds : TaskStep(n)) \/ RuntimeStep
  BY <1>3 DEF TaskStep, TaskReturns, TaskPanics, TaskFinish, TaskOutlivesSession,
     taskFrame, requestFrame, RuntimeStep, Reap
<1>4. CASE ReaderStep
  BY <1>4 DEF ReaderStep, ReadLine, ReadEnds, ReadFails, DispatchFails,
     OnNotification, readFrame, FinishRead, finishFrame, OnResponse,
     ResolveSlot, dispatcherFrame, OnRequest, HandlerReplies, HandlerSpawns,
     HandlerDisowns, Disown, HandlerPanics, InitFinish, requestFrame
<1>5. CASE ApplicationStep
  BY <1>5 DEF ApplicationStep, Shutdown, DropSession, ShutdownSession, Notify,
     CancelIncoming, requestFrame
<1>6. QED
  BY <1>1, <1>2, <1>3, <1>4, <1>5 DEF Next

\* wait goes on to its report only when pop finds the list with no running
\* task; what is missing in it some other call of wait holds.
THEOREM WaitsJoinAborted == Spec => WaitJoinsAborted
<1> DEFINE Joined == \A w \in Waiters :
       waiters[w].pc = "popping" /\ waiters'[w].pc = "report" =>
         \A t \in aborted : \/ Finished(t)
                            \/ \E v \in Waiters \ {w} : t \in waiters[v].task
<1>1. ASSUME TypeInv, WaitInv, [Next]_vars PROVE Joined
  <2> SUFFICES ASSUME NEW w \in Waiters, waiters[w].pc = "popping",
                      waiters'[w].pc = "report", NEW t \in aborted, ~Finished(t)
               PROVE  \E v \in Waiters \ {w} : t \in waiters[v].task
    OBVIOUS
  <2>1. PICK u \in Waiters : WaiterStep(u)
    BY <1>1, OnlyWaitsMoveWaits
  <2>2. WaitPop(w) /\ t \notin aborts
    BY <1>1, <2>1 DEF WaiterStep, WaitStart, WaitServer, WaitPop, WaitJoin,
       WaitReturn, WaitDropped, TypeInv, AbortsTypeOK
  <2>3. waiters[w].task = {}
    BY <1>1 DEF WaitInv, PopsEmptyHanded
  <2>4. QED
    BY <1>1, <2>2, <2>3 DEF WaitInv, AbortedIsTracked, HeldByWait
<1>2. TypeInv /\ WaitInv /\ [Next]_vars => [Joined]_vars
  BY <1>1
<1>3. QED
  BY <1>2, TypeInit, TypeStep, WaitInit, WaitStep, PTL DEF Spec, WaitJoinsAborted
-----------------------------------------------------------------------------
(* The ends of the reader and of the writer                                *)

\* The order EndInv is about, of the queue and of the cursor that writes it
OutboxGrows ==
  /\ Len(outbox) <= Len(outbox')
  /\ \A p \in 1..Len(outbox) : outbox'[p] = outbox[p]

endVars == <<is_shutdown, read_state, write_state, writer, taken, written>>

LEMMA PushGrows ==
  ASSUME TypeInv, NEW m, m \in OutgoingMessages, Push(m)
  PROVE  /\ OutboxGrows /\ Len(outbox)' = Len(outbox) + 1
         /\ outbox'[Len(outbox) + 1] = m
BY AppendProperties DEF TypeInv, WriterInv, WriterTypeOK, Push, OutboxGrows

LEMMA SameOutboxGrows ==
  ASSUME TypeInv, UNCHANGED outbox PROVE OutboxGrows
BY DEF TypeInv, WriterInv, WriterTypeOK, OutboxGrows

\* Steps of the session in which neither reader nor writer ends
LEMMA QuietStepEnd ==
  ASSUME TypeInv, TypeInv', EndInv, UNCHANGED endVars, OutboxGrows,
         dispatcher.pc = "done" => dispatcher'.pc = "done"
  PROVE  EndInv'
<1> USE DEF endVars
<1>1. WriterEmptyHanded' /\ ReaderRuns' /\ WriterOutlivesReader'
  BY DEF EndInv, WriterEmptyHanded, ReaderRuns, WriterOutlivesReader, WriterOver
<1>2. /\ DOMAIN outbox = 1..Len(outbox) /\ DOMAIN outbox' = 1..Len(outbox')
      /\ Len(outbox) \in Nat /\ Len(outbox') \in Nat
      /\ written \in Nat /\ written <= Len(outbox)
  BY LenProperties DEF TypeInv, WriterInv, WriterTypeOK
<1>3. ReadErrorIsQueued'
  BY <1>2 DEF EndInv, ReadErrorIsQueued, OutboxGrows
<1>4. ReadErrorIsWritten'
  BY <1>2 DEF EndInv, ReadErrorIsWritten, OutboxGrows
<1>5. QED
  BY <1>1, <1>3, <1>4 DEF EndInv

\* Once the session is shut down EndInv is about the writer only.
LEMMA ShutdownEnd ==
  ASSUME TypeInv, EndInv, ShutdownSession PROVE EndInv'
BY DEF ShutdownSession, EndInv, WriterEmptyHanded, ReaderRuns,
   WriterOutlivesReader, ReadErrorIsQueued, ReadErrorIsWritten

LEMMA CallerStepEnd ==
  ASSUME TypeInv, TypeInv', EndInv, NEW c \in Callers, CallerStep(c) PROVE EndInv'
<1>1. UNCHANGED <<endVars, dispatcher>>
  BY DEF CallerStep, RequestRefused, RequestRegistered, RequestSent,
     SerializeFails, PollSlot, RequestReturns, RequestDropped, taskVars, endVars
<1>2. OutboxGrows
  <2>1. CASE RequestSent(c)
    <3>1. Request(callers[c].id) \in OutgoingMessages
      BY <2>1, BoundsAssumption DEF TypeInv, CallersInv, CallersTypeOK, InFlight,
         RequestSent, Request, OutgoingMessages, OutgoingIds
    <3>2. QED
      BY <2>1, <3>1, PushGrows DEF RequestSent
  <2>2. CASE ~RequestSent(c)
    BY <2>2, SameOutboxGrows DEF CallerStep, RequestRefused, RequestRegistered,
       SerializeFails, PollSlot, RequestReturns, RequestDropped, taskVars
  <2>3. QED
    BY <2>1, <2>2
<1>3. QED
  BY <1>1, <1>2, QuietStepEnd

LEMMA WriterStepEnd ==
  ASSUME TypeInv, TypeInv', EndInv, WriterStep PROVE EndInv'
<1> USE DEF TypeInv, WriterInv, WriterTypeOK
<1>1. UNCHANGED <<outbox, is_shutdown, read_state, dispatcher>>
  BY DEF WriterStep, FinishWrite, finishFrame, FetchMessages, WriteMessage,
     Flush, WriteFails, writerFrame
<1>2. WriterEmptyHanded'
  BY DEF EndInv, WriterEmptyHanded, WriterStep, FinishWrite, finishFrame,
     FetchMessages, WriteMessage, Flush, WriteFails
<1>3. ReaderRuns' /\ ReadErrorIsQueued'
  BY <1>1 DEF EndInv, ReaderRuns, ReadErrorIsQueued
<1>4. WriterOver' => WriterOver \/ writer' = "ended"
  BY DEF WriterOver, WriterStep, FinishWrite, Finish, ToSessionError, Result, Ok,
     FetchMessages, WriteMessage, Flush, WriteFails, writerFrame
<1>5. writer' = "ended" => read_state # "Running" /\ written' = Len(outbox)
  BY DEF EndInv, WriterEmptyHanded, WriterStep, FinishWrite, FetchMessages,
     WriteMessage, Flush, WriteFails
<1>6. WriterOutlivesReader'
  BY <1>1, <1>4, <1>5 DEF EndInv, WriterOutlivesReader
<1>7. ReadErrorIsWritten'
  <2> SUFFICES ASSUME ~is_shutdown, read_state \in ReadCauses, WriterOver'
               PROVE  \E p \in 1..written' : outbox[p] = ErrorWithoutId
    BY <1>1 DEF ReadErrorIsWritten, WriterOver
  <2>1. CASE WriterOver
    <3>1. written <= written'
      BY DEF WriterStep, FinishWrite, finishFrame, FetchMessages, WriteMessage,
         Flush, WriteFails
    <3>2. QED
      BY <2>1, <3>1 DEF EndInv, ReadErrorIsWritten, WriterOver
  <2>2. CASE writer' = "ended"
    BY <1>5, <2>2, LenProperties DEF EndInv, ReadErrorIsQueued
  <2>3. QED
    BY <1>4, <2>1, <2>2
<1>8. QED
  BY <1>2, <1>3, <1>6, <1>7 DEF EndInv

LEMMA FinishReadEnd ==
  ASSUME TypeInv, TypeInv', EndInv, FinishRead PROVE EndInv'
<1> USE DEF FinishRead, finishFrame
<1>1. WriterEmptyHanded' /\ ReaderRuns'
  BY DEF EndInv, WriterEmptyHanded, ReaderRuns, TypeInv, DispatcherInv,
     DispatcherTypeOK
<1>2. ~is_shutdown => read_state = "Running" /\ ~WriterOver
  BY DEF EndInv, ReaderRuns, WriterOutlivesReader
<1>3. UNCHANGED WriterOver
  BY DEF WriterOver
<1>4. read_state' \in ReadCauses /\ ~is_shutdown => dispatcher.result # Ok
  BY <1>2 DEF Finish, Ok, Result, ReadCauses
<1>5. ReadErrorIsQueued'
  <2> SUFFICES ASSUME ~is_shutdown', read_state' \in ReadCauses
               PROVE  \E p \in DOMAIN outbox' : outbox'[p] = ErrorWithoutId
    BY DEF ReadErrorIsQueued
  <2>1. Push(ErrorWithoutId) /\ ErrorWithoutId \in OutgoingMessages
    BY <1>4 DEF OutgoingMessages
  <2>2. /\ Len(outbox') = Len(outbox) + 1 /\ Len(outbox) \in Nat
        /\ outbox'[Len(outbox) + 1] = ErrorWithoutId
        /\ DOMAIN outbox' = 1..Len(outbox')
    BY <2>1, PushGrows, LenProperties DEF TypeInv, WriterInv, WriterTypeOK
  <2>3. QED
    BY <2>2
<1>6. WriterOutlivesReader' /\ ReadErrorIsWritten'
  BY <1>2, <1>3 DEF WriterOutlivesReader, ReadErrorIsWritten, WriterOver
<1>7. QED
  BY <1>1, <1>5, <1>6 DEF EndInv

LEMMA AnswerGrows ==
  ASSUME TypeInv, NEW id \in RequestIds, Filed(id), NEW by \in HandlerIds,
         Answer(id, incoming_requests[id], by)
  PROVE  OutboxGrows
<1>1. incoming_requests[id].req \in HandlerIds
  BY DEF TypeInv, IncomingTypeOK, Filed, Entries
<1>2. Response(id, incoming_requests[id].req, by) \in OutgoingMessages
  BY <1>1 DEF Response, OutgoingMessages
<1>3. QED
  BY <1>2, PushGrows, SameOutboxGrows DEF Answer

LEMMA ReaderStepEnd ==
  ASSUME TypeInv, TypeInv', EndInv, ReaderStep PROVE EndInv'
<1>1. CASE FinishRead
  BY <1>1, FinishReadEnd
<1>2. CASE ~FinishRead
  <2>1. UNCHANGED endVars /\ dispatcher.pc # "done"
    BY <1>2 DEF ReaderStep, ReadLine, ReadEnds, ReadFails, DispatchFails,
       OnNotification, readFrame, OnResponse, ResolveSlot, dispatcherFrame,
       OnRequest, HandlerReplies, HandlerSpawns, HandlerDisowns, Disown,
       HandlerPanics, InitFinish, requestFrame, endVars
  <2>2. OutboxGrows
    <3>1. CASE OnRequest
      <4> DEFINE m == Head(dispatcher.batch)
                 n == Len(requests) + 1
      <4>1. Response(m.id, n, n) \in OutgoingMessages
        BY <3>1, OnRequestArgs DEF Response, OutgoingMessages
      <4>2. QED
        BY <3>1, <4>1, PushGrows, SameOutboxGrows DEF OnRequest
    <3>2. CASE InitFinish
      <4>1. dispatcher.req \in DOMAIN requests
        BY <3>2 DEF TypeInv, DispatcherInv, InitFinish
      <4>2. dispatcher.req \in HandlerIds /\ requests[dispatcher.req].id \in RequestIds
        BY <4>1, RequestType DEF TypeInv
      <4>3. QED
        BY <3>2, <4>2, AnswerGrows, SameOutboxGrows DEF InitFinish
    <3>3. CASE ~OnRequest /\ ~InitFinish
      BY <1>2, <3>3, SameOutboxGrows DEF ReaderStep, ReadLine, ReadEnds,
         ReadFails, DispatchFails, OnNotification, readFrame, OnResponse,
         ResolveSlot, dispatcherFrame, HandlerReplies, HandlerSpawns,
         HandlerDisowns, Disown,
     HandlerPanics
    <3>4. QED
      BY <3>1, <3>2, <3>3
  <2>3. QED
    BY <2>1, <2>2, QuietStepEnd
<1>3. QED
  BY <1>1, <1>2

LEMMA TaskStepEnd ==
  ASSUME TypeInv, TypeInv', EndInv, NEW n \in HandlerIds, TaskStep(n) PROVE EndInv'
<1> USE DEF TaskStep, TaskReturns, TaskPanics, TaskFinish, TaskOutlivesSession,
        taskFrame, requestFrame
<1>1. UNCHANGED <<endVars, dispatcher>>
  BY DEF endVars
<1>2. OutboxGrows
  <2>1. CASE UNCHANGED outbox
    BY <2>1, SameOutboxGrows
  <2>2. CASE TaskFinish(n) /\ Filed(requests[n].id)
    <3>1. requests[n].id \in RequestIds
      BY <2>2, RequestType DEF TypeInv, HandlersInv
    <3>2. QED
      BY <2>2, <3>1, AnswerGrows
  <2>3. QED
    BY <2>1, <2>2
<1>3. QED
  BY <1>1, <1>2, QuietStepEnd

LEMMA WaiterStepEnd ==
  ASSUME TypeInv, TypeInv', EndInv, NEW w \in Waiters, WaiterStep(w) PROVE EndInv'
<1>1. UNCHANGED <<endVars, dispatcher, outbox>>
  BY DEF WaiterStep, WaitStart, WaitServer, WaitPop, WaitJoin, WaitReturn,
     WaitDropped, waitFrame, writerVars, endVars
<1>2. QED
  BY <1>1, SameOutboxGrows, QuietStepEnd

LEMMA CancellerStepEnd ==
  ASSUME TypeInv, TypeInv', EndInv, CancellerStep PROVE EndInv'
<1>1. UNCHANGED <<endVars, dispatcher>>
  BY DEF CancellerStep, FinishCancel, finishFrame, FetchCancellations, CallHook,
     cancellerFrame, endVars
<1>2. OutboxGrows
  <2>1. CASE UNCHANGED outbox
    BY <2>1, SameOutboxGrows
  <2>2. CASE CallHook /\ ~UNCHANGED outbox
    <3>1. Cancel(outgoing_cancellations[called']) \in OutgoingMessages
      BY <2>2 DEF TypeInv, CancellerInv, CancellationsTypeOK, CallHook, Cancel,
         OutgoingMessages
    <3>2. QED
      BY <2>2, <3>1, PushGrows DEF CallHook
  <2>3. QED
    BY <2>1, <2>2 DEF CancellerStep, FinishCancel, FetchCancellations
<1>3. QED
  BY <1>1, <1>2, QuietStepEnd

\* A task that is dropped finishes nothing: its state stays what it was.
LEMMA ReapEnd == ASSUME TypeInv, EndInv, RuntimeStep PROVE EndInv'
<1> PICK t \in Tasks : Reap(t) /\ UNCHANGED <<outgoingVars, incomingVars>>
  BY DEF RuntimeStep
<1>1. /\ UNCHANGED <<outbox, taken, written, is_shutdown, read_state, write_state>>
      /\ writer' \in {writer, "done"}
      /\ dispatcher.pc = "done" => dispatcher'.pc = "done"
  BY DEF Reap, TypeInv, DispatcherInv, DispatcherTypeOK
<1>2. WriterOver' => WriterOver
  BY <1>1 DEF WriterOver
<1>3. WriterEmptyHanded' /\ ReaderRuns' /\ WriterOutlivesReader'
  BY <1>1, <1>2 DEF EndInv, WriterEmptyHanded, ReaderRuns, WriterOutlivesReader
<1>4. ReadErrorIsQueued' /\ ReadErrorIsWritten'
  BY <1>1 DEF EndInv, ReadErrorIsQueued, ReadErrorIsWritten
<1>5. QED
  BY <1>3, <1>4 DEF EndInv

LEMMA ApplicationStepEnd ==
  ASSUME TypeInv, TypeInv', EndInv, ApplicationStep PROVE EndInv'
<1>1. CASE Shutdown
  BY <1>1, ShutdownEnd DEF Shutdown
<1>2. CASE DropSession
  <2>1. CASE ~ShutdownSession
    BY <1>2, <2>1, SameOutboxGrows, QuietStepEnd DEF DropSession, endVars
  <2>2. QED
    BY <2>1, ShutdownEnd
<1>3. CASE Notify
  <2>1. OutboxGrows
    BY <1>3, PushGrows DEF Notify, OutgoingMessages
  <2>2. QED
    BY <1>3, <2>1, QuietStepEnd DEF Notify, endVars
<1>4. CASE \E id \in RequestIds : CancelIncoming(id)
  <2>1. PICK id \in RequestIds : CancelIncoming(id)
    BY <1>4
  <2>2. incoming_requests[id].req \in HandlerIds
    BY <2>1 DEF TypeInv, IncomingTypeOK, CancelIncoming, Filed, Entries
  <2>3. Response(id, incoming_requests[id].req, incoming_requests[id].req)
          \in OutgoingMessages
    BY <2>2 DEF Response, OutgoingMessages
  <2>4. OutboxGrows
    BY <2>1, <2>3, PushGrows, SameOutboxGrows DEF CancelIncoming
  <2>5. QED
    BY <2>1, <2>4, QuietStepEnd DEF CancelIncoming, requestFrame, endVars
<1>5. QED
  BY <1>1, <1>2, <1>3, <1>4 DEF ApplicationStep

LEMMA EndInit == Init => EndInv
BY DEF Init, TasksInit, EndInv, WriterEmptyHanded, ReaderRuns,
   WriterOutlivesReader, WriterOver, ReadErrorIsQueued, ReadErrorIsWritten,
   ReadCauses

LEMMA EndStep == TypeInv /\ EndInv /\ [Next]_vars => EndInv'
<1> SUFFICES ASSUME TypeInv, EndInv, [Next]_vars PROVE EndInv'
  OBVIOUS
<1>1. TypeInv'
  BY TypeStep
<1>2. CASE UNCHANGED vars
  BY <1>1, <1>2, SameOutboxGrows, QuietStepEnd DEF vars, taskVars, endVars
<1>3. CASE Terminated
  BY <1>2, <1>3 DEF Terminated
<1>4. QED
  BY <1>1, <1>2, <1>3, CallerStepEnd, WaiterStepEnd, TaskStepEnd, ReaderStepEnd,
     WriterStepEnd, CancellerStepEnd, ReapEnd, ApplicationStepEnd DEF Next

\* A peer whose bytes the reader refused is told so before the writer ends by
\* itself, whatever else is queued or written meanwhile.
THEOREM ReadErrorsWritten == Spec => []ReadErrorIsWritten
<1>1. EndInv => ReadErrorIsWritten
  BY DEF EndInv
<1>2. QED
  BY <1>1, TypeInit, TypeStep, EndInit, EndStep, PTL DEF Spec
=============================================================================
