-------------------------- MODULE OutgoingRequests --------------------------
(***************************************************************************)
(* The calling side of a session: Session::request and its                 *)
(* OutgoingRequestGuard, the table of outgoing requests, the slot a caller *)
(* polls for its response, and the task that reports abandoned requests to *)
(* Hook::cancel_outgoing_request.                                          *)
(*                                                                         *)
(* A slot is an Arc<Mutex<OutgoingRequestState>> shared by the table and   *)
(* the guard. It is named by its caller, who keeps it after the table has  *)
(* let go of it; outgoing_requests[id] is the caller whose slot is filed   *)
(* under id, NoCaller when there is no entry. A call that got no id has    *)
(* IdMax for one.                                                          *)
(***************************************************************************)
EXTENDS SessionTasks

VARIABLES
  outgoing_requests,
  outgoing_request_id_next,
  slot,                   \* OutgoingRequestState of each caller's request
  callers,                \* where each call of Session::request stands
  outgoing_cancellations, \* every id ever pushed on that queue
  fetched,                \* how many the QueueReader of run_cancel_task took
  called                  \* how many the hook has been called with

outgoingVars == <<outgoing_requests, outgoing_request_id_next, slot, callers,
                  outgoing_cancellations, fetched, called>>

Unresolved == {"None", "Waker"}
InFlight(c) ==
  callers[c].pc \in {"registered", "sent", "parked", "woken", "ready"}
-----------------------------------------------------------------------------
\* Mutant: the waker is dropped, not woken.
SetReadyWithoutWake(cs, r) ==
  /\ slot' = [c \in Callers |->
                IF c \in cs /\ slot[c].st \in Unresolved
                THEN [st |-> "Ready", result |-> r] ELSE slot[c]]
  /\ UNCHANGED callers

\* Mutant: a later result replaces the one a slot has.
SetReadyOverwrites(cs, r) ==
  /\ slot' = [c \in Callers |->
                IF c \in cs /\ slot[c].st # "End"
                THEN [st |-> "Ready", result |-> r] ELSE slot[c]]
  /\ callers' = [c \in Callers |->
                   IF /\ c \in cs
                      /\ slot[c].st = "Waker"
                      /\ callers[c].pc = "parked"
                   THEN [callers[c] EXCEPT !.pc = "woken"] ELSE callers[c]]

\* OutgoingRequest::set_ready on the slots of cs: the first result stays, and
\* the waker left by a pending poll is woken. A waker outlives a dropped call.
SetReady(cs, r) ==
  /\ slot' = [c \in Callers |->
                IF c \in cs /\ slot[c].st \in Unresolved
                THEN [st |-> "Ready", result |-> r] ELSE slot[c]]
  /\ callers' = [c \in Callers |->
                   IF /\ c \in cs
                      /\ slot[c].st = "Waker"
                      /\ callers[c].pc = "parked"
                   THEN [callers[c] EXCEPT !.pc = "woken"] ELSE callers[c]]

\* Mutant: apply_error is called before the states are updated.
ApplyErrorTooEarly ==
  LET e == OutgoingRequestError(is_shutdown, write_state, read_state)
      filed == {c \in Callers : \E id \in OutgoingIds : outgoing_requests[id] = c}
  IN  IF e = NoResult THEN UNCHANGED <<slot, callers>> ELSE SetReady(filed, e)

\* SessionState::apply_error, after the closure has updated the states: every
\* request still in the table gets the error that new requests would get.
ApplyError ==
  LET e == OutgoingRequestError(is_shutdown', write_state', read_state')
      filed == {c \in Callers : \E id \in OutgoingIds : outgoing_requests[id] = c}
  IN  IF e = NoResult THEN UNCHANGED <<slot, callers>> ELSE SetReady(filed, e)

\* Mutant: the entry stays in the table.
DropGuardKeepsEntry(c, pc, r, received) ==
  /\ callers' = [callers EXCEPT ![c].pc = pc, ![c].result = r]
  /\ UNCHANGED outgoing_requests
  /\ outgoing_cancellations' =
       IF received THEN outgoing_cancellations
       ELSE Append(outgoing_cancellations, callers[c].id)

\* Mutant: response_received is never set.
DropGuardAlwaysCancels(c, pc, r, received) ==
  /\ callers' = [callers EXCEPT ![c].pc = pc, ![c].result = r]
  /\ outgoing_requests' = [outgoing_requests EXCEPT ![callers[c].id] = NoCaller]
  /\ outgoing_cancellations' = Append(outgoing_cancellations, callers[c].id)

\* Drop of the OutgoingRequestGuard of c, whose call ends with pc and r.
DropGuard(c, pc, r, received) ==
  /\ callers' = [callers EXCEPT ![c].pc = pc, ![c].result = r]
  /\ outgoing_requests' = [outgoing_requests EXCEPT ![callers[c].id] = NoCaller]
  /\ outgoing_cancellations' =
       IF received THEN outgoing_cancellations
       ELSE Append(outgoing_cancellations, callers[c].id)
-----------------------------------------------------------------------------
(* Session::request, and SessionContext::request: when the RawSession is   *)
(* gone the latter answers Shutdown, as a session that was shut down does. *)

\* OutgoingRequestGuard::new returns an error
RequestRefused(c) ==
  LET e == OutgoingRequestError(is_shutdown, write_state, read_state)
  IN  /\ callers[c].pc = "idle"
      /\ \/ /\ e # NoResult
            /\ callers' = [callers EXCEPT ![c].pc = "returned", ![c].result = e]
         \/ /\ e = NoResult
            /\ outgoing_request_id_next = IdMax
            /\ callers' = [callers EXCEPT ![c].pc = "returned",
                                          ![c].result = Result("Message", "none")]
      /\ UNCHANGED <<outgoing_requests, outgoing_request_id_next, slot,
                     outgoing_cancellations, fetched, called, taskVars>>

\* Mutant: the first id that is free in the table
FreeId == CHOOSE id \in OutgoingIds :
            /\ outgoing_requests[id] = NoCaller
            /\ \A i \in 0..(id - 1) : outgoing_requests[i] # NoCaller

NextId == outgoing_request_id_next

\* Mutant: no look at the last id, which wraps.
RequestRegisteredWraps(c) ==
  /\ callers[c].pc = "idle"
  /\ OutgoingRequestError(is_shutdown, write_state, read_state) = NoResult
  /\ outgoing_request_id_next' = (NextId + 1) % IdMax
  /\ outgoing_requests' = [outgoing_requests EXCEPT ![NextId] = c]
  /\ callers' = [callers EXCEPT ![c].pc = "registered",
                                ![c].id = NextId]
  /\ UNCHANGED <<slot, outgoing_cancellations, fetched, called, taskVars>>

\* OutgoingRequestGuard::new files a new slot under the next id
RequestRegistered(c) ==
  /\ callers[c].pc = "idle"
  /\ OutgoingRequestError(is_shutdown, write_state, read_state) = NoResult
  /\ outgoing_request_id_next < IdMax
  /\ outgoing_request_id_next' = outgoing_request_id_next + 1
  /\ outgoing_requests' = [outgoing_requests EXCEPT ![NextId] = c]
  /\ callers' = [callers EXCEPT ![c].pc = "registered",
                                ![c].id = NextId]
  /\ UNCHANGED <<slot, outgoing_cancellations, fetched, called, taskVars>>

\* The request is serialized and queued. Nothing looks at the state of the
\* session again here: it may have ended since the guard was made.
RequestSent(c) ==
  /\ callers[c].pc = "registered"
  /\ Push(Request(callers[c].id))
  /\ callers' = [callers EXCEPT ![c].pc = "sent"]
  /\ UNCHANGED <<outgoing_requests, outgoing_request_id_next, slot,
                 outgoing_cancellations, fetched, called, read_state,
                 write_state, cancel_state, is_shutdown, session_open, taken,
                 written, writer, dispatcher, canceller, handlers, aborted,
                 aborts, waiters>>

\* MessageData::from_request fails, and `?` drops the guard.
SerializeFails(c) ==
  /\ callers[c].pc = "registered"
  /\ DropGuard(c, "returned", ToSessionError("Serialize"), FALSE)
  /\ UNCHANGED <<outgoing_request_id_next, slot, fetched, called, taskVars>>

\* get_response: one poll of the slot
PollSlot(c) ==
  /\ callers[c].pc \in {"sent", "woken"}
  /\ \/ /\ slot[c].st \in Unresolved
        /\ slot' = [slot EXCEPT ![c].st = "Waker"]
        /\ callers' = [callers EXCEPT ![c].pc = "parked"]
     \/ /\ slot[c].st = "Ready"
        /\ slot' = [slot EXCEPT ![c].st = "End"]
        /\ callers' = [callers EXCEPT ![c].pc = "ready"]
  /\ UNCHANGED <<outgoing_requests, outgoing_request_id_next,
                 outgoing_cancellations, fetched, called, taskVars>>

\* The call returns; response_received keeps the guard from cancelling.
RequestReturns(c) ==
  /\ callers[c].pc = "ready"
  /\ DropGuard(c, "returned", slot[c].result, TRUE)
  /\ UNCHANGED <<outgoing_request_id_next, slot, fetched, called, taskVars>>

\* Mutant: there is an await before the request is queued.
RequestDroppedUnsent(c) ==
  /\ callers[c].pc \in {"registered", "parked", "woken"}
  /\ DropGuard(c, "withdrawn", NoResult, FALSE)
  /\ UNCHANGED <<outgoing_request_id_next, slot, fetched, called, taskVars>>

\* The future of the call is dropped while it awaits its response.
RequestDropped(c) ==
  /\ callers[c].pc \in {"parked", "woken"}
  /\ DropGuard(c, "withdrawn", NoResult, FALSE)
  /\ UNCHANGED <<outgoing_request_id_next, slot, fetched, called, taskVars>>
-----------------------------------------------------------------------------
(* MessageDispatcher::on_response, in two steps: the entry leaves the      *)
(* table under the lock, the slot is set after the lock is released.       *)

ResponseResult(m) ==
  CASE m.type = "Error"                            -> Result("ErrorObject", "none")
    [] m.type = "Success" /\ m.result = "value"    -> Ok
    [] m.type = "Success" /\ m.result = "mistyped" -> ToSessionError("Deserialize")

dispatcherFrame == <<read_state, write_state, cancel_state, is_shutdown,
                     session_open, outbox, taken, written, writer, canceller,
                     handlers, aborted, aborts, waiters>>

OnResponse ==
  LET m == Head(dispatcher.batch)
      rest == Tail(dispatcher.batch)
      found == IF m.id \in OutgoingIds THEN outgoing_requests[m.id] ELSE NoCaller
  IN  /\ dispatcher.pc = "batch"
      /\ m.type \in {"Success", "Error"}
      /\ \/ /\ found = NoCaller
            /\ dispatcher' = [dispatcher EXCEPT !.pc = NextPc(rest), !.batch = rest]
            /\ UNCHANGED outgoing_requests
         \/ /\ found # NoCaller
            /\ dispatcher' = [dispatcher EXCEPT !.pc = "resolve", !.batch = rest,
                                                !.caller = found,
                                                !.result = ResponseResult(m)]
            /\ outgoing_requests' = [outgoing_requests EXCEPT ![m.id] = NoCaller]
      /\ UNCHANGED <<outgoing_request_id_next, slot, callers,
                     outgoing_cancellations, fetched, called, dispatcherFrame>>

ResolveSlot ==
  /\ dispatcher.pc = "resolve"
  /\ SetReady({dispatcher.caller}, dispatcher.result)
  /\ dispatcher' = [dispatcher EXCEPT !.pc = NextPc(dispatcher.batch),
                                      !.caller = NoCaller, !.result = NoResult]
  /\ UNCHANGED <<outgoing_requests, outgoing_request_id_next,
                 outgoing_cancellations, fetched, called, dispatcherFrame>>
-----------------------------------------------------------------------------
(* run_cancel_task_raw                                                     *)

cancellerFrame == <<read_state, write_state, cancel_state, is_shutdown,
                    session_open, taken, written, writer, dispatcher, handlers,
                    aborted, aborts, waiters>>

\* Mutant: the cancel task ends with the reader, as the writer does.
FetchCancellationsEndsWithReader ==
  /\ canceller = "fetch"
  /\ \/ /\ read_state = "Running"
        /\ fetched < Len(outgoing_cancellations)
        /\ fetched' = Len(outgoing_cancellations) /\ canceller' = "hooks"
     \/ /\ read_state # "Running"
        /\ canceller' = "ended" /\ UNCHANGED fetched
  /\ UNCHANGED <<outgoing_requests, outgoing_request_id_next, slot, callers,
                 outgoing_cancellations, called, outbox, cancellerFrame>>

\* SessionState::fetch_outgoing_cancellations, when its poll is Ready
FetchCancellations ==
  /\ canceller = "fetch"
  /\ \/ /\ fetched < Len(outgoing_cancellations)
        /\ fetched' = Len(outgoing_cancellations)
        /\ canceller' = "hooks"
     \/ /\ fetched = Len(outgoing_cancellations)
        /\ is_shutdown
        /\ canceller' = "ended"
        /\ UNCHANGED fetched
  /\ UNCHANGED <<outgoing_requests, outgoing_request_id_next, slot, callers,
                 outgoing_cancellations, called, outbox, cancellerFrame>>

\* Hook::cancel_outgoing_request for the next id: the default hook does
\* nothing, others tell the peer with a notification.
CallHook ==
  /\ canceller = "hooks"
  /\ called' = called + 1
  /\ canceller' = IF called' = fetched THEN "fetch" ELSE "hooks"
  /\ \/ UNCHANGED outbox
     \/ Push(Cancel(outgoing_cancellations[called']))
  /\ UNCHANGED <<outgoing_requests, outgoing_request_id_next, slot, callers,
                 outgoing_cancellations, fetched, cancellerFrame>>
-----------------------------------------------------------------------------
OutgoingInit ==
  /\ outgoing_requests = [id \in OutgoingIds |-> NoCaller]
  /\ outgoing_request_id_next = 0
  /\ slot = [c \in Callers |-> [st |-> "None", result |-> NoResult]]
  /\ callers = [c \in Callers |->
                  [pc |-> "idle", id |-> IdMax, result |-> NoResult]]
  /\ outgoing_cancellations = <<>>
  /\ fetched = 0 /\ called = 0

TableTypeOK ==
  /\ outgoing_requests \in [OutgoingIds -> Callers \union {NoCaller}]
  /\ outgoing_request_id_next \in 0..IdMax

CallersTypeOK ==
  /\ slot \in [Callers -> [st: {"None", "Waker", "Ready", "End"},
                           result: Results]]
  /\ callers \in [Callers ->
        [pc: {"idle", "registered", "sent", "parked", "woken", "ready",
              "returned", "withdrawn"},
         id: 0..IdMax, result: Results]]

CancellationsTypeOK ==
  /\ outgoing_cancellations \in Seq(OutgoingIds)
  /\ fetched \in Nat /\ called \in Nat
  /\ called <= fetched /\ fetched <= Len(outgoing_cancellations)

OutgoingTypeOK == TableTypeOK /\ CallersTypeOK /\ CancellationsTypeOK
=============================================================================
