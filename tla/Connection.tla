----------------------------- MODULE Connection -----------------------------
(***************************************************************************)
(* Two sessions over a channel, as Session::new_channel makes them: one    *)
(* calls, the other serves, and either may be shut down or dropped at any  *)
(* time. The client's variables have the names of Endpoint, the server's   *)
(* have the prefix s_.                                                     *)
(***************************************************************************)
EXTENDS Naturals, Sequences, FiniteSets

CONSTANTS ClientCalls, ServerWaits, NoCaller, IdMax, MaxRequests,
          MaxNotifications, Lines, Capacity,
          MayEnd   \* sides the application may end before their tasks end

Panics == FALSE

VARIABLES
  read_state, write_state, cancel_state, is_shutdown, session_open, outbox,
  taken, written, writer, dispatcher, canceller, handlers, aborted, aborts,
  waiters, outgoing_requests, outgoing_request_id_next, slot, callers,
  outgoing_cancellations, fetched, called, incoming_requests, requests,
  received, torn

VARIABLES
  s_read_state, s_write_state, s_cancel_state, s_is_shutdown, s_session_open,
  s_outbox, s_taken, s_written, s_writer, s_dispatcher, s_canceller,
  s_handlers, s_aborted, s_aborts, s_waiters, s_outgoing_requests,
  s_outgoing_request_id_next, s_slot, s_callers, s_outgoing_cancellations,
  s_fetched, s_called, s_incoming_requests, s_requests, s_received, s_torn

clientVars == <<read_state, write_state, cancel_state, is_shutdown,
                session_open, outbox, taken, written, writer, dispatcher,
                canceller, handlers, aborted, aborts, waiters,
                outgoing_requests, outgoing_request_id_next, slot, callers,
                outgoing_cancellations, fetched, called, incoming_requests,
                requests, received, torn>>

serverVars == <<s_read_state, s_write_state, s_cancel_state, s_is_shutdown,
                s_session_open, s_outbox, s_taken, s_written, s_writer,
                s_dispatcher, s_canceller, s_handlers, s_aborted, s_aborts,
                s_waiters, s_outgoing_requests, s_outgoing_request_id_next,
                s_slot, s_callers, s_outgoing_cancellations, s_fetched,
                s_called, s_incoming_requests, s_requests, s_received,
                s_torn>>

\* A side has its stream until reader and writer have both dropped theirs.
Holds(d, w) == d.pc \notin {"ended", "done"} \/ w \notin {"ended", "failed", "done"}
ClientHolds == Holds(dispatcher, writer)
ServerHolds == Holds(s_dispatcher, s_writer)

\* What can be read of the n messages on the wire out of o, and of a line
\* that only lacks its newline, once nothing can follow
Readable(o, n, t, open) == SubSeq(o, 1, IF t = "whole" /\ ~open THEN n + 1 ELSE n)

Client == INSTANCE Endpoint WITH
  Callers <- ClientCalls, Waiters <- {}, RequestIds <- 0..(IdMax - 1),
  inbound <- Readable(s_outbox, s_written, s_torn, ServerHolds),
  inbound_cut <- s_torn = "cut", peer_open <- ServerHolds,
  peer_received <- s_received

Server == INSTANCE Endpoint WITH
  Callers <- {}, Waiters <- ServerWaits, RequestIds <- 0..(IdMax - 1),
  inbound <- Readable(outbox, written, torn, ClientHolds),
  inbound_cut <- torn = "cut", peer_open <- ClientHolds,
  peer_received <- received,
  read_state <- s_read_state, write_state <- s_write_state,
  cancel_state <- s_cancel_state, is_shutdown <- s_is_shutdown,
  session_open <- s_session_open, outbox <- s_outbox, taken <- s_taken,
  written <- s_written, writer <- s_writer, dispatcher <- s_dispatcher,
  canceller <- s_canceller, handlers <- s_handlers, aborted <- s_aborted,
  aborts <- s_aborts, waiters <- s_waiters,
  outgoing_requests <- s_outgoing_requests,
  outgoing_request_id_next <- s_outgoing_request_id_next, slot <- s_slot,
  callers <- s_callers, outgoing_cancellations <- s_outgoing_cancellations,
  fetched <- s_fetched, called <- s_called,
  incoming_requests <- s_incoming_requests, requests <- s_requests,
  received <- s_received, torn <- s_torn

connectionVars == <<clientVars, serverVars>>

ASSUME ConnectionAssumption ==
  /\ NoCaller \notin ClientCalls
  /\ IdMax \in Nat /\ MaxRequests \in Nat /\ MaxNotifications \in Nat
  /\ Lines \subseteq Seq(Client!IncomingMessages) \ {<<>>}
-----------------------------------------------------------------------------
Init == Client!EndpointInit /\ Server!EndpointInit

\* Does the application end its session by the step, and may it yet? Any side
\* may that has seen its tasks end, as wait tells.
EndsInTime(side, before, after, read, write) ==
  before = after \/ side \in MayEnd \/ (read # "Running" /\ write # "Running")

Terminated == Client!Terminated /\ Server!Terminated /\ UNCHANGED connectionVars

Next ==
  \/ /\ Client!EndpointNext /\ UNCHANGED serverVars
     /\ EndsInTime("client", is_shutdown, is_shutdown', read_state, write_state)
  \/ /\ Server!EndpointNext /\ UNCHANGED clientVars
     /\ EndsInTime("server", s_is_shutdown, s_is_shutdown', s_read_state,
                   s_write_state)
  \/ Terminated

Spec == Init /\ [][Next]_connectionVars

FairSpec == Spec /\ Client!EndpointFairness /\ Server!EndpointFairness
-----------------------------------------------------------------------------
AnswerResults == {Client!Ok, Client!Result("ErrorObject", "none"),
                  Client!ToSessionError("Deserialize")}

\* The answer a call returns was computed, on the other side, for the request
\* this very call made: ids, tables and queues of two sessions keep calls
\* apart, whatever was cancelled or dropped before.
OwnAnswer ==
  \A c \in ClientCalls : callers[c].result \in AnswerResults =>
    \E p \in 1..received :
      /\ s_outbox[p].type = "Response" /\ s_outbox[p].id = callers[c].id
      /\ s_outbox[p].for = s_outbox[p].by
      /\ \A n \in DOMAIN s_requests :
           s_requests[n].id = callers[c].id => n = s_outbox[p].for

\* As long as nobody shuts a side down, no task of either ends, however long
\* the pipe is full or empty; no message of one is an error to the other.
NothingEndsUnprovoked ==
  ~is_shutdown /\ ~s_is_shutdown =>
    /\ \A st \in {read_state, write_state, cancel_state, s_read_state,
                  s_write_state, s_cancel_state} : st = "Running"
    /\ \A c \in ClientCalls :
         callers[c].result \in AnswerResults \union
           {Client!NoResult, Client!ToSessionError("Serialize"),
            Client!Result("Message", "none")}   \* no id is left

\* When the client ends, the server's wait reports an error only if a line
\* was cut, or something was left to be written: tests/session.rs:46-85 need
\* a wait that succeeds.
ClientEndsCleanly ==
  \A w \in ServerWaits :
    s_waiters[w].pc = "returned" /\ s_waiters[w].result # Server!Ok =>
      torn = "cut" \/ s_written < Len(s_outbox)

\* The server has heard of the cancellation of call c, and no task runs for it
\* but one whose handler failed after handle_async.
ServerStopped(c) ==
  /\ \E p \in 1..s_received : outbox[p] = Client!Cancel(callers[c].id)
  /\ \A n \in DOMAIN s_requests :
       s_requests[n].id = callers[c].id =>
         s_handlers[n] \notin {"running", "returned"} \/ s_requests[n].disowned

\* A call dropped by its caller stops the task that serves it, across hook,
\* two queues, the pipe and the abort, unless a side is shut down first or the
\* task was detached by its own handler. (lib.rs:135, 816, 868)
CancellationArrives ==
  \A c \in ClientCalls :
    callers[c].pc = "withdrawn" ~> ServerStopped(c) \/ is_shutdown \/ s_is_shutdown

\* A side that is shut down ends the other through the stream alone: calls
\* return and a wait does.
EndReachesCalls == s_is_shutdown ~> \A c \in ClientCalls : ~Client!InFlight(c)
EndReachesWaits == is_shutdown ~> \A w \in ServerWaits : ~Server!Waiting(w)

\* Neither a full pipe nor anything else stops what both sides have queued.
QueuesDrain ==
  s_received < Len(outbox) \/ received < Len(s_outbox) ~>
    \/ s_received = Len(outbox) /\ received = Len(s_outbox)
    \/ is_shutdown \/ s_is_shutdown
=============================================================================
