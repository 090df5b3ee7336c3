-------------------------- MODULE SessionContract --------------------------
(***************************************************************************)
(* Session implements RequestContract. A call is open while its slot has   *)
(* no result, wherever the response may be: on the wire, in the reader's   *)
(* hands, or on the way into the slot. It is settled from the moment the   *)
(* slot has one until its future takes it.                                 *)
(***************************************************************************)
EXTENDS SessionProperties

Phase(c) ==
  CASE InFlight(c) /\ slot[c].st \in Unresolved    -> "open"
    [] InFlight(c) /\ slot[c].st \notin Unresolved -> "settled"
    [] OTHER                                       -> callers[c].pc

Outcome(c) ==
  CASE InFlight(c) /\ slot[c].st \in Unresolved    -> NoResult
    [] InFlight(c) /\ slot[c].st \notin Unresolved -> slot[c].result
    [] OTHER                                       -> callers[c].result

AbstractCall ==
  [c \in Callers |-> [st |-> Phase(c), id |-> callers[c].id,
                      result |-> Outcome(c)]]

HookedIds == SubSeq(outgoing_cancellations, 1, called)

Contract == INSTANCE RequestContract WITH
  Ids <- OutgoingIds,
  NoId <- IdMax,
  Answers <- {Ok, Result("ErrorObject", "none"), ToSessionError("Deserialize")},
  Endings <- {ShutdownError} \union {ToSessionError(x) : x \in ErrorCauses},
  Exhausted <- Result("Message", "none"),
  Unsendable <- ToSessionError("Serialize"),
  Nothing <- NoResult,
  call <- AbstractCall,
  over <- SessionDead,
  hooked <- HookedIds

\* The session keeps the contract of its callers: every step of the tasks,
\* the calls and the application is a step of RequestContract or none.
\* (RawSession::request, OutgoingRequestGuard, apply_error, run_cancel_task)
KeepsContract == Contract!Spec
=============================================================================
