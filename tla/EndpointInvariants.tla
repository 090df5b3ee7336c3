------------------------- MODULE EndpointInvariants -------------------------
(***************************************************************************)
(* What one end of a channel keeps true whatever the other does: how its   *)
(* ends and errors show, and where what it read and wrote comes from.      *)
(* Connection puts two of them together.                                   *)
(***************************************************************************)
EXTENDS Endpoint, SessionInvariants

\* A peer calls with its own ids and answers those of ours.
PeerMessages ==
  [type: {"Request", "Cancel"}, id: RequestIds]
  \union [type: {"Response"}, id: OutgoingIds, for: Nat, by: Nat]
  \union {Notification, ErrorWithoutId}

PeerTypeOK == inbound \in Seq(PeerMessages) /\ received \in 0..Len(inbound)

\* The stream is open to the peer, with so many lines on it.
Holding ==
  dispatcher.pc \notin {"ended", "done"} \/ writer \notin {"ended", "failed", "done"}
OnWire == IF torn = "whole" /\ ~Holding THEN written + 1 ELSE written
-----------------------------------------------------------------------------
(* Errors and ends                                                         *)

\* A line is one message, and none is invalid that a session wrote.
OneLineInHand ==
  /\ received \in Nat
  /\ dispatcher.batch # <<>> =>
       /\ dispatcher.pc = "batch" /\ received # 0
       /\ Len(dispatcher.batch) = 1 /\ dispatcher.batch[1].type # "Invalid"

\* Something was queued that will not be written any more.
Broken == writer \in {"failed", "done"} /\ written < Len(outbox)

\* A line is torn, and a write fails, with something left to write.
BreaksShow ==
  /\ torn \in {"none", "cut", "whole"}
  /\ torn # "none" => writer = "done" /\ written < Len(outbox)
  /\ writer = "failed" \/ write_state \in ErrorCauses => Broken

\* The session has met an error other than that of its writer, or told one.
Erroneous ==
  \/ read_state \in ErrorCauses
  \/ dispatcher.pc = "ended" /\ dispatcher.result # Ok
  \/ \E i \in DOMAIN dispatcher.batch : dispatcher.batch[i].type = "ErrorWithoutId"
  \/ \E p \in DOMAIN outbox : outbox[p].type = "ErrorWithoutId"

\* wait reports what went wrong.
WaitsTellErrors ==
  \A w \in Waiters :
    waiters[w].pc = "returned" /\ waiters[w].result # Ok
      => read_state \in ErrorCauses \/ Broken

\* Nothing of the session has ended or is about to, and no call knows of an
\* end.
Quiet ==
  /\ read_state = "Running" /\ write_state = "Running" /\ cancel_state = "Running"
  /\ dispatcher.pc \notin {"ended", "done"}
  /\ writer \notin {"ended", "failed", "done"}
  /\ canceller \notin {"ended", "done"}
  /\ aborted \intersect SessionTaskSet = {}
  /\ ~Erroneous
  /\ \A c \in Callers :
       /\ slot[c].result \in AnswerResults \union {NoResult}
       /\ callers[c].result \in AnswerResults \union
            {NoResult, ToSessionError("Serialize"), Result("Message", "none")}
-----------------------------------------------------------------------------
(* Requests and answers                                                    *)

\* A request is queued once, by the call whose id it has.
RequestsSentOnce ==
  \A p \in DOMAIN outbox :
    outbox[p].type = "Request" =>
      /\ \E c \in Callers : /\ callers[c].id = outbox[p].id
                            /\ callers[c].pc \notin {"idle", "registered"}
      /\ \A q \in DOMAIN outbox : outbox[q] = outbox[p] => q = p

\* A response has the id of the request it is for, and of the one it is by.
ResponsesRespond ==
  \A p \in DOMAIN outbox :
    IsResponse(outbox[p]) => /\ requests[outbox[p].for].id = outbox[p].id
                             /\ requests[outbox[p].by].id = outbox[p].id

\* The answers calls have got or are about to were read under ids of `ids`.
AnswersWithin(ids) ==
  /\ dispatcher.pc = "batch" /\ dispatcher.batch[1].type \in {"Success", "Error"}
       => dispatcher.batch[1].id \in ids
  /\ dispatcher.pc = "resolve" => callers[dispatcher.caller].id \in ids
  /\ \A c \in Callers :
       /\ slot[c].st \notin Unresolved /\ slot[c].result \in AnswerResults
            => callers[c].id \in ids
       /\ callers[c].result \in AnswerResults => callers[c].id \in ids

\* The requests that were read have ids of `ids`, each one of its own.
RequestsWithin(ids) ==
  /\ \A n \in DOMAIN requests : requests[n].id \in ids
  /\ \A n, k \in DOMAIN requests : requests[n].id = requests[k].id => n = k
  /\ dispatcher.pc = "batch" /\ dispatcher.batch[1].type = "Request" =>
       /\ dispatcher.batch[1].id \in ids
       /\ \A n \in DOMAIN requests : requests[n].id # dispatcher.batch[1].id
-----------------------------------------------------------------------------
\* What an endpoint keeps on its own
SessionInv == TypeInv /\ CallInv /\ OutcomeInv /\ AnswerInv

EndpointInv ==
  /\ SessionInv /\ OneLineInHand /\ BreaksShow /\ WaitsTellErrors
  /\ RequestsSentOnce /\ ResponsesRespond
=============================================================================
