----------------------------- MODULE MCSession -----------------------------
(* Lines a peer may send in the runs of Session.                           *)
EXTENDS SessionInvariants, SessionContract, TLC

CallerSymmetry == Permutations(Callers)
WaiterSymmetry == Permutations(Waiters)
IdSymmetry == Permutations(RequestIds)

Value(id) == [type |-> "Success", id |-> id, result |-> "value"]
Mistyped(id) == [type |-> "Success", id |-> id, result |-> "mistyped"]
Failure(id) == [type |-> "Error", id |-> id]
Invalid == [type |-> "Invalid"]

\* Answers to two calls at once
PairLines == {<<Failure(1), Value(0)>>}

\* An answer to the only call that gets an id, and a handler to panic
AnswerLines == {<<Mistyped(0)>>, <<Notification>>}

\* A session that ends by a read error goes on as by one that is no message.
OneReadCause == dispatcher.pc = "ended" => dispatcher.result.cause # "ReadError"

\* Two calls, in a session that ends by a shutdown, not by being dropped, and
\* with one kind of read error for all; other runs have the rest. Calls do not
\* depend on what the writer has written, only on how it ends.
TwoCallsBound == session_open /\ OneReadCause /\ written = 0

\* Requests that may share an id, single and in batches
RequestLines ==
  {<<Request(id)>> : id \in RequestIds}
  \union {<<Request(i), Request(j)>> : i, j \in RequestIds}

\* Three requests, in a session whose writer and cancel task do nothing and
\* that is shut down rather than dropped: requests depend on none of these.
ThreeRequestsBound == session_open /\ writer = "fetch" /\ canceller = "fetch"

\* Two calls of wait, in a session with one kind of read error for all. One whose
\* application sends a notification serves no request: both are just messages to
\* the writer, and a notification has no task.
TwoWaitsBound ==
  /\ OneReadCause
  /\ requests = <<>> \/ \A p \in DOMAIN outbox : ~IsNotification(outbox[p])

\* A request, with nothing or the end of the transport behind it
SingleRequestLines == {<<Request(id)>> : id \in RequestIds}

\* What ends a session from the peer's side, and a batch that goes on
EndingLines ==
  {<<ErrorWithoutId>>, <<Invalid>>, <<Notification, Invalid>>}
  \union {<<Request(id)>> : id \in RequestIds}
=============================================================================
