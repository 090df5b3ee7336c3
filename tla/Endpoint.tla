------------------------------ MODULE Endpoint ------------------------------
(***************************************************************************)
(* A Session at one end of a channel as Session::new_channel builds it:    *)
(* both of its directions are one tokio duplex stream, split in a read and *)
(* a write half. The stream closes for the peer when both halves are       *)
(* dropped: the reader's with run_raw, the writer's with                   *)
(* run_write_task_raw. What the peer does to the stream are the variables  *)
(* from `inbound` on; this module reads them and never changes them.       *)
(***************************************************************************)
EXTENDS Session

CONSTANT Capacity   \* bound: lines the pipe holds. duplex(1024) counts bytes

VARIABLES
  received,     \* how many of the peer's messages were read
  torn,         \* what an aborted writer left of a line: "none", "cut", or
                \* "whole" but for its newline
  inbound,      \* the messages that can be read from the peer's stream
  inbound_cut,  \* does part of a line come after them?
  peer_open,    \* does the peer hold its stream?
  peer_received \* how many of our messages the peer has read

pipeVars == <<received, torn>>
endpointVars == <<vars, pipeVars>>
-----------------------------------------------------------------------------
\* What a message of ours is read as; what a response holds is left to Lines.
ReadAs(m) ==
  CASE m.type = "Response" ->
         [type: {"Success"}, id: {m.id}, result: {"value", "mistyped"}]
         \union [type: {"Error"}, id: {m.id}]
    [] m.type = "Cancel"   -> {Notification}
    [] OTHER               -> {m}

ReadMessage ==
  /\ received < Len(inbound)
  /\ received' = received + 1
  /\ ReadLine
  /\ dispatcher'.batch \in {<<m>> : m \in ReadAs(inbound[received'])}
  /\ UNCHANGED torn

\* read_line gives nothing at the end of the stream, or what there is of a
\* line, which from_line does not take.
ReadEnd ==
  /\ received = Len(inbound) /\ ~peer_open
  /\ \/ ~inbound_cut /\ ReadEnds
     \/ inbound_cut /\ ReadFails
  /\ UNCHANGED pipeVars

\* The notification "cancel", whose handler is that of the crate's tests
Cancelling ==
  /\ dispatcher.pc = "batch" /\ Head(dispatcher.batch) = Notification
  /\ inbound[received].type = "Cancel"
  /\ Filed(inbound[received].id)

HandlerCancels ==
  /\ Cancelling
  /\ CancelIncoming(inbound[received].id)
  /\ UNCHANGED <<outbox, outgoingVars, pipeVars>>

Dispatch ==
  /\ ~Cancelling /\ dispatcher.pc # "await"
  /\ ReaderStep
  /\ UNCHANGED pipeVars

Read == ReadMessage \/ ReadEnd \/ HandlerCancels \/ Dispatch
-----------------------------------------------------------------------------
\* A message that fits is written, and one to a peer that is gone is not:
\* BrokenPipe. Flushing a duplex stream does nothing.
Write ==
  /\ WriterStep
  /\ IF writer' = "failed"
     THEN writer = "write" /\ ~peer_open
     ELSE writer = "write" => peer_open /\ written - peer_received < Capacity
  /\ UNCHANGED pipeVars

\* The writer is dropped between two lines or within one.
ReapTask(t) ==
  /\ Reap(t)
  /\ IF t = WriteTask /\ writer = "write" /\ peer_open
     THEN torn' \in {"none", "cut", "whole"} ELSE UNCHANGED torn
  /\ UNCHANGED <<received, outgoingVars, incomingVars>>

\* run_cancel_task with the hook of the crate's tests, which tells the peer
TellPeer ==
  /\ CancellerStep
  /\ called' # called => outbox' # outbox
  /\ UNCHANGED pipeVars
-----------------------------------------------------------------------------
EndpointInit == Init /\ received = 0 /\ torn = "none"

EndpointNext ==
  \/ Read \/ Write \/ TellPeer
  \/ \E t \in Tasks : ReapTask(t)
  \/ /\ \/ \E c \in Callers : CallerStep(c)
        \/ \E w \in Waiters : WaiterStep(w)
        \/ \E n \in HandlerIds : TaskStep(n)
        \/ Shutdown \/ DropSession \/ Notify
     /\ UNCHANGED pipeVars

\* The tasks, calls and waits of a session go on while they can; that of the
\* pipe follows from it. Nothing is assumed of what handlers spawn, nor that
\* the application ever ends a session or drops a call.
EndpointFairness ==
  /\ WF_endpointVars(Read) /\ WF_endpointVars(Write) /\ WF_endpointVars(TellPeer)
  /\ \A t \in Tasks : WF_endpointVars(ReapTask(t))
  /\ \A n \in HandlerIds :
       WF_endpointVars(TaskStep(n) /\ handlers[n] = "returned" /\ UNCHANGED pipeVars)
  /\ \A c \in Callers :
       WF_endpointVars(/\ CallerStep(c) /\ UNCHANGED pipeVars
                       /\ callers[c].pc # "idle" /\ callers'[c].pc # "withdrawn")
  /\ \A w \in Waiters :
       WF_endpointVars(/\ WaiterStep(w) /\ UNCHANGED pipeVars
                       /\ Waiting(w) /\ waiters'[w].pc # "dropped")
=============================================================================
