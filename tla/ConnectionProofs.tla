-------------------------- MODULE ConnectionProofs --------------------------
(***************************************************************************)
(* Proofs about two sessions over a channel, for any number of calls, of   *)
(* waits and of requests, any ids and any pipe: each side is a Session,    *)
(* nothing ends unless somebody ends it, a wait reports an error only with *)
(* an excuse, and every call gets the answer to its own request.           *)
(*                                                                         *)
(* CP and SP are the two endpoints of Connection, Client and Server, with  *)
(* what EndpointProofs shows of any endpoint.                              *)
(***************************************************************************)
EXTENDS Connection, SequenceTheorems, TLAPS

CP == INSTANCE EndpointProofs WITH
  Callers <- ClientCalls, Waiters <- {}, RequestIds <- 0..(IdMax - 1),
  inbound <- Readable(s_outbox, s_written, s_torn, ServerHolds),
  inbound_cut <- s_torn = "cut", peer_open <- ServerHolds,
  peer_received <- s_received

SP == INSTANCE EndpointProofs WITH
  Callers <- {}, Waiters <- ServerWaits, RequestIds <- 0..(IdMax - 1),
  inbound <- Readable(outbox, written, torn, ClientHolds),
  inbound_cut <- torn = "cut", peer_open <- ClientHolds,
  peer_received <- received,
  read_state <- s_read_state, write_state <- s_write_state,
  cancel_state <- s_cancel_state, is_shutdown <- s_is_shutdown,
  session_open <- s_session_open, outbox <- s_outbox, taken <- s_taken,
  written <- s_written, writer <- s_writer, dispatcher <- s_dispatcher,
  canceller <- s_canceller, handlers <- s_handlers, aborted <- s_aborted,
  aborts <- s_aborts, waiters <- s_waiters,
  outgoing_requests <- s_outgoing_requests,
  outgoing_request_id_next <- s_outgoing_request_id_next, slot <- s_slot,
  callers <- s_callers, outgoing_cancellations <- s_outgoing_cancellations,
  fetched <- s_fetched, called <- s_called,
  incoming_requests <- s_incoming_requests, requests <- s_requests,
  received <- s_received, torn <- s_torn

\* The ids of the requests the server has read, and of the responses the
\* client has
RequestedIds ==
  {outbox[p].id : p \in {q \in 1..s_received : outbox[q].type = "Request"}}
AnsweredIds ==
  {s_outbox[p].id : p \in {q \in 1..received : s_outbox[q].type = "Response"}}

\* An error anywhere goes back to a line the client cut or to something the
\* server could not write any more.
ErrorsExcused == CP!Erroneous \/ SP!Erroneous => torn = "cut" \/ SP!Broken

\* Each side ends only if one was shut down, since the other's stream stays
\* open and whole until then.
BothQuiet == ~is_shutdown /\ ~s_is_shutdown => CP!Quiet /\ SP!Quiet

\* What makes the properties of Connection inductive
ConnectionInv ==
  /\ CP!EndpointInv /\ SP!EndpointInv /\ CP!PeerTypeOK /\ SP!PeerTypeOK
  /\ ErrorsExcused /\ BothQuiet
  /\ CP!AnswersWithin(AnsweredIds) /\ SP!RequestsWithin(RequestedIds)
-----------------------------------------------------------------------------
(* CP and SP are Client and Server                                         *)

\* What holds of any endpoint is assumed of these two.
LEMMA ClientAssumptions ==
  /\ NoCaller \notin ClientCalls
  /\ IdMax \in Nat /\ MaxRequests \in Nat /\ MaxNotifications \in Nat
  /\ Panics \in BOOLEAN
  /\ Lines \subseteq Seq(CP!IncomingMessages) \ {<<>>}
BY ConnectionAssumption DEF Panics, CP!IncomingMessages, Client!IncomingMessages,
   CP!Notification, CP!ErrorWithoutId, Client!Notification, Client!ErrorWithoutId

\* The same of the server, which makes no calls
LEMMA ServerAssumptions ==
  /\ NoCaller \notin {}
  /\ Lines \subseteq Seq(SP!IncomingMessages) \ {<<>>}
BY ConnectionAssumption DEF SP!IncomingMessages, Client!IncomingMessages,
   SP!Notification, SP!ErrorWithoutId, Client!Notification, Client!ErrorWithoutId

\* The same definitions, instantiated twice
LEMMA ClientIsEndpoint ==
  /\ Client!EndpointInit <=> CP!EndpointInit
  /\ Client!EndpointNext <=> CP!EndpointNext
BY Zenon DEF
   Client!taskVars, CP!taskVars, Client!ReadCauses, CP!ReadCauses,
   Client!ErrorCauses, CP!ErrorCauses, Client!Result, CP!Result, Client!Ok,
   CP!Ok, Client!NoResult, CP!NoResult, Client!ShutdownError,
   CP!ShutdownError, Client!ToSessionError, CP!ToSessionError, Client!Finish,
   CP!Finish, Client!OutgoingRequestError, CP!OutgoingRequestError,
   Client!ServerError, CP!ServerError, Client!OutgoingIds, CP!OutgoingIds,
   Client!HandlerIds, CP!HandlerIds, Client!Request, CP!Request,
   Client!Cancel, CP!Cancel, Client!Response, CP!Response,
   Client!Notification, CP!Notification, Client!ErrorWithoutId,
   CP!ErrorWithoutId, Client!NextPc, CP!NextPc, Client!Push, CP!Push,
   Client!ReadTask, CP!ReadTask, Client!WriteTask, CP!WriteTask,
   Client!CancelTask, CP!CancelTask, Client!SessionTaskSet, CP!SessionTaskSet,
   Client!HandlerTask, CP!HandlerTask, Client!Tasks, CP!Tasks,
   Client!Finished, CP!Finished, Client!PushAborts, CP!PushAborts,
   Client!Reap, CP!Reap, Client!writerVars, CP!writerVars, Client!writerFrame,
   CP!writerFrame, Client!FetchMessages, CP!FetchMessages,
   Client!WriteMessage, CP!WriteMessage, Client!Flush, CP!Flush,
   Client!WriteFails, CP!WriteFails, Client!waitFrame, CP!waitFrame,
   Client!Waiting, CP!Waiting, Client!WaitStart, CP!WaitStart,
   Client!WaitServer, CP!WaitServer, Client!WaitPop, CP!WaitPop,
   Client!WaitJoin, CP!WaitJoin, Client!WaitReturn, CP!WaitReturn,
   Client!WaitDropped, CP!WaitDropped, Client!TasksInit, CP!TasksInit,
   Client!outgoingVars, CP!outgoingVars, Client!Unresolved, CP!Unresolved,
   Client!InFlight, CP!InFlight, Client!SetReady, CP!SetReady,
   Client!ApplyError, CP!ApplyError, Client!DropGuard, CP!DropGuard,
   Client!RequestRefused, CP!RequestRefused, Client!NextId, CP!NextId,
   Client!RequestRegistered, CP!RequestRegistered, Client!RequestSent,
   CP!RequestSent, Client!SerializeFails, CP!SerializeFails, Client!PollSlot,
   CP!PollSlot, Client!RequestReturns, CP!RequestReturns,
   Client!RequestDropped, CP!RequestDropped, Client!ResponseResult,
   CP!ResponseResult, Client!dispatcherFrame, CP!dispatcherFrame,
   Client!OnResponse, CP!OnResponse, Client!ResolveSlot, CP!ResolveSlot,
   Client!cancellerFrame, CP!cancellerFrame, Client!FetchCancellations,
   CP!FetchCancellations, Client!CallHook, CP!CallHook, Client!OutgoingInit,
   CP!OutgoingInit, Client!incomingVars, CP!incomingVars, Client!NewEntry,
   CP!NewEntry, Client!NoEntry, CP!NoEntry, Client!Filed, CP!Filed,
   Client!NewRequest, CP!NewRequest, Client!Remove, CP!Remove, Client!Answer,
   CP!Answer, Client!requestFrame, CP!requestFrame, Client!OnRequest,
   CP!OnRequest, Client!HandlerReplies, CP!HandlerReplies,
   Client!HandlerSpawns, CP!HandlerSpawns, Client!Disown, CP!Disown,
   Client!HandlerDisowns, CP!HandlerDisowns, Client!HandlerPanics,
   CP!HandlerPanics, Client!InitFinish, CP!InitFinish, Client!taskFrame,
   CP!taskFrame, Client!TaskReturns, CP!TaskReturns, Client!TaskFinish,
   CP!TaskFinish, Client!TaskOutlivesSession, CP!TaskOutlivesSession,
   Client!TaskPanics, CP!TaskPanics, Client!HeldTasks, CP!HeldTasks,
   Client!CancelIncoming, CP!CancelIncoming, Client!CancelAll, CP!CancelAll,
   Client!IncomingInit, CP!IncomingInit, Client!vars, CP!vars, Client!Alive,
   CP!Alive, Client!readFrame, CP!readFrame, Client!HasRequest, CP!HasRequest,
   Client!ReadLine, CP!ReadLine, Client!Stops, CP!Stops, Client!ReadEnds,
   CP!ReadEnds, Client!ReadFails, CP!ReadFails, Client!DispatchFails,
   CP!DispatchFails, Client!OnNotification, CP!OnNotification,
   Client!finishFrame, CP!finishFrame, Client!FinishRead, CP!FinishRead,
   Client!FinishWrite, CP!FinishWrite, Client!FinishCancel, CP!FinishCancel,
   Client!ShutdownAborts, CP!ShutdownAborts, Client!ShutdownSession,
   CP!ShutdownSession, Client!Shutdown, CP!Shutdown, Client!DropSession,
   CP!DropSession, Client!IsNotification, CP!IsNotification, Client!Notify,
   CP!Notify, Client!Init, CP!Init, Client!CallerStep, CP!CallerStep,
   Client!ReaderStep, CP!ReaderStep, Client!WriterStep, CP!WriterStep,
   Client!CancellerStep, CP!CancellerStep, Client!TaskStep, CP!TaskStep,
   Client!WaiterStep, CP!WaiterStep, Client!pipeVars, CP!pipeVars,
   Client!endpointVars, CP!endpointVars, Client!ReadAs, CP!ReadAs,
   Client!ReadMessage, CP!ReadMessage, Client!ReadEnd, CP!ReadEnd,
   Client!Cancelling, CP!Cancelling, Client!HandlerCancels, CP!HandlerCancels,
   Client!Dispatch, CP!Dispatch, Client!Read, CP!Read, Client!Write, CP!Write,
   Client!ReapTask, CP!ReapTask, Client!TellPeer, CP!TellPeer,
   Client!EndpointInit, CP!EndpointInit, Client!EndpointNext, CP!EndpointNext

\* The same of the server
LEMMA ServerIsEndpoint ==
  /\ Server!EndpointInit <=> SP!EndpointInit
  /\ Server!EndpointNext <=> SP!EndpointNext
BY Zenon DEF
   Server!taskVars, SP!taskVars, Server!ReadCauses, SP!ReadCauses,
   Server!ErrorCauses, SP!ErrorCauses, Server!Result, SP!Result, Server!Ok,
   SP!Ok, Server!NoResult, SP!NoResult, Server!ShutdownError,
   SP!ShutdownError, Server!ToSessionError, SP!ToSessionError, Server!Finish,
   SP!Finish, Server!OutgoingRequestError, SP!OutgoingRequestError,
   Server!ServerError, SP!ServerError, Server!OutgoingIds, SP!OutgoingIds,
   Server!HandlerIds, SP!HandlerIds, Server!Request, SP!Request,
   Server!Cancel, SP!Cancel, Server!Response, SP!Response,
   Server!Notification, SP!Notification, Server!ErrorWithoutId,
   SP!ErrorWithoutId, Server!NextPc, SP!NextPc, Server!Push, SP!Push,
   Server!ReadTask, SP!ReadTask, Server!WriteTask, SP!WriteTask,
   Server!CancelTask, SP!CancelTask, Server!SessionTaskSet, SP!SessionTaskSet,
   Server!HandlerTask, SP!HandlerTask, Server!Tasks, SP!Tasks,
   Server!Finished, SP!Finished, Server!PushAborts, SP!PushAborts,
   Server!Reap, SP!Reap, Server!writerVars, SP!writerVars, Server!writerFrame,
   SP!writerFrame, Server!FetchMessages, SP!FetchMessages,
   Server!WriteMessage, SP!WriteMessage, Server!Flush, SP!Flush,
   Server!WriteFails, SP!WriteFails, Server!waitFrame, SP!waitFrame,
   Server!Waiting, SP!Waiting, Server!WaitStart, SP!WaitStart,
   Server!WaitServer, SP!WaitServer, Server!WaitPop, SP!WaitPop,
   Server!WaitJoin, SP!WaitJoin, Server!WaitReturn, SP!WaitReturn,
   Server!WaitDropped, SP!WaitDropped, Server!TasksInit, SP!TasksInit,
   Server!outgoingVars, SP!outgoingVars, Server!Unresolved, SP!Unresolved,
   Server!InFlight, SP!InFlight, Server!SetReady, SP!SetReady,
   Server!ApplyError, SP!ApplyError, Server!DropGuard, SP!DropGuard,
   Server!RequestRefused, SP!RequestRefused, Server!NextId, SP!NextId,
   Server!RequestRegistered, SP!RequestRegistered, Server!RequestSent,
   SP!RequestSent, Server!SerializeFails, SP!SerializeFails, Server!PollSlot,
   SP!PollSlot, Server!RequestReturns, SP!RequestReturns,
   Server!RequestDropped, SP!RequestDropped, Server!ResponseResult,
   SP!ResponseResult, Server!dispatcherFrame, SP!dispatcherFrame,
   Server!OnResponse, SP!OnResponse, Server!ResolveSlot, SP!ResolveSlot,
   Server!cancellerFrame, SP!cancellerFrame, Server!FetchCancellations,
   SP!FetchCancellations, Server!CallHook, SP!CallHook, Server!OutgoingInit,
   SP!OutgoingInit, Server!incomingVars, SP!incomingVars, Server!NewEntry,
   SP!NewEntry, Server!NoEntry, SP!NoEntry, Server!Filed, SP!Filed,
   Server!NewRequest, SP!NewRequest, Server!Remove, SP!Remove, Server!Answer,
   SP!Answer, Server!requestFrame, SP!requestFrame, Server!OnRequest,
   SP!OnRequest, Server!HandlerReplies, SP!HandlerReplies,
   Server!HandlerSpawns, SP!HandlerSpawns, Server!Disown, SP!Disown,
   Server!HandlerDisowns, SP!HandlerDisowns, Server!HandlerPanics,
   SP!HandlerPanics, Server!InitFinish, SP!InitFinish, Server!taskFrame,
   SP!taskFrame, Server!TaskReturns, SP!TaskReturns, Server!TaskFinish,
   SP!TaskFinish, Server!TaskOutlivesSession, SP!TaskOutlivesSession,
   Server!TaskPanics, SP!TaskPanics, Server!HeldTasks, SP!HeldTasks,
   Server!CancelIncoming, SP!CancelIncoming, Server!CancelAll, SP!CancelAll,
   Server!IncomingInit, SP!IncomingInit, Server!vars, SP!vars, Server!Alive,
   SP!Alive, Server!readFrame, SP!readFrame, Server!HasRequest, SP!HasRequest,
   Server!ReadLine, SP!ReadLine, Server!Stops, SP!Stops, Server!ReadEnds,
   SP!ReadEnds, Server!ReadFails, SP!ReadFails, Server!DispatchFails,
   SP!DispatchFails, Server!OnNotification, SP!OnNotification,
   Server!finishFrame, SP!finishFrame, Server!FinishRead, SP!FinishRead,
   Server!FinishWrite, SP!FinishWrite, Server!FinishCancel, SP!FinishCancel,
   Server!ShutdownAborts, SP!ShutdownAborts, Server!ShutdownSession,
   SP!ShutdownSession, Server!Shutdown, SP!Shutdown, Server!DropSession,
   SP!DropSession, Server!IsNotification, SP!IsNotification, Server!Notify,
   SP!Notify, Server!Init, SP!Init, Server!CallerStep, SP!CallerStep,
   Server!ReaderStep, SP!ReaderStep, Server!WriterStep, SP!WriterStep,
   Server!CancellerStep, SP!CancellerStep, Server!TaskStep, SP!TaskStep,
   Server!WaiterStep, SP!WaiterStep, Server!pipeVars, SP!pipeVars,
   Server!endpointVars, SP!endpointVars, Server!ReadAs, SP!ReadAs,
   Server!ReadMessage, SP!ReadMessage, Server!ReadEnd, SP!ReadEnd,
   Server!Cancelling, SP!Cancelling, Server!HandlerCancels, SP!HandlerCancels,
   Server!Dispatch, SP!Dispatch, Server!Read, SP!Read, Server!Write, SP!Write,
   Server!ReapTask, SP!ReapTask, Server!TellPeer, SP!TellPeer,
   Server!EndpointInit, SP!EndpointInit, Server!EndpointNext, SP!EndpointNext

\* Both sides take a step or stutter.
BothStep == [CP!EndpointNext]_(CP!endpointVars) /\ [SP!EndpointNext]_(SP!endpointVars)

\* A step of the connection is one of each endpoint, or leaves it alone.
LEMMA SidesStep == ASSUME [Next]_connectionVars PROVE BothStep
<1>1. UNCHANGED clientVars => UNCHANGED CP!endpointVars
  BY DEF clientVars, CP!endpointVars, CP!pipeVars, CP!vars, CP!taskVars,
     CP!outgoingVars, CP!incomingVars
<1>2. UNCHANGED serverVars => UNCHANGED SP!endpointVars
  BY DEF serverVars, SP!endpointVars, SP!pipeVars, SP!vars, SP!taskVars,
     SP!outgoingVars, SP!incomingVars
<1>3. CASE UNCHANGED connectionVars
  BY <1>1, <1>2, <1>3 DEF connectionVars, BothStep
<1>4. CASE Client!EndpointNext /\ UNCHANGED serverVars
  BY <1>2, <1>4, ClientIsEndpoint DEF BothStep
<1>5. CASE Server!EndpointNext /\ UNCHANGED clientVars
  BY <1>1, <1>5, ServerIsEndpoint DEF BothStep
<1>6. QED
  BY <1>3, <1>4, <1>5 DEF Next, Terminated
-----------------------------------------------------------------------------
(* What can be read                                                        *)

\* The lines a side can read are those its peer has put on the wire.
LEMMA ReadableLines ==
  ASSUME NEW S, NEW o \in Seq(S), NEW n, NEW t, NEW open, NEW k \in Nat,
         k = IF t = "whole" /\ ~open THEN n + 1 ELSE n, k <= Len(o)
  PROVE  /\ Readable(o, n, t, open) \in Seq(S)
         /\ Len(Readable(o, n, t, open)) = k
         /\ DOMAIN Readable(o, n, t, open) = 1..k
         /\ \A p \in 1..k : p \in DOMAIN o /\ Readable(o, n, t, open)[p] = o[p]
<1>1. Readable(o, n, t, open) = SubSeq(o, 1, k)
  BY DEF Readable
<1>2. DOMAIN o = 1..Len(o) /\ Len(o) \in Nat /\ \A p \in 1..k : p \in 1..Len(o)
  BY LenProperties
<1>3. \A p \in 1..k : o[p] \in S
  BY <1>2, ElementOfSeq
<1>4. /\ SubSeq(o, 1, k) \in Seq(S)
      /\ Len(SubSeq(o, 1, k)) = IF 1 <= k THEN k - 1 + 1 ELSE 0
      /\ \A p \in 1..(k - 1 + 1) : SubSeq(o, 1, k)[p] = o[1 + p - 1]
  BY <1>3, SubSeqProperties
<1>5. Len(SubSeq(o, 1, k)) = k
  BY <1>4
<1>6. \A p \in 1..k : SubSeq(o, 1, k)[p] = o[p]
  BY <1>4
<1>7. QED
  BY <1>1, <1>2, <1>4, <1>5, <1>6, LenProperties

ClientInbound == Readable(s_outbox, s_written, s_torn, ServerHolds)
ServerInbound == Readable(outbox, written, torn, ClientHolds)

\* The client reads what the server wrote.
ClientReadsPeer ==
  /\ ClientInbound \in Seq(CP!PeerMessages)
  /\ Len(ClientInbound) = SP!OnWire /\ SP!OnWire \in Nat
  /\ DOMAIN ClientInbound = 1..SP!OnWire
  /\ \A p \in 1..SP!OnWire : p \in DOMAIN s_outbox /\ ClientInbound[p] = s_outbox[p]

\* It does, and a peer may send all of it.
LEMMA ClientReads == SP!EndpointInv => ClientReadsPeer
<1> SUFFICES ASSUME SP!EndpointInv PROVE ClientReadsPeer
  OBVIOUS
<1>1. /\ s_outbox \in Seq(SP!OutgoingMessages)
      /\ SP!OnWire \in Nat /\ SP!OnWire <= Len(s_outbox)
  BY SP!WireBound, ServerAssumptions, ClientAssumptions
<1>2. SP!OnWire = IF s_torn = "whole" /\ ~ServerHolds THEN s_written + 1 ELSE s_written
  BY DEF SP!OnWire, SP!Holding, ServerHolds, Holds
<1>3. SP!OutgoingMessages \subseteq CP!PeerMessages
  BY DEF SP!OutgoingMessages, CP!PeerMessages, SP!OutgoingIds, CP!OutgoingIds,
     SP!HandlerIds, SP!Notification, CP!Notification, SP!ErrorWithoutId,
     CP!ErrorWithoutId
<1>4. s_outbox \in Seq(CP!PeerMessages)
  BY <1>1, <1>3, SeqDef
<1>5. QED
  BY <1>1, <1>2, <1>4, ReadableLines DEF ClientReadsPeer, ClientInbound

\* The same of the server
ServerReadsPeer ==
  /\ ServerInbound \in Seq(SP!PeerMessages)
  /\ Len(ServerInbound) = CP!OnWire /\ CP!OnWire \in Nat
  /\ DOMAIN ServerInbound = 1..CP!OnWire
  /\ \A p \in 1..CP!OnWire : p \in DOMAIN outbox /\ ServerInbound[p] = outbox[p]

\* It does, too.
LEMMA ServerReads == CP!EndpointInv => ServerReadsPeer
<1> SUFFICES ASSUME CP!EndpointInv PROVE ServerReadsPeer
  OBVIOUS
<1>1. /\ outbox \in Seq(CP!OutgoingMessages)
      /\ CP!OnWire \in Nat /\ CP!OnWire <= Len(outbox)
  BY CP!WireBound, ClientAssumptions
<1>2. CP!OnWire = IF torn = "whole" /\ ~ClientHolds THEN written + 1 ELSE written
  BY DEF CP!OnWire, CP!Holding, ClientHolds, Holds
<1>3. CP!OutgoingMessages \subseteq SP!PeerMessages
  BY DEF CP!OutgoingMessages, SP!PeerMessages, CP!OutgoingIds, SP!OutgoingIds,
     CP!HandlerIds, CP!Notification, SP!Notification, CP!ErrorWithoutId,
     SP!ErrorWithoutId
<1>4. outbox \in Seq(SP!PeerMessages)
  BY <1>1, <1>3, SeqDef
<1>5. QED
  BY <1>1, <1>2, <1>4, ReadableLines DEF ServerReadsPeer, ServerInbound

\* So it is after the next step.
LEMMA ReadsNext ==
  /\ SP!EndpointInv' => ClientReadsPeer'
  /\ CP!EndpointInv' => ServerReadsPeer'
BY ClientReads, ServerReads, PTL
-----------------------------------------------------------------------------
(* ConnectionInv is inductive                                              *)

\* Facts every step below needs
SidesAreSound ==
  /\ CP!EndpointInv /\ CP!TypeInv /\ CP!CallInv /\ CP!OutcomeInv /\ CP!AnswerInv
  /\ CP!OneLineInHand /\ CP!BreaksShow /\ CP!RequestsSentOnce /\ CP!PeerTypeOK
  /\ SP!EndpointInv /\ SP!TypeInv /\ SP!CallInv /\ SP!OutcomeInv /\ SP!AnswerInv
  /\ SP!OneLineInHand /\ SP!BreaksShow /\ SP!PeerTypeOK
  /\ ClientReadsPeer /\ ServerReadsPeer

\* ConnectionInv holds all that the steps of the sides rest on.
LEMMA InvIsSound == ConnectionInv => SidesAreSound
BY ClientReads, ServerReads DEF ConnectionInv, SidesAreSound, CP!EndpointInv,
   CP!SessionInv, SP!EndpointInv, SP!SessionInv

\* Each side keeps what an endpoint keeps.
LEMMA SidesKeep ==
  ASSUME SidesAreSound, BothStep
  PROVE  /\ CP!EndpointInv' /\ [CP!Next]_(CP!vars)
         /\ SP!EndpointInv' /\ [SP!Next]_(SP!vars)
<1>1. CP!EndpointInv' /\ [CP!Next]_(CP!vars)
  BY CP!EndpointInvStep, ClientAssumptions DEF SidesAreSound, BothStep, Panics
<1>2. SP!EndpointInv' /\ [SP!Next]_(SP!vars)
  BY SP!EndpointInvStep, ServerAssumptions, ClientAssumptions
     DEF SidesAreSound, BothStep, Panics
<1>3. QED
  BY <1>1, <1>2

\* A side takes the lines in order, and no more than there are.
LEMMA ReceivedMoves ==
  ASSUME SidesAreSound, BothStep
  PROVE  /\ received \in Nat /\ received <= SP!OnWire
         /\ \/ received' = received /\ ~CP!ReadMessage
            \/ received' = received + 1 /\ received' <= SP!OnWire /\ CP!ReadMessage
         /\ s_received \in Nat /\ s_received <= CP!OnWire
         /\ \/ s_received' = s_received /\ ~SP!ReadMessage
            \/ s_received' = s_received + 1 /\ s_received' <= CP!OnWire /\ SP!ReadMessage
<1>1. /\ received \in Nat /\ received <= SP!OnWire
      /\ s_received \in Nat /\ s_received <= CP!OnWire
  BY DEF SidesAreSound, CP!PeerTypeOK, SP!PeerTypeOK, ClientReadsPeer, ServerReadsPeer,
     ClientInbound, ServerInbound
<1>2. \/ received' = received /\ ~CP!ReadMessage
      \/ received' = received + 1 /\ received' <= SP!OnWire /\ CP!ReadMessage
  <2>1. CASE CP!ReadMessage
    <3>1. received' = received + 1 /\ received < Len(ClientInbound)
      BY <2>1 DEF CP!ReadMessage, ClientInbound
    <3>2. QED
      BY <1>1, <2>1, <3>1 DEF SidesAreSound, ClientReadsPeer
  <2>2. CASE ~CP!ReadMessage
    BY <2>2, CP!HandMoves, ClientAssumptions DEF SidesAreSound, BothStep, Panics
  <2>3. QED
    BY <2>1, <2>2
<1>3. \/ s_received' = s_received /\ ~SP!ReadMessage
      \/ s_received' = s_received + 1 /\ s_received' <= CP!OnWire /\ SP!ReadMessage
  <2>1. CASE SP!ReadMessage
    <3>1. s_received' = s_received + 1 /\ s_received < Len(ServerInbound)
      BY <2>1 DEF SP!ReadMessage, ServerInbound
    <3>2. QED
      BY <1>1, <2>1, <3>1 DEF SidesAreSound, ServerReadsPeer
  <2>2. CASE ~SP!ReadMessage
    BY <2>2, SP!HandMoves, ServerAssumptions, ClientAssumptions
       DEF SidesAreSound, BothStep, Panics
  <2>3. QED
    BY <2>1, <2>2
<1>4. QED
  BY <1>1, <1>2, <1>3

\* No side gets ahead of what the other has written.
LEMMA PeerTypeStep ==
  ASSUME SidesAreSound, BothStep PROVE CP!PeerTypeOK' /\ SP!PeerTypeOK'
<1>1. ClientReadsPeer' /\ ServerReadsPeer'
  BY SidesKeep, ReadsNext
<1>2. SP!OnWire <= SP!OnWire' /\ CP!OnWire <= CP!OnWire'
  <2>1. CP!OnWire <= CP!OnWire'
    BY SidesKeep, CP!WireStays, ClientAssumptions DEF SidesAreSound, BothStep
  <2>2. SP!OnWire <= SP!OnWire'
    BY SidesKeep, SP!WireStays, ServerAssumptions, ClientAssumptions
       DEF SidesAreSound, BothStep
  <2>3. QED
    BY <2>1, <2>2
<1>3. /\ received' \in Nat /\ received' <= SP!OnWire
      /\ s_received' \in Nat /\ s_received' <= CP!OnWire
  BY ReceivedMoves
<1>4. /\ SP!OnWire \in Nat /\ CP!OnWire \in Nat
      /\ SP!OnWire' \in Nat /\ CP!OnWire' \in Nat
  BY <1>1 DEF SidesAreSound, ClientReadsPeer, ServerReadsPeer
<1>5. received' \in 0..SP!OnWire' /\ s_received' \in 0..CP!OnWire'
  BY <1>2, <1>3, <1>4
<1>6. QED
  BY <1>1, <1>5 DEF CP!PeerTypeOK, SP!PeerTypeOK, ClientReadsPeer, ServerReadsPeer,
     ClientInbound, ServerInbound

\* A side that sees an error had it from the other, or from a line that was cut.
LEMMA ExcusedStep ==
  ASSUME SidesAreSound, BothStep, ErrorsExcused PROVE ErrorsExcused'
<1>1. CASE torn = "cut" \/ SP!Broken
  <2>1. torn = "cut" => torn' = "cut"
    BY SidesKeep, CP!WireStays, ClientAssumptions DEF SidesAreSound, BothStep
  <2>2. SP!Broken => SP!Broken'
    BY SidesKeep, SP!BrokenStays, ServerAssumptions, ClientAssumptions DEF SidesAreSound
  <2>3. QED
    BY <1>1, <2>1, <2>2 DEF ErrorsExcused
<1>2. CASE ~(torn = "cut" \/ SP!Broken)
  <2>1. ~CP!Erroneous /\ ~SP!Erroneous
    BY <1>2 DEF ErrorsExcused
  <2>2. ~CP!Erroneous'
    <3>1. ~(s_torn = "cut")
      BY <1>2 DEF SidesAreSound, SP!BreaksShow, SP!Broken
    <3>2. ~\E p \in DOMAIN ClientInbound : ClientInbound[p].type = "ErrorWithoutId"
      BY <2>1 DEF SidesAreSound, ClientReadsPeer, SP!Erroneous
    <3>3. QED
      BY <2>1, <3>1, <3>2, SidesKeep, CP!ErrorsCome, ClientAssumptions
         DEF SidesAreSound, BothStep, Panics, ClientInbound
  <2>3. ~SP!Erroneous'
    <3>1. ~\E p \in DOMAIN ServerInbound : ServerInbound[p].type = "ErrorWithoutId"
      BY <2>1 DEF SidesAreSound, ServerReadsPeer, CP!Erroneous
    <3>2. QED
      BY <1>2, <2>1, <3>1, SidesKeep, SP!ErrorsCome, ServerAssumptions,
         ClientAssumptions DEF SidesAreSound, BothStep, Panics, ServerInbound
  <2>4. QED
    BY <2>2, <2>3 DEF ErrorsExcused
<1>3. QED
  BY <1>1, <1>2

\* Neither side ends before one is shut down.
LEMMA BothQuietStep ==
  ASSUME SidesAreSound, BothStep, BothQuiet PROVE BothQuiet'
<1>1. SUFFICES ASSUME ~is_shutdown', ~s_is_shutdown' PROVE CP!Quiet' /\ SP!Quiet'
  BY DEF BothQuiet
<1>2. ~is_shutdown
  BY <1>1, SidesKeep, CP!ShutdownStays, ClientAssumptions
<1>3. ~s_is_shutdown
  BY <1>1, SidesKeep, SP!ShutdownStays, ServerAssumptions, ClientAssumptions
<1>4. CP!Quiet /\ SP!Quiet
  BY <1>2, <1>3 DEF BothQuiet
<1>5. /\ ServerHolds /\ ~(s_torn = "cut")
      /\ \A p \in DOMAIN ClientInbound : ClientInbound[p].type # "ErrorWithoutId"
  BY <1>4 DEF SP!Quiet, SP!Erroneous, ServerHolds, Holds, SidesAreSound,
     SP!BreaksShow, ClientReadsPeer
<1>6. /\ ClientHolds /\ ~(torn = "cut")
      /\ \A p \in DOMAIN ServerInbound : ServerInbound[p].type # "ErrorWithoutId"
  BY <1>4 DEF CP!Quiet, CP!Erroneous, ClientHolds, Holds, SidesAreSound,
     CP!BreaksShow, ServerReadsPeer
<1>7. CP!Quiet'
  BY <1>1, <1>4, <1>5, CP!QuietStep, ClientAssumptions
     DEF SidesAreSound, BothStep, Panics, ClientInbound
<1>8. SP!Quiet'
  BY <1>1, <1>4, <1>6, SP!QuietStep, ServerAssumptions, ClientAssumptions
     DEF SidesAreSound, BothStep, Panics, ServerInbound
<1>9. QED
  BY <1>7, <1>8

\* The answers calls get are to requests that were answered.
LEMMA AnsweredStep ==
  ASSUME SidesAreSound, BothStep, CP!AnswersWithin(AnsweredIds)
  PROVE  CP!AnswersWithin(AnsweredIds)'
<1>1. PICK A, B : A = AnsweredIds /\ B = AnsweredIds'
  OBVIOUS
<1>2. \A q \in 1..SP!OnWire : s_outbox'[q] = s_outbox[q]
  BY SidesKeep, SP!OutboxStays, ServerAssumptions, ClientAssumptions
     DEF SidesAreSound, ClientReadsPeer, SP!OutboxGrows
<1>3. /\ received \in Nat /\ received' \in Nat /\ SP!OnWire \in Nat
      /\ received <= received' /\ received' <= SP!OnWire
  BY ReceivedMoves DEF SidesAreSound, ClientReadsPeer
<1>4. A \subseteq B
  BY <1>1, <1>2, <1>3 DEF AnsweredIds
<1>5. ASSUME CP!ReadMessage, ClientInbound[received'].type = "Response"
      PROVE  ClientInbound[received'].id \in B
  <2>1. received' \in 1..received' /\ received' \in 1..SP!OnWire
    BY <1>3, <1>5, ReceivedMoves
  <2>2. ClientInbound[received'] = s_outbox'[received']
    BY <1>2, <2>1 DEF SidesAreSound, ClientReadsPeer
  <2>3. QED
    BY <1>1, <1>5, <2>1, <2>2 DEF AnsweredIds
<1>6. CP!AnswersWithin(A)
  BY <1>1
<1>7. CP!AnswersWithin(B)'
  BY <1>4, <1>5, <1>6, SidesKeep, CP!AnswersStep, ClientAssumptions
     DEF SidesAreSound, BothStep, Panics, ClientInbound
<1>8. QED
  BY <1>1, <1>7 DEF CP!AnswersWithin

\* No two requests the server reads have one id.
LEMMA RequestedStep ==
  ASSUME SidesAreSound, BothStep, SP!RequestsWithin(RequestedIds)
  PROVE  SP!RequestsWithin(RequestedIds)'
<1>1. PICK A, B : A = RequestedIds /\ B = RequestedIds'
  OBVIOUS
<1>2. \A q \in 1..CP!OnWire : q \in DOMAIN outbox /\ outbox'[q] = outbox[q]
  BY SidesKeep, CP!OutboxStays, ClientAssumptions
     DEF SidesAreSound, ServerReadsPeer, CP!OutboxGrows
<1>3. /\ s_received \in Nat /\ s_received' \in Nat /\ CP!OnWire \in Nat
      /\ s_received <= s_received' /\ s_received' <= CP!OnWire
  BY ReceivedMoves DEF SidesAreSound, ServerReadsPeer
<1>4. A \subseteq B
  BY <1>1, <1>2, <1>3 DEF RequestedIds
<1>5. ASSUME SP!ReadMessage, ServerInbound[s_received'].type = "Request"
      PROVE  ServerInbound[s_received'].id \in B \ A
  <2>1. /\ s_received' \in 1..s_received' /\ s_received' \in 1..CP!OnWire
        /\ s_received' \notin 1..s_received
    BY <1>3, <1>5, ReceivedMoves
  <2>2. PICK m : m = ServerInbound[s_received']
    OBVIOUS
  <2>3. m = outbox[s_received'] /\ m = outbox'[s_received']
    BY <1>2, <2>1, <2>2 DEF SidesAreSound, ServerReadsPeer
  <2>4. m.id \in B
    BY <1>1, <1>5, <2>1, <2>2, <2>3 DEF RequestedIds
  <2>5. ASSUME m.id \in A PROVE FALSE
    <3>1. PICK q \in 1..s_received : outbox[q].type = "Request" /\ outbox[q].id = m.id
      BY <1>1, <2>5 DEF RequestedIds
    <3>2. q \in DOMAIN outbox /\ s_received' \in DOMAIN outbox /\ q # s_received'
      BY <1>2, <1>3, <2>1
    <3>3. \A p \in DOMAIN outbox : outbox[p] \in CP!OutgoingMessages
      <4>1. outbox \in Seq(CP!OutgoingMessages)
        BY CP!WireBound, ClientAssumptions DEF SidesAreSound
      <4>2. QED
        BY <4>1, LenProperties, ElementOfSeq
    <3>4. outbox[q] = m
      BY <1>5, <2>2, <2>3, <3>1, <3>2, <3>3, CP!SameRequest, ClientAssumptions
    <3>5. QED
      BY <1>5, <2>2, <2>3, <3>2, <3>4 DEF SidesAreSound, CP!RequestsSentOnce
  <2>6. QED
    BY <2>2, <2>4, <2>5
<1>6. SP!RequestsWithin(A)
  BY <1>1
<1>7. SP!RequestsWithin(B)'
  BY <1>4, <1>5, <1>6, SidesKeep, SP!RequestsStep, ServerAssumptions, ClientAssumptions
     DEF SidesAreSound, BothStep, Panics, ServerInbound
<1>8. QED
  BY <1>1, <1>7 DEF SP!RequestsWithin

\* ConnectionInv is inductive.
LEMMA ConnectionStep == ConnectionInv /\ [Next]_connectionVars => ConnectionInv'
<1> SUFFICES ASSUME ConnectionInv, [Next]_connectionVars PROVE ConnectionInv'
  OBVIOUS
<1>1. SidesAreSound /\ BothStep
  BY InvIsSound, SidesStep
<1>2. ErrorsExcused /\ BothQuiet
  BY DEF ConnectionInv
<1>3. CP!AnswersWithin(AnsweredIds)' /\ SP!RequestsWithin(RequestedIds)'
  BY <1>1, AnsweredStep, RequestedStep DEF ConnectionInv
<1>4. QED
  BY <1>1, <1>2, <1>3, SidesKeep, PeerTypeStep, ExcusedStep, BothQuietStep
     DEF ConnectionInv

\* ConnectionInv holds at first: both sides are fresh.
LEMMA ConnectionInit == Init => ConnectionInv
<1> SUFFICES ASSUME Init PROVE ConnectionInv
  OBVIOUS
<1>1. CP!EndpointInit /\ SP!EndpointInit
  BY ClientIsEndpoint, ServerIsEndpoint DEF Init
<1>2. CP!EndpointInv /\ CP!Quiet /\ CP!AnswersWithin({})
  BY <1>1, CP!EndpointInvInit, CP!QuietInit, CP!NothingWithin, ClientAssumptions
<1>3. SP!EndpointInv /\ SP!Quiet /\ SP!RequestsWithin({})
  BY <1>1, SP!EndpointInvInit, SP!QuietInit, SP!NothingWithin, ServerAssumptions,
     ClientAssumptions
<1>4. received = 0 /\ s_received = 0
  BY <1>1 DEF CP!EndpointInit, SP!EndpointInit
<1>5. AnsweredIds = {} /\ RequestedIds = {}
  BY <1>4 DEF AnsweredIds, RequestedIds
<1>6. CP!PeerTypeOK /\ SP!PeerTypeOK
  BY <1>2, <1>3, <1>4, ClientReads, ServerReads DEF CP!PeerTypeOK, SP!PeerTypeOK,
     ClientReadsPeer, ServerReadsPeer, ClientInbound, ServerInbound
<1>7. ErrorsExcused /\ BothQuiet
  BY <1>2, <1>3 DEF ErrorsExcused, BothQuiet, CP!Quiet, SP!Quiet
<1>8. QED
  BY <1>2, <1>3, <1>5, <1>6, <1>7 DEF ConnectionInv

\* ConnectionInv holds in every state of a connection.
LEMMA ConnectionCorrect == Spec => []ConnectionInv
BY ConnectionInit, ConnectionStep, PTL DEF Spec
-----------------------------------------------------------------------------
(* What it means                                                           *)

\* Each side of a channel is a Session: what holds of any Session, whatever
\* its peer sends, holds of it.
THEOREM SidesAreSessions == Spec => CP!Spec /\ SP!Spec
<1>1. Init => CP!Init /\ SP!Init
  BY ClientIsEndpoint, ServerIsEndpoint DEF Init, CP!EndpointInit, SP!EndpointInit
<1>2. ConnectionInv /\ [Next]_connectionVars => [CP!Next]_(CP!vars) /\ [SP!Next]_(SP!vars)
  BY InvIsSound, SidesStep, SidesKeep
<1>3. QED
  BY <1>1, <1>2, ConnectionCorrect, PTL DEF Spec, CP!Spec, SP!Spec

\* As long as nobody shuts a side down, no task of either ends and no call
\* fails: no message of a session is an error to the other, and neither drops
\* its stream. (run_raw and run_write_task_raw over Session::new_channel.)
THEOREM NothingEnds == Spec => []NothingEndsUnprovoked
<1>1. ConnectionInv => NothingEndsUnprovoked
  BY DEF ConnectionInv, BothQuiet, CP!Quiet, SP!Quiet, NothingEndsUnprovoked,
     AnswerResults, CP!AnswerResults, Client!Ok, Client!Result,
     Client!ToSessionError, Client!NoResult, CP!Ok, CP!Result, CP!ToSessionError,
     CP!NoResult
<1>2. QED
  BY <1>1, ConnectionCorrect, PTL

\* The server's wait reports an error only if the client's last line was cut,
\* or if the server had something left to write to a client that was gone.
\* (Session::wait and SessionState::server_error.)
THEOREM ClientEnds == Spec => []ClientEndsCleanly
<1>1. ConnectionInv => ClientEndsCleanly
  <2>1. SUFFICES ASSUME ConnectionInv, NEW w \in ServerWaits,
                        s_waiters[w].pc = "returned", s_waiters[w].result # Server!Ok
                 PROVE  torn = "cut" \/ s_written < Len(s_outbox)
    BY DEF ClientEndsCleanly
  <2>2. s_read_state \in SP!ErrorCauses \/ SP!Broken
    BY <2>1 DEF ConnectionInv, SP!EndpointInv, SP!WaitsTellErrors, SP!Ok, SP!Result,
       Server!Ok, Server!Result
  <2>3. torn = "cut" \/ SP!Broken
    BY <2>1, <2>2 DEF ConnectionInv, ErrorsExcused, SP!Erroneous
  <2>4. QED
    BY <2>3 DEF SP!Broken
<1>2. QED
  BY <1>1, ConnectionCorrect, PTL

\* The answer a call returns was computed for the request this call made, by
\* the handler of that request: ids, tables and queues of two sessions keep
\* calls apart. (Session::request, on_request and on_response.)
THEOREM AnswersAreOwn == Spec => []OwnAnswer
<1>1. ConnectionInv => OwnAnswer
  <2>1. SUFFICES ASSUME ConnectionInv, NEW c \in ClientCalls,
                        callers[c].result \in AnswerResults
                 PROVE  \E p \in 1..received :
                          /\ s_outbox[p].type = "Response"
                          /\ s_outbox[p].id = callers[c].id
                          /\ s_outbox[p].for = s_outbox[p].by
                          /\ \A n \in DOMAIN s_requests :
                               s_requests[n].id = callers[c].id => n = s_outbox[p].for
    BY DEF OwnAnswer
  <2>2. callers[c].result \in CP!AnswerResults
    BY <2>1 DEF AnswerResults, CP!AnswerResults, Client!Ok, Client!Result,
       Client!ToSessionError, CP!Ok, CP!Result, CP!ToSessionError
  <2>3. callers[c].id \in AnsweredIds
    BY <2>1, <2>2 DEF ConnectionInv, CP!AnswersWithin
  <2>4. PICK p \in 1..received :
          s_outbox[p].type = "Response" /\ s_outbox[p].id = callers[c].id
    BY <2>3 DEF AnsweredIds
  <2>5. p \in DOMAIN s_outbox
    BY <2>1, InvIsSound DEF SidesAreSound, CP!PeerTypeOK, ClientReadsPeer, ClientInbound
  <2>6. /\ s_outbox[p].for \in DOMAIN s_requests /\ s_outbox[p].by \in DOMAIN s_requests
        /\ s_requests[s_outbox[p].for].id = callers[c].id
        /\ s_requests[s_outbox[p].by].id = callers[c].id
    BY <2>1, <2>4, <2>5, InvIsSound DEF SidesAreSound, SP!EndpointInv,
       SP!ResponsesRespond, SP!AnswerInv, SP!AnsweredWereRead, SP!IsResponse
  <2>7. \A n, k \in DOMAIN s_requests : s_requests[n].id = s_requests[k].id => n = k
    BY <2>1 DEF ConnectionInv, SP!RequestsWithin
  <2>8. QED
    BY <2>4, <2>6, <2>7
<1>2. QED
  BY <1>1, ConnectionCorrect, PTL

\* Every response the server queued was made by the code of the request it is
\* for. A peer in general may use ids again, so that a task of a cancelled
\* request finds another's entry; a session as peer never does, whatever its
\* calls cancel. (incoming_requests and task_finish.)
NoStaleAnswer ==
  \A p \in DOMAIN s_outbox :
    s_outbox[p].type = "Response" => s_outbox[p].by = s_outbox[p].for

\* No answer between two sessions is stale: no id is read twice.
\* (Session::request's ids against insert_incoming_request.)
THEOREM NoAnswerIsStale == Spec => []NoStaleAnswer
<1>1. ConnectionInv => NoStaleAnswer
  <2>1. SUFFICES ASSUME ConnectionInv, NEW p \in DOMAIN s_outbox,
                        s_outbox[p].type = "Response"
                 PROVE  s_outbox[p].by = s_outbox[p].for
    BY DEF NoStaleAnswer
  <2>2. /\ s_outbox[p].for \in DOMAIN s_requests /\ s_outbox[p].by \in DOMAIN s_requests
        /\ s_requests[s_outbox[p].for].id = s_requests[s_outbox[p].by].id
    BY <2>1, InvIsSound DEF SidesAreSound, SP!EndpointInv,
       SP!ResponsesRespond, SP!AnswerInv, SP!AnsweredWereRead, SP!IsResponse
  <2>3. QED
    BY <2>1, <2>2 DEF ConnectionInv, SP!RequestsWithin
<1>2. QED
  BY <1>1, ConnectionCorrect, PTL

\* Over a channel, too, the contract of Session::request is kept: the
\* client's calls settle once, an end settles all of them, and the hook hears
\* of each abandoned call once. (Session::request over Session::new_channel.)
THEOREM ClientKeepsContract == Spec => CP!KeepsContract
BY SidesAreSessions, CP!SessionKeepsContract, ClientAssumptions
=============================================================================
