------------------------- MODULE SessionInvariants -------------------------
(***************************************************************************)
(* Inductive strengthenings of the invariants of SessionProperties: what   *)
(* each task knows about the shared state at each point of its code.       *)
(***************************************************************************)
EXTENDS SessionProperties

\* The writer and the cancel task are on an element only while one is left.
WriterInv == WriterTypeOK /\ (writer = "write" => written < taken)

CancellerInv ==
  /\ CancellationsTypeOK
  /\ canceller \in {"fetch", "hooks", "ended", "done"}
  /\ canceller = "hooks" => called < fetched

\* What the read task holds while it is on a message or past the last one
DispatcherInv ==
  /\ DispatcherTypeOK
  /\ dispatcher.pc = "batch" => dispatcher.batch # <<>>
  /\ HasRequest(dispatcher.batch)
       => Len(requests) + Len(dispatcher.batch) <= MaxRequests
  /\ dispatcher.pc = "resolve" => dispatcher.caller \in Callers
  /\ dispatcher.pc \in {"handler", "replied", "spawned"}
       => dispatcher.req \in DOMAIN requests
  /\ dispatcher.pc = "ended"
       => dispatcher.result \in {Ok} \union {ToSessionError(x) : x \in ReadCauses}

\* A spawned task belongs to a request that was read.
HandlersInv ==
  /\ HandlersTypeOK
  /\ \A n \in HandlerIds : handlers[n] # "unborn" => n \in DOMAIN requests

\* A guard has a real id.
CallersInv ==
  /\ CallersTypeOK
  /\ \A c \in Callers : InFlight(c) => callers[c].id < IdMax

\* TypeOK with what makes it inductive
TypeInv ==
  /\ StatesTypeOK /\ WriterInv /\ DispatcherInv /\ HandlersInv /\ AbortsTypeOK
  /\ TableTypeOK /\ CallersInv /\ CancellerInv /\ IncomingTypeOK

\* Ids are given in increasing order.
IdsGrow ==
  \A c \in Callers :
    callers[c].id # IdMax => callers[c].id < outgoing_request_id_next

\* What makes NoStrandedCaller inductive. Whoever ends the session resolves
\* the requests of the table; PendingIsReachable says that these are all that
\* wait but the one on_response is about to resolve. It in turn needs every
\* guard to remove no entry but its own, hence one call per id, hence ids that
\* grow.
CallInv ==
  /\ PendingIsReachable /\ OneCallPerId /\ IdsGrow
  /\ NoStrandedCaller /\ NoLostWakeup

\* A task is spawned at most once, so that one that has finished stays so.
SpawnedOnce ==
  dispatcher.pc = "handler" => handlers[dispatcher.req] = "unborn"

\* A wait that is about to pop holds no handle.
PopsEmptyHanded ==
  \A w \in Waiters :
    waiters[w].pc \in {"idle", "polling", "popping"} => waiters[w].task = {}

\* What makes AbortedIsTracked inductive
WaitInv == SpawnedOnce /\ PopsEmptyHanded /\ AbortedIsTracked

\* What makes ReadErrorIsWritten inductive. The reader queues its error as it
\* ends, and ends once; the writer ends only after that, with nothing left in
\* hand and nothing in the queue.
WriterEmptyHanded == writer \in {"fetch", "flush", "ended"} => written = taken
ReaderRuns == ~is_shutdown /\ dispatcher.pc # "done" => read_state = "Running"
WriterOver == writer = "ended" \/ write_state = "End"
WriterOutlivesReader == ~is_shutdown /\ WriterOver => read_state # "Running"
ReadErrorIsQueued ==
  ~is_shutdown /\ read_state \in ReadCauses
    => \E p \in DOMAIN outbox : outbox[p] = ErrorWithoutId

EndInv ==
  /\ WriterEmptyHanded /\ ReaderRuns /\ WriterOutlivesReader
  /\ ReadErrorIsQueued /\ ReadErrorIsWritten

AnswerResults == {Ok, Result("ErrorObject", "none"), ToSessionError("Deserialize")}

\* Between the two steps of on_response nobody finds the entry any more.
AnswerOnItsWay ==
  dispatcher.pc = "resolve" =>
    /\ dispatcher.result \in AnswerResults
    /\ callers[dispatcher.caller].pc # "idle"
    /\ \A id \in OutgoingIds : outgoing_requests[id] # dispatcher.caller

\* What a slot may hold, at each point of its call
SlotsFollowCalls ==
  \A c \in Callers :
    /\ callers[c].pc = "idle" =>
         /\ callers[c].id = IdMax /\ callers[c].result = NoResult
         /\ slot[c].st = "None"
    /\ callers[c].pc = "ready" => slot[c].st = "End"
    /\ slot[c].result # ToSessionError("Serialize")

\* Every id below the next one was given to a call.
IdsGiven ==
  \A id \in OutgoingIds :
    id < outgoing_request_id_next => \E c \in Callers : callers[c].id = id

\* What makes CancelledExactlyOnce inductive, and with CallInv carries the
\* refinement of RequestContract
OutcomeInv ==
  /\ AnswerOnItsWay /\ SlotsFollowCalls /\ IdsGiven /\ CancelledExactlyOnce

\* A call that got past serializing has its request in the queue, for good.
SentAreQueued ==
  \A c \in Callers :
    callers[c].pc \in {"sent", "parked", "woken", "ready", "withdrawn"}
      => \E p \in DOMAIN outbox : outbox[p] = Request(callers[c].id)

NeverSentAreOver ==
  \A c \in Callers :
    callers[c].result = ToSessionError("Serialize") => callers[c].pc = "returned"

\* What makes CancelFollowsRequest inductive, with CancelledExactlyOnce
FollowInv == SentAreQueued /\ NeverSentAreOver /\ CancelFollowsRequest

\* An entry belongs to a request with its id, and so does a response.
EntriesAreRequests ==
  \A id \in RequestIds :
    Filed(id) => /\ incoming_requests[id].req \in DOMAIN requests
                 /\ requests[incoming_requests[id].req].id = id

AnsweredWereRead ==
  \A p \in DOMAIN outbox :
    IsResponse(outbox[p]) => /\ outbox[p].for \in DOMAIN requests
                             /\ outbox[p].by \in DOMAIN requests

\* What makes AnsweredOnce inductive: that a request whose entry is not sent
\* has no response yet, which RequestsAccounted says.
AnswerInv ==
  /\ EntriesAreRequests /\ AnsweredWereRead
  /\ AnsweredOnce /\ RequestsAccounted

\* The handler or the task of request n may still answer.
Able(n) ==
  \/ handlers[n] \in {"running", "returned"}
  \/ dispatcher.pc \in {"handler", "replied"} /\ dispatcher.req = n

\* What may leave request n without its entry while its task runs
Loose(n) ==
  \/ HandlerTask(n) \in aborted
  \/ requests[n].fate = "cancelled" \/ requests[n].disowned
  \/ \E k \in 1..(n - 1) : LostHold(k) /\ requests[k].id = requests[n].id

\* Who may answer finds its own entry, or it has lost that for a reason, and
\* then finds that of a later request at most.
OwnEntryUnlessLoose ==
  \A n \in DOMAIN requests :
    Able(n) =>
      LET e == incoming_requests[requests[n].id]
      IN  e.req # n => Loose(n) /\ e.req \notin 1..n

\* Only a cancellation or a shutdown aborts a task, or takes an entry's
\* response away.
AbortsTakeBack ==
  /\ \A n \in HandlerIds :
       HandlerTask(n) \in aborted => n \in DOMAIN requests /\ TakenBack(n)
  /\ \A id \in RequestIds :
       LET e == incoming_requests[id]
       IN  Filed(id) => /\ e.sent <=> e.abort
                        /\ e.abort => ~e.task /\ TakenBack(e.req)

\* The request on_request is on has no task before its handler spawns one, nor
\* after the handler returned without one, and its entry has none before
\* init_finish.
RequestInHand ==
  /\ dispatcher.pc \in {"handler", "replied"} =>
       \/ handlers[dispatcher.req] = "unborn"
       \/ dispatcher.pc = "replied" /\ requests[dispatcher.req].disowned
  /\ dispatcher.pc \in {"handler", "replied", "spawned"} =>
       LET e == incoming_requests[requests[dispatcher.req].id]
       IN  e # NoEntry => e.req = dispatcher.req /\ ~e.init

\* What makes StaleAnswerNeedsLostHold and TasksAreTracked inductive
StrayInv ==
  /\ OwnEntryUnlessLoose /\ AbortsTakeBack /\ RequestInHand
  /\ TasksAreTracked /\ StaleAnswerNeedsLostHold
=============================================================================
