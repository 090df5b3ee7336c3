# A model of jsoncall's Session

jsoncall is a JSON-RPC 2.0 library over tokio. All of its state and all of its
concurrency sit in `Session` (src/lib.rs): three tasks per session, two tables
of requests, queues between them, and the futures of the application. This
directory models that session in TLA+, and two of them at the ends of a
channel, and modules of their own model the data that crosses a session's
boundary: messages, ids and errors. TLC checks all of it on small instances;
TLAPS proves every safety property of it for any number of calls, requests and
ids, any bounds and any peer, and that a session implements the contract of its
calls.

## The system

| Part | State | Operations | What makes it correct |
|---|---|---|---|
| Outgoing queue and writer | `outgoing_messages`, `QueueReader`, `write_state` | `fetch_outgoing_messages`, `write_all`, `flush`, `finish_write_state` | what is queued is written in order; the writer ends after the reader, having written the reader's error |
| Reader (`MessageDispatcher`) | `read_state`, the batch in hand | `run_raw`, `dispatch_message`, `on_request`, `on_response`, `on_notification`, `finish_read_state` | each message is dispatched once; an error ends the session and reaches the peer |
| Outgoing requests | `outgoing_requests`, `outgoing_request_id_next`, slots (`OutgoingRequestState`), guards | `Session::request`, `get_response`, `set_ready`, `OutgoingRequestGuard::drop`, `apply_error` | no call waits for ever, no wakeup is lost, one call per id, an abandoned call is reported once |
| Cancel task | `outgoing_cancellations`, `cancel_state` | `fetch_outgoing_cancellations`, `Hook::cancel_outgoing_request`, `finish_cancel_state` | an abandoned call reaches the hook, after its request was queued |
| Incoming requests | `incoming_requests` (`IncomingRequestState`, `TaskHandle`) | `insert_incoming_request`, `init_finish`, `task_finish`, `cancel`, `handle_async` | one answer per request, none forgotten, its task can be aborted |
| Lifecycle | `is_shutdown`, `aborts` (`AbortingHandles`) | `shutdown`, `Drop`, `wait` | wait joins what was aborted and returns; a dropped session is freed |
| Messages | none | `MessageData`'s constructors, `from_line`, `into_variants` | what a session writes is read as meant; nothing is taken for what it is not |
| Ids | none | `RawRequestId::key`, conversions to and from `OutgoingRequestId` | an answer finds its call and no other; equal ids of a peer are one id |
| Errors | `Error`, `ErrorObject`, `SessionError` | `to_error_object`, `with_message`, `with_source`, `From`, `Display`, `bail!` | nothing private leaves a server that does not expose it; causes survive where it does |
| Vector of aborted tasks | `AbortingHandles` | `push`, `pop` | no running task is lost; memory follows the tasks that run |
| Transports | the duplex stream of `new_channel` | `new_channel`, `from_stdio`, `from_command` | the end of one side reaches the other; a full pipe stalls neither for ever |
| Formatting, documentation | none | `utils`, doctests, examples | not modelled |

How the parts meet: everything in `SessionState` is behind one lock
(`StateContainer` of sigwake). Tasks sleep in `poll_fn` on that container and
are woken by changes. The slot of a call has a lock of its own, and so
`on_response` works in two steps: it removes the entry under the first lock and
sets the slot after releasing it. Handlers run in the read task, outside the
lock; the tasks they spawn come back through a weak reference to the session.
Aborting a task is asynchronous: `JoinHandle::abort` only asks.

What is hard: calls dropped at any await, a shutdown between any two steps,
tasks that go on after they were aborted, ids the peer uses again, results that
race cancellations, writers that fail or stall. `PROJECT.json` lists these
hazards with the line each bites at and the properties that watch it.

## Modules

| Module | Models |
|---|---|
| `SessionTasks` | task states, errors, messages, the outgoing queue with the writer, the aborted tasks, `wait` |
| `OutgoingRequests` | calls, guards, slots, the table, the cancel task |
| `IncomingRequests` | the table of incoming requests, handlers, spawned tasks, cancellation |
| `Session` | the composition: reader, ends of tasks, shutdown, drop, `Next`, fairness |
| `SessionProperties` | the properties of a session |
| `RequestContract` | abstractly, what `Session::request` promises its callers |
| `SessionContract` | the refinement mapping from `Session` to `RequestContract` |
| `SessionInvariants` | inductive strengthenings |
| `SessionProofs`, `CallProofs`, `TaskProofs`, `OutcomeProofs`, `RequestProofs` | the proofs about a session: types, calls, tasks and `wait`, what becomes of a call, requests of the peer |
| `Endpoint` | a `Session` at one end of a duplex stream |
| `Connection` | two of them, as `new_channel` makes them, and their properties |
| `EndpointInvariants` | what an endpoint keeps true whatever the other does |
| `EndpointProofs`, `ConnectionProofs` | the proofs about one end, and about both |
| `Messages` | members of a JSON-RPC object, written by `MessageData` and read by `RawMessage` |
| `MessageReader` | a line, taken as a whole or not at all, and its dispatch; extends `Messages` |
| `RequestIds` | ids as JSON numbers and strings, as keys and as ids of ours |
| `Errors` | an error passing through a chain of servers |
| `AbortingHandles` | the vector behind the set `aborts` of `SessionTasks` |
| `DataProofs` | the proofs about the four modules before |
| `MCSession`, `MCConnection`, `MCData` | lines, codes, symmetry and constraints for TLC |

`SessionTasks` declares what both sides share; `OutgoingRequests` and
`IncomingRequests` extend it, and `Session` extends both. A closure given to
`update`, or one poll of `poll_fn`, is one action, because it runs under the
lock; what a task does between two of them is a separate action. A position in
a task (`dispatcher.pc`, `writer`, `canceller`, `callers[c].pc`,
`waiters[w].pc`, `handlers[n]`) stands for where its future is.

Representation:

- `outbox` keeps every message ever pushed. The queue is what lies after
  `taken`, the `QueueReader` holds what lies between `written` and `taken`.
  `outgoing_cancellations`, `fetched` and `called` do the same for ids. So
  properties can speak of the past without further variables.
- A slot is named by its caller. An id of 0 stands for the first id given, and
  `IdMax` for `u128::MAX`.
- Incoming requests are numbered in the order they are read. The number is
  history: the code only has the id. `requests[n].fate` is history as well, and
  so is `requests[n].disowned`: its handler called `handle_async` and then
  returned an error or panicked. That drops the `Response` with the
  `JoinHandle` in it, and the task runs on detached.
- `aborts` is a set: the vector's order and the pruning of finished handles
  decide only which task is joined first. `aborted` is tokio's flag on tasks.
  `AbortingHandles` has the vector, its pruning and its growth.
- Messages carry what the session tells apart: their kind, their id, and
  whether a result has the type the caller asked for. A response also carries,
  for the properties, the request it is for and the request whose code made it.
- Left out: `is_writing` (set, never read), session ids for `Debug`, tracing,
  methods, parameters. Texts of errors are in `Errors` only.
- `Connection`: what a side has written and the other has read are indices
  into one sequence, the writer's `outbox`; so a message on the wire is one
  between `written` and the other's `received`. Lines are whole but for the one
  an aborted writer was at: `torn` says what of it is in the pipe. The client's
  variables keep their names, the server's have the prefix `s_`.
- `RequestIds` counts numbers in halves, so that the fractions next to an
  integer are integers; the widths of `f64`, `u64` and `u128` are parameters,
  and `Pow2` a recursive function, which proofs can use. A JSON number with a
  point that `serde_json` reads as what it is has the form "decimal"; any other
  has the form "rounded" and stands with the `f64` it is read as. Which `f64`
  that is depends on `serde_json`, whose `float_roundtrip` is off: it need not
  be the nearest, and an integer printed with ".0" may be misread once ten times
  that integer is no `f64` (`Pointed`).
- `Errors`: a text is a sequence of lines, and a line says which server it
  comes from and what it was there.
- Bodies marked `Mutant` are plausible bugs of the action that follows them; no
  specification uses them. `PROJECT.json` says which property each must break.

The environment: the application may call anything the API allows at any time,
drop any future at any await, and in a handler answer, fail or spawn, or spawn
and then fail. A `Response` it returns is taken to come from its own context:
one it kept back from another request or took from a notification is not
modelled. The peer sends any of `Lines`, closes the stream, or breaks it. With
`Panics = TRUE` handlers and spawned tasks may also panic: the release profile
unwinds, the dev profile aborts the process (Cargo.toml). The constant is FALSE
where a property is not meant to hold after a panic.

## The contract of a call

`RequestContract` knows neither tasks nor queues: a call is opened under a new
id or refused, is answered or ended, returns, fails or is withdrawn; the end of
the session settles all open calls in one step, save at most one whose answer
has been read; the hook hears of each forsaken call once. `SessionContract`
maps a session to it. A call is open while its slot has no result and settled
from then on; the session is over when new requests get an error
(`SessionDead`). So the table, the guards, the wakers and the three tasks must
together look like one call with one outcome: an answer that overtakes a
shutdown, a guard dropped before its entry is found, or a result that is set
twice would not be a step of the contract. TLC checks `KeepsContract` with two
calls, and `SessionKeepsContract` proves it for any number.

## Runs

| Run | Bounds | Shows |
|---|---|---|
| `calls` | 2 calls, 2 ids, one batch that answers both; `TwoCallsBound` | no stranded call; table and guards agree; no lost wakeup; one cancellation per abandoned call, after its request; the refinement of `RequestContract` |
| `live_calls` | 2 calls, 1 id, panics, `FairSpec` | no id is given twice when they run out; calls return; abandoned calls are reported |
| `requests` | 3 requests under 2 ids, single or in pairs; panics; `ThreeRequestsBound` | one answer each; every request accounted for; a stale task answers for another request, and a task gets away, only after a cancellation or shutdown of a request with its id or after a handler that failed once it had spawned; `init_finish`'s assertion |
| `wait` | 2 waits, a request or a notification to send, up to 4 aborted tasks, errors, panics; `TwoWaitsBound` | types; no aborted task gets lost; wait joins them; the reader's error is written |
| `live_session` | 1 wait, 1 request, `OneReadCause`, `FairApplicationSpec` | the request is answered on the wire, taken back, or the writer is over; wait returns; the queue is written; the writer ends after the reader; a dropped session is freed |
| `channel` | 1 call, 1 wait of the server, `Capacity` 1, the client ends | nothing ends unless provoked; the server's wait returns, with an error only for a line that was cut or was left to write |
| `channel_ends` | 1 call, `Capacity` 1, the server ends | calls return; a dropped call stops its task unless the handler failed after it spawned; the queues drain |
| `channel_calls` | 2 calls, 2 ids, `Capacity` 1, `NeverEnded` | each call gets the answer to its own request |
| `data` | messages with every choice of members, batches of 2; widths 4, 6 and 8; 3 servers; 9 tasks | see `MessageReader`, `RequestIds`, `Errors`, `AbortingHandles` |
| `wait_error` | violation | what `wait` returns after the peer's error has no error object, which examples/session_error.rs:39 unwraps |
| `cancel_reaches_task` | violation | a cancellation before `init_finish` leaves the task running and out of reach |
| `server_errors` | violation | `ErrorCode::message` calls no code a server error: the bounds of its range (message.rs:358) are the wrong way round |

Why these bounds are enough to mean something: calls interact only through the
table, the ids and the reader, so two calls are the least that can collide.
Requests need three: the task of a cancelled one may answer a second one, whose
own task, left without its entry, then answers a third, although only the first
was ever cancelled; the same goes for a first one whose handler spawned and
failed. Every pair of operations that touch the same entry occurs,
in every order. Two waits are the least that can compete for a handle. In
`live_calls` the second call finds `outgoing_request_id_next` at `IdMax`. A
pipe that holds one line is full after the first, so that a request and its
cancellation already stall a writer. The widths in `data` keep the order of 53,
64 and 128 with gaps, so that there are integers an `f64` cannot hold below and
above the end of `u64`, and ids that come back with a point exactly (0 and 1)
and not (from 2 on). Three servers are one that makes an error, one that
passes on what it did not make, and one that gets what was passed on. Nine
tasks grow the vector from 4 to 8 and 16.

Named bounds: `MaxRequests` (requests read), `MaxNotifications` (messages of the
application), `Capacity` (lines in the pipe), `Hops`, `MaxTasks`, the bit
widths, and the sets `Callers`, `Waiters`, `RequestIds`, `Lines`, `LinesRead`,
`PublicCodes`. `MayEnd` says which side of a connection the application may end
before its tasks have ended; with both at once a state space of two calls is out
of reach, so each has a run. `TwoCallsBound` keeps `calls` to sessions that end
by a shutdown or one kind of read error and to writers that have written
nothing, on which calls do not depend; `live_calls` has the rest.
`ThreeRequestsBound` keeps `requests` to sessions that stay open, with a writer
and a cancel task that rest: the table depends on none of them, and what a task
does after the session is gone is in `live_session`. `OneReadCause` keeps
`live_session` to readers that end by a message that is none, not by input that
cannot be read: both go on in the same way. `TwoWaitsBound` does that in `wait`,
whose sessions also either read requests or send a notification, as neither
looks at the other. `NeverEnded` keeps `channel_calls` to sessions that go on:
what an end does to a call is in `channel_ends`. Symmetry is used in safety runs
only. Deadlock is checked in every run: a session only stops in `Terminated`,
freed with everything over.

`MCData` runs four modules that share no state, each while the others are
where they begin, so that their states add up.

What `SameIdSameNumber` says of ids, as the code has them: 1, 1.0 and 1e0 are
one id; -3 and -3.0 are two; two numbers with a point that round to one `f64`
are one, as are 4503599627370496.5 and 4503599627370496, although a peer may
tell them apart. 2^64 - 1 and 2^64 are one, because the cast of `u64::MAX` to
`f64` rounds up and the cast back saturates; of numbers from there on, and from
-2^63 down, it says nothing. `NoOthersCall` is as exact about responses: an
integer is looked up as itself or not at all, and a number with a point as the
`f64` it is read as, so that a response to 4503599627370496.5 is taken for one
to 4503599627370496. `AnswersFindTheirCall` leaves out what a peer that adds a
point to a large id of ours may bring about, which is any of three calls or
none. These are what the code does with such input, not what it should do; no
document of jsoncall speaks of it.

`OwnMessagesUnderstood` is about lines as well as messages: a line made of our
messages alone must pass `from_line` and `into_variants`, nulls included, and
ours among a peer's must be taken for what they are.

## Fairness

- `TasksProgress`, weak fairness of the reader on a line it has, of the writer
  between writes, of the cancel task and of a spawned task whose future is
  ready: tokio polls what was woken, and `StateContainer` wakes `poll_fn` when
  its state changes. Nothing is assumed of the arrival of lines.
- `CallsProgress`: a call or a wait that is woken is polled again. The
  application may drop it instead, which is not assumed either way.
- `AbortsProgress`: an aborted task is dropped at an await. For the read task
  this is strong fairness: with input always ready it goes through its await
  without yielding, but tokio's cooperative budget makes it yield repeatedly.
- `TransportFairness` (`live_session`): the transport accepts what is written
  or fails. Without it a peer that stops reading stalls the writer, and the
  code has no timeout.
- `ApplicationFairness` (`live_session`): futures given to `handle_async`
  become ready.
- `EndpointFairness` (`channel`, `channel_ends`): the same for the tasks, calls
  and waits of both sides. Nothing is assumed of the pipe: a writer goes on
  when there is room, and room comes from the other side's reader. Futures
  given to `handle_async` need not become ready, and no side need ever end. The
  reader's abort needs no strong fairness here: what one side writes is bounded.
- Handlers return (part of `TasksProgress`): they run in the read task, and one
  that blocks stops it.

## Proofs

TLAPS checks the following for all values of the constants that satisfy the
assumptions their modules name. Of a session: `NoCaller` is no call
(`CallersAssumption`), the bounds are natural numbers (`BoundsAssumption`),
`Panics` is TRUE or FALSE (`PanicsAssumption`), and `Lines` are non-empty
sequences of messages (`LinesAssumption`); `ConnectionAssumption` says the same
of both sides. Of data: the lines read hold well-formed messages
(`LinesReadAssumption`), 1 < `F64Bits` < `U64Bits` < `U128Bits`
(`BitsAssumption`), a chain has a server and codes are integers
(`ErrorsAssumption`), and `MaxTasks` is a natural number
(`MaxTasksAssumption`). None bounds the number of calls, waits, ids or tasks.

| Theorem | Statement |
|---|---|
| `TypeCorrect` | `Spec => []TypeOK` |
| `NoCallStranded` | `Spec => []NoStrandedCaller` |
| `PendingCallsReachable` | `Spec => []PendingIsReachable` |
| `CallsHaveOwnIds` | `Spec => []OneCallPerId` |
| `NoWakeupLost` | `Spec => []NoLostWakeup` |
| `AbortedTasksTracked` | `Spec => []AbortedIsTracked` |
| `WaitsJoinAborted` | `Spec => WaitJoinsAborted` |
| `ReadErrorsWritten` | `Spec => []ReadErrorIsWritten` |
| `CallsCancelledOnce` | `Spec => []CancelledExactlyOnce` |
| `CancellationsFollow` | `Spec => []CancelFollowsRequest` |
| `SessionKeepsContract` | `Spec => KeepsContract`: `Session` implements `RequestContract` |
| `RequestsAnsweredOnce` | `Spec => []AnsweredOnce` |
| `EveryRequestAccounted` | `Spec => []RequestsAccounted` |
| `StaleAnswersExplained` | `Spec => []StaleAnswerNeedsLostHold` |
| `TasksTracked` | `Spec => []TasksAreTracked` |
| `InitFinishAssertHolds` | `Spec => []InitFinishAsserts` |
| `AnswersAreOwn` | `Connection`: `Spec => []OwnAnswer` |
| `NothingEnds` | `Connection`: `Spec => []NothingEndsUnprovoked` |
| `ClientEnds` | `Connection`: `Spec => []ClientEndsCleanly` |
| `NoAnswerIsStale` | `Connection`: `Spec => []NoStaleAnswer` |
| `ClientKeepsContract` | `Connection`: `Spec` implies `KeepsContract` of the client |
| `SidesAreSessions` | `Connection`: `Spec` implies `Session`'s `Spec` of each side |
| `LinesDispatchedInOrder` | `ReaderSpec => []DispatchedInOrder` |
| `OwnMessagesAreUnderstood` | `ReaderSpec => []OwnMessagesUnderstood` |
| `AnswersFindTheirCallHolds` | `IdsSpec => []AnswersFindTheirCall` |
| `NoOthersCallHolds` | `IdsSpec => []NoOthersCall` |
| `SameIdSameNumberHolds` | `IdsSpec => []SameIdSameNumber` |
| `OnlyPublishedHolds` | `ErrorsSpec => []OnlyPublished` |
| `CauseSurvivesHolds` | `ErrorsSpec => []CauseSurvives` |
| `RelayedAsIsHolds` | `ErrorsSpec => RelayedAsIs` |
| `HandlesNoneLost` | `HandlesSpec => []NoneLost` |
| `HandlesMemoryBounded` | `HandlesSpec => []MemoryBounded` |

`TypeOK` is not inductive: that `written + 1` stays within `taken` needs the
writer to be writing only while something is left; that the number of a request
stays in its range needs the reader to have a line that still fits the bound;
that the id of a call indexes the table needs guards to have real ids.
`TypeInv` says so, part by part, and `SessionProofs` has one lemma per group of
actions, with a lemma `Frame` for the parts a step leaves alone.

`NoStrandedCaller` says that a call without a result on a dead session is the
one being resolved. Its step is at the end of a task and at shutdown, where
`apply_error` resolves the calls in the table: it has to be shown that these
are all (`PendingIsReachable`). That in turn breaks only if a guard removed
another call's entry or a new call overwrote one, hence `OneCallPerId`, hence
`IdsGrow`. `CallInv` is the conjunction, inductive relative to `TypeInv`.

`AbortedIsTracked` holds because finished tasks stay finished, which needs
`SpawnedOnce` (a request spawns its task only once), and because a wait that
pops a handle does not overwrite another, which needs `PopsEmptyHanded`.
`WaitInv` is the conjunction; `WaitJoinsAborted` follows from it for the one
step in which `pop` finds no running task. `ReadErrorIsWritten` relates both
ends of the queue: the reader queues its error in the step in which its state
becomes an error (`ReadErrorIsQueued`), it ends only once (`ReaderRuns`), and
the writer ends only after that with nothing in hand (`WriterOutlivesReader`,
`WriterEmptyHanded`). `EndInv` is the conjunction. Both are inductive relative
to `TypeInv`.

`CancelledExactlyOnce` breaks if a second call is abandoned under an id that is
already queued, which `OneCallPerId` excludes, or if an ordinary result could
pass for the error of a call that was never sent, which `SlotsFollowCalls`
excludes. `OutcomeInv` is the conjunction, with what the refinement needs
besides: the answer in the reader's hands belongs to a call nobody else can
find (`AnswerOnItsWay`), and when ids run out they were all given (`IdsGiven`).

`CancelFollowsRequest` spans two queues: the hook takes an id from one and
pushes on the other. `FollowInv` says that a call past its serialization has
its request in the queue; with `CancelledExactlyOnce` an id the hook takes is
that of such a call, or of one that failed to serialize.

The refinement maps each step to one of `RequestContract` or to none, with a
lemma per group of actions (`CallerStepContract`, `ReaderStepContract`, ...).
The steps that matter are those that call `apply_error`. The one that ends the
session must settle every open call but one: those it does not find in the
table are being resolved, of which there is at most one (`PendingIsReachable`).
A later one, as a task ends after a shutdown, must change no call: the only
open one is the one being resolved (`NoStrandedCaller`), and it is not in the
table (`AnswerOnItsWay`). That a session once over stays over is
`EndingStepContract`; that the hook hears of a call once is `CallHookContract`,
from `CancelledExactlyOnce`.

`AnsweredOnce` and `RequestsAccounted` go together: a response is queued only
for an entry that is not sent, which says that its request is pending, so not
answered. `AnswerInv` adds that an entry and a response belong to a request
that was read, with the entry's id, and hence that a new request has neither.

What a stale task may do rests on who is able to find which entry. Whoever may
still answer request n finds n's entry, or it is `Loose`: its task was aborted,
or n was cancelled or disowned, or the session lost its hold of an earlier
request with its id, by one of these or a shutdown (`OwnEntryUnlessLoose`). What
it finds then is a later request's, because a new entry is made only where there
is none; so the request whose entry a stale task removes becomes loose in turn,
with the same lost request to blame, and the chain of stale answers never runs
backwards. The invariant also has to say that only a cancellation or a shutdown
aborts a task or marks an entry as sent (`AbortsTakeBack`), or `init_finish`
could abort one for no reason, and that the request `on_request` is on has no
task but the one its handler spawned, and answers with one running only if it is
disowned (`RequestInHand`), of which `InitFinishAsserts` is a part. `StrayInv`
is the conjunction with `TasksAreTracked` and `StaleAnswerNeedsLostHold`,
inductive relative to `TypeInv` and `AnswerInv`.

### Two sessions

`EndpointProofs` is about one end, for any `inbound` made of messages a session
may write to its peer (`PeerTypeOK`). Its first result is that every step of an
`Endpoint` is a step of `Session` or leaves it alone (`EndpointStep`): the
cancellation a handler carries out is one `Session` allows, and what is read is
one of `Session`'s lines or errors. So all that was proved of any session holds
at either end. `ConnectionProofs` instantiates it as `CP` and `SP`, a second
time after `Client` and `Server` of `Connection`, shows the pairs equal by
unfolding both, and puts the two together.

`ConnectionInv` is the conjunction, with four parts that relate the sides:

- What a side has read is a prefix of what the other has put on the wire
  (`PeerTypeOK`, with `ClientReads` and `ServerReads`). It stays one because
  the queue only grows (`OutboxStays`) and so does the part on the wire
  (`WireStays`), also where an abort leaves one last whole line.
- `BothQuiet`: before a shutdown no task of either side has ended or is about
  to. Each end of a task needs a shutdown, an abort, a stream that closes, or a
  message that is an error; the other side, which is quiet, gives none of them.
- `ErrorsExcused`: an error on either side, in a state, in a hand or queued,
  needs a line the client cut or something the server can no longer write.
  Errors come from the stream, and go back to such a line round by round. It
  does not mention the shutdown of the server, and `ClientEndsCleanly` needs no
  exception for one.
- `AnswersWithin` and `RequestsWithin`: the answers calls have got were read
  under ids of responses on the wire, and the requests that were read have ids
  of requests on the wire, each its own. A request is queued once
  (`RequestsSentOnce`, from `OneCallPerId`), so the server reads no id twice,
  and no stale task can find another request's entry. Hence a response under
  an id is for, and by, the one request that has it, which is `OwnAnswer`.

A peer in general may use an id again, and then a stale task may answer for
another request (`StaleAnswerNeedsLostHold` says when). A session never does, so
between two sessions no answer is stale, whatever was cancelled
(`NoAnswerIsStale`).

### Data

`DataProofs` has an inductive invariant per module. For lines (`ReaderInv`):
what was handed on is what `into_variants` makes of a prefix of the line, what
ended it is what comes next, and a line that is lost has a message that does not
deserialize. For ids (`IdsInv`): each value in hand comes from a literal of the
peer or from an id of ours, so that the properties are facts about conversions:
how far a number lies from the double next to it and where that leaves
`MAX_SAFE_INTEGER` and the ends of `u64` and `i64`, from properties of powers of
2. A number with a point is any double there is. For errors (`ErrorsInv`): the
message of an error is public where the error says so, its data always are, a
first error holds nothing below its own source, and the first cause is in the
data wherever all servers so far expose theirs and pass it on. For the vector
(`HandlesInv`): its entries are distinct handles of tasks pushed and not popped,
among them all that run, and it is never longer than a capacity that is none or
at least 4.

Powers of 2 need an induction, and the library's theorems on induction cannot be
instantiated here. `InductionOnSet` proves it from cardinalities instead, for a
set of numbers, and `RecursionOnNat` that a function defined by recursion is
what its definition says; both take sets and functions, never operators.

### What stays with TLC

All invariants, action properties and refinements the passing runs check are
proved. Liveness is not, being out of TLAPS's reach as is ENABLED:
`EveryCallReturns`, `AbandonedIsReported`, `EveryRequestSettled`, `WaitReturns`,
`WriterFollowsReader`, `QueuedIsWritten`, `DroppedIsFreed`, `EndReachesWaits`,
`EndReachesCalls`, `CancellationArrives`, `QueuesDrain`. TLC checked the
inductive invariants before they were proved, those of a connection under the
bounds of `channel_calls`. No proof rests on a recursive operator, and none is
declared.

## Findings

`PROJECT.json` has them with their lines: `wait` loses the error object of a
peer's error (`wait_error`); a cancellation before `init_finish` detaches the
task it should abort (`cancel_reaches_task`); the range of server errors is
empty (`server_errors`).

## Not modelled

- `utils` and the `Debug` and pretty forms of messages: text for people.
- `from_stdio` and `from_command` hand handles of the operating system to
  `Session::new`; only `new_channel` has behaviour of its own.
- Tasks of `NotificationContext::handle_async`: the session drops their handles
  (a `todo` in the code) and neither aborts nor joins them. What they do to a
  session they do through a `SessionContext`, whose operations are actions.
- Text that is not JSON, and what `serde_json` makes of it, but for its being
  refused (`ReadGarbage`).
- README doctests and examples; they are read for what they expect.

## Plan

1. (done) `SessionTasks`, `OutgoingRequests`, `IncomingRequests`, `Session`,
   their runs, `TypeCorrect`, and the theorems on calls.
2. (done) `RequestIds`, `Messages`, `MessageReader`, `Errors`,
   `AbortingHandles`.
3. (done) `RequestContract` and the refinement; `Endpoint` and `Connection`.
4. (done) `AbortedTasksTracked`, `WaitsJoinAborted`, `ReadErrorsWritten`.
5. (done) `CallsCancelledOnce` and `SessionKeepsContract`.
6. (done) The theorems on the requests of the peer.
7. (done) `CancellationsFollow`.
8. (done) Theorems about `Connection`, which holds two sessions, and about the
   data modules.
