--------------------------- MODULE OutcomeProofs ----------------------------
(***************************************************************************)
(* Proofs of what becomes of each call, for any number of calls and ids,   *)
(* any peer and any application: that a session cancels each abandoned     *)
(* call once, and that it implements RequestContract.                      *)
(***************************************************************************)
EXTENDS CallProofs, SessionContract

Serialize == ToSessionError("Serialize")
Endings == {ShutdownError} \union {ToSessionError(x) : x \in ErrorCauses}
-----------------------------------------------------------------------------
(* OutcomeInv is inductive                                                 *)

\* What can be learned of the end of a session is none of a call's own errors.
LEMMA EndingsApart ==
  /\ NoResult \notin Endings /\ NoResult \notin AnswerResults
  /\ Serialize \notin Endings \union AnswerResults \union {NoResult}
  /\ Result("Message", "none") \notin Endings \union {Serialize, NoResult}
BY DEF Endings, AnswerResults, Serialize, NoResult, Ok, ShutdownError,
   ToSessionError, Result, ErrorCauses, ReadCauses

LEMMA RefusalEnds ==
  ASSUME NEW shutdown \in BOOLEAN, NEW write \in TaskStates,
         NEW read \in TaskStates
  PROVE  OutgoingRequestError(shutdown, write, read) \in Endings \union {NoResult}
BY DEF OutgoingRequestError, TaskStates, Endings

\* Calls that look the same to those who count cancellations
SameCalls ==
  \A c \in Callers : /\ callers'[c].id = callers[c].id
                     /\ Abandoned(c)' <=> Abandoned(c)

LEMMA SameCancellations ==
  ASSUME CancelledExactlyOnce, SameCalls, UNCHANGED outgoing_cancellations
  PROVE  CancelledExactlyOnce'
BY DEF CancelledExactlyOnce, SameCalls

LEMMA SameIdsGiven ==
  ASSUME IdsGiven, SameCalls, UNCHANGED outgoing_request_id_next
  PROVE  IdsGiven'
BY DEF IdsGiven, SameCalls

\* Steps that neither move a call nor touch what the reader holds for one
LEMMA OutcomeFrame ==
  ASSUME OutcomeInv, UNCHANGED <<tableVars, callVars, outgoing_cancellations>>,
         dispatcher'.pc = "resolve" => UNCHANGED dispatcher
  PROVE  OutcomeInv'
<1> USE DEF tableVars, callVars
<1>1. AnswerOnItsWay' /\ SlotsFollowCalls'
  BY DEF OutcomeInv, AnswerOnItsWay, SlotsFollowCalls
<1>2. SameCalls
  BY DEF SameCalls, Abandoned
<1>3. QED
  BY <1>1, <1>2, SameCancellations, SameIdsGiven DEF OutcomeInv

LEMMA SetReadyOutcome ==
  ASSUME TypeInv, OutcomeInv, NEW cs, NEW r, r # Serialize, SetReady(cs, r),
         \A c \in cs : c \in Callers => callers[c].pc # "idle",
         UNCHANGED <<tableVars, outgoing_cancellations>>,
         dispatcher'.pc = "resolve" => UNCHANGED dispatcher
  PROVE  OutcomeInv'
<1> USE DEF tableVars
<1>1. ASSUME NEW c \in Callers
      PROVE  /\ callers'[c] \in {callers[c], [callers[c] EXCEPT !.pc = "woken"]}
             /\ callers'[c] # callers[c] => callers[c].pc = "parked"
             /\ slot'[c] \in {slot[c], [st |-> "Ready", result |-> r]}
             /\ slot'[c] # slot[c] => c \in cs /\ slot[c].st \in Unresolved
  BY <1>1 DEF SetReady
<1>2. AnswerOnItsWay'
  BY <1>1 DEF OutcomeInv, AnswerOnItsWay, TypeInv, DispatcherInv, CallersInv,
     CallersTypeOK
<1>3. SlotsFollowCalls'
  BY <1>1 DEF OutcomeInv, SlotsFollowCalls, TypeInv, CallersInv, CallersTypeOK,
     Serialize, Unresolved
<1>4. SameCalls
  BY <1>1 DEF SameCalls, Abandoned, TypeInv, CallersInv, CallersTypeOK
<1>5. QED
  BY <1>2, <1>3, <1>4, SameCancellations, SameIdsGiven DEF OutcomeInv

\* The calls of the table are in flight.
LEMMA FiledInFlight ==
  ASSUME CallInv, CallersAssumption, NEW c \in Callers, NEW id \in OutgoingIds,
         outgoing_requests[id] = c
  PROVE  InFlight(c) /\ callers[c].id = id
BY CallersAssumption DEF CallInv, PendingIsReachable, EntriesAreCalls

LEMMA ApplyErrorOutcome ==
  ASSUME TypeInv, CallInv, OutcomeInv, StatesTypeOK', ApplyError,
         UNCHANGED <<tableVars, outgoing_cancellations>>,
         dispatcher'.pc = "resolve" => UNCHANGED dispatcher
  PROVE  OutcomeInv'
<1> DEFINE e == OutgoingRequestError(is_shutdown', write_state', read_state')
           filed == {c \in Callers :
                       \E id \in OutgoingIds : outgoing_requests[id] = c}
<1>1. CASE e = NoResult
  BY <1>1, OutcomeFrame DEF ApplyError, callVars
<1>2. CASE e # NoResult
  <2>1. e # Serialize
    BY RefusalEnds, EndingsApart DEF StatesTypeOK
  <2>2. SetReady(filed, e)
    BY <1>2 DEF ApplyError
  <2>3. \A c \in filed : callers[c].pc # "idle"
    BY FiledInFlight, CallersAssumption DEF InFlight
  <2>4. QED
    BY <2>1, <2>2, <2>3, SetReadyOutcome
<1>3. QED
  BY <1>1, <1>2

LEMMA DropGuardOutcome ==
  ASSUME TypeInv, CallInv, OutcomeInv, NEW c \in Callers, InFlight(c),
         NEW pc \in {"returned", "withdrawn"}, NEW r \in Results,
         NEW received \in BOOLEAN, DropGuard(c, pc, r, received),
         received <=> pc = "returned" /\ r # Serialize,
         UNCHANGED <<slot, outgoing_request_id_next, dispatcher>>
  PROVE  OutcomeInv'
<1> DEFINE id == callers[c].id
<1>1. /\ callers'[c].pc = pc /\ callers'[c].result = r /\ callers'[c].id = id
      /\ \A d \in Callers \ {c} : callers'[d] = callers[d]
      /\ id \in OutgoingIds
  BY InFlightId DEF TypeInv, CallersInv, CallersTypeOK, DropGuard
<1>2. AnswerOnItsWay'
  <2>1. \A i \in OutgoingIds : outgoing_requests'[i] \in {outgoing_requests[i], NoCaller}
    BY <1>1 DEF DropGuard, TypeInv, TableTypeOK
  <2>2. dispatcher.pc = "resolve" => dispatcher.caller # NoCaller
    BY CallersAssumption DEF TypeInv, DispatcherInv
  <2>3. QED
    BY <1>1, <2>1, <2>2 DEF OutcomeInv, AnswerOnItsWay, TypeInv, DispatcherInv
<1>3. SlotsFollowCalls'
  BY <1>1 DEF OutcomeInv, SlotsFollowCalls
<1>4. IdsGiven'
  BY <1>1 DEF OutcomeInv, IdsGiven
<1>5. /\ ~Abandoned(c) /\ (Abandoned(c)' <=> ~received)
      /\ \A d \in Callers \ {c} : Abandoned(d)' <=> Abandoned(d)
  BY <1>1 DEF Abandoned, InFlight, Serialize
<1>6. CancelledExactlyOnce'
  <2>1. CASE received
    <3>1. SameCalls /\ UNCHANGED outgoing_cancellations
      BY <1>1, <1>5, <2>1 DEF SameCalls, DropGuard
    <3>2. QED
      BY <3>1, SameCancellations DEF OutcomeInv
  <2>2. CASE ~received
    <3> DEFINE oc == outgoing_cancellations
               k == Len(oc)
    <3>1. /\ k \in Nat /\ DOMAIN oc = 1..k /\ DOMAIN oc' = 1..(k + 1)
          /\ oc'[k + 1] = id /\ \A i \in 1..k : oc'[i] = oc[i]
      <4>1. oc \in Seq(OutgoingIds) /\ oc' = Append(oc, id)
        BY <2>2 DEF DropGuard, TypeInv, CancellerInv, CancellationsTypeOK
      <4>2. oc' \in Seq(OutgoingIds) /\ Len(oc') = k + 1
        BY <1>1, <4>1, AppendProperties
      <4>3. QED
        BY <1>1, <4>1, <4>2, AppendProperties, LenProperties
    <3>2. \A i \in 1..k : oc[i] # id
      <4>1. ASSUME NEW i \in 1..k, oc[i] = id PROVE FALSE
        <5>1. PICK d \in Callers : Abandoned(d) /\ callers[d].id = id
          BY <3>1, <4>1 DEF OutcomeInv, CancelledExactlyOnce
        <5>2. d # c
          BY <1>5, <5>1
        <5>3. id # IdMax
          BY <1>1, BoundsAssumption DEF OutgoingIds
        <5>4. QED
          BY <5>1, <5>2, <5>3 DEF CallInv, OneCallPerId
      <4>2. QED
        BY <4>1
    <3>3. \A i, j \in DOMAIN oc' : oc'[i] = oc'[j] => i = j
      BY <3>1, <3>2 DEF OutcomeInv, CancelledExactlyOnce
    <3>4. {oc'[i] : i \in DOMAIN oc'} = {oc[i] : i \in DOMAIN oc} \union {id}
      BY <3>1
    <3>5. {callers'[d].id : d \in {e \in Callers : Abandoned(e)'}}
            = {callers[d].id : d \in {e \in Callers : Abandoned(e)}} \union {id}
      <4>1. \A d \in Callers : callers'[d].id = callers[d].id
        BY <1>1
      <4>2. {e \in Callers : Abandoned(e)'} = {e \in Callers : Abandoned(e)} \union {c}
        BY <1>5, <2>2
      <4>3. QED
        BY <4>1, <4>2
    <3>6. QED
      BY <3>3, <3>4, <3>5 DEF OutcomeInv, CancelledExactlyOnce
  <2>3. QED
    BY <2>1, <2>2
<1>7. QED
  BY <1>2, <1>3, <1>4, <1>6 DEF OutcomeInv

LEMMA RegisteredOutcome ==
  ASSUME TypeInv, CallInv, OutcomeInv, NEW c \in Callers, RequestRegistered(c)
  PROVE  OutcomeInv'
<1> DEFINE k == outgoing_request_id_next
<1>1. /\ k \in OutgoingIds /\ callers[c].pc = "idle"
      /\ outgoing_requests' = [outgoing_requests EXCEPT ![k] = c]
      /\ outgoing_request_id_next' = k + 1
      /\ UNCHANGED <<slot, dispatcher, outgoing_cancellations>>
  BY BoundsAssumption DEF TypeInv, TableTypeOK, RequestRegistered, NextId,
     OutgoingIds, taskVars
<1>2. /\ callers'[c].id = k /\ callers'[c].pc = "registered"
      /\ callers'[c].result = callers[c].result
      /\ \A d \in Callers \ {c} : callers'[d] = callers[d]
  BY DEF TypeInv, CallersInv, CallersTypeOK, RequestRegistered, NextId
<1>3. AnswerOnItsWay'
  <2>1. dispatcher.pc = "resolve" => dispatcher.caller # c /\ dispatcher.caller \in Callers
    BY <1>1 DEF OutcomeInv, AnswerOnItsWay, TypeInv, DispatcherInv
  <2>2. \A i \in OutgoingIds : outgoing_requests'[i] \in {outgoing_requests[i], c}
    BY <1>1 DEF TypeInv, TableTypeOK
  <2>3. QED
    BY <1>1, <1>2, <2>1, <2>2 DEF OutcomeInv, AnswerOnItsWay
<1>4. SlotsFollowCalls'
  BY <1>1, <1>2 DEF OutcomeInv, SlotsFollowCalls
<1>5. callers[c].id = IdMax /\ ~Abandoned(c) /\ ~Abandoned(c)'
  BY <1>1, <1>2 DEF Abandoned, OutcomeInv, SlotsFollowCalls
<1>6. IdsGiven'
  <2>1. ASSUME NEW i \in OutgoingIds, i < k + 1
        PROVE  \E d \in Callers : callers'[d].id = i
    <3>1. CASE i = k
      BY <1>2, <3>1
    <3>2. CASE i # k
      <4>1. i < k /\ i # IdMax
        BY <1>1, <2>1, <3>2, BoundsAssumption DEF OutgoingIds
      <4>2. QED
        BY <1>2, <1>5, <4>1 DEF OutcomeInv, IdsGiven
    <3>3. QED
      BY <3>1, <3>2
  <2>2. QED
    BY <1>1, <2>1 DEF IdsGiven
<1>7. CancelledExactlyOnce'
  <2>1. \A d \in Callers : /\ Abandoned(d)' <=> Abandoned(d)
                           /\ Abandoned(d) => callers'[d].id = callers[d].id
    BY <1>2, <1>5 DEF Abandoned
  <2>2. {callers'[d].id : d \in {e \in Callers : Abandoned(e)'}}
          = {callers[d].id : d \in {e \in Callers : Abandoned(e)}}
    BY <2>1
  <2>3. QED
    BY <1>1, <2>2 DEF OutcomeInv, CancelledExactlyOnce
<1>8. QED
  BY <1>3, <1>4, <1>6, <1>7 DEF OutcomeInv

\* A step of a call that neither registers it nor ends it
LEMMA MovesOnOutcome ==
  ASSUME TypeInv, OutcomeInv, NEW c \in Callers, InFlight(c),
         callers'[c].pc \in {"sent", "parked", "ready"},
         callers'[c].id = callers[c].id, slot'[c].result = slot[c].result,
         \A d \in Callers \ {c} : callers'[d] = callers[d] /\ slot'[d] = slot[d],
         callers'[c].pc = "ready" => slot'[c].st = "End",
         UNCHANGED <<tableVars, outgoing_cancellations, dispatcher>>
  PROVE  OutcomeInv'
<1> USE DEF tableVars
<1>1. AnswerOnItsWay'
  BY DEF OutcomeInv, AnswerOnItsWay, TypeInv, DispatcherInv
<1>2. SlotsFollowCalls'
  BY DEF OutcomeInv, SlotsFollowCalls
<1>3. SameCalls
  BY DEF SameCalls, Abandoned, InFlight
<1>4. QED
  BY <1>1, <1>2, <1>3, SameCancellations, SameIdsGiven DEF OutcomeInv

LEMMA CallerStepOutcome ==
  ASSUME TypeInv, CallInv, OutcomeInv, NEW c \in Callers, CallerStep(c)
  PROVE  OutcomeInv'
<1>1. CASE RequestRefused(c)
  <2>1. PICK r :
          /\ callers' = [callers EXCEPT ![c].pc = "returned", ![c].result = r]
          /\ r # Serialize
    BY <1>1, RefusalEnds, EndingsApart DEF RequestRefused, TypeInv, StatesTypeOK
  <2>2. /\ callers[c].pc = "idle" /\ callers'[c].id = callers[c].id
        /\ callers'[c].pc = "returned" /\ callers'[c].result = r
        /\ \A d \in Callers \ {c} : callers'[d] = callers[d]
        /\ UNCHANGED <<slot, dispatcher, outgoing_cancellations, tableVars>>
    BY <1>1, <2>1 DEF TypeInv, CallersInv, CallersTypeOK, RequestRefused,
       taskVars, tableVars
  <2>3. SameCalls
    BY <2>1, <2>2 DEF SameCalls, Abandoned, Serialize
  <2>4. AnswerOnItsWay' /\ SlotsFollowCalls'
    BY <2>2 DEF OutcomeInv, AnswerOnItsWay, SlotsFollowCalls, TypeInv,
       DispatcherInv, tableVars
  <2>5. QED
    BY <2>2, <2>3, <2>4, SameCancellations, SameIdsGiven DEF OutcomeInv, tableVars
<1>2. CASE RequestSent(c)
  <2>1. /\ callers'[c].pc = "sent" /\ callers'[c].id = callers[c].id
        /\ \A d \in Callers \ {c} : callers'[d] = callers[d]
    BY <1>2 DEF TypeInv, CallersInv, CallersTypeOK, RequestSent
  <2>2. /\ UNCHANGED <<slot, tableVars, outgoing_cancellations, dispatcher>>
        /\ InFlight(c)
    BY <1>2 DEF RequestSent, tableVars, InFlight
  <2>3. QED
    BY <2>1, <2>2, MovesOnOutcome
<1>3. CASE PollSlot(c)
  <2>1. /\ callers'[c].pc \in {"parked", "ready"} /\ callers'[c].id = callers[c].id
        /\ slot'[c].result = slot[c].result
        /\ callers'[c].pc = "ready" => slot'[c].st = "End"
        /\ \A d \in Callers \ {c} : callers'[d] = callers[d] /\ slot'[d] = slot[d]
    BY <1>3 DEF TypeInv, CallersInv, CallersTypeOK, PollSlot
  <2>2. /\ UNCHANGED <<tableVars, outgoing_cancellations, dispatcher>>
        /\ InFlight(c)
    BY <1>3 DEF PollSlot, tableVars, taskVars, InFlight
  <2>3. QED
    BY <2>1, <2>2, MovesOnOutcome
<1>4. CASE SerializeFails(c)
  BY <1>4, DropGuardOutcome, ResultTypes DEF SerializeFails, taskVars, InFlight,
     Serialize
<1>5. CASE RequestReturns(c)
  <2>1. slot[c].result \in Results /\ slot[c].result # Serialize
    BY DEF TypeInv, CallersInv, CallersTypeOK, OutcomeInv, SlotsFollowCalls,
       Serialize
  <2>2. QED
    BY <1>5, <2>1, DropGuardOutcome DEF RequestReturns, taskVars, InFlight
<1>6. CASE RequestDropped(c)
  BY <1>6, DropGuardOutcome, ResultTypes DEF RequestDropped, taskVars, InFlight
<1>7. QED
  BY <1>1, <1>2, <1>3, <1>4, <1>5, <1>6, RegisteredOutcome DEF CallerStep

LEMMA OnResponseOutcome ==
  ASSUME TypeInv, CallInv, OutcomeInv, OnResponse PROVE OutcomeInv'
<1> DEFINE m == Head(dispatcher.batch)
           found == IF m.id \in OutgoingIds THEN outgoing_requests[m.id]
                    ELSE NoCaller
<1>1. UNCHANGED <<callVars, outgoing_cancellations, outgoing_request_id_next>>
  BY DEF OnResponse, callVars
<1>2. SlotsFollowCalls' /\ SameCalls
  BY <1>1 DEF OutcomeInv, SlotsFollowCalls, SameCalls, Abandoned, callVars
<1>3. AnswerOnItsWay'
  <2>1. CASE found = NoCaller
    <3>1. dispatcher'.pc # "resolve"
      BY <2>1 DEF OnResponse, TypeInv, DispatcherInv, DispatcherTypeOK, NextPc
    <3>2. QED
      BY <3>1 DEF AnswerOnItsWay
  <2>2. CASE found # NoCaller
    <3>1. /\ m.id \in OutgoingIds /\ found = outgoing_requests[m.id]
          /\ outgoing_requests' = [outgoing_requests EXCEPT ![m.id] = NoCaller]
          /\ dispatcher'.caller = found /\ dispatcher'.result = ResponseResult(m)
      BY <2>2 DEF OnResponse, TypeInv, DispatcherInv, DispatcherTypeOK
    <3>2. found \in Callers /\ InFlight(found) /\ callers[found].id = m.id
      BY <2>2, <3>1, FiledInFlight, CallersAssumption DEF TypeInv, TableTypeOK
    <3>3. \A i \in OutgoingIds : outgoing_requests'[i] # found
      <4>1. ASSUME NEW i \in OutgoingIds, outgoing_requests'[i] = found PROVE FALSE
        <5>1. outgoing_requests[i] = found /\ i # m.id
          BY <2>2, <3>1, <4>1 DEF TypeInv, TableTypeOK
        <5>2. callers[found].id = i
          BY <3>2, <5>1, FiledInFlight, CallersAssumption
        <5>3. QED
          BY <3>2, <5>1, <5>2
      <4>2. QED
        BY <4>1
    <3>4. ResponseResult(m) \in AnswerResults
      <4>1. m.type = "Success" => m.result \in {"value", "mistyped"}
        BY RestType DEF TypeInv, DispatcherInv, OnResponse, IncomingMessages,
           Notification, ErrorWithoutId
      <4>2. QED
        BY <4>1 DEF OnResponse, ResponseResult, AnswerResults
    <3>5. callers'[found].pc # "idle"
      BY <1>1, <3>2 DEF InFlight, callVars
    <3>6. QED
      BY <3>1, <3>3, <3>4, <3>5 DEF AnswerOnItsWay
  <2>3. QED
    BY <2>1, <2>2
<1>4. QED
  BY <1>1, <1>2, <1>3, SameCancellations, SameIdsGiven DEF OutcomeInv

LEMMA ReaderStepOutcome ==
  ASSUME TypeInv, CallInv, OutcomeInv, ReaderStep PROVE OutcomeInv'
<1> USE DEF TypeInv, DispatcherInv, DispatcherTypeOK
<1>1. CASE ReadLine \/ ReadEnds \/ ReadFails \/ DispatchFails \/ OnNotification
  <2>1. dispatcher'.pc # "resolve"
    BY <1>1 DEF ReadLine, ReadEnds, ReadFails, DispatchFails, OnNotification,
       Stops, NextPc
  <2>2. QED
    BY <1>1, <2>1, OutcomeFrame DEF ReadLine, ReadEnds, ReadFails,
       DispatchFails, OnNotification, readFrame, tableVars, callVars, outgoingVars
<1>2. CASE FinishRead
  <2>1. StatesTypeOK' /\ dispatcher'.pc = "done"
    BY <1>2, FinishReadType DEF FinishRead
  <2>2. QED
    BY <1>2, <2>1, ApplyErrorOutcome DEF FinishRead, finishFrame, tableVars
<1>3. CASE OnResponse
  BY <1>3, OnResponseOutcome
<1>4. CASE ResolveSlot
  <2>1. /\ dispatcher.result # Serialize
        /\ callers[dispatcher.caller].pc # "idle"
    BY <1>4, EndingsApart DEF ResolveSlot, OutcomeInv, AnswerOnItsWay
  <2>2. dispatcher'.pc # "resolve"
    BY <1>4 DEF ResolveSlot, NextPc
  <2>3. QED
    BY <1>4, <2>1, <2>2, SetReadyOutcome DEF ResolveSlot, tableVars
<1>5. CASE /\ OnRequest \/ HandlerReplies \/ HandlerSpawns \/ HandlerDisowns \/ HandlerPanics
                \/ InitFinish
           /\ UNCHANGED outgoingVars
  <2>1. dispatcher'.pc # "resolve"
    BY <1>5 DEF OnRequest, HandlerReplies, HandlerSpawns, HandlerDisowns,
       Disown, HandlerPanics, InitFinish, NextPc
  <2>2. QED
    BY <1>5, <2>1, OutcomeFrame DEF tableVars, callVars, outgoingVars
<1>6. QED
  BY <1>1, <1>2, <1>3, <1>4, <1>5 DEF ReaderStep

LEMMA OutcomeInit == Init => OutcomeInv
<1> SUFFICES ASSUME Init PROVE OutcomeInv
  OBVIOUS
<1> USE DEF Init, TasksInit, OutgoingInit
<1>1. AnswerOnItsWay /\ SlotsFollowCalls
  BY EndingsApart DEF AnswerOnItsWay, SlotsFollowCalls, Serialize
<1>2. IdsGiven
  BY BoundsAssumption DEF IdsGiven, OutgoingIds
<1>3. CancelledExactlyOnce
  BY DEF CancelledExactlyOnce, Abandoned
<1>4. QED
  BY <1>1, <1>2, <1>3 DEF OutcomeInv

LEMMA OutcomeStep == TypeInv /\ CallInv /\ OutcomeInv /\ [Next]_vars => OutcomeInv'
<1> SUFFICES ASSUME TypeInv, CallInv, OutcomeInv, [Next]_vars PROVE OutcomeInv'
  OBVIOUS
<1> USE DEF tableVars, callVars, outgoingVars
<1>1. CASE UNCHANGED vars
  BY <1>1, OutcomeFrame DEF vars, taskVars
<1>2. ASSUME NEW w \in Waiters, WaiterStep(w) PROVE OutcomeInv'
  BY <1>2, OutcomeFrame DEF WaiterStep, WaitStart, WaitServer, WaitPop, WaitJoin,
     WaitReturn, WaitDropped, waitFrame
<1>3. ASSUME NEW n \in HandlerIds, TaskStep(n) PROVE OutcomeInv'
  BY <1>3, OutcomeFrame DEF TaskStep, TaskReturns, TaskPanics, TaskFinish,
     TaskOutlivesSession, taskFrame, requestFrame
<1>4. StatesTypeOK'
  BY TypeStep DEF TypeInv
<1>5. CASE WriterStep
  <2>1. CASE FinishWrite
    BY <1>4, <2>1, ApplyErrorOutcome DEF FinishWrite, finishFrame
  <2>2. CASE ~FinishWrite
    BY <1>5, <2>2, OutcomeFrame DEF WriterStep, FetchMessages, WriteMessage,
       Flush, WriteFails, writerFrame
  <2>3. QED
    BY <2>1, <2>2
<1>6. CASE CancellerStep
  <2>1. CASE FinishCancel
    BY <1>4, <2>1, ApplyErrorOutcome DEF FinishCancel, finishFrame
  <2>2. CASE ~FinishCancel
    BY <1>6, <2>2, OutcomeFrame DEF CancellerStep, FetchCancellations, CallHook,
       cancellerFrame
  <2>3. QED
    BY <2>1, <2>2
<1>7. CASE RuntimeStep
  <2>1. UNCHANGED <<tableVars, callVars, outgoing_cancellations>>
    BY <1>7 DEF RuntimeStep
  <2>2. dispatcher'.pc = "resolve" => UNCHANGED dispatcher
    BY <1>7 DEF RuntimeStep, Reap, TypeInv, DispatcherInv, DispatcherTypeOK
  <2>3. QED
    BY <2>1, <2>2, OutcomeFrame
<1>8. CASE ApplicationStep
  <2>1. CASE ShutdownSession
    BY <1>4, <2>1, ApplyErrorOutcome DEF ShutdownSession
  <2>2. CASE ~ShutdownSession
    BY <1>8, <2>2, OutcomeFrame DEF ApplicationStep, Shutdown, DropSession,
       Notify, CancelIncoming, requestFrame
  <2>3. QED
    BY <2>1, <2>2
<1>9. QED
  BY <1>1, <1>2, <1>3, <1>5, <1>6, <1>7, <1>8, CallerStepOutcome,
     ReaderStepOutcome DEF Next, Terminated
-----------------------------------------------------------------------------
(* FollowInv is inductive                                                  *)

WasSent(c) == callers[c].pc \in {"sent", "parked", "woken", "ready", "withdrawn"}

\* Calls go on, and one that was not sent before is not now.
CallsGoOn ==
  \A c \in Callers :
    /\ WasSent(c)' => WasSent(c) /\ callers'[c].id = callers[c].id
    /\ callers[c].result = Serialize => callers'[c] = callers[c]
    /\ callers'[c].result = Serialize => callers'[c].pc = "returned"

\* Steps that send neither a request nor a cancellation
LEMMA FollowFrame ==
  ASSUME WriterTypeOK, FollowInv, CallsGoOn,
         \/ UNCHANGED outbox
         \/ \E m \in OutgoingMessages : Push(m) /\ m.type # "Cancel"
  PROVE  FollowInv'
<1>1. \A p \in DOMAIN outbox : p \in DOMAIN outbox' /\ outbox'[p] = outbox[p]
  BY PushedAt
<1>2. \A p \in DOMAIN outbox' :
        outbox'[p].type = "Cancel" => p \in DOMAIN outbox
  BY PushedAt
<1>3. \A c \in Callers : WasSent(c)' =>
        \E p \in DOMAIN outbox' : outbox'[p] = Request(callers'[c].id)
  BY <1>1 DEF FollowInv, SentAreQueued, CallsGoOn, WasSent
<1>4. SentAreQueued'
  BY <1>3 DEF SentAreQueued, WasSent
<1>5. CancelFollowsRequest'
  <2>1. \A p \in DOMAIN outbox : \A q \in 1..(p - 1) : q \in DOMAIN outbox
    BY LenProperties DEF WriterTypeOK
  <2>2. QED
    BY <1>1, <1>2, <2>1 DEF FollowInv, CancelFollowsRequest, CallsGoOn, Serialize
<1>6. NeverSentAreOver'
  BY DEF NeverSentAreOver, CallsGoOn, Serialize
<1>7. QED
  BY <1>4, <1>5, <1>6 DEF FollowInv

LEMMA SameCallsGoOn == ASSUME FollowInv, UNCHANGED callers PROVE CallsGoOn
BY DEF FollowInv, NeverSentAreOver, CallsGoOn, WasSent, Serialize

LEMMA ApplyErrorGoesOn ==
  ASSUME TypeInv, FollowInv, NEW cs, NEW r, SetReady(cs, r) PROVE CallsGoOn
<1>1. ASSUME NEW c \in Callers
      PROVE  /\ callers'[c] \in {callers[c], [callers[c] EXCEPT !.pc = "woken"]}
             /\ callers'[c] # callers[c] => callers[c].pc = "parked"
  BY <1>1 DEF SetReady
<1>2. QED
  BY <1>1 DEF CallsGoOn, WasSent, FollowInv, NeverSentAreOver, Serialize, TypeInv,
     CallersInv, CallersTypeOK

LEMMA CallerStepFollow ==
  ASSUME TypeInv, OutcomeInv, FollowInv, NEW c \in Callers, CallerStep(c)
  PROVE  FollowInv'
<1> USE DEF TypeInv, WriterInv, CallersInv, CallersTypeOK
<1>1. \A d \in Callers \ {c} : callers'[d] = callers[d]
  BY DEF CallerStep, RequestRefused, RequestRegistered, RequestSent,
     SerializeFails, PollSlot, RequestReturns, RequestDropped, DropGuard
<1>2. \A d \in Callers : callers[d].result = Serialize => callers[d].pc = "returned"
  BY DEF FollowInv, NeverSentAreOver, Serialize
<1>3. CASE RequestSent(c)
  <2> PICK m : m = Request(callers[c].id)
    OBVIOUS
  <2>1. m \in OutgoingMessages /\ m.type # "Cancel" /\ Push(m)
    <3>1. callers[c].id \in OutgoingIds
      BY <1>3, BoundsAssumption DEF RequestSent, InFlight, OutgoingIds
    <3>2. QED
      BY <1>3, <3>1 DEF RequestSent, Request, OutgoingMessages
  <2>2. /\ callers[c].pc = "registered" /\ callers'[c].id = callers[c].id
        /\ callers'[c].result = callers[c].result
    BY <1>3 DEF RequestSent
  <2>3. \A p \in DOMAIN outbox : p \in DOMAIN outbox' /\ outbox'[p] = outbox[p]
    BY <2>1, PushedAt
  <2>4. \E p \in DOMAIN outbox' : outbox'[p] = Request(callers'[c].id)
    BY <2>1, <2>2, PushedAt
  <2>5. \A d \in Callers \ {c} : WasSent(d) =>
          \E p \in DOMAIN outbox' : outbox'[p] = Request(callers'[d].id)
    BY <1>1, <2>3 DEF FollowInv, SentAreQueued, WasSent
  <2>6. SentAreQueued'
    BY <1>1, <2>4, <2>5 DEF SentAreQueued, WasSent
  <2>7. NeverSentAreOver'
    BY <1>1, <1>2, <2>2 DEF NeverSentAreOver, Serialize
  <2>8. CancelFollowsRequest'
    <3>1. \A p \in DOMAIN outbox : \A q \in 1..(p - 1) : q \in DOMAIN outbox
      BY LenProperties DEF WriterTypeOK
    <3>2. \A p \in DOMAIN outbox' : outbox'[p].type = "Cancel" => p \in DOMAIN outbox
      BY <2>1, PushedAt
    <3>3. \A d \in Callers : callers[d].result = Serialize => callers'[d] = callers[d]
      BY <1>1, <1>2, <2>2
    <3>4. QED
      BY <2>3, <3>1, <3>2, <3>3 DEF FollowInv, CancelFollowsRequest, Serialize
  <2>9. QED
    BY <2>6, <2>7, <2>8 DEF FollowInv
<1>4. CASE ~RequestSent(c)
  <2>1. UNCHANGED outbox
    BY <1>4 DEF CallerStep, RequestRefused, RequestRegistered, SerializeFails,
       PollSlot, RequestReturns, RequestDropped, taskVars
  <2>2. /\ callers[c].pc # "returned"
        /\ WasSent(c)' => WasSent(c) /\ callers'[c].id = callers[c].id
        /\ callers'[c].result = Serialize => callers'[c].pc = "returned"
    BY <1>2, <1>4 DEF CallerStep, RequestRefused, RequestRegistered,
       SerializeFails, PollSlot, RequestReturns, RequestDropped, DropGuard, WasSent
  <2>3. CallsGoOn
    BY <1>1, <1>2, <2>2 DEF CallsGoOn, WasSent
  <2>4. QED
    BY <2>1, <2>3, FollowFrame
<1>5. QED
  BY <1>3, <1>4

\* The hook sends the id of a call that was sent, or could not be.
LEMMA CallHookFollow ==
  ASSUME TypeInv, OutcomeInv, FollowInv, CallHook PROVE FollowInv'
<1> PICK id : id = outgoing_cancellations[called + 1]
  OBVIOUS
<1>1. called + 1 \in DOMAIN outgoing_cancellations /\ id \in OutgoingIds
  <2>1. /\ outgoing_cancellations \in Seq(OutgoingIds)
        /\ called \in Nat /\ called < Len(outgoing_cancellations)
    BY LenProperties DEF CallHook, TypeInv, CancellerInv, CancellationsTypeOK
  <2>2. QED
    BY <2>1, LenProperties
<1>2. PICK c \in Callers : Abandoned(c) /\ callers[c].id = id
  BY <1>1 DEF OutcomeInv, CancelledExactlyOnce
<1>3. CallsGoOn /\ UNCHANGED callers
  BY SameCallsGoOn DEF CallHook
<1>4. CASE UNCHANGED outbox
  BY <1>3, <1>4, FollowFrame DEF TypeInv, WriterInv
<1>5. CASE Push(Cancel(id))
  <2>1. Cancel(id) \in OutgoingMessages /\ WriterTypeOK /\ Len(outbox) \in Nat
    BY <1>1, LenProperties DEF Cancel, OutgoingMessages, TypeInv, WriterInv,
       WriterTypeOK
  <2>2. /\ DOMAIN outbox' = DOMAIN outbox \union {Len(outbox) + 1}
        /\ \A p \in DOMAIN outbox : outbox'[p] = outbox[p]
        /\ outbox'[Len(outbox) + 1] = Cancel(id)
    BY <1>5, <2>1, PushedAt
  <2>3. SentAreQueued' /\ NeverSentAreOver'
    BY <1>3, <2>2 DEF FollowInv, SentAreQueued, NeverSentAreOver
  <2>4. DOMAIN outbox = 1..Len(outbox)
    BY LenProperties DEF TypeInv, WriterInv, WriterTypeOK
  <2>5. \/ \E q \in 1..Len(outbox) : outbox'[q] = Request(id)
        \/ callers'[c].id = id /\ callers'[c].result = Serialize
    BY <1>2, <1>3, <2>2, <2>4 DEF Abandoned, FollowInv, SentAreQueued, Serialize
  <2>6. \A p \in DOMAIN outbox : \A q \in 1..(p - 1) : q \in DOMAIN outbox
    BY <2>1, <2>4
  <2>7. ASSUME NEW p \in DOMAIN outbox', outbox'[p].type = "Cancel"
        PROVE  \/ \E q \in 1..(p - 1) : outbox'[q] = Request(outbox'[p].id)
               \/ \E d \in Callers : /\ callers'[d].id = outbox'[p].id
                                     /\ callers'[d].result = Serialize
    <3>1. CASE p \in DOMAIN outbox
      BY <1>3, <2>2, <2>6, <2>7, <3>1 DEF FollowInv, CancelFollowsRequest, Serialize
    <3>2. CASE p = Len(outbox) + 1
      <4>1. outbox'[p].id = id /\ p - 1 = Len(outbox)
        BY <2>1, <2>2, <3>2 DEF Cancel
      <4>2. QED
        BY <2>5, <4>1
    <3>3. QED
      BY <2>2, <3>1, <3>2
  <2>8. QED
    BY <2>3, <2>7 DEF FollowInv, CancelFollowsRequest, Serialize
<1>6. QED
  BY <1>4, <1>5 DEF CallHook

LEMMA AnswerPushes ==
  ASSUME IncomingTypeOK, NEW n \in DOMAIN requests, NEW id, id = requests[n].id,
         Filed(id), Answer(id, incoming_requests[id], n)
  PROVE  \/ UNCHANGED outbox
         \/ \E m \in OutgoingMessages : Push(m) /\ m.type # "Cancel"
<1>1. /\ id \in RequestIds /\ n \in HandlerIds
      /\ incoming_requests[id].req \in HandlerIds
  BY RequestType DEF IncomingTypeOK, Filed, Entries
<1>2. PICK m : m = Response(id, incoming_requests[id].req, n)
  OBVIOUS
<1>3. m \in OutgoingMessages /\ m.type # "Cancel"
  BY <1>1, <1>2 DEF Response, OutgoingMessages
<1>4. QED
  BY <1>2, <1>3 DEF Answer

LEMMA ReaderStepFollow ==
  ASSUME TypeInv, FollowInv, ReaderStep PROVE FollowInv'
<1> USE DEF TypeInv, WriterInv
<1>1. CASE FinishRead
  <2>1. CallsGoOn
    BY <1>1, ApplyErrorGoesOn, SameCallsGoOn DEF FinishRead, ApplyError
  <2>2. ErrorWithoutId \in OutgoingMessages /\ ErrorWithoutId.type # "Cancel"
    BY DEF OutgoingMessages, ErrorWithoutId
  <2>3. QED
    BY <1>1, <2>1, <2>2, FollowFrame DEF FinishRead
<1>2. CASE \/ ReadLine \/ ReadEnds \/ ReadFails \/ DispatchFails \/ OnNotification
           \/ OnResponse
           \/ (HandlerReplies \/ HandlerSpawns \/ HandlerDisowns \/ HandlerPanics) /\ UNCHANGED outgoingVars
  BY <1>2, FollowFrame, SameCallsGoOn DEF ReadLine, ReadEnds, ReadFails,
     DispatchFails, OnNotification, readFrame, OnResponse, dispatcherFrame,
     HandlerReplies, HandlerSpawns, HandlerDisowns, Disown, HandlerPanics,
     outgoingVars
<1>3. CASE ResolveSlot
  <2>1. CallsGoOn
    BY <1>3, ApplyErrorGoesOn DEF ResolveSlot
  <2>2. QED
    BY <1>3, <2>1, FollowFrame DEF ResolveSlot, dispatcherFrame
<1>4. CASE OnRequest /\ UNCHANGED outgoingVars
  <2>1. CallsGoOn
    BY <1>4, SameCallsGoOn DEF outgoingVars
  <2>2. PICK m : m = Response(Head(dispatcher.batch).id, Len(requests) + 1, Len(requests) + 1)
    OBVIOUS
  <2>3. m \in OutgoingMessages /\ m.type # "Cancel"
    BY <1>4, <2>2, OnRequestArgs DEF Response, OutgoingMessages
  <2>4. UNCHANGED outbox \/ Push(m)
    BY <1>4, <2>2 DEF OnRequest
  <2>5. QED
    BY <2>1, <2>3, <2>4, FollowFrame
<1>5. CASE InitFinish /\ UNCHANGED outgoingVars
  <2>1. CallsGoOn
    BY <1>5, SameCallsGoOn DEF outgoingVars
  <2>2. dispatcher.req \in DOMAIN requests
    BY <1>5 DEF InitFinish, DispatcherInv
  <2>3. \/ UNCHANGED outbox
        \/ \E m \in OutgoingMessages : Push(m) /\ m.type # "Cancel"
    BY <1>5, <2>2, AnswerPushes DEF InitFinish
  <2>4. QED
    BY <2>1, <2>3, FollowFrame
<1>6. QED
  BY <1>1, <1>2, <1>3, <1>4, <1>5 DEF ReaderStep

LEMMA FollowInit == Init => FollowInv
BY EndingsApart DEF Init, TasksInit, OutgoingInit, FollowInv, SentAreQueued,
   NeverSentAreOver, CancelFollowsRequest, Serialize

LEMMA FollowStep ==
  TypeInv /\ OutcomeInv /\ FollowInv /\ [Next]_vars => FollowInv'
<1> SUFFICES ASSUME TypeInv, OutcomeInv, FollowInv, [Next]_vars PROVE FollowInv'
  OBVIOUS
<1> USE DEF TypeInv, WriterInv
<1>1. CASE UNCHANGED vars
  BY <1>1, FollowFrame, SameCallsGoOn DEF vars, taskVars, outgoingVars
<1>2. ASSUME NEW w \in Waiters, WaiterStep(w) PROVE FollowInv'
  BY <1>2, FollowFrame, SameCallsGoOn DEF WaiterStep, WaitStart, WaitServer,
     WaitPop, WaitJoin, WaitReturn, WaitDropped, waitFrame, writerVars, outgoingVars
<1>3. ASSUME NEW n \in HandlerIds, TaskStep(n) PROVE FollowInv'
  <2>1. CallsGoOn
    BY <1>3, SameCallsGoOn DEF TaskStep, outgoingVars
  <2>2. CASE TaskFinish(n)
    <3>1. n \in DOMAIN requests
      BY <2>2 DEF TaskFinish, HandlersInv
    <3>2. \/ UNCHANGED outbox
          \/ \E m \in OutgoingMessages : Push(m) /\ m.type # "Cancel"
      BY <2>2, <3>1, AnswerPushes DEF TaskFinish
    <3>3. QED
      BY <2>1, <3>2, FollowFrame
  <2>3. CASE TaskReturns(n) \/ TaskPanics(n) \/ TaskOutlivesSession(n)
    BY <2>1, <2>3, FollowFrame DEF TaskReturns, TaskPanics, TaskOutlivesSession
  <2>4. QED
    BY <1>3, <2>2, <2>3 DEF TaskStep
<1>4. CASE WriterStep
  <2>1. CallsGoOn
    BY <1>4, ApplyErrorGoesOn, SameCallsGoOn DEF WriterStep, FinishWrite,
       ApplyError, outgoingVars
  <2>2. UNCHANGED outbox
    BY <1>4 DEF WriterStep, FinishWrite, FetchMessages, WriteMessage, Flush,
       WriteFails
  <2>3. QED
    BY <2>1, <2>2, FollowFrame
<1>5. CASE CancellerStep
  <2>1. CASE FinishCancel
    <3>1. CallsGoOn
      BY <2>1, ApplyErrorGoesOn, SameCallsGoOn DEF FinishCancel, ApplyError
    <3>2. QED
      BY <2>1, <3>1, FollowFrame DEF FinishCancel
  <2>2. CASE FetchCancellations
    BY <2>2, FollowFrame, SameCallsGoOn DEF FetchCancellations
  <2>3. QED
    BY <1>5, <2>1, <2>2, CallHookFollow DEF CancellerStep
<1>6. CASE RuntimeStep
  BY <1>6, FollowFrame, SameCallsGoOn DEF RuntimeStep, Reap, outgoingVars
<1>7. CASE ApplicationStep
  <2>1. CASE ShutdownSession
    <3>1. CallsGoOn
      BY <2>1, ApplyErrorGoesOn, SameCallsGoOn DEF ShutdownSession, ApplyError
    <3>2. QED
      BY <2>1, <3>1, FollowFrame DEF ShutdownSession
  <2>2. CASE DropSession /\ ~ShutdownSession
    BY <2>2, FollowFrame, SameCallsGoOn DEF DropSession, outgoingVars
  <2>3. CASE Notify
    BY <2>3, FollowFrame, SameCallsGoOn DEF Notify, OutgoingMessages,
       Notification, outgoingVars
  <2>4. ASSUME NEW id \in RequestIds, CancelIncoming(id), UNCHANGED outgoingVars
        PROVE  FollowInv'
    <3>1. CallsGoOn
      BY <2>4, SameCallsGoOn DEF outgoingVars
    <3>2. PICK n : n = incoming_requests[id].req
      OBVIOUS
    <3>3. n \in HandlerIds
      BY <2>4, <3>2 DEF CancelIncoming, Filed, IncomingTypeOK, Entries
    <3>4. Response(id, n, n) \in OutgoingMessages /\ Response(id, n, n).type # "Cancel"
      BY <3>3 DEF Response, OutgoingMessages
    <3>5. QED
      BY <2>4, <3>1, <3>2, <3>4, FollowFrame DEF CancelIncoming
  <2>5. QED
    BY <1>7, <2>1, <2>2, <2>3, <2>4 DEF ApplicationStep, Shutdown
<1>8. QED
  BY <1>1, <1>2, <1>3, <1>4, <1>5, <1>6, <1>7, CallerStepFollow, ReaderStepFollow
     DEF Next, Terminated
-----------------------------------------------------------------------------
(* The theorems                                                            *)

LEMMA OutcomesCorrect == Spec => [](TypeInv /\ CallInv /\ OutcomeInv)
<1>1. Init => TypeInv /\ CallInv /\ OutcomeInv
  BY TypeInit, CallInit, OutcomeInit
<1>2. TypeInv /\ CallInv /\ OutcomeInv /\ [Next]_vars
        => TypeInv' /\ CallInv' /\ OutcomeInv'
  BY TypeStep, CallStep, OutcomeStep
<1>3. QED
  BY <1>1, <1>2, PTL DEF Spec

\* Every abandoned call is queued for the hook, once, and no other call is,
\* whatever the session, the peer and the other calls do meanwhile.
THEOREM CallsCancelledOnce == Spec => []CancelledExactlyOnce
<1>1. OutcomeInv => CancelledExactlyOnce
  BY DEF OutcomeInv
<1>2. QED
  BY <1>1, OutcomesCorrect, PTL

\* However the two queues and the three tasks run, the peer hears of the
\* cancellation of a request only after the request.
THEOREM CancellationsFollow == Spec => []CancelFollowsRequest
<1>1. Init => FollowInv
  BY FollowInit
<1>2. TypeInv /\ OutcomeInv /\ FollowInv /\ [Next]_vars => FollowInv'
  BY FollowStep
<1>3. FollowInv => CancelFollowsRequest
  BY DEF FollowInv
<1>4. QED
  BY <1>1, <1>2, <1>3, OutcomesCorrect, PTL DEF Spec
-----------------------------------------------------------------------------
(* Session implements RequestContract                                      *)

ContractStep == Contract!Next \/ UNCHANGED <<AbstractCall, SessionDead, HookedIds>>

\* What the contract knows of call c stays the same.
SameToContract(c) ==
  /\ Phase(c)' = Phase(c) /\ callers'[c].id = callers[c].id
  /\ Outcome(c)' = Outcome(c)

LEMMA SameHooks ==
  ASSUME TypeInv, UNCHANGED called,
         \A i \in 1..Len(outgoing_cancellations) :
           outgoing_cancellations'[i] = outgoing_cancellations[i]
  PROVE  UNCHANGED HookedIds
<1>1. called \in Nat /\ Len(outgoing_cancellations) \in Nat
      /\ called <= Len(outgoing_cancellations)
  BY LenProperties DEF TypeInv, CancellerInv, CancellationsTypeOK
<1>2. \A i \in 1..called : outgoing_cancellations'[i] = outgoing_cancellations[i]
  BY <1>1
<1>3. QED
  BY <1>1, <1>2 DEF HookedIds

LEMMA Stutters ==
  ASSUME \A c \in Callers : SameToContract(c),
         SessionDead' <=> SessionDead, UNCHANGED HookedIds
  PROVE  ContractStep
<1>1. UNCHANGED AbstractCall
  BY DEF AbstractCall, SameToContract
<1>2. UNCHANGED SessionDead
  BY DEF SessionDead
<1>3. QED
  BY <1>1, <1>2 DEF ContractStep

LEMMA StepContractFrame ==
  ASSUME UNCHANGED <<callVars, endVars, outgoing_cancellations, called>>
  PROVE  ContractStep
<1>1. \A c \in Callers : SameToContract(c)
  BY DEF SameToContract, Phase, Outcome, InFlight, callVars
<1>2. (SessionDead' <=> SessionDead) /\ UNCHANGED HookedIds
  BY DEF SessionDead, HookedIds, endVars
<1>3. QED
  BY <1>1, <1>2, Stutters

\* The contract sees call c move, and nothing else.
LEMMA OneMoves ==
  ASSUME NEW c \in Callers, NEW st, NEW id, NEW r,
         Phase(c)' = st, callers'[c].id = id, Outcome(c)' = r,
         \A d \in Callers \ {c} : SameToContract(d)
  PROVE  Contract!Becomes(c, st, id, r)
BY DEF AbstractCall, SameToContract, Contract!Becomes

\* A call as the contract sees it
LEMMA Seen ==
  ASSUME NEW c \in Callers
  PROVE  /\ AbstractCall[c].st = Phase(c) /\ AbstractCall[c].id = callers[c].id
         /\ AbstractCall[c].result = Outcome(c)
BY DEF AbstractCall

LEMMA RefusedContract ==
  ASSUME TypeInv, OutcomeInv, NEW c \in Callers, RequestRefused(c)
  PROVE  Contract!Refuse(c)
<1> DEFINE e == OutgoingRequestError(is_shutdown, write_state, read_state)
<1>1. PICK r :
        /\ callers' = [callers EXCEPT ![c].pc = "returned", ![c].result = r]
        /\ \/ e # NoResult /\ r = e
           \/ /\ e = NoResult /\ r = Result("Message", "none")
              /\ outgoing_request_id_next = IdMax
  BY DEF RequestRefused
<1>2. UNCHANGED <<slot, HookedIds, SessionDead>> /\ callers[c].pc = "idle"
  BY DEF RequestRefused, taskVars, HookedIds, SessionDead
<1>3. /\ callers'[c].pc = "returned" /\ callers'[c].result = r
      /\ callers'[c].id = callers[c].id
      /\ \A d \in Callers \ {c} : callers'[d] = callers[d]
  BY <1>1 DEF TypeInv, CallersInv, CallersTypeOK
<1>4. /\ Phase(c) = "idle" /\ Outcome(c) = callers[c].result
      /\ Phase(c)' = "returned" /\ Outcome(c)' = r
  BY <1>2, <1>3 DEF Phase, Outcome, InFlight
<1>5. \A d \in Callers \ {c} : SameToContract(d)
  BY <1>2, <1>3 DEF SameToContract, Phase, Outcome, InFlight
<1>6. /\ AbstractCall[c].st = "idle"
      /\ Contract!Becomes(c, "returned", AbstractCall[c].id, r)
  BY <1>3, <1>4, <1>5, OneMoves, Seen
<1>7. r \in Endings \union {Result("Message", "none")}
      /\ (SessionDead <=> r \in Endings)
  BY <1>1, RefusalEnds, EndingsApart DEF SessionDead, TypeInv, StatesTypeOK
<1>8. r = Result("Message", "none") => OutgoingIds \subseteq Contract!Given
  <2>1. ASSUME NEW id \in OutgoingIds, r = Result("Message", "none")
        PROVE  id \in Contract!Given
    <3>1. outgoing_request_id_next = IdMax
      BY <1>1, <2>1, RefusalEnds, EndingsApart DEF TypeInv, StatesTypeOK
    <3>2. \E d \in Callers : callers[d].id = id
      BY <3>1, BoundsAssumption DEF OutcomeInv, IdsGiven, OutgoingIds
    <3>3. QED
      BY <3>2 DEF Contract!Given, AbstractCall
  <2>2. QED
    BY <2>1
<1>9. QED
  BY <1>2, <1>6, <1>7, <1>8 DEF Contract!Refuse, Endings

LEMMA OthersSame ==
  ASSUME NEW c \in Callers,
         \A d \in Callers \ {c} : callers'[d] = callers[d] /\ slot'[d] = slot[d]
  PROVE  \A d \in Callers \ {c} : SameToContract(d)
BY DEF SameToContract, Phase, Outcome, InFlight

LEMMA RegisteredContract ==
  ASSUME TypeInv, CallInv, OutcomeInv, NEW c \in Callers, RequestRegistered(c)
  PROVE  Contract!Open(c)
<1> DEFINE k == outgoing_request_id_next
<1>1. /\ UNCHANGED <<slot, HookedIds, SessionDead>> /\ callers[c].pc = "idle"
      /\ k \in OutgoingIds /\ ~SessionDead
  BY BoundsAssumption DEF RequestRegistered, taskVars, HookedIds, SessionDead,
     TypeInv, TableTypeOK, OutgoingIds
<1>2. /\ callers'[c].pc = "registered" /\ callers'[c].id = k
      /\ \A d \in Callers \ {c} : callers'[d] = callers[d]
  BY DEF TypeInv, CallersInv, CallersTypeOK, RequestRegistered, NextId
<1>3. Phase(c) = "idle" /\ Phase(c)' = "open" /\ Outcome(c)' = NoResult
  BY <1>1, <1>2 DEF Phase, Outcome, InFlight, OutcomeInv, SlotsFollowCalls,
     Unresolved
<1>4. AbstractCall[c].st = "idle" /\ Contract!Becomes(c, "open", k, NoResult)
  BY <1>1, <1>2, <1>3, OthersSame, OneMoves, Seen
<1>5. k \notin Contract!Given
  <2>1. \A d \in Callers : callers[d].id # k
    BY <1>1, BoundsAssumption DEF CallInv, IdsGrow, OutgoingIds
  <2>2. QED
    BY <2>1 DEF Contract!Given, AbstractCall
<1>6. QED
  BY <1>1, <1>4, <1>5 DEF Contract!Open

\* The contract does not see where the call stands on its way.
LEMMA MovesOnContract ==
  ASSUME NEW c \in Callers, InFlight(c), InFlight(c)',
         callers'[c].id = callers[c].id, slot'[c].result = slot[c].result,
         slot'[c].st \in Unresolved <=> slot[c].st \in Unresolved,
         \A d \in Callers \ {c} : callers'[d] = callers[d] /\ slot'[d] = slot[d],
         UNCHANGED <<endVars, outgoing_cancellations, called>>
  PROVE  ContractStep
<1>1. SameToContract(c)
  BY DEF SameToContract, Phase, Outcome
<1>2. (SessionDead' <=> SessionDead) /\ UNCHANGED HookedIds
  BY DEF SessionDead, HookedIds, endVars
<1>3. \A d \in Callers : SameToContract(d)
  BY <1>1, OthersSame
<1>4. QED
  BY <1>2, <1>3, Stutters

\* The end of a call that has a guard
LEMMA DropGuardContract ==
  ASSUME TypeInv, NEW c \in Callers, InFlight(c),
         NEW pc \in {"returned", "withdrawn"}, NEW r, NEW received,
         DropGuard(c, pc, r, received), UNCHANGED <<slot, called, endVars>>
  PROVE  /\ AbstractCall[c].st \in {"open", "settled"}
         /\ Contract!Becomes(c, pc, AbstractCall[c].id, r)
         /\ UNCHANGED <<SessionDead, HookedIds>>
<1>1. /\ callers'[c].pc = pc /\ callers'[c].result = r
      /\ callers'[c].id = callers[c].id
      /\ \A d \in Callers \ {c} : callers'[d] = callers[d]
  BY DEF TypeInv, CallersInv, CallersTypeOK, DropGuard
<1>2. Phase(c) \in {"open", "settled"} /\ Phase(c)' = pc /\ Outcome(c)' = r
  BY <1>1 DEF Phase, Outcome, InFlight
<1>3. Contract!Becomes(c, pc, AbstractCall[c].id, r)
  BY <1>1, <1>2, OthersSame, OneMoves, Seen
<1>4. UNCHANGED HookedIds
  <2>1. outgoing_cancellations \in Seq(OutgoingIds) /\ callers[c].id \in OutgoingIds
    BY InFlightId DEF TypeInv, CancellerInv, CancellationsTypeOK
  <2>2. \A i \in 1..Len(outgoing_cancellations) :
          outgoing_cancellations'[i] = outgoing_cancellations[i]
    BY <2>1, AppendProperties DEF DropGuard
  <2>3. QED
    BY <2>2, SameHooks
<1>5. UNCHANGED SessionDead
  BY DEF SessionDead, endVars
<1>6. QED
  BY <1>2, <1>3, <1>4, <1>5, Seen

LEMMA CallerStepContract ==
  ASSUME TypeInv, CallInv, OutcomeInv, NEW c \in Callers, CallerStep(c)
  PROVE  ContractStep
<1> USE DEF endVars, taskVars
<1>1. CASE RequestRefused(c)
  BY <1>1, RefusedContract DEF ContractStep, Contract!Next
<1>2. CASE RequestRegistered(c)
  BY <1>2, RegisteredContract DEF ContractStep, Contract!Next
<1>3. CASE RequestSent(c)
  <2>1. /\ InFlight(c) /\ InFlight(c)' /\ callers'[c].id = callers[c].id
        /\ \A d \in Callers \ {c} : callers'[d] = callers[d]
        /\ UNCHANGED <<slot, endVars, outgoing_cancellations, called>>
    BY <1>3 DEF TypeInv, CallersInv, CallersTypeOK, RequestSent, InFlight
  <2>2. QED
    BY <2>1, MovesOnContract
<1>4. CASE PollSlot(c)
  <2>1. /\ InFlight(c) /\ InFlight(c)' /\ callers'[c].id = callers[c].id
        /\ slot'[c].result = slot[c].result
        /\ slot'[c].st \in Unresolved <=> slot[c].st \in Unresolved
        /\ \A d \in Callers \ {c} : callers'[d] = callers[d] /\ slot'[d] = slot[d]
        /\ UNCHANGED <<endVars, outgoing_cancellations, called>>
    BY <1>4 DEF TypeInv, CallersInv, CallersTypeOK, PollSlot, InFlight, Unresolved
  <2>2. QED
    BY <2>1, MovesOnContract
<1>5. CASE SerializeFails(c)
  <2>1. Contract!Fail(c)
    BY <1>5, DropGuardContract DEF SerializeFails, InFlight, Contract!Fail
  <2>2. QED
    BY <2>1 DEF ContractStep, Contract!Next
<1>6. CASE RequestReturns(c)
  <2>1. /\ InFlight(c) /\ DropGuard(c, "returned", slot[c].result, TRUE)
        /\ UNCHANGED <<slot, called, endVars>>
    BY <1>6 DEF RequestReturns, InFlight
  <2>2. slot[c].st = "End"
    BY <1>6 DEF RequestReturns, OutcomeInv, SlotsFollowCalls
  <2>3. Phase(c) = "settled" /\ Outcome(c) = slot[c].result
    BY <2>1, <2>2 DEF Phase, Outcome, Unresolved
  <2>4. /\ Contract!Becomes(c, "returned", AbstractCall[c].id, slot[c].result)
        /\ UNCHANGED <<SessionDead, HookedIds>>
    BY <2>1, DropGuardContract
  <2>5. Contract!Return(c)
    BY <2>3, <2>4, Seen DEF Contract!Return
  <2>6. QED
    BY <2>5 DEF ContractStep, Contract!Next
<1>7. CASE RequestDropped(c)
  <2>1. Contract!Withdraw(c)
    BY <1>7, DropGuardContract DEF RequestDropped, InFlight, Contract!Withdraw
  <2>2. QED
    BY <2>1 DEF ContractStep, Contract!Next
<1>8. QED
  BY <1>1, <1>2, <1>3, <1>4, <1>5, <1>6, <1>7 DEF CallerStep
-----------------------------------------------------------------------------
(* Slots that are set, by on_response and by apply_error                   *)

LEMMA SetReadyContract ==
  ASSUME TypeInv, NEW cs, NEW r, SetReady(cs, r), NEW c \in Callers
  PROVE  /\ callers'[c].id = callers[c].id
         /\ c \in cs /\ Phase(c) = "open" =>
              Phase(c)' = "settled" /\ Outcome(c)' = r
         /\ c \notin cs \/ Phase(c) # "open" => SameToContract(c)
<1>1. /\ callers'[c] \in {callers[c], [callers[c] EXCEPT !.pc = "woken"]}
      /\ callers'[c] # callers[c] =>
           c \in cs /\ callers[c].pc = "parked" /\ slot[c].st = "Waker"
      /\ slot'[c] = IF c \in cs /\ slot[c].st \in Unresolved
                    THEN [st |-> "Ready", result |-> r] ELSE slot[c]
  BY DEF SetReady
<1>2. /\ callers'[c].id = callers[c].id /\ callers'[c].result = callers[c].result
      /\ InFlight(c)' <=> InFlight(c)
      /\ ~InFlight(c) => callers'[c].pc = callers[c].pc
  BY <1>1 DEF TypeInv, CallersInv, CallersTypeOK, InFlight
<1>3. Phase(c) = "open" <=> InFlight(c) /\ slot[c].st \in Unresolved
  BY DEF Phase, InFlight, TypeInv, CallersInv, CallersTypeOK
<1>4. CASE c \in cs /\ Phase(c) = "open"
  <2>1. InFlight(c)' /\ slot'[c] = [st |-> "Ready", result |-> r]
    BY <1>1, <1>2, <1>3, <1>4
  <2>2. QED
    BY <1>2, <1>4, <2>1 DEF Phase, Outcome, Unresolved
<1>5. CASE c \notin cs \/ Phase(c) # "open"
  <2>1. SameToContract(c)
    <3>1. CASE InFlight(c)
      <4>1. slot'[c] = slot[c]
        BY <1>1, <1>3, <1>5, <3>1
      <4>2. QED
        BY <1>2, <3>1, <4>1 DEF SameToContract, Phase, Outcome
    <3>2. CASE ~InFlight(c)
      BY <1>2, <3>2 DEF SameToContract, Phase, Outcome
    <3>3. QED
      BY <3>1, <3>2
  <2>2. QED
    BY <1>2, <1>5, <2>1
<1>6. QED
  BY <1>4, <1>5

LEMMA ResolveSlotContract ==
  ASSUME TypeInv, OutcomeInv, ResolveSlot
  PROVE  ContractStep
<1>1. PICK c \in Callers, r \in AnswerResults : SetReady({c}, r)
  BY DEF ResolveSlot, TypeInv, DispatcherInv, OutcomeInv, AnswerOnItsWay
<1>2. UNCHANGED <<SessionDead, HookedIds>>
  BY DEF ResolveSlot, SessionDead, HookedIds, dispatcherFrame
<1>3. \A d \in Callers \ {c} : SameToContract(d)
  BY <1>1, SetReadyContract
<1>4. CASE Phase(c) = "open"
  <2>1. /\ Phase(c)' = "settled" /\ Outcome(c)' = r
        /\ callers'[c].id = callers[c].id
    BY <1>1, <1>4, SetReadyContract
  <2>2. /\ AbstractCall[c].st = "open"
        /\ Contract!Becomes(c, "settled", AbstractCall[c].id, r)
    BY <1>1, <1>3, <1>4, <2>1, OneMoves, Seen
  <2>3. Contract!Answer(c)
    BY <1>1, <1>2, <2>2 DEF Contract!Answer, AnswerResults
  <2>4. QED
    BY <1>1, <2>3 DEF ContractStep, Contract!Next
<1>5. CASE Phase(c) # "open"
  <2>1. SameToContract(c)
    BY <1>1, <1>5, SetReadyContract
  <2>2. \A d \in Callers : SameToContract(d)
    BY <1>3, <2>1
  <2>3. SessionDead' <=> SessionDead
    BY <1>2
  <2>4. QED
    BY <1>2, <2>2, <2>3, Stutters
<1>6. QED
  BY <1>4, <1>5

\* Whoever ends the session settles every open call but the one on_response
\* is about to settle; whoever ends it a second time finds none to settle.
LEMMA ApplyErrorContract ==
  ASSUME TypeInv, CallInv, OutcomeInv, StatesTypeOK', ApplyError,
         SessionDead => SessionDead',
         UNCHANGED <<outgoing_cancellations, called>>
  PROVE  ContractStep
<1> DEFINE e == OutgoingRequestError(is_shutdown', write_state', read_state')
           filed == {c \in Callers :
                       \E id \in OutgoingIds : outgoing_requests[id] = c}
<1>1. UNCHANGED HookedIds
  BY DEF HookedIds
<1>2. SessionDead' <=> e # NoResult
  BY DEF SessionDead
<1>3. \A c \in Callers : Phase(c) = "open" /\ c \notin filed => Resolving(c)
  BY InFlightId DEF CallInv, PendingIsReachable, PendingAreFiled, Phase,
     InFlight, TypeInv, CallersInv, CallersTypeOK
<1>4. CASE e = NoResult
  <2>1. UNCHANGED callVars /\ (SessionDead' <=> SessionDead)
    BY <1>2, <1>4 DEF ApplyError, callVars
  <2>2. \A c \in Callers : SameToContract(c)
    BY <2>1 DEF SameToContract, Phase, Outcome, InFlight, callVars
  <2>3. QED
    BY <1>1, <2>1, <2>2, Stutters
<1>5. CASE e # NoResult /\ SessionDead
  <2>1. SetReady(filed, e)
    BY <1>5 DEF ApplyError
  <2>2. \A c \in Callers : Phase(c) = "open" => c \notin filed
    <3>1. \A c \in Callers : Phase(c) = "open" => Resolving(c)
      BY <1>5 DEF CallInv, NoStrandedCaller, Phase, InFlight, TypeInv,
         CallersInv, CallersTypeOK
    <3>2. QED
      BY <3>1 DEF OutcomeInv, AnswerOnItsWay, Resolving
  <2>3. \A c \in Callers : SameToContract(c)
    BY <2>1, <2>2, SetReadyContract
  <2>4. QED
    BY <1>1, <1>2, <1>5, <2>3, Stutters
<1>6. CASE e # NoResult /\ ~SessionDead
  <2> DEFINE cs == {c \in Callers : Phase(c) = "open" /\ c \notin filed}
  <2>1. SetReady(filed, e) /\ e \in Endings
    BY <1>6, RefusalEnds DEF ApplyError, StatesTypeOK
  <2>2. \A c, d \in cs : c = d
    BY <1>3 DEF Resolving
  <2>3. AbstractCall' = [c \in Callers |->
                           IF AbstractCall[c].st = "open" /\ c \notin cs
                           THEN [st |-> "settled", id |-> AbstractCall[c].id,
                                 result |-> e]
                           ELSE AbstractCall[c]]
    <3>1. ASSUME NEW c \in Callers
          PROVE  [st |-> Phase(c)', id |-> callers'[c].id, result |-> Outcome(c)']
                   = IF AbstractCall[c].st = "open" /\ c \notin cs
                     THEN [st |-> "settled", id |-> AbstractCall[c].id,
                           result |-> e]
                     ELSE AbstractCall[c]
      <4>1. CASE AbstractCall[c].st = "open" /\ c \notin cs
        <5>1. Phase(c) = "open" /\ c \in filed
          BY <4>1, Seen
        <5>2. /\ Phase(c)' = "settled" /\ Outcome(c)' = e
              /\ callers'[c].id = AbstractCall[c].id
          BY <2>1, <5>1, SetReadyContract, Seen
        <5>3. QED
          BY <4>1, <5>2
      <4>2. CASE ~(AbstractCall[c].st = "open" /\ c \notin cs)
        <5>1. Phase(c) # "open" \/ c \notin filed
          BY <4>2, Seen
        <5>2. SameToContract(c)
          BY <2>1, <5>1, SetReadyContract
        <5>3. QED
          BY <4>2, <5>2 DEF SameToContract, AbstractCall
      <4>3. QED
        BY <4>1, <4>2
    <3>2. QED
      BY <3>1 DEF AbstractCall
  <2>4. SessionDead = FALSE /\ SessionDead' = TRUE
    BY <1>2, <1>6 DEF SessionDead
  <2>5. Contract!End(cs)
    BY <1>1, <2>1, <2>2, <2>3, <2>4 DEF Contract!End, Endings
  <2>6. cs \in SUBSET Callers
    OBVIOUS
  <2>7. QED
    BY <2>5, <2>6 DEF ContractStep, Contract!Next
<1>7. QED
  BY <1>4, <1>5, <1>6

\* What makes a session refuse calls
SessionStates(shutdown, write, read) ==
  shutdown \/ write \in ErrorCauses \/ read # "Running"

LEMMA DeadStates ==
  ASSUME NEW shutdown \in BOOLEAN, NEW write \in TaskStates, NEW read \in TaskStates
  PROVE  OutgoingRequestError(shutdown, write, read) # NoResult
           <=> SessionStates(shutdown, write, read)
BY DEF SessionStates, OutgoingRequestError, TaskStates, NoResult, ShutdownError,
   ToSessionError, Result, ErrorCauses, ReadCauses

\* A task that has ended does not run again, and its error stays one.
LEMMA FinishEnds ==
  ASSUME NEW state \in TaskStates,
         NEW r \in {Ok} \union {ToSessionError(x) : x \in ErrorCauses}
  PROVE  /\ Finish(state, r) # "Running"
         /\ state \in ErrorCauses => Finish(state, r) \in ErrorCauses
BY DEF Finish, TaskStates, Ok, ToSessionError, Result, ErrorCauses, ReadCauses

\* The end of a task, or of the session
LEMMA EndingStepContract ==
  ASSUME TypeInv, CallInv, OutcomeInv, TypeInv',
         FinishRead \/ FinishWrite \/ FinishCancel \/ ShutdownSession
  PROVE  ContractStep
<1>1. StatesTypeOK /\ StatesTypeOK'
  BY DEF TypeInv
<1>2. ApplyError /\ UNCHANGED <<outgoing_cancellations, called>>
  BY DEF FinishRead, FinishWrite, FinishCancel, ShutdownSession, finishFrame
<1>3. SessionStates(is_shutdown, write_state, read_state)
        => SessionStates(is_shutdown', write_state', read_state')
  <2>1. CASE FinishRead
    <3>1. dispatcher.result \in {Ok} \union {ToSessionError(x) : x \in ErrorCauses}
      BY <2>1 DEF FinishRead, TypeInv, DispatcherInv, ErrorCauses
    <3>2. read_state' # "Running"
      BY <1>1, <2>1, <3>1, FinishEnds DEF FinishRead, StatesTypeOK
    <3>3. QED
      BY <3>2 DEF SessionStates
  <2>2. CASE FinishWrite
    <3>1. PICK r \in {Ok} \union {ToSessionError(x) : x \in ErrorCauses} :
            write_state' = Finish(write_state, r)
      BY <2>2 DEF FinishWrite, ErrorCauses
    <3>2. write_state \in ErrorCauses => write_state' \in ErrorCauses
      BY <1>1, <3>1, FinishEnds DEF StatesTypeOK
    <3>3. QED
      BY <2>2, <3>2 DEF FinishWrite, SessionStates
  <2>3. CASE FinishCancel
    BY <2>3 DEF FinishCancel, SessionStates
  <2>4. CASE ShutdownSession
    BY <2>4 DEF ShutdownSession, SessionStates
  <2>5. QED
    BY <2>1, <2>2, <2>3, <2>4
<1>4. SessionDead => SessionDead'
  BY <1>1, <1>3, DeadStates DEF SessionDead, StatesTypeOK
<1>5. QED
  BY <1>1, <1>2, <1>4, ApplyErrorContract
-----------------------------------------------------------------------------
(* The hook                                                                *)

LEMMA CallHookContract ==
  ASSUME TypeInv, OutcomeInv, CallHook PROVE ContractStep
<1> DEFINE oc == outgoing_cancellations
           id == oc[called + 1]
<1>1. /\ oc \in Seq(OutgoingIds) /\ called \in Nat /\ called < Len(oc)
      /\ called' = called + 1 /\ oc' = oc /\ Len(oc) \in Nat
  BY LenProperties DEF CallHook, TypeInv, CancellerInv, CancellationsTypeOK
<1>2. /\ Len(HookedIds) = called /\ DOMAIN HookedIds = 1..called
      /\ \A i \in 1..called : HookedIds[i] = oc[i]
  BY <1>1 DEF HookedIds
<1>3. HookedIds' = Append(HookedIds, id)
  BY <1>1 DEF HookedIds
<1>4. PICK c \in Callers : Abandoned(c) /\ callers[c].id = id
  <2>1. called + 1 \in DOMAIN oc
    BY <1>1, LenProperties
  <2>2. id \in {oc[i] : i \in DOMAIN oc}
    BY <2>1
  <2>3. QED
    BY <2>2 DEF OutcomeInv, CancelledExactlyOnce
<1>5. \A i \in DOMAIN HookedIds : HookedIds[i] # AbstractCall[c].id
  BY <1>1, <1>2, <1>4, Seen, LenProperties DEF OutcomeInv, CancelledExactlyOnce
<1>6. Contract!Forsaken(c)
  <2>1. Phase(c) = callers[c].pc /\ Outcome(c) = callers[c].result
    BY <1>4 DEF Phase, Outcome, InFlight, Abandoned
  <2>2. QED
    BY <1>4, <2>1, Seen DEF Contract!Forsaken, Abandoned
<1>7. UNCHANGED <<AbstractCall, SessionDead>>
  BY DEF CallHook, cancellerFrame, AbstractCall, Phase, Outcome, InFlight,
     SessionDead
<1>8. Contract!Hook(c)
  BY <1>3, <1>4, <1>5, <1>6, <1>7, Seen DEF Contract!Hook
<1>9. QED
  BY <1>8 DEF ContractStep, Contract!Next
-----------------------------------------------------------------------------
(* The refinement                                                          *)

LEMMA ReaderStepContract ==
  ASSUME TypeInv, CallInv, OutcomeInv, TypeInv', ReaderStep PROVE ContractStep
<1> USE DEF callVars, endVars, outgoingVars
<1>1. CASE ReadLine \/ ReadEnds \/ ReadFails \/ DispatchFails \/ OnNotification
  BY <1>1, StepContractFrame DEF ReadLine, ReadEnds, ReadFails, DispatchFails,
     OnNotification, readFrame
<1>2. CASE FinishRead
  BY <1>2, EndingStepContract
<1>3. CASE OnResponse
  BY <1>3, StepContractFrame DEF OnResponse, dispatcherFrame
<1>4. CASE ResolveSlot
  BY <1>4, ResolveSlotContract
<1>5. CASE /\ OnRequest \/ HandlerReplies \/ HandlerSpawns \/ HandlerDisowns \/ HandlerPanics
                \/ InitFinish
           /\ UNCHANGED outgoingVars
  BY <1>5, StepContractFrame DEF OnRequest, HandlerReplies, HandlerSpawns,
     HandlerDisowns, Disown, HandlerPanics, InitFinish, requestFrame
<1>6. QED
  BY <1>1, <1>2, <1>3, <1>4, <1>5 DEF ReaderStep

LEMMA StepToContract ==
  ASSUME TypeInv, CallInv, OutcomeInv, TypeInv', [Next]_vars PROVE ContractStep
<1> USE DEF callVars, endVars, outgoingVars
<1>1. CASE UNCHANGED vars
  BY <1>1, StepContractFrame DEF vars, taskVars
<1>2. ASSUME NEW w \in Waiters, WaiterStep(w) PROVE ContractStep
  BY <1>2, StepContractFrame DEF WaiterStep, WaitStart, WaitServer, WaitPop,
     WaitJoin, WaitReturn, WaitDropped, waitFrame
<1>3. ASSUME NEW n \in HandlerIds, TaskStep(n) PROVE ContractStep
  BY <1>3, StepContractFrame DEF TaskStep, TaskReturns, TaskPanics, TaskFinish,
     TaskOutlivesSession, taskFrame, requestFrame
<1>4. CASE WriterStep
  <2>1. CASE FinishWrite
    BY <2>1, EndingStepContract
  <2>2. CASE ~FinishWrite
    BY <1>4, <2>2, StepContractFrame DEF WriterStep, FetchMessages, WriteMessage,
       Flush, WriteFails, writerFrame
  <2>3. QED
    BY <2>1, <2>2
<1>5. CASE CancellerStep
  <2>1. CASE FinishCancel
    BY <2>1, EndingStepContract
  <2>2. CASE FetchCancellations
    BY <2>2, StepContractFrame DEF FetchCancellations, cancellerFrame
  <2>3. CASE CallHook
    BY <2>3, CallHookContract
  <2>4. QED
    BY <1>5, <2>1, <2>2, <2>3 DEF CancellerStep
<1>6. CASE RuntimeStep
  BY <1>6, StepContractFrame DEF RuntimeStep, Reap
<1>7. CASE ApplicationStep
  <2>1. CASE ShutdownSession
    BY <2>1, EndingStepContract
  <2>2. CASE ~ShutdownSession
    BY <1>7, <2>2, StepContractFrame DEF ApplicationStep, Shutdown, DropSession,
       Notify, CancelIncoming, requestFrame
  <2>3. QED
    BY <2>1, <2>2
<1>8. QED
  BY <1>1, <1>2, <1>3, <1>4, <1>5, <1>6, <1>7, CallerStepContract,
     ReaderStepContract DEF Next, Terminated

LEMMA InitToContract == Init => Contract!Init
<1> SUFFICES ASSUME Init PROVE Contract!Init
  OBVIOUS
<1> USE DEF Init, TasksInit, OutgoingInit
<1>1. \A c \in Callers : /\ Phase(c) = "idle" /\ callers[c].id = IdMax
                         /\ Outcome(c) = NoResult
  BY DEF Phase, Outcome, InFlight
<1>2. AbstractCall = [c \in Callers |-> [st |-> "idle", id |-> IdMax,
                                         result |-> NoResult]]
  BY <1>1 DEF AbstractCall
<1>3. SessionDead = FALSE
  BY DEF SessionDead, OutgoingRequestError, ErrorCauses, ReadCauses
<1>4. HookedIds = <<>>
  BY DEF HookedIds
<1>5. QED
  BY <1>2, <1>3, <1>4 DEF Contract!Init

\* Whatever the tasks, the peer and the application do, in any order, those
\* who call Session::request see a session that keeps RequestContract: no id
\* twice, one result for each call, every open call settled when the session
\* ends, later ones refused, and the hook told of each abandoned call once.
THEOREM SessionKeepsContract == Spec => KeepsContract
<1>1. TypeInv /\ CallInv /\ OutcomeInv /\ TypeInv' /\ [Next]_vars
        => [Contract!Next]_<<AbstractCall, SessionDead, HookedIds>>
  BY StepToContract DEF ContractStep
<1>2. Contract!Spec <=>
        Contract!Init /\ [][Contract!Next]_<<AbstractCall, SessionDead, HookedIds>>
  BY DEF Contract!Spec, Contract!contractVars
<1>3. QED
  BY <1>1, <1>2, InitToContract, OutcomesCorrect, PTL DEF Spec, KeepsContract
=============================================================================
