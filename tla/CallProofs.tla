----------------------------- MODULE CallProofs -----------------------------
(***************************************************************************)
(* Proofs that no call of Session::request is left behind, for any number  *)
(* of calls and ids: CallInv is inductive once every variable has its type *)
(* (TypeInv, from SessionProofs).                                          *)
(***************************************************************************)
EXTENDS SessionProofs

\* What SessionDead looks at
endVars == <<read_state, write_state, is_shutdown>>

\* The read task is not between taking an entry and setting its slot, or it
\* stays there.
KeepsResolving == dispatcher.pc # "resolve" \/ UNCHANGED dispatcher
-----------------------------------------------------------------------------
(* Steps that leave the calls and the table alone                          *)

LEMMA CallFrame ==
  ASSUME CallInv, UNCHANGED <<tableVars, callVars, endVars>>, KeepsResolving
  PROVE  CallInv'
<1> USE DEF tableVars, callVars, endVars
<1>1. \A c \in Callers : InFlight(c)' = InFlight(c)
  BY DEF InFlight
<1>2. \A c \in Callers : Resolving(c) => Resolving(c)'
  BY DEF Resolving, KeepsResolving
<1>3. SessionDead' = SessionDead
  BY DEF SessionDead
<1>4. PendingIsReachable'
  <2>1. EntriesAreCalls'
    BY DEF CallInv, PendingIsReachable, EntriesAreCalls, InFlight
  <2>2. PendingAreFiled'
    BY <1>1, <1>2 DEF CallInv, PendingIsReachable, PendingAreFiled
  <2>3. QED
    BY <2>1, <2>2 DEF PendingIsReachable
<1>5. OneCallPerId' /\ IdsGrow' /\ NoLostWakeup'
  BY DEF CallInv, OneCallPerId, IdsGrow, NoLostWakeup
<1>6. NoStrandedCaller'
  BY <1>1, <1>2, <1>3 DEF CallInv, NoStrandedCaller
<1>7. QED
  BY <1>4, <1>5, <1>6 DEF CallInv

\* set_ready changes of a call only that it sleeps, and never leaves a slot
\* that it is given unresolved.
LEMMA SetReadyEffect ==
  ASSUME TypeInv, NEW cs, NEW r, SetReady(cs, r)
  PROVE  \A c \in Callers :
           /\ InFlight(c)' = InFlight(c) /\ callers'[c].id = callers[c].id
           /\ slot'[c].st \in Unresolved => slot[c].st \in Unresolved /\ c \notin cs
           /\ slot[c] = slot'[c] \/ c \in cs
           /\ callers'[c].pc = "parked" =>
                callers[c].pc = "parked" /\ (c \in cs => slot[c].st # "Waker")
<1> SUFFICES ASSUME NEW c \in Callers
             PROVE  /\ InFlight(c)' = InFlight(c)
                    /\ callers'[c].id = callers[c].id
                    /\ slot'[c].st \in Unresolved
                         => slot[c].st \in Unresolved /\ c \notin cs
                    /\ slot[c] = slot'[c] \/ c \in cs
                    /\ callers'[c].pc = "parked" =>
                         /\ callers[c].pc = "parked"
                         /\ c \in cs => slot[c].st # "Waker"
  OBVIOUS
<1>1. \/ callers'[c] = callers[c]
      \/ /\ callers'[c] = [callers[c] EXCEPT !.pc = "woken"]
         /\ callers[c].pc = "parked"
  BY DEF SetReady
<1>2. InFlight(c)' = InFlight(c) /\ callers'[c].id = callers[c].id
  BY <1>1 DEF TypeInv, CallersInv, CallersTypeOK, InFlight
<1>3. /\ slot'[c].st \in Unresolved => slot[c].st \in Unresolved /\ c \notin cs
      /\ slot[c] = slot'[c] \/ c \in cs
  BY DEF SetReady, Unresolved
<1>4. callers'[c].pc = "parked" =>
        callers[c].pc = "parked" /\ (c \in cs => slot[c].st # "Waker")
  BY DEF SetReady, TypeInv, CallersInv, CallersTypeOK
<1>5. QED
  BY <1>2, <1>3, <1>4

\* A step that only sets slots ready: those of cs, which are all that wait
\* when the step leaves the session dead.
LEMMA SetReadyCalls ==
  ASSUME TypeInv, CallInv, NEW cs, NEW r, SetReady(cs, r), UNCHANGED tableVars,
         \A c \in Callers : Resolving(c) => Resolving(c)' \/ c \in cs,
         SessionDead' =>
           \A c \in Callers : InFlight(c) /\ slot[c].st \in Unresolved
                               => Resolving(c)' \/ c \in cs
  PROVE  CallInv'
<1> USE DEF tableVars
<1>1. EntriesAreCalls'
  <2>1. ASSUME NEW id \in OutgoingIds, outgoing_requests[id] # NoCaller
        PROVE  /\ InFlight(outgoing_requests[id])'
               /\ callers'[outgoing_requests[id]].id = id
    <3>1. outgoing_requests[id] \in Callers
      BY <2>1 DEF TypeInv, TableTypeOK
    <3>2. InFlight(outgoing_requests[id]) /\ callers[outgoing_requests[id]].id = id
      BY <2>1 DEF CallInv, PendingIsReachable, EntriesAreCalls
    <3>3. QED
      BY <3>1, <3>2, SetReadyEffect DEF InFlight
  <2>2. QED
    BY <2>1 DEF EntriesAreCalls, InFlight
<1>2. PendingAreFiled'
  BY SetReadyEffect DEF CallInv, PendingIsReachable, PendingAreFiled
<1>3. OneCallPerId' /\ IdsGrow'
  BY SetReadyEffect DEF CallInv, OneCallPerId, IdsGrow
<1>4. NoLostWakeup'
  BY SetReadyEffect DEF CallInv, NoLostWakeup
<1>5. NoStrandedCaller'
  BY SetReadyEffect DEF NoStrandedCaller
<1>6. QED
  BY <1>1, <1>2, <1>3, <1>4, <1>5 DEF CallInv, PendingIsReachable

\* apply_error after the closure that changed the states of the session
LEMMA ApplyErrorCalls ==
  ASSUME TypeInv, CallInv, ApplyError, UNCHANGED tableVars, KeepsResolving
  PROVE  CallInv'
<1> DEFINE e == OutgoingRequestError(is_shutdown', write_state', read_state')
           filed == {c \in Callers :
                       \E id \in OutgoingIds : outgoing_requests[id] = c}
<1>1. \A c \in Callers : Resolving(c) => Resolving(c)'
  BY DEF Resolving, KeepsResolving
<1>2. SessionDead' <=> e # NoResult
  BY DEF SessionDead
<1>3. CASE e = NoResult
  <2>1. UNCHANGED callVars
    BY <1>3 DEF ApplyError, callVars
  <2>2. PendingIsReachable' /\ OneCallPerId' /\ IdsGrow' /\ NoLostWakeup'
    BY <1>1, <2>1 DEF CallInv, PendingIsReachable, EntriesAreCalls,
       PendingAreFiled, OneCallPerId, IdsGrow, NoLostWakeup, InFlight,
       tableVars, callVars
  <2>3. QED
    BY <1>2, <1>3, <2>2 DEF CallInv, NoStrandedCaller
<1>4. CASE e # NoResult
  <2>1. SetReady(filed, e)
    BY <1>4 DEF ApplyError
  <2>2. \A c \in Callers : InFlight(c) => callers[c].id \in OutgoingIds
    BY BoundsAssumption DEF TypeInv, CallersInv, CallersTypeOK, OutgoingIds
  <2>3. \A c \in Callers : InFlight(c) /\ slot[c].st \in Unresolved
                            => Resolving(c)' \/ c \in filed
    BY <1>1, <2>2 DEF CallInv, PendingIsReachable, PendingAreFiled
  <2>4. QED
    BY <1>1, <2>1, <2>3, SetReadyCalls
<1>5. QED
  BY <1>3, <1>4
-----------------------------------------------------------------------------
(* The steps of a call                                                     *)

\* A call in flight has an id of the table.
LEMMA InFlightId ==
  ASSUME TypeInv, NEW c \in Callers, InFlight(c)
  PROVE  callers[c].id \in OutgoingIds
BY BoundsAssumption DEF TypeInv, CallersInv, CallersTypeOK, OutgoingIds

LEMMA DropGuardCalls ==
  ASSUME TypeInv, CallInv, NEW c \in Callers, InFlight(c),
         NEW pc \in {"returned", "withdrawn"}, NEW r, NEW received,
         DropGuard(c, pc, r, received),
         UNCHANGED <<slot, outgoing_request_id_next, dispatcher, endVars>>
  PROVE  CallInv'
<1>1. /\ ~InFlight(c)' /\ callers'[c].pc = pc /\ callers'[c].id = callers[c].id
      /\ \A d \in Callers \ {c} : callers'[d] = callers[d]
  BY DEF TypeInv, CallersInv, CallersTypeOK, DropGuard, InFlight
<1>2. \A d \in Callers : /\ InFlight(d)' => InFlight(d) /\ d # c
                         /\ callers'[d].id = callers[d].id
                         /\ Resolving(d)' = Resolving(d)
  BY <1>1 DEF InFlight, Resolving
<1>3. callers[c].id \in OutgoingIds
  BY InFlightId
<1>4. EntriesAreCalls'
  <2>1. ASSUME NEW id \in OutgoingIds, NEW d, d # NoCaller,
               outgoing_requests'[id] = d
        PROVE  InFlight(d)' /\ callers'[d].id = id
    <3>1. id # callers[c].id /\ outgoing_requests[id] = d
      BY <1>3, <2>1 DEF TypeInv, TableTypeOK, DropGuard
    <3>2. InFlight(d) /\ callers[d].id = id
      BY <2>1, <3>1 DEF CallInv, PendingIsReachable, EntriesAreCalls
    <3>3. d \in Callers \ {c}
      BY <2>1, <3>1, <3>2 DEF TypeInv, TableTypeOK
    <3>4. QED
      BY <1>1, <3>2, <3>3 DEF InFlight
  <2>2. QED
    BY <2>1 DEF EntriesAreCalls, InFlight
<1>5. PendingAreFiled'
  <2>1. ASSUME NEW d \in Callers, InFlight(d)', slot'[d].st \in Unresolved
        PROVE  Resolving(d)' \/ outgoing_requests'[callers'[d].id] = d
    <3>1. InFlight(d) /\ d # c
      BY <1>2, <2>1
    <3>2. Resolving(d) \/ outgoing_requests[callers[d].id] = d
      BY <2>1, <3>1 DEF CallInv, PendingIsReachable, PendingAreFiled
    <3>3. callers[d].id \in OutgoingIds
      BY <3>1, InFlightId
    <3>4. callers[d].id # callers[c].id
      BY <1>3, <3>1, BoundsAssumption DEF CallInv, OneCallPerId, OutgoingIds
    <3>5. outgoing_requests'[callers[d].id] = outgoing_requests[callers[d].id]
      BY <3>3, <3>4 DEF TypeInv, TableTypeOK, DropGuard
    <3>6. QED
      BY <1>2, <3>2, <3>5
  <2>2. QED
    BY <2>1 DEF PendingAreFiled
<1>6. OneCallPerId' /\ IdsGrow'
  BY <1>2 DEF CallInv, OneCallPerId, IdsGrow
<1>7. NoLostWakeup'
  BY <1>1 DEF CallInv, NoLostWakeup
<1>8. NoStrandedCaller'
  BY <1>2 DEF CallInv, NoStrandedCaller, SessionDead, endVars
<1>9. QED
  BY <1>4, <1>5, <1>6, <1>7, <1>8 DEF CallInv, PendingIsReachable

LEMMA RegisteredCalls ==
  ASSUME TypeInv, CallInv, NEW c \in Callers, RequestRegistered(c)
  PROVE  CallInv'
<1> DEFINE k == outgoing_request_id_next
<1>1. /\ callers'[c].id = k /\ callers'[c].pc = "registered"
      /\ \A d \in Callers \ {c} : callers'[d] = callers[d]
  BY DEF TypeInv, CallersInv, CallersTypeOK, RequestRegistered, NextId
<1>2. /\ k \in OutgoingIds /\ k # IdMax /\ ~InFlight(c)
      /\ outgoing_requests' = [outgoing_requests EXCEPT ![k] = c]
      /\ outgoing_request_id_next' = k + 1
  BY BoundsAssumption DEF TypeInv, TableTypeOK, RequestRegistered, NextId,
     OutgoingIds, InFlight
<1>3. \A d \in Callers : callers[d].id \in 0..IdMax /\ callers[d].id # k
  BY <1>2, BoundsAssumption DEF CallInv, IdsGrow, TypeInv, CallersInv,
     CallersTypeOK, OutgoingIds
<1>4. outgoing_requests[k] = NoCaller
  BY <1>2, <1>3 DEF CallInv, PendingIsReachable, EntriesAreCalls, TypeInv,
     TableTypeOK
<1>5. \A d \in Callers \ {c} : InFlight(d)' = InFlight(d)
  BY <1>1 DEF InFlight
<1>6. \A d \in Callers : Resolving(d)' = Resolving(d)
  BY DEF RequestRegistered, Resolving, taskVars
<1>7. ~SessionDead /\ ~SessionDead'
  BY DEF RequestRegistered, SessionDead, taskVars
<1>8. EntriesAreCalls'
  <2>1. ASSUME NEW id \in OutgoingIds, NEW d, d # NoCaller,
               outgoing_requests'[id] = d
        PROVE  InFlight(d)' /\ callers'[d].id = id
    <3>1. CASE id = k
      BY <1>1, <1>2, <2>1, <3>1 DEF TypeInv, TableTypeOK, InFlight
    <3>2. CASE id # k
      <4>1. outgoing_requests[id] = d
        BY <1>2, <2>1, <3>2 DEF TypeInv, TableTypeOK
      <4>2. InFlight(d) /\ callers[d].id = id
        BY <2>1, <4>1 DEF CallInv, PendingIsReachable, EntriesAreCalls
      <4>3. d \in Callers \ {c}
        BY <1>2, <2>1, <4>1, <4>2 DEF TypeInv, TableTypeOK
      <4>4. QED
        BY <1>1, <4>2, <4>3 DEF InFlight
    <3>3. QED
      BY <3>1, <3>2
  <2>2. QED
    BY <2>1 DEF EntriesAreCalls, InFlight
<1>9. PendingAreFiled'
  <2>1. ASSUME NEW d \in Callers, InFlight(d)', slot'[d].st \in Unresolved
        PROVE  Resolving(d)' \/ outgoing_requests'[callers'[d].id] = d
    <3>1. CASE d = c
      BY <1>1, <1>2, <3>1 DEF TypeInv, TableTypeOK
    <3>2. CASE d # c
      <4>1. InFlight(d) /\ slot[d].st \in Unresolved
        BY <1>5, <2>1, <3>2 DEF RequestRegistered
      <4>2. Resolving(d) \/ outgoing_requests[callers[d].id] = d
        BY <4>1 DEF CallInv, PendingIsReachable, PendingAreFiled
      <4>3. callers[d].id \in OutgoingIds /\ callers[d].id # k
        BY <1>3, <4>1, InFlightId
      <4>4. outgoing_requests'[callers[d].id] = outgoing_requests[callers[d].id]
        BY <1>2, <4>3 DEF TypeInv, TableTypeOK
      <4>5. QED
        BY <1>1, <1>6, <3>2, <4>2, <4>4
    <3>3. QED
      BY <3>1, <3>2
  <2>2. QED
    BY <2>1 DEF PendingAreFiled
<1>10. OneCallPerId'
  BY <1>1, <1>2, <1>3 DEF CallInv, OneCallPerId
<1>11. IdsGrow'
  BY <1>1, <1>2, <1>3 DEF CallInv, IdsGrow, OutgoingIds
<1>12. NoLostWakeup'
  BY <1>1 DEF CallInv, NoLostWakeup, RequestRegistered
<1>13. NoStrandedCaller'
  BY <1>7 DEF NoStrandedCaller
<1>14. QED
  BY <1>8, <1>9, <1>10, <1>11, <1>12, <1>13 DEF CallInv, PendingIsReachable

\* A step of a call that only moves it on keeps what the others see of it.
LEMMA MovesOnCalls ==
  ASSUME TypeInv, CallInv, NEW c \in Callers,
         \A d \in Callers \ {c} : callers'[d] = callers[d] /\ slot'[d] = slot[d],
         InFlight(c)' = InFlight(c), callers'[c].id = callers[c].id,
         slot'[c].st \in Unresolved => slot[c].st \in Unresolved,
         callers'[c].pc = "parked" => slot'[c].st = "Waker",
         UNCHANGED <<tableVars, endVars, dispatcher>>
  PROVE  CallInv'
<1> USE DEF tableVars, endVars
<1>1. \A d \in Callers :
         /\ InFlight(d)' = InFlight(d) /\ callers'[d].id = callers[d].id
         /\ slot'[d].st \in Unresolved => slot[d].st \in Unresolved
         /\ Resolving(d)' = Resolving(d)
  BY DEF InFlight, Resolving
<1>2. EntriesAreCalls'
  <2>1. ASSUME NEW id \in OutgoingIds, NEW d, d # NoCaller,
               outgoing_requests'[id] = d
        PROVE  InFlight(d)' /\ callers'[d].id = id
    <3>1. d \in Callers
      BY <2>1 DEF TypeInv, TableTypeOK
    <3>2. InFlight(d) /\ callers[d].id = id
      BY <2>1 DEF CallInv, PendingIsReachable, EntriesAreCalls
    <3>3. QED
      BY <1>1, <3>1, <3>2
  <2>2. QED
    BY <2>1 DEF EntriesAreCalls, InFlight
<1>3. PendingAreFiled'
  BY <1>1 DEF CallInv, PendingIsReachable, PendingAreFiled
<1>4. OneCallPerId' /\ IdsGrow'
  BY <1>1 DEF CallInv, OneCallPerId, IdsGrow
<1>5. NoLostWakeup'
  BY DEF CallInv, NoLostWakeup
<1>6. SessionDead' = SessionDead
  BY DEF SessionDead
<1>7. NoStrandedCaller'
  BY <1>1, <1>6 DEF CallInv, NoStrandedCaller
<1>8. QED
  BY <1>2, <1>3, <1>4, <1>5, <1>7 DEF CallInv, PendingIsReachable

LEMMA CallerStepCalls ==
  ASSUME TypeInv, CallInv, NEW c \in Callers, CallerStep(c) PROVE CallInv'
<1>1. CASE RequestRefused(c)
  <2>1. PICK r : callers' = [callers EXCEPT ![c].pc = "returned", ![c].result = r]
    BY <1>1 DEF RequestRefused
  <2>2. /\ ~InFlight(c) /\ ~InFlight(c)' /\ callers'[c].id = callers[c].id
        /\ callers'[c].pc # "parked"
        /\ \A d \in Callers \ {c} : callers'[d] = callers[d]
    BY <1>1, <2>1 DEF TypeInv, CallersInv, CallersTypeOK, RequestRefused, InFlight
  <2>3. InFlight(c)' = InFlight(c)
    BY <2>2 DEF InFlight
  <2>4. UNCHANGED <<slot, tableVars, endVars, dispatcher>>
    BY <1>1 DEF RequestRefused, tableVars, endVars, taskVars
  <2>5. QED
    BY <2>2, <2>3, <2>4, MovesOnCalls
<1>2. CASE RequestSent(c)
  <2>1. /\ InFlight(c) /\ InFlight(c)' /\ callers'[c].id = callers[c].id
        /\ callers'[c].pc # "parked"
        /\ \A d \in Callers \ {c} : callers'[d] = callers[d]
    BY <1>2 DEF TypeInv, CallersInv, CallersTypeOK, RequestSent, InFlight
  <2>2. QED
    BY <1>2, <2>1, MovesOnCalls DEF RequestSent, tableVars, endVars
<1>3. CASE PollSlot(c)
  <2>1. /\ InFlight(c) /\ InFlight(c)' /\ callers'[c].id = callers[c].id
        /\ \A d \in Callers \ {c} : callers'[d] = callers[d] /\ slot'[d] = slot[d]
    BY <1>3 DEF TypeInv, CallersInv, CallersTypeOK, PollSlot, InFlight
  <2>2. /\ slot'[c].st \in Unresolved => slot[c].st \in Unresolved
        /\ callers'[c].pc = "parked" => slot'[c].st = "Waker"
    BY <1>3 DEF TypeInv, CallersInv, CallersTypeOK, PollSlot, Unresolved
  <2>3. QED
    BY <1>3, <2>1, <2>2, MovesOnCalls DEF PollSlot, tableVars, endVars, taskVars
<1>4. CASE SerializeFails(c)
  <2>1. /\ InFlight(c)
        /\ DropGuard(c, "returned", ToSessionError("Serialize"), FALSE)
    BY <1>4 DEF SerializeFails, InFlight
  <2>2. QED
    BY <1>4, <2>1, DropGuardCalls DEF SerializeFails, taskVars, endVars
<1>5. CASE RequestReturns(c)
  <2>1. InFlight(c) /\ DropGuard(c, "returned", slot[c].result, TRUE)
    BY <1>5 DEF RequestReturns, InFlight
  <2>2. QED
    BY <1>5, <2>1, DropGuardCalls DEF RequestReturns, taskVars, endVars
<1>6. CASE RequestDropped(c)
  <2>1. InFlight(c) /\ DropGuard(c, "withdrawn", NoResult, FALSE)
    BY <1>6 DEF RequestDropped, InFlight
  <2>2. QED
    BY <1>6, <2>1, DropGuardCalls DEF RequestDropped, taskVars, endVars
<1>7. QED
  BY <1>1, <1>2, <1>3, <1>4, <1>5, <1>6, RegisteredCalls DEF CallerStep
-----------------------------------------------------------------------------
(* The steps of the read task                                              *)

LEMMA OnResponseCalls ==
  ASSUME TypeInv, CallInv, OnResponse PROVE CallInv'
<1> DEFINE m == Head(dispatcher.batch)
           found == IF m.id \in OutgoingIds THEN outgoing_requests[m.id]
                    ELSE NoCaller
<1>1. dispatcher.pc # "resolve"
  BY DEF OnResponse
<1>2. CASE found = NoCaller
  BY <1>1, <1>2, CallFrame DEF OnResponse, KeepsResolving, dispatcherFrame,
     tableVars, callVars, endVars
<1>3. CASE found # NoCaller
  <2>1. /\ m.id \in OutgoingIds /\ found = outgoing_requests[m.id]
        /\ outgoing_requests' = [outgoing_requests EXCEPT ![m.id] = NoCaller]
    BY <1>3 DEF OnResponse
  <2>2. \A c \in Callers : c = found => Resolving(c)'
    <3>1. dispatcher'.pc = "resolve" /\ dispatcher'.caller = found
      BY <1>3 DEF OnResponse, TypeInv, DispatcherInv, DispatcherTypeOK
    <3>2. QED
      BY <3>1 DEF Resolving
  <2>3. \A id \in OutgoingIds :
          /\ outgoing_requests'[id] # NoCaller
               => outgoing_requests'[id] = outgoing_requests[id]
          /\ outgoing_requests'[id] = outgoing_requests[id]
               \/ outgoing_requests[id] = found
    BY <2>1 DEF TypeInv, TableTypeOK
  <2>4. \A c \in Callers : ~Resolving(c)
    BY <1>1 DEF Resolving
  <2>5. UNCHANGED <<callVars, endVars, outgoing_request_id_next>>
    BY DEF OnResponse, dispatcherFrame, callVars, endVars
  <2>6. EntriesAreCalls'
    BY <2>3, <2>5 DEF CallInv, PendingIsReachable, EntriesAreCalls, InFlight,
       callVars
  <2>7. PendingAreFiled'
    <3>1. ASSUME NEW c \in Callers, InFlight(c), slot[c].st \in Unresolved
          PROVE  Resolving(c)' \/ outgoing_requests'[callers[c].id] = c
      <4>1. outgoing_requests[callers[c].id] = c
        BY <2>4, <3>1 DEF CallInv, PendingIsReachable, PendingAreFiled
      <4>2. QED
        BY <2>2, <2>3, <3>1, <4>1, InFlightId
    <3>2. QED
      BY <2>5, <3>1 DEF PendingAreFiled, InFlight, callVars
  <2>8. NoStrandedCaller'
    BY <2>4, <2>5 DEF CallInv, NoStrandedCaller, SessionDead, InFlight,
       callVars, endVars
  <2>9. QED
    BY <2>5, <2>6, <2>7, <2>8 DEF CallInv, PendingIsReachable, OneCallPerId,
       IdsGrow, NoLostWakeup, callVars
<1>4. QED
  BY <1>2, <1>3

LEMMA ResolveSlotCalls ==
  ASSUME TypeInv, CallInv, ResolveSlot PROVE CallInv'
<1> DEFINE cs == {dispatcher.caller}
<1>1. \A c \in Callers : Resolving(c) => c \in cs
  BY DEF Resolving
<1>2. SessionDead => \A c \in Callers :
        InFlight(c) /\ slot[c].st \in Unresolved => c \in cs
  BY <1>1 DEF CallInv, NoStrandedCaller
<1>3. SessionDead' = SessionDead
  BY DEF ResolveSlot, dispatcherFrame, SessionDead
<1>4. SetReady(cs, dispatcher.result) /\ UNCHANGED tableVars
  BY DEF ResolveSlot, tableVars
<1>5. QED
  BY <1>1, <1>2, <1>3, <1>4, SetReadyCalls

LEMMA ReaderStepCalls ==
  ASSUME TypeInv, CallInv, ReaderStep PROVE CallInv'
<1>1. CASE ReadLine \/ ReadEnds \/ ReadFails \/ DispatchFails \/ OnNotification
  BY <1>1, CallFrame DEF ReadLine, ReadEnds, ReadFails, DispatchFails,
     OnNotification, readFrame, KeepsResolving, tableVars, callVars, endVars,
     outgoingVars
<1>2. CASE FinishRead
  BY <1>2, ApplyErrorCalls DEF FinishRead, finishFrame, KeepsResolving, tableVars
<1>3. CASE /\ OnRequest \/ HandlerReplies \/ HandlerSpawns \/ HandlerDisowns \/ HandlerPanics
                \/ InitFinish
           /\ UNCHANGED outgoingVars
  BY <1>3, CallFrame DEF OnRequest, HandlerReplies, HandlerSpawns,
     HandlerDisowns, Disown, HandlerPanics, InitFinish, requestFrame,
     KeepsResolving, tableVars, callVars, endVars, outgoingVars
<1>4. QED
  BY <1>1, <1>2, <1>3, OnResponseCalls, ResolveSlotCalls DEF ReaderStep
-----------------------------------------------------------------------------
LEMMA CallInit == Init => CallInv
<1> SUFFICES ASSUME Init PROVE CallInv
  OBVIOUS
<1> USE DEF Init, TasksInit, OutgoingInit
<1>1. EntriesAreCalls
  BY DEF EntriesAreCalls
<1>2. \A c \in Callers : ~InFlight(c) /\ callers[c].id = IdMax
  BY DEF InFlight
<1>3. PendingAreFiled /\ OneCallPerId /\ IdsGrow /\ NoStrandedCaller
  BY <1>2 DEF PendingAreFiled, OneCallPerId, IdsGrow, NoStrandedCaller
<1>4. NoLostWakeup
  BY DEF NoLostWakeup
<1>5. QED
  BY <1>1, <1>3, <1>4 DEF CallInv, PendingIsReachable

LEMMA CallStep == TypeInv /\ CallInv /\ [Next]_vars => CallInv'
<1> SUFFICES ASSUME TypeInv, CallInv, [Next]_vars PROVE CallInv'
  OBVIOUS
<1> USE DEF KeepsResolving, tableVars, callVars, endVars, outgoingVars
<1>1. CASE UNCHANGED vars
  BY <1>1, CallFrame DEF vars, taskVars
<1>2. ASSUME NEW w \in Waiters, WaiterStep(w) PROVE CallInv'
  BY <1>2, CallFrame DEF WaiterStep, WaitStart, WaitServer, WaitPop, WaitJoin,
     WaitReturn, WaitDropped, waitFrame
<1>3. ASSUME NEW n \in HandlerIds, TaskStep(n) PROVE CallInv'
  BY <1>3, CallFrame DEF TaskStep, TaskReturns, TaskPanics, TaskFinish,
     TaskOutlivesSession, taskFrame, requestFrame
<1>4. CASE WriterStep
  <2>1. CASE FinishWrite
    BY <2>1, ApplyErrorCalls DEF FinishWrite, finishFrame
  <2>2. CASE ~FinishWrite
    BY <1>4, <2>2, CallFrame DEF WriterStep, FetchMessages, WriteMessage,
       Flush, WriteFails, writerFrame
  <2>3. QED
    BY <2>1, <2>2
<1>5. CASE CancellerStep
  <2>1. CASE FinishCancel
    BY <2>1, ApplyErrorCalls DEF FinishCancel, finishFrame
  <2>2. CASE ~FinishCancel
    BY <1>5, <2>2, CallFrame DEF CancellerStep, FetchCancellations, CallHook,
       cancellerFrame
  <2>3. QED
    BY <2>1, <2>2
<1>6. CASE RuntimeStep
  BY <1>6, CallFrame DEF RuntimeStep, Reap
<1>7. CASE ApplicationStep
  <2>1. CASE ShutdownSession
    BY <2>1, ApplyErrorCalls DEF ShutdownSession
  <2>2. CASE ~ShutdownSession
    BY <1>7, <2>2, CallFrame DEF ApplicationStep, Shutdown, DropSession, Notify,
       CancelIncoming, requestFrame
  <2>3. QED
    BY <2>1, <2>2
<1>8. QED
  BY <1>1, <1>2, <1>3, <1>4, <1>5, <1>6, <1>7, CallerStepCalls, ReaderStepCalls
     DEF Next, Terminated

LEMMA CallsCorrect == Spec => []CallInv
<1>1. Init => TypeInv /\ CallInv
  BY TypeInit, CallInit
<1>2. TypeInv /\ CallInv /\ [Next]_vars => TypeInv' /\ CallInv'
  BY TypeStep, CallStep
<1>3. QED
  BY <1>1, <1>2, PTL DEF Spec

\* No call waits for ever on a session that is over: when a task ends, or the
\* session is shut down, every pending call has its result at once, but one
\* whose response is being handed over. (apply_error, lib.rs:749)
THEOREM NoCallStranded == Spec => []NoStrandedCaller
<1>1. CallInv => NoStrandedCaller
  BY DEF CallInv
<1>2. QED
  BY <1>1, CallsCorrect, PTL

\* Every pending call can be found: through the table, under the id of its
\* guard, or as the one being resolved; and the table holds no dead entry.
THEOREM PendingCallsReachable == Spec => []PendingIsReachable
<1>1. CallInv => PendingIsReachable
  BY DEF CallInv
<1>2. QED
  BY <1>1, CallsCorrect, PTL

\* No two calls of a session share an id, up to the last id there is.
THEOREM CallsHaveOwnIds == Spec => []OneCallPerId
<1>1. CallInv => OneCallPerId
  BY DEF CallInv
<1>2. QED
  BY <1>1, CallsCorrect, PTL

\* A call that sleeps has its waker in its slot.
THEOREM NoWakeupLost == Spec => []NoLostWakeup
<1>1. CallInv => NoLostWakeup
  BY DEF CallInv
<1>2. QED
  BY <1>1, CallsCorrect, PTL
=============================================================================
