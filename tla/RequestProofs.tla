--------------------------- MODULE RequestProofs ----------------------------
(***************************************************************************)
(* Proofs about the requests of the peer, for any number of them and any   *)
(* ids: each is answered once or accounted for, which tasks may answer for *)
(* another request, and which cannot be aborted any more.                  *)
(***************************************************************************)
EXTENDS SessionProofs

LEMMA PushAnswers ==
  ASSUME WriterTypeOK, NEW m \in OutgoingMessages, Push(m), NEW n
  PROVE  Answered(n)' <=> Answered(n) \/ (IsResponse(m) /\ m.for = n)
<1>1. ASSUME Answered(n)' PROVE Answered(n) \/ (IsResponse(m) /\ m.for = n)
  BY <1>1, PushedAt DEF Answered
<1>2. ASSUME Answered(n) PROVE Answered(n)'
  BY <1>2, PushedAt DEF Answered
<1>3. ASSUME IsResponse(m) /\ m.for = n PROVE Answered(n)'
  BY <1>3, PushedAt DEF Answered
<1>4. QED
  BY <1>1, <1>2, <1>3

\* A message that is not a second response
LEMMA PushOnce ==
  ASSUME WriterTypeOK, AnsweredOnce, NEW m \in OutgoingMessages, Push(m),
         IsResponse(m) => ~Answered(m.for)
  PROVE  AnsweredOnce'
<1> DEFINE k == Len(outbox) + 1
<1>1. \A p \in DOMAIN outbox : ~(/\ IsResponse(outbox[p]) /\ IsResponse(m)
                                 /\ outbox[p].for = m.for)
  BY DEF Answered
<1>2. SUFFICES ASSUME NEW p \in DOMAIN outbox', NEW q \in DOMAIN outbox',
                      IsResponse(outbox'[p]), IsResponse(outbox'[q]),
                      outbox'[p].for = outbox'[q].for
               PROVE  p = q
  BY DEF AnsweredOnce
<1>3. CASE p \in DOMAIN outbox /\ q \in DOMAIN outbox
  BY <1>2, <1>3, PushedAt DEF AnsweredOnce
<1>4. CASE p = k \/ q = k
  BY <1>1, <1>2, <1>4, PushedAt
<1>5. QED
  BY <1>3, <1>4, PushedAt

LEMMA PushRead ==
  ASSUME WriterTypeOK, AnsweredWereRead, NEW m \in OutgoingMessages, Push(m),
         DOMAIN requests \subseteq DOMAIN requests',
         IsResponse(m) => m.for \in DOMAIN requests' /\ m.by \in DOMAIN requests'
  PROVE  AnsweredWereRead'
BY PushedAt DEF AnsweredWereRead
-----------------------------------------------------------------------------
(* AnswerInv is inductive                                                  *)

\* Steps that push no response and leave the requests alone
LEMMA AnswerFrame ==
  ASSUME TypeInv, AnswerInv, UNCHANGED incomingVars,
         \/ UNCHANGED outbox
         \/ \E m \in OutgoingMessages : Push(m) /\ ~IsResponse(m)
  PROVE  AnswerInv'
<1> USE DEF incomingVars
<1>1. EntriesAreRequests'
  BY DEF AnswerInv, EntriesAreRequests, Filed
<1>2. \A n : Pending(n)' <=> Pending(n)
  BY DEF Pending
<1>3. CASE UNCHANGED outbox
  <2>1. \A n : Answered(n)' <=> Answered(n)
    BY <1>3 DEF Answered
  <2>2. RequestsAccounted'
    BY <1>2, <2>1 DEF AnswerInv, RequestsAccounted
  <2>3. AnsweredOnce' /\ AnsweredWereRead'
    BY <1>3 DEF AnswerInv, AnsweredOnce, AnsweredWereRead
  <2>4. QED
    BY <1>1, <2>2, <2>3 DEF AnswerInv
<1>4. ASSUME NEW m \in OutgoingMessages, Push(m), ~IsResponse(m) PROVE AnswerInv'
  <2>1. \A n : Answered(n)' <=> Answered(n)
    BY <1>4, PushAnswers DEF TypeInv, WriterInv
  <2>2. RequestsAccounted'
    BY <1>2, <2>1 DEF AnswerInv, RequestsAccounted
  <2>3. AnsweredOnce' /\ AnsweredWereRead'
    BY <1>4, PushOnce, PushRead DEF AnswerInv, TypeInv, WriterInv
  <2>4. QED
    BY <1>1, <2>2, <2>3 DEF AnswerInv
<1>5. QED
  BY <1>3, <1>4

\* A request has at most one entry.
LEMMA OneEntry ==
  ASSUME TypeInv, EntriesAreRequests, NEW id \in RequestIds, Filed(id),
         NEW i \in RequestIds, incoming_requests[i].req = incoming_requests[id].req
  PROVE  i = id
<1>1. incoming_requests[id].req # 0
  BY BoundsAssumption DEF TypeInv, IncomingTypeOK, Filed, Entries, HandlerIds
<1>2. Filed(i)
  BY <1>1 DEF Filed, NoEntry
<1>3. QED
  BY <1>2 DEF EntriesAreRequests

LEMMA RemovePending ==
  ASSUME TypeInv, EntriesAreRequests, NEW id \in RequestIds, Filed(id),
         Remove(id), NEW n \in DOMAIN requests
  PROVE  Pending(n)' <=> Pending(n) /\ n # incoming_requests[id].req
<1>1. \A i \in RequestIds : incoming_requests'[i] =
        IF i = id THEN NoEntry ELSE incoming_requests[i]
  BY DEF Remove, TypeInv, IncomingTypeOK
<1>2. n # 0
  BY RequestsSeq DEF TypeInv
<1>3. ASSUME Pending(n)' PROVE Pending(n) /\ n # incoming_requests[id].req
  <2>1. PICK i \in RequestIds : /\ incoming_requests'[i].req = n
                               /\ ~incoming_requests'[i].sent
    BY <1>3 DEF Pending
  <2>2. i # id /\ incoming_requests[i].req = n /\ ~incoming_requests[i].sent
    BY <1>1, <1>2, <2>1 DEF NoEntry
  <2>3. QED
    BY <2>2, OneEntry DEF Pending
<1>4. ASSUME Pending(n), n # incoming_requests[id].req PROVE Pending(n)'
  BY <1>1, <1>4 DEF Pending
<1>5. QED
  BY <1>3, <1>4

LEMMA RemoveEntries ==
  ASSUME TypeInv, EntriesAreRequests, NEW id \in RequestIds, Remove(id),
         DOMAIN requests' = DOMAIN requests,
         \A n \in DOMAIN requests : requests'[n].id = requests[n].id
  PROVE  EntriesAreRequests'
<1>1. \A i \in RequestIds : incoming_requests'[i] \in {NoEntry, incoming_requests[i]}
  BY DEF Remove, TypeInv, IncomingTypeOK
<1>2. QED
  BY <1>1 DEF EntriesAreRequests, Filed

\* An entry answers, if its response was not sent, and goes.
LEMMA AnswerAndRemove ==
  ASSUME TypeInv, AnswerInv, NEW id \in RequestIds, Filed(id),
         NEW by \in DOMAIN requests, Answer(id, incoming_requests[id], by),
         Remove(id), UNCHANGED requests
  PROVE  AnswerInv'
<1> DEFINE e == incoming_requests[id]
           m == Response(id, e.req, by)
<1>1. e.req \in DOMAIN requests
  BY DEF AnswerInv, EntriesAreRequests
<1>2. EntriesAreRequests'
  BY RemoveEntries DEF AnswerInv
<1>3. \A n \in DOMAIN requests : Pending(n)' <=> Pending(n) /\ n # e.req
  BY RemovePending DEF AnswerInv
<1>4. Pending(e.req) <=> ~e.sent
  <2>1. ASSUME Pending(e.req) PROVE ~e.sent
    BY <2>1, OneEntry DEF Pending, AnswerInv
  <2>2. QED
    BY <2>1 DEF Pending
<1>5. CASE e.sent
  <2>1. UNCHANGED outbox
    BY <1>5 DEF Answer
  <2>2. \A n : Answered(n)' <=> Answered(n)
    BY <2>1 DEF Answered
  <2>3. \A n \in DOMAIN requests : Pending(n)' <=> Pending(n)
    BY <1>3, <1>4, <1>5
  <2>4. RequestsAccounted'
    BY <2>2, <2>3 DEF AnswerInv, RequestsAccounted
  <2>5. AnsweredOnce' /\ AnsweredWereRead'
    BY <2>1 DEF AnswerInv, AnsweredOnce, AnsweredWereRead
  <2>6. QED
    BY <1>2, <2>4, <2>5 DEF AnswerInv
<1>6. CASE ~e.sent
  <2>1. m \in OutgoingMessages /\ IsResponse(m) /\ m.for = e.req /\ m.by = by
    BY <1>1, RequestType DEF Response, OutgoingMessages, IsResponse, TypeInv
  <2>2. Push(m) /\ WriterTypeOK
    BY <1>6 DEF Answer, TypeInv, WriterInv
  <2>3. requests[e.req].fate = "open" /\ ~Answered(e.req)
    <3>1. Pending(e.req) /\ requests[e.req].fate \in Fates
      BY <1>1, <1>4, <1>6, RequestsSeq DEF TypeInv, RequestRecords
    <3>2. QED
      BY <1>1, <3>1 DEF AnswerInv, RequestsAccounted, Fates
  <2>4. \A n : Answered(n)' <=> Answered(n) \/ n = e.req
    BY <2>1, <2>2, PushAnswers
  <2>5. RequestsAccounted'
    BY <1>1, <1>3, <1>4, <1>6, <2>3, <2>4 DEF AnswerInv, RequestsAccounted
  <2>6. AnsweredOnce'
    BY <2>1, <2>2, <2>3, PushOnce DEF AnswerInv
  <2>7. AnsweredWereRead'
    BY <1>1, <2>1, <2>2, PushRead DEF AnswerInv
  <2>8. QED
    BY <1>2, <2>5, <2>6, <2>7 DEF AnswerInv
<1>7. QED
  BY <1>5, <1>6

\* requests after one more was read
LEMMA ReadRequest ==
  ASSUME TypeInv, NEW r \in RequestRecords, requests' = Append(requests, r)
  PROVE  /\ DOMAIN requests' = DOMAIN requests \union {Len(requests) + 1}
         /\ \A n \in DOMAIN requests : requests'[n] = requests[n]
         /\ requests'[Len(requests) + 1] = r
         /\ Len(requests) + 1 \notin DOMAIN requests
<1>1. requests \in Seq(RequestRecords)
  BY DEF TypeInv, IncomingTypeOK
<1>2. /\ Len(requests) \in Nat /\ DOMAIN requests = 1..Len(requests)
      /\ requests' \in Seq(RequestRecords) /\ Len(requests') = Len(requests) + 1
  BY <1>1, LenProperties, AppendProperties
<1>3. DOMAIN requests' = 1..(Len(requests) + 1)
  BY <1>2, LenProperties
<1>4. QED
  BY <1>1, <1>2, <1>3, AppendProperties

LEMMA OnRequestAnswers ==
  ASSUME TypeInv, AnswerInv, OnRequest PROVE AnswerInv'
<1> PICK k : k = Len(requests) + 1
  OBVIOUS
<1> DEFINE id == Head(dispatcher.batch).id
           m == Response(id, k, k)
<1>1. id \in RequestIds /\ k \in HandlerIds
  BY OnRequestArgs
<1>2. PICK r \in RequestRecords :
        /\ requests' = Append(requests, r) /\ r.id = id
        /\ \/ /\ Filed(id) /\ r.fate = "reused" /\ Push(m)
              /\ UNCHANGED incoming_requests
           \/ /\ ~Filed(id) /\ r.fate = "open" /\ UNCHANGED outbox
              /\ incoming_requests' = [incoming_requests EXCEPT ![id] = NewEntry(k)]
  <2>1. \A f \in {"reused", "open"} : NewRequest(id, f) \in RequestRecords
          /\ NewRequest(id, f).id = id /\ NewRequest(id, f).fate = f
    BY <1>1, NewRequestType DEF Fates
  <2>2. QED
    BY <1>1, <2>1 DEF OnRequest
<1>3. /\ DOMAIN requests' = DOMAIN requests \union {k} /\ requests'[k] = r
      /\ \A i \in DOMAIN requests : requests'[i] = requests[i]
      /\ k \notin DOMAIN requests
  BY <1>2, ReadRequest
<1>4. ~Answered(k)
  BY <1>3 DEF Answered, AnswerInv, AnsweredWereRead
<1>5. \A i \in RequestIds : Filed(i) => incoming_requests[i].req # k
  BY <1>3 DEF AnswerInv, EntriesAreRequests
<1>6. ~Pending(k)
  BY <1>1, <1>5, BoundsAssumption DEF Pending, Filed, NoEntry, HandlerIds
<1>7. CASE Filed(id)
  <2>1. r.fate = "reused" /\ Push(m) /\ UNCHANGED incoming_requests
    BY <1>2, <1>7
  <2>2. m \in OutgoingMessages /\ IsResponse(m) /\ m.for = k /\ m.by = k
    BY <1>1 DEF Response, OutgoingMessages, IsResponse
  <2>3. WriterTypeOK
    BY DEF TypeInv, WriterInv
  <2>4. AnsweredOnce'
    BY <1>4, <2>1, <2>2, <2>3, PushOnce DEF AnswerInv
  <2>5. AnsweredWereRead'
    BY <1>3, <2>1, <2>2, <2>3, PushRead DEF AnswerInv
  <2>6. EntriesAreRequests'
    BY <1>3, <2>1 DEF AnswerInv, EntriesAreRequests, Filed
  <2>7. \A i : Answered(i)' <=> Answered(i) \/ i = k
    BY <2>1, <2>2, <2>3, PushAnswers
  <2>8. \A i : Pending(i)' <=> Pending(i)
    BY <2>1 DEF Pending
  <2>9. RequestsAccounted'
    BY <1>3, <1>6, <2>1, <2>7, <2>8 DEF AnswerInv, RequestsAccounted
  <2>10. QED
    BY <2>4, <2>5, <2>6, <2>9 DEF AnswerInv
<1>8. CASE ~Filed(id)
  <2>1. /\ r.fate = "open" /\ UNCHANGED outbox
        /\ \A i \in RequestIds : incoming_requests'[i] =
             IF i = id THEN NewEntry(k) ELSE incoming_requests[i]
    BY <1>1, <1>2, <1>8 DEF TypeInv, IncomingTypeOK
  <2>2. AnsweredOnce' /\ AnsweredWereRead'
    BY <1>3, <2>1 DEF AnswerInv, AnsweredOnce, AnsweredWereRead
  <2>3. EntriesAreRequests'
    BY <1>2, <1>3, <2>1 DEF AnswerInv, EntriesAreRequests, Filed, NewEntry
  <2>4. \A i : Answered(i)' <=> Answered(i)
    BY <2>1 DEF Answered
  <2>5. Pending(k)'
    BY <1>1, <2>1 DEF Pending, NewEntry
  <2>6. \A i \in DOMAIN requests : Pending(i)' <=> Pending(i)
    <3>1. ASSUME NEW i \in DOMAIN requests, Pending(i)' PROVE Pending(i)
      BY <1>3, <2>1, <3>1 DEF Pending, NewEntry
    <3>2. ASSUME NEW i \in DOMAIN requests, Pending(i) PROVE Pending(i)'
      <4>1. i # 0
        BY RequestsSeq DEF TypeInv
      <4>2. QED
        BY <1>8, <2>1, <3>2, <4>1 DEF Pending, Filed, NoEntry
    <3>3. QED
      BY <3>1, <3>2
  <2>7. RequestsAccounted'
    BY <1>3, <1>4, <2>1, <2>4, <2>5, <2>6 DEF AnswerInv, RequestsAccounted
  <2>8. QED
    BY <2>2, <2>3, <2>7 DEF AnswerInv
<1>9. QED
  BY <1>7, <1>8

LEMMA InitFinishAnswers ==
  ASSUME TypeInv, AnswerInv, InitFinish PROVE AnswerInv'
<1> DEFINE n == dispatcher.req
           id == requests[n].id
           e == incoming_requests[id]
<1>1. n \in DOMAIN requests /\ id \in RequestIds /\ UNCHANGED requests
  BY RequestType DEF TypeInv, DispatcherInv, InitFinish
<1>2. CASE ~Filed(id)
  BY <1>1, <1>2, AnswerFrame DEF InitFinish, incomingVars
<1>3. CASE Filed(id) /\ dispatcher.pc = "replied"
  BY <1>1, <1>3, AnswerAndRemove DEF InitFinish
<1>4. CASE Filed(id) /\ dispatcher.pc = "spawned" /\ e.sent
  <2>1. Answer(id, e, n) /\ Remove(id)
    BY <1>4 DEF InitFinish, Answer
  <2>2. QED
    BY <1>1, <1>4, <2>1, AnswerAndRemove
<1>5. CASE Filed(id) /\ dispatcher.pc = "spawned" /\ ~e.sent
  <2>1. /\ UNCHANGED outbox
        /\ incoming_requests' = [incoming_requests EXCEPT
              ![id].init = TRUE, ![id].task = ~e.abort]
    BY <1>5 DEF InitFinish
  <2>2. e \in Entries
    BY <1>1, <1>5 DEF TypeInv, IncomingTypeOK, Filed
  <2>3. /\ incoming_requests'[id].req = e.req /\ incoming_requests'[id].sent = e.sent
        /\ incoming_requests'[id] # NoEntry
        /\ \A i \in RequestIds \ {id} : incoming_requests'[i] = incoming_requests[i]
    BY <1>1, <2>1, <2>2, BoundsAssumption DEF TypeInv, IncomingTypeOK, Entries,
       NoEntry, HandlerIds
  <2>4. \A i : Pending(i)' <=> Pending(i)
    BY <1>1, <2>3 DEF Pending
  <2>5. \A i : Answered(i)' <=> Answered(i)
    BY <2>1 DEF Answered
  <2>6. RequestsAccounted'
    BY <1>1, <2>4, <2>5 DEF AnswerInv, RequestsAccounted
  <2>7. AnsweredOnce' /\ AnsweredWereRead'
    BY <1>1, <2>1 DEF AnswerInv, AnsweredOnce, AnsweredWereRead
  <2>8. EntriesAreRequests'
    BY <1>1, <1>5, <2>3 DEF AnswerInv, EntriesAreRequests, Filed
  <2>9. QED
    BY <2>6, <2>7, <2>8 DEF AnswerInv
<1>6. QED
  BY <1>2, <1>3, <1>4, <1>5 DEF InitFinish

LEMMA TaskStepAnswers ==
  ASSUME TypeInv, AnswerInv, NEW n \in HandlerIds, TaskStep(n) PROVE AnswerInv'
<1>1. CASE TaskFinish(n)
  <2> DEFINE id == requests[n].id
  <2>1. n \in DOMAIN requests /\ id \in RequestIds /\ UNCHANGED requests
    BY <1>1, RequestType DEF TypeInv, HandlersInv, TaskFinish, taskFrame
  <2>2. CASE Filed(id)
    BY <1>1, <2>1, <2>2, AnswerAndRemove DEF TaskFinish
  <2>3. CASE ~Filed(id)
    BY <1>1, <2>1, <2>3, AnswerFrame DEF TaskFinish, incomingVars
  <2>4. QED
    BY <2>2, <2>3
<1>2. CASE TaskReturns(n) \/ TaskPanics(n) \/ TaskOutlivesSession(n)
  BY <1>2, AnswerFrame DEF TaskReturns, TaskPanics, TaskOutlivesSession,
     taskFrame, incomingVars
<1>3. QED
  BY <1>1, <1>2 DEF TaskStep

LEMMA CancelIncomingAnswers ==
  ASSUME TypeInv, AnswerInv, NEW id \in RequestIds, CancelIncoming(id)
  PROVE  AnswerInv'
<1> PICK n, sent : n = incoming_requests[id].req /\ sent = incoming_requests[id].sent
  OBVIOUS
<1> DEFINE m == Response(id, n, n)
<1>1. /\ Filed(id) /\ Remove(id) /\ n \in DOMAIN requests
      /\ UNCHANGED outbox \/ (~sent /\ Push(m))
  BY DEF CancelIncoming, AnswerInv, EntriesAreRequests
<1>2. /\ DOMAIN requests' = DOMAIN requests
      /\ requests'[n].fate = "cancelled" /\ requests'[n].id = requests[n].id
      /\ \A i \in DOMAIN requests \ {n} : requests'[i] = requests[i]
  <2>1. requests' = [requests EXCEPT ![n].fate = "cancelled"]
    BY DEF CancelIncoming
  <2>2. requests[n] \in RequestRecords
    BY <1>1, RequestsSeq DEF TypeInv
  <2>3. QED
    BY <1>1, <2>1, <2>2 DEF RequestRecords
<1>3. EntriesAreRequests'
  BY <1>1, <1>2, RemoveEntries DEF AnswerInv
<1>4. \A i \in DOMAIN requests : Pending(i)' <=> Pending(i) /\ i # n
  BY <1>1, RemovePending DEF AnswerInv
<1>5. CASE UNCHANGED outbox
  <2>1. \A i : Answered(i)' <=> Answered(i)
    BY <1>5 DEF Answered
  <2>2. RequestsAccounted'
    BY <1>2, <1>4, <2>1 DEF AnswerInv, RequestsAccounted
  <2>3. AnsweredOnce' /\ AnsweredWereRead'
    BY <1>2, <1>5 DEF AnswerInv, AnsweredOnce, AnsweredWereRead
  <2>4. QED
    BY <1>3, <2>2, <2>3 DEF AnswerInv
<1>6. CASE ~sent /\ Push(m)
  <2>1. m \in OutgoingMessages /\ IsResponse(m) /\ m.for = n /\ m.by = n
    BY <1>1, RequestType DEF Response, OutgoingMessages, IsResponse, TypeInv
  <2>2. ~Answered(n)
    <3>1. Pending(n) /\ requests[n].fate \in Fates
      BY <1>1, <1>6, RequestsSeq DEF Pending, TypeInv, RequestRecords
    <3>2. QED
      BY <1>1, <3>1 DEF AnswerInv, RequestsAccounted, Fates
  <2>3. \A i : Answered(i)' <=> Answered(i) \/ i = n
    BY <1>6, <2>1, PushAnswers DEF TypeInv, WriterInv
  <2>4. RequestsAccounted'
    BY <1>2, <1>4, <2>3 DEF AnswerInv, RequestsAccounted
  <2>5. AnsweredOnce' /\ AnsweredWereRead'
    BY <1>1, <1>2, <1>6, <2>1, <2>2, PushOnce, PushRead DEF AnswerInv, TypeInv,
       WriterInv
  <2>6. QED
    BY <1>3, <2>4, <2>5 DEF AnswerInv
<1>7. QED
  BY <1>1, <1>5, <1>6

LEMMA CancelAllAnswers ==
  ASSUME TypeInv, AnswerInv, CancelAll, UNCHANGED outbox PROVE AnswerInv'
<1>1. \A i \in RequestIds :
        /\ Filed(i)' <=> Filed(i)
        /\ Filed(i) => /\ incoming_requests'[i].req = incoming_requests[i].req
                       /\ incoming_requests'[i].sent
        /\ ~Filed(i) => incoming_requests'[i] = NoEntry
  BY BoundsAssumption DEF CancelAll, TypeInv, IncomingTypeOK, Filed, Entries,
     NoEntry, HandlerIds
<1>2. /\ DOMAIN requests' = DOMAIN requests
      /\ \A n \in DOMAIN requests :
           /\ requests'[n].id = requests[n].id
           /\ requests'[n].fate = IF Pending(n) THEN "shutdown" ELSE requests[n].fate
  <2>1. \A n \in DOMAIN requests : requests[n] \in RequestRecords
    BY RequestsSeq DEF TypeInv
  <2>2. QED
    BY <2>1 DEF CancelAll, Pending, RequestRecords
<1>3. \A n \in DOMAIN requests : ~Pending(n)'
  <2>1. \A n \in DOMAIN requests : n # 0
    BY RequestsSeq DEF TypeInv
  <2>2. QED
    BY <1>1, <2>1 DEF Pending, NoEntry
<1>4. \A n : Answered(n)' <=> Answered(n)
  BY DEF Answered
<1>5. RequestsAccounted'
  <2>1. \A n \in DOMAIN requests : requests[n].fate \in Fates
    BY RequestsSeq DEF TypeInv, RequestRecords
  <2>2. QED
    BY <1>2, <1>3, <1>4, <2>1 DEF AnswerInv, RequestsAccounted, Fates
<1>6. AnsweredOnce' /\ AnsweredWereRead'
  BY <1>2 DEF AnswerInv, AnsweredOnce, AnsweredWereRead
<1>7. EntriesAreRequests'
  BY <1>1, <1>2 DEF AnswerInv, EntriesAreRequests
<1>8. QED
  BY <1>5, <1>6, <1>7 DEF AnswerInv

LEMMA AnswerInit == Init => AnswerInv
BY DEF Init, TasksInit, IncomingInit, AnswerInv, EntriesAreRequests,
   AnsweredWereRead, AnsweredOnce, RequestsAccounted, Filed

LEMMA HandlerAnswers ==
  ASSUME TypeInv, AnswerInv,
         HandlerReplies \/ HandlerSpawns \/ HandlerDisowns \/ HandlerPanics
  PROVE  AnswerInv'
<1>1. /\ UNCHANGED <<incoming_requests, outbox>>
      /\ DOMAIN requests' = DOMAIN requests
      /\ \A n \in DOMAIN requests : /\ requests'[n].id = requests[n].id
                                    /\ requests'[n].fate = requests[n].fate
  BY HandlerRequests DEF HandlerReplies, HandlerSpawns, HandlerDisowns, HandlerPanics
<1>2. EntriesAreRequests'
  BY <1>1 DEF AnswerInv, EntriesAreRequests, Filed
<1>3. \A n : (Pending(n)' <=> Pending(n)) /\ (Answered(n)' <=> Answered(n))
  BY <1>1 DEF Pending, Answered
<1>4. RequestsAccounted'
  BY <1>1, <1>3 DEF AnswerInv, RequestsAccounted
<1>5. AnsweredOnce' /\ AnsweredWereRead'
  BY <1>1 DEF AnswerInv, AnsweredOnce, AnsweredWereRead
<1>6. QED
  BY <1>2, <1>4, <1>5 DEF AnswerInv

LEMMA ReaderStepAnswers ==
  ASSUME TypeInv, AnswerInv, ReaderStep PROVE AnswerInv'
<1>1. CASE FinishRead
  <2>1. ErrorWithoutId \in OutgoingMessages /\ ~IsResponse(ErrorWithoutId)
    BY DEF OutgoingMessages, IsResponse, ErrorWithoutId
  <2>2. QED
    BY <1>1, <2>1, AnswerFrame DEF FinishRead, finishFrame
<1>2. CASE \/ ReadLine \/ ReadEnds \/ ReadFails \/ DispatchFails \/ OnNotification
           \/ (OnResponse \/ ResolveSlot) /\ UNCHANGED incomingVars
  BY <1>2, AnswerFrame DEF ReadLine, ReadEnds, ReadFails, DispatchFails,
     OnNotification, readFrame, OnResponse, ResolveSlot, dispatcherFrame
<1>3. QED
  BY <1>1, <1>2, OnRequestAnswers, HandlerAnswers, InitFinishAnswers DEF ReaderStep

LEMMA AnswerStep == TypeInv /\ AnswerInv /\ [Next]_vars => AnswerInv'
<1> SUFFICES ASSUME TypeInv, AnswerInv, [Next]_vars PROVE AnswerInv'
  OBVIOUS
<1>1. CASE UNCHANGED vars
  BY <1>1, AnswerFrame DEF vars, taskVars
<1>2. ASSUME NEW w \in Waiters, WaiterStep(w) PROVE AnswerInv'
  BY <1>2, AnswerFrame DEF WaiterStep, WaitStart, WaitServer, WaitPop, WaitJoin,
     WaitReturn, WaitDropped, waitFrame, writerVars
<1>3. ASSUME NEW c \in Callers, CallerStep(c) PROVE AnswerInv'
  <2>1. CASE RequestSent(c)
    <3>1. Request(callers[c].id) \in OutgoingMessages
          /\ ~IsResponse(Request(callers[c].id))
      <4>1. callers[c].id \in OutgoingIds
        BY <2>1, BoundsAssumption DEF RequestSent, InFlight, TypeInv, CallersInv,
           CallersTypeOK, OutgoingIds
      <4>2. QED
        BY <4>1 DEF Request, OutgoingMessages, IsResponse
    <3>2. QED
      BY <1>3, <2>1, <3>1, AnswerFrame DEF CallerStep, RequestSent
  <2>2. CASE ~RequestSent(c)
    BY <1>3, <2>2, AnswerFrame DEF CallerStep, RequestRefused,
       RequestRegistered, SerializeFails, PollSlot, RequestReturns,
       RequestDropped, taskVars
  <2>3. QED
    BY <2>1, <2>2
<1>4. CASE WriterStep
  BY <1>4, AnswerFrame DEF WriterStep, FinishWrite, finishFrame, FetchMessages,
     WriteMessage, Flush, WriteFails
<1>5. CASE CancellerStep
  <2>1. CASE CallHook /\ UNCHANGED incomingVars
    <3> DEFINE m == Cancel(outgoing_cancellations[called + 1])
    <3>1. m \in OutgoingMessages /\ ~IsResponse(m)
      <4>1. /\ outgoing_cancellations \in Seq(OutgoingIds)
            /\ called \in Nat /\ called < Len(outgoing_cancellations)
        BY <2>1, LenProperties DEF CallHook, TypeInv, CancellerInv,
           CancellationsTypeOK
      <4>2. outgoing_cancellations[called + 1] \in OutgoingIds
        BY <4>1, LenProperties
      <4>3. QED
        BY <4>2 DEF Cancel, OutgoingMessages, IsResponse
    <3>2. UNCHANGED outbox \/ Push(m)
      BY <2>1 DEF CallHook
    <3>3. QED
      BY <2>1, <3>1, <3>2, AnswerFrame
  <2>2. CASE FetchCancellations /\ UNCHANGED incomingVars
    BY <2>2, AnswerFrame DEF FetchCancellations
  <2>3. CASE FinishCancel
    BY <2>3, AnswerFrame DEF FinishCancel, finishFrame
  <2>4. QED
    BY <1>5, <2>1, <2>2, <2>3 DEF CancellerStep
<1>6. CASE RuntimeStep
  BY <1>6, AnswerFrame DEF RuntimeStep, Reap
<1>7. CASE ApplicationStep
  <2>1. CASE ShutdownSession
    BY <2>1, CancelAllAnswers DEF ShutdownSession
  <2>2. CASE DropSession /\ ~ShutdownSession
    BY <2>2, AnswerFrame DEF DropSession
  <2>3. CASE Notify
    BY <2>3, AnswerFrame DEF Notify, OutgoingMessages, IsResponse, Notification
  <2>4. QED
    BY <1>7, <2>1, <2>2, <2>3, CancelIncomingAnswers DEF ApplicationStep, Shutdown
<1>8. QED
  BY <1>1, <1>2, <1>3, <1>4, <1>5, <1>6, <1>7, TaskStepAnswers,
     ReaderStepAnswers DEF Next, Terminated

LEMMA AnswersCorrect == Spec => [](TypeInv /\ AnswerInv)
<1>1. Init => TypeInv /\ AnswerInv
  BY TypeInit, AnswerInit
<1>2. TypeInv /\ AnswerInv /\ [Next]_vars => TypeInv' /\ AnswerInv'
  BY TypeStep, AnswerStep
<1>3. QED
  BY <1>1, <1>2, PTL DEF Spec

\* Whoever gets to answer a request first, its handler, its task or a
\* cancellation, is the only one that does.
THEOREM RequestsAnsweredOnce == Spec => []AnsweredOnce
<1>1. AnswerInv => AnsweredOnce
  BY DEF AnswerInv
<1>2. QED
  BY <1>1, AnswersCorrect, PTL

\* No request of the peer is forgotten: it is answered, or pending in the
\* table, or was taken back by a cancellation or the shutdown, and then stays
\* without a further response.
THEOREM EveryRequestAccounted == Spec => []RequestsAccounted
<1>1. AnswerInv => RequestsAccounted
  BY DEF AnswerInv
<1>2. QED
  BY <1>1, AnswersCorrect, PTL
-----------------------------------------------------------------------------
(* Tasks and the requests they are for                                     *)

InHand == dispatcher.pc \in {"handler", "replied", "spawned"}

\* What every step does to the past
Later ==
  /\ DOMAIN requests \subseteq DOMAIN requests'
  /\ \A n \in DOMAIN requests :
       /\ requests'[n].id = requests[n].id
       /\ TakenBack(n) => TakenBack(n)'
       /\ requests[n].disowned => requests'[n].disowned
       /\ requests[n].fate = "cancelled" => requests'[n].fate = "cancelled"
  /\ aborted \subseteq aborted'

\* Tasks go on or end, and none is spawned.
HandlersGoOn ==
  \A n \in HandlerIds :
    handlers'[n] # handlers[n] => /\ handlers[n] \in {"running", "returned"}
                                  /\ handlers'[n] \in {"returned", "done"}

LEMMA LooseStays ==
  ASSUME TypeInv, Later, NEW n \in DOMAIN requests, Loose(n)
  PROVE  Loose(n)'
<1>1. \A k \in 1..(n - 1) : k \in DOMAIN requests
  BY RequestsSeq DEF TypeInv
<1>2. QED
  BY <1>1 DEF Loose, LostHold, Later

\* Why a message may be queued
Explained(m) ==
  IsResponse(m) /\ m.for # m.by =>
    /\ m.by < m.for /\ requests[m.by].id = requests[m.for].id
    /\ \E k \in 1..m.by : LostHold(k) /\ requests[k].id = requests[m.by].id

LEMMA ExplainedStays ==
  ASSUME TypeInv, Later, NEW m, Explained(m),
         IsResponse(m) => m.for \in DOMAIN requests /\ m.by \in DOMAIN requests
  PROVE  Explained(m)'
<1> SUFFICES ASSUME IsResponse(m), m.for # m.by
             PROVE  /\ m.by < m.for /\ requests'[m.by].id = requests'[m.for].id
                    /\ \E k \in 1..m.by : LostHold(k)' /\ requests'[k].id
                                                         = requests'[m.by].id
  BY DEF Explained
<1>1. \A k \in 1..m.by : k \in DOMAIN requests
  BY RequestsSeq DEF TypeInv
<1>2. QED
  BY <1>1 DEF Explained, LostHold, Later

LEMMA StaleStays ==
  ASSUME TypeInv, AnswerInv, StaleAnswerNeedsLostHold, Later,
         \/ UNCHANGED outbox
         \/ \E m \in OutgoingMessages : Push(m) /\ Explained(m)'
  PROVE  StaleAnswerNeedsLostHold'
<1>1. \A p \in DOMAIN outbox : Explained(outbox[p])
  BY DEF StaleAnswerNeedsLostHold, Explained
<1>2. \A p \in DOMAIN outbox :
        IsResponse(outbox[p]) => /\ outbox[p].for \in DOMAIN requests
                                 /\ outbox[p].by \in DOMAIN requests
  BY DEF AnswerInv, AnsweredWereRead
<1>3. ASSUME NEW p \in DOMAIN outbox, outbox'[p] = outbox[p]
      PROVE  Explained(outbox[p])' 
  <2>1. PICK m : m = outbox[p]
    OBVIOUS
  <2>2. Explained(m)'
    BY <1>1, <1>2, <2>1, ExplainedStays
  <2>3. QED
    BY <1>3, <2>1, <2>2 DEF Explained
<1>4. \A p \in DOMAIN outbox' : Explained(outbox[p])'
  <2>1. CASE UNCHANGED outbox
    BY <1>3, <2>1
  <2>2. ASSUME NEW m \in OutgoingMessages, Push(m), Explained(m)'
        PROVE  \A p \in DOMAIN outbox' : Explained(outbox[p])'
    <3>1. ASSUME NEW p \in DOMAIN outbox', p \notin DOMAIN outbox
          PROVE  Explained(outbox[p])'
      <4>1. outbox'[p] = m
        BY <2>2, <3>1, PushedAt DEF TypeInv, WriterInv
      <4>2. QED
        BY <2>2, <4>1 DEF Explained
    <3>2. \A p \in DOMAIN outbox : outbox'[p] = outbox[p]
      BY <2>2, PushedAt DEF TypeInv, WriterInv
    <3>3. QED
      BY <1>3, <3>1, <3>2
  <2>3. QED
    BY <2>1, <2>2
<1>5. QED
  BY <1>4 DEF StaleAnswerNeedsLostHold, Explained

\* TasksAreTracked says that what runs has its task in the table or is loose.
HasTask(n) ==
  \E id \in RequestIds : incoming_requests[id].req = n /\ incoming_requests[id].task

LEMMA TrackedIfLoose ==
  TasksAreTracked <=> \A n \in HandlerIds : TaskRuns(n) => HasTask(n) \/ Loose(n)
BY DEF TasksAreTracked, HasTask, Loose

LEMMA TrackedStays ==
  ASSUME TypeInv, TasksAreTracked, Later,
         \A n \in HandlerIds : TaskRuns(n)' =>
           \/ TaskRuns(n) /\ (HasTask(n) => HasTask(n)' \/ Loose(n)')
           \/ HasTask(n)' \/ Loose(n)'
  PROVE  TasksAreTracked'
<1>1. ASSUME NEW n \in HandlerIds, TaskRuns(n)' PROVE HasTask(n)' \/ Loose(n)'
  <2>1. CASE TaskRuns(n)
    <3>1. n \in DOMAIN requests
      BY <2>1 DEF TaskRuns, TypeInv, HandlersInv
    <3>2. HasTask(n) \/ Loose(n)
      BY <2>1, TrackedIfLoose
    <3>3. QED
      BY <1>1, <3>1, <3>2, LooseStays
  <2>2. QED
    BY <1>1, <2>1
<1>2. QED
  BY <1>1 DEF TasksAreTracked, HasTask, Loose

\* The entry request n finds
EntryOf(n) == incoming_requests[requests[n].id]

LEMMA OwnStays ==
  ASSUME TypeInv, OwnEntryUnlessLoose, Later,
         \A n \in DOMAIN requests' : Able(n)' =>
           \/ n \in DOMAIN requests /\ Able(n) /\ EntryOf(n).req' = EntryOf(n).req
           \/ EntryOf(n).req' = n
           \/ Loose(n)' /\ EntryOf(n).req' \notin 1..n
  PROVE  OwnEntryUnlessLoose'
<1>1. ASSUME NEW n \in DOMAIN requests', Able(n)', EntryOf(n).req' # n
      PROVE  Loose(n)' /\ EntryOf(n).req' \notin 1..n
  <2>1. CASE n \in DOMAIN requests /\ Able(n) /\ EntryOf(n).req' = EntryOf(n).req
    <3>1. Loose(n) /\ EntryOf(n).req \notin 1..n
      BY <1>1, <2>1 DEF OwnEntryUnlessLoose, EntryOf
    <3>2. QED
      BY <2>1, <3>1, LooseStays
  <2>2. QED
    BY <1>1, <2>1
<1>2. QED
  BY <1>1 DEF OwnEntryUnlessLoose, EntryOf

\* The second part of AbortsTakeBack, for one entry
AbortedIsTaken(id) ==
  LET e == incoming_requests[id]
  IN  (e.sent <=> e.abort) /\ (e.abort => ~e.task /\ TakenBack(e.req))

LEMMA AbortedStays ==
  ASSUME TypeInv, AnswerInv, AbortsTakeBack, Later, NEW id \in RequestIds,
         Filed(id), incoming_requests'[id] = incoming_requests[id]
  PROVE  AbortedIsTaken(id)'
<1> PICK k : k = incoming_requests[id].req
  OBVIOUS
<1>1. k \in DOMAIN requests
  BY DEF AnswerInv, EntriesAreRequests
<1>2. AbortedIsTaken(id)
  BY DEF AbortsTakeBack, AbortedIsTaken
<1>3. TakenBack(k) => TakenBack(k)'
  BY <1>1 DEF Later
<1>4. QED
  BY <1>2, <1>3 DEF AbortedIsTaken, TakenBack
-----------------------------------------------------------------------------
(* StrayInv is inductive                                                   *)

\* Steps that neither spawn a task nor touch requests, entries or aborts
LEMMA StrayFrame ==
  ASSUME TypeInv, AnswerInv, StrayInv, UNCHANGED <<incomingVars, aborted>>,
         HandlersGoOn,
         \/ ~InHand /\ ~InHand'
         \/ dispatcher'.pc = dispatcher.pc /\ dispatcher'.req = dispatcher.req,
         \/ UNCHANGED outbox
         \/ \E m \in OutgoingMessages : Push(m) /\ ~IsResponse(m)
  PROVE  StrayInv'
<1> USE DEF incomingVars
<1>1. StaleAnswerNeedsLostHold'
  <2>1. Later
    BY DEF Later, TakenBack
  <2>2. \A m : ~IsResponse(m) => Explained(m)'
    BY DEF Explained, IsResponse
  <2>3. QED
    BY <2>1, <2>2, StaleStays DEF StrayInv
<1>2. AbortsTakeBack'
  BY DEF StrayInv, AbortsTakeBack, TakenBack, Filed
<1>3. \A n \in HandlerIds : TaskRuns(n)' => TaskRuns(n)
  BY DEF TaskRuns, HandlersGoOn, InHand
<1>4. TasksAreTracked'
  BY <1>3 DEF StrayInv, TasksAreTracked, LostHold, TakenBack
<1>5. OwnEntryUnlessLoose'
  <2>1. \A n \in DOMAIN requests : Able(n)' => Able(n)
    BY RequestType DEF Able, HandlersGoOn, InHand, TypeInv
  <2>2. \A n \in DOMAIN requests : Loose(n)' <=> Loose(n)
    BY DEF Loose, LostHold, TakenBack
  <2>3. QED
    BY <2>1, <2>2 DEF StrayInv, OwnEntryUnlessLoose
<1>6. RequestInHand'
  <2>1. InHand => dispatcher.req \in HandlerIds
    BY RequestType DEF InHand, TypeInv, DispatcherInv
  <2>2. QED
    BY <2>1 DEF StrayInv, RequestInHand, HandlersGoOn, InHand
<1>7. QED
  BY <1>1, <1>2, <1>4, <1>5, <1>6 DEF StrayInv

\* on_request between the two closures that touch the table
LEMMA HandlerStep ==
  ASSUME TypeInv, AnswerInv, StrayInv,
         HandlerReplies \/ HandlerSpawns \/ HandlerDisowns \/ HandlerPanics
  PROVE  StrayInv'
<1> PICK n : n = dispatcher.req
  OBVIOUS
<1>1. UNCHANGED <<incoming_requests, aborted, outbox>> /\ dispatcher'.req = n
  BY DEF HandlerReplies, HandlerSpawns, HandlerDisowns, HandlerPanics,
     incomingVars, TypeInv, DispatcherInv, DispatcherTypeOK
<1>2. \/ dispatcher.pc = "handler" /\ dispatcher'.pc = "replied" /\ UNCHANGED handlers
      \/ /\ dispatcher.pc = "handler" /\ dispatcher'.pc = "spawned"
         /\ handlers' = [handlers EXCEPT ![n] = "running"]
      \/ dispatcher.pc = "spawned" /\ dispatcher'.pc = "replied" /\ UNCHANGED handlers
      \/ ~InHand' /\ UNCHANGED handlers
  BY DEF HandlerReplies, HandlerSpawns, HandlerDisowns, HandlerPanics, InHand,
     TypeInv, DispatcherInv, DispatcherTypeOK
<1>3. /\ DOMAIN requests' = DOMAIN requests
      /\ \A i \in DOMAIN requests : /\ requests'[i].id = requests[i].id
                                    /\ requests'[i].fate = requests[i].fate
      /\ dispatcher.pc = "spawned" => requests'[n].disowned
  BY HandlerRequests
<1>4. Later /\ \A i \in DOMAIN requests : TakenBack(i)' <=> TakenBack(i)
  BY <1>1, <1>3, HandlerRequests DEF Later, TakenBack
<1>5. dispatcher.pc = "spawned" => Loose(n)'
  BY <1>3 DEF Loose
<1>6. StaleAnswerNeedsLostHold'
  BY <1>1, <1>4, StaleStays DEF StrayInv
<1>7. AbortsTakeBack'
  <2>1. ASSUME NEW i \in RequestIds, Filed(i)' PROVE AbortedIsTaken(i)'
    BY <1>1, <1>4, <2>1, AbortedStays DEF StrayInv, Filed
  <2>2. QED
    BY <1>1, <1>3, <1>4, <2>1 DEF StrayInv, AbortsTakeBack, AbortedIsTaken
<1>8. TasksAreTracked'
  <2>1. \A i \in HandlerIds : TaskRuns(i)' => TaskRuns(i) \/ Loose(i)'
    BY <1>1, <1>2, <1>5 DEF TaskRuns, TypeInv, HandlersInv, HandlersTypeOK, InHand
  <2>2. \A i : HasTask(i)' <=> HasTask(i)
    BY <1>1 DEF HasTask
  <2>3. QED
    BY <1>4, <2>1, <2>2, TrackedStays DEF StrayInv
<1>9. OwnEntryUnlessLoose'
  <2>1. ASSUME NEW i \in DOMAIN requests, Able(i)'
        PROVE  \/ Able(i)
               \/ i = n /\ dispatcher.pc = "spawned"
    BY <1>1, <1>2, <2>1, RequestType DEF Able, TypeInv, HandlersInv,
       HandlersTypeOK, InHand
  <2>2. \A i \in DOMAIN requests : EntryOf(i).req' = EntryOf(i).req
    BY <1>1, <1>3 DEF EntryOf
  <2>3. dispatcher.pc = "spawned" => EntryOf(n).req \in {0, n}
    BY DEF StrayInv, RequestInHand, EntryOf, NoEntry
  <2>4. \A i \in DOMAIN requests : 0 \notin 1..i
    BY RequestsSeq DEF TypeInv
  <2>5. QED
    BY <1>3, <1>4, <1>5, <2>1, <2>2, <2>3, <2>4, OwnStays DEF StrayInv
<1>10. RequestInHand'
  <2>1. InHand => n \in HandlerIds /\ n \in DOMAIN requests
    BY RequestType DEF InHand, TypeInv, DispatcherInv
  <2>2. InHand' => InHand
    BY <1>2 DEF InHand
  <2>3. dispatcher'.pc = "handler" => FALSE
    BY <1>2 DEF InHand
  <2>4. dispatcher'.pc = "replied" => handlers'[n] = "unborn" \/ requests'[n].disowned
    BY <1>2, <1>3 DEF StrayInv, RequestInHand, InHand
  <2>5. InHand' => LET e == incoming_requests'[requests'[n].id]
                   IN  e # NoEntry => e.req = n /\ ~e.init
    BY <1>1, <1>3, <2>1, <2>2 DEF StrayInv, RequestInHand, InHand
  <2>6. QED
    BY <1>1, <2>3, <2>4, <2>5 DEF RequestInHand, InHand
<1>11. QED
  BY <1>6, <1>7, <1>8, <1>9, <1>10 DEF StrayInv

LEMMA OnRequestStray ==
  ASSUME TypeInv, AnswerInv, StrayInv, OnRequest PROVE StrayInv'
<1> PICK k, id, m : /\ k = Len(requests) + 1 /\ id = Head(dispatcher.batch).id
                    /\ m = Response(id, k, k)
  OBVIOUS
<1>1. id \in RequestIds /\ k \in HandlerIds
  BY OnRequestArgs
<1>2. PICK r \in RequestRecords :
        /\ requests' = Append(requests, r) /\ r.id = id
        /\ \/ /\ Filed(id) /\ Push(m) /\ ~InHand'
              /\ UNCHANGED incoming_requests
           \/ /\ ~Filed(id) /\ UNCHANGED outbox
              /\ dispatcher'.pc = "handler" /\ dispatcher'.req = k
              /\ incoming_requests' = [incoming_requests EXCEPT ![id] = NewEntry(k)]
  BY <1>1 DEF OnRequest, NewRequest, RequestRecords, Fates, InHand, NextPc, TypeInv,
     DispatcherInv, DispatcherTypeOK
<1>3. /\ DOMAIN requests' = DOMAIN requests \union {k} /\ requests'[k] = r
      /\ \A i \in DOMAIN requests : requests'[i] = requests[i]
      /\ k \notin DOMAIN requests /\ \A i \in DOMAIN requests : k \notin 1..i
  <2>1. \A i \in DOMAIN requests : k \notin 1..i
    BY RequestsSeq DEF TypeInv
  <2>2. QED
    BY <1>2, <2>1, ReadRequest
<1>4. UNCHANGED <<handlers, aborted>> /\ dispatcher.pc = "batch"
  BY DEF OnRequest
<1>5. handlers[k] = "unborn"
  BY <1>1, <1>3 DEF TypeInv, HandlersInv
<1>6. Later
  BY <1>3, <1>4 DEF Later, TakenBack
<1>7. StaleAnswerNeedsLostHold'
  <2>1. m \in OutgoingMessages /\ Explained(m)'
    BY <1>1 DEF Explained, Response, OutgoingMessages
  <2>2. QED
    BY <1>2, <1>6, <2>1, StaleStays DEF StrayInv
<1>8. \A i \in RequestIds :
        \/ incoming_requests'[i] = incoming_requests[i]
        \/ /\ i = id /\ incoming_requests[i] = NoEntry
           /\ incoming_requests'[i] = NewEntry(k)
  BY <1>2 DEF Filed, TypeInv, IncomingTypeOK
<1>9. AbortsTakeBack'
  <2>1. \A i \in DOMAIN requests : TakenBack(i) => TakenBack(i)'
    BY <1>6 DEF Later
  <2>2. \A i \in RequestIds : Filed(i)' /\ incoming_requests'[i] = incoming_requests[i]
          => Filed(i) /\ incoming_requests[i].req \in DOMAIN requests
    BY DEF Filed, AnswerInv, EntriesAreRequests
  <2>3. QED
    BY <1>3, <1>4, <1>8, <2>1, <2>2 DEF StrayInv, AbortsTakeBack, NewEntry
<1>10. TasksAreTracked'
  <2>1. \A n \in HandlerIds : TaskRuns(n)' => TaskRuns(n)
    BY <1>4 DEF TaskRuns
  <2>2. \A n \in HandlerIds : HasTask(n) => HasTask(n)'
    BY <1>8, BoundsAssumption DEF HasTask, NoEntry, HandlerIds
  <2>3. QED
    BY <1>6, <2>1, <2>2, TrackedStays DEF StrayInv
<1>11. OwnEntryUnlessLoose'
  <2>1. ASSUME NEW n \in DOMAIN requests, Able(n)'
        PROVE  \/ Able(n) /\ EntryOf(n).req' = EntryOf(n).req
               \/ Loose(n)' /\ EntryOf(n).req' \notin 1..n
    <3>1. Able(n)
      BY <1>2, <1>3, <1>4, <2>1 DEF Able, InHand
    <3>2. CASE requests[n].id = id /\ ~Filed(id)
      <4>1. EntryOf(n).req = 0 /\ n # 0
        BY <3>2, RequestsSeq DEF EntryOf, Filed, NoEntry, TypeInv
      <4>2. Loose(n)
        BY <3>1, <4>1 DEF StrayInv, OwnEntryUnlessLoose, EntryOf
      <4>3. EntryOf(n)' = NewEntry(k)
        BY <1>1, <1>2, <1>3, <3>2 DEF EntryOf, TypeInv, IncomingTypeOK
      <4>4. QED
        BY <1>3, <1>6, <4>2, <4>3, LooseStays DEF NewEntry
    <3>3. CASE requests[n].id # id \/ Filed(id)
      <4>1. EntryOf(n)' = EntryOf(n)
        BY <1>2, <1>3, <3>3, RequestType DEF EntryOf, TypeInv, IncomingTypeOK
      <4>2. QED
        BY <3>1, <4>1
    <3>4. QED
      BY <3>2, <3>3
  <2>2. Able(k)' => EntryOf(k).req' = k
    BY <1>1, <1>2, <1>3, <1>4, <1>5 DEF Able, InHand, EntryOf, NewEntry, TypeInv,
       IncomingTypeOK
  <2>3. QED
    BY <1>3, <1>6, <2>1, <2>2, OwnStays DEF StrayInv
<1>12. RequestInHand'
  BY <1>1, <1>2, <1>3, <1>4, <1>5 DEF RequestInHand, InHand, NewEntry, TypeInv,
     IncomingTypeOK
<1>13. QED
  BY <1>7, <1>9, <1>10, <1>11, <1>12 DEF StrayInv

\* An entry goes, and its request cannot be answered any more or is loose.
LEMMA RemoveStray ==
  ASSUME TypeInv, AnswerInv, StrayInv, Later, DOMAIN requests' = DOMAIN requests,
         NEW id \in RequestIds, Filed(id), Remove(id),
         NEW k, k = incoming_requests[id].req,
         \A n \in HandlerIds :
           HandlerTask(n) \in aborted' => n \in DOMAIN requests /\ TakenBack(n)',
         \A n \in DOMAIN requests :
           Able(n)' => Able(n) /\ (n = k => Loose(n)'),
         \A n \in HandlerIds :
           TaskRuns(n)' => (TaskRuns(n) /\ (n = k => Loose(n)')) \/ Loose(n)'
  PROVE  AbortsTakeBack' /\ TasksAreTracked' /\ OwnEntryUnlessLoose'
<1>1. \A i \in RequestIds : incoming_requests'[i] =
        IF i = id THEN NoEntry ELSE incoming_requests[i]
  BY DEF Remove, TypeInv, IncomingTypeOK
<1>2. AbortsTakeBack'
  <2>1. ASSUME NEW i \in RequestIds, Filed(i)'
        PROVE  AbortedIsTaken(i)'
    <3>1. Filed(i) /\ incoming_requests'[i] = incoming_requests[i]
      BY <1>1, <2>1 DEF Filed
    <3>2. QED
      BY <3>1, AbortedStays DEF StrayInv
  <2>2. QED
    BY <2>1 DEF AbortsTakeBack, AbortedIsTaken
<1>3. TasksAreTracked'
  <2>1. ASSUME NEW n \in HandlerIds, HasTask(n), n # k PROVE HasTask(n)'
    <3>1. PICK i \in RequestIds : incoming_requests[i].req = n /\ incoming_requests[i].task
      BY <2>1 DEF HasTask
    <3>2. QED
      BY <1>1, <2>1, <3>1 DEF HasTask
  <2>2. QED
    BY <2>1, TrackedStays DEF StrayInv
<1>4. OwnEntryUnlessLoose'
  <2>1. ASSUME NEW n \in DOMAIN requests, Able(n)'
        PROVE  \/ Able(n) /\ EntryOf(n).req' = EntryOf(n).req
               \/ Loose(n)' /\ EntryOf(n).req' \notin 1..n
    <3>1. requests'[n].id = requests[n].id /\ requests[n].id \in RequestIds
      BY RequestType DEF Later, TypeInv
    <3>2. CASE requests[n].id = id
      <4>1. EntryOf(n).req' = 0
        BY <1>1, <3>1, <3>2 DEF EntryOf, NoEntry
      <4>2. Loose(n)'
        <5>1. CASE n = k
          BY <2>1, <5>1
        <5>2. CASE n # k
          BY <2>1, <3>2, <5>2, LooseStays DEF StrayInv, OwnEntryUnlessLoose
        <5>3. QED
          BY <5>1, <5>2
      <4>3. QED
        BY <4>1, <4>2
    <3>3. CASE requests[n].id # id
      BY <1>1, <2>1, <3>1, <3>3 DEF EntryOf
    <3>4. QED
      BY <3>2, <3>3
  <2>2. QED
    BY <2>1, OwnStays DEF StrayInv
<1>5. QED
  BY <1>2, <1>3, <1>4

LEMMA InitFinishStray ==
  ASSUME TypeInv, AnswerInv, StrayInv, InitFinish PROVE StrayInv'
<1> PICK n, id, e : /\ n = dispatcher.req /\ id = requests[n].id
                    /\ e = incoming_requests[id]
  OBVIOUS
<1>1. n \in DOMAIN requests /\ n \in HandlerIds /\ id \in RequestIds
  BY RequestType DEF TypeInv, DispatcherInv, InitFinish
<1>2. UNCHANGED <<requests, handlers>> /\ ~InHand'
  BY DEF InitFinish, InHand, NextPc, TypeInv, DispatcherInv, DispatcherTypeOK
<1>3. /\ dispatcher.pc = "replied" => handlers[n] = "unborn" \/ requests[n].disowned
      /\ Filed(id) => e.req = n /\ ~e.init
      /\ InHand
  BY <1>1 DEF StrayInv, RequestInHand, InitFinish, Filed, InHand
<1>4. aborted \subseteq aborted'
  BY DEF InitFinish, PushAborts
<1>5. Later
  BY <1>2, <1>4 DEF Later, TakenBack
<1>6. \A i : TakenBack(i)' <=> TakenBack(i)
  BY <1>2 DEF TakenBack
<1>7. StaleAnswerNeedsLostHold'
  <2>1. PICK m : m = Response(id, n, n)
    OBVIOUS
  <2>2. m \in OutgoingMessages /\ Explained(m)'
    BY <1>1, <2>1 DEF Explained, Response, OutgoingMessages
  <2>3. UNCHANGED outbox \/ Push(m)
    BY <1>3, <2>1 DEF InitFinish, Answer
  <2>4. QED
    BY <1>5, <2>2, <2>3, StaleStays DEF StrayInv
<1>8. RequestInHand'
  BY <1>2 DEF RequestInHand, InHand
<1>9. /\ \A i \in DOMAIN requests : Able(i)' => Able(i) /\ handlers[i] \in {"running", "returned"}
      /\ \A i \in HandlerIds : TaskRuns(i)' => handlers[i] \in {"running", "returned"}
      /\ \A i \in HandlerIds : TaskRuns(i)' /\ i # n => TaskRuns(i)
  BY <1>2 DEF Able, InHand, TaskRuns
<1>10. CASE ~Filed(id)
  <2>1. UNCHANGED <<incoming_requests, aborted>>
    BY <1>10 DEF InitFinish
  <2>2. AbortsTakeBack'
    BY <1>2, <1>6, <2>1 DEF StrayInv, AbortsTakeBack, Filed
  <2>3. OwnEntryUnlessLoose'
    <3>1. \A i \in DOMAIN requests : EntryOf(i).req' = EntryOf(i).req
      BY <1>2, <2>1 DEF EntryOf
    <3>2. QED
      BY <1>2, <1>5, <1>9, <3>1, OwnStays DEF StrayInv
  <2>4. TasksAreTracked'
    <3>1. ASSUME TaskRuns(n)' PROVE Loose(n)'
      <4>1. Able(n) /\ e.req # n
        BY <1>1, <1>9, <1>10, <3>1, BoundsAssumption DEF Able, Filed, NoEntry, HandlerIds
      <4>2. QED
        BY <1>1, <1>5, <4>1, LooseStays DEF StrayInv, OwnEntryUnlessLoose
    <3>2. \A i : HasTask(i)' <=> HasTask(i)
      BY <2>1 DEF HasTask
    <3>3. QED
      BY <1>5, <1>9, <3>1, <3>2, TrackedStays DEF StrayInv
  <2>5. QED
    BY <1>7, <1>8, <2>2, <2>3, <2>4 DEF StrayInv
<1>11. CASE Filed(id) /\ dispatcher.pc = "replied"
  <2>1. Remove(id) /\ UNCHANGED aborted
    BY <1>11 DEF InitFinish
  <2>2. handlers[n] \in {"running", "returned"} => Loose(n)'
    BY <1>2, <1>3, <1>11 DEF Loose
  <2>3. \A i \in HandlerIds :
          HandlerTask(i) \in aborted' => i \in DOMAIN requests /\ TakenBack(i)'
    BY <1>6, <2>1 DEF StrayInv, AbortsTakeBack
  <2>4. AbortsTakeBack' /\ TasksAreTracked' /\ OwnEntryUnlessLoose'
    BY <1>1, <1>2, <1>3, <1>5, <1>9, <1>11, <2>1, <2>2, <2>3, RemoveStray
  <2>5. QED
    BY <1>7, <1>8, <2>4 DEF StrayInv
<1>12. CASE Filed(id) /\ dispatcher.pc = "spawned" /\ e.sent
  <2>1. Remove(id) /\ e.abort /\ TakenBack(n) /\ PushAborts({HandlerTask(n)})
    BY <1>1, <1>3, <1>12 DEF InitFinish, StrayInv, AbortsTakeBack
  <2>2. \A i : HandlerTask(i) \in aborted' => HandlerTask(i) \in aborted \/ i = n
    BY <2>1 DEF PushAborts, HandlerTask
  <2>3. ASSUME handlers[n] \in {"running", "returned"} PROVE Loose(n)'
    BY <2>1, <2>3 DEF Loose, PushAborts, Finished, HandlerTask, ReadTask,
       WriteTask, CancelTask
  <2>4. \A i \in HandlerIds :
          HandlerTask(i) \in aborted' => i \in DOMAIN requests /\ TakenBack(i)'
    BY <1>1, <1>6, <2>1, <2>2 DEF StrayInv, AbortsTakeBack
  <2>5. AbortsTakeBack' /\ TasksAreTracked' /\ OwnEntryUnlessLoose'
    BY <1>1, <1>2, <1>3, <1>5, <1>9, <1>12, <2>1, <2>3, <2>4, RemoveStray
  <2>6. QED
    BY <1>7, <1>8, <2>5 DEF StrayInv
<1>13. CASE Filed(id) /\ dispatcher.pc = "spawned" /\ ~e.sent
  <2>1. ~e.abort /\ e \in Entries
    BY <1>1, <1>13 DEF StrayInv, AbortsTakeBack, TypeInv, IncomingTypeOK, Filed
  <2>2. /\ UNCHANGED aborted
        /\ incoming_requests' =
             [incoming_requests EXCEPT ![id].init = TRUE, ![id].task = ~e.abort]
    BY <1>13, <2>1 DEF InitFinish
  <2>3. /\ incoming_requests'[id] = [e EXCEPT !.init = TRUE, !.task = TRUE]
        /\ \A i \in RequestIds \ {id} : incoming_requests'[i] = incoming_requests[i]
    BY <1>1, <2>1, <2>2 DEF TypeInv, IncomingTypeOK, Entries
  <2>4. AbortsTakeBack'
    <3>1. ASSUME NEW i \in RequestIds, Filed(i)' PROVE AbortedIsTaken(i)'
      <4>1. CASE i = id
        BY <1>13, <2>1, <2>3, <4>1 DEF AbortedIsTaken, Entries
      <4>2. CASE i # id
        BY <1>5, <2>3, <3>1, <4>2, AbortedStays DEF Filed, StrayInv
      <4>3. QED
        BY <4>1, <4>2
    <3>2. QED
      BY <1>2, <1>6, <2>2, <3>1 DEF StrayInv, AbortsTakeBack, AbortedIsTaken
  <2>5. OwnEntryUnlessLoose'
    <3>1. \A i \in DOMAIN requests : EntryOf(i).req' = EntryOf(i).req
      BY <1>2, <2>1, <2>3, RequestType DEF EntryOf, Entries, TypeInv
    <3>2. QED
      BY <1>2, <1>5, <1>9, <3>1, OwnStays DEF StrayInv
  <2>6. TasksAreTracked'
    <3>1. HasTask(n)'
      BY <1>1, <1>3, <1>13, <2>1, <2>3 DEF HasTask, Entries
    <3>2. \A i \in HandlerIds \ {n} : HasTask(i) => HasTask(i)'
      BY <1>3, <1>13, <2>3 DEF HasTask
    <3>3. QED
      BY <1>5, <1>9, <3>1, <3>2, TrackedStays DEF StrayInv
  <2>7. QED
    BY <1>7, <1>8, <2>4, <2>5, <2>6 DEF StrayInv
<1>14. QED
  BY <1>10, <1>11, <1>12, <1>13 DEF InitFinish

LEMMA TaskFinishStray ==
  ASSUME TypeInv, AnswerInv, StrayInv, NEW n \in HandlerIds, TaskFinish(n)
  PROVE  StrayInv'
<1> PICK id, e : id = requests[n].id /\ e = incoming_requests[id]
  OBVIOUS
<1>1. n \in DOMAIN requests /\ id \in RequestIds
  BY RequestType DEF TypeInv, HandlersInv, TaskFinish
<1>2. /\ UNCHANGED <<requests, dispatcher, aborted>>
      /\ handlers[n] = "returned" /\ handlers' = [handlers EXCEPT ![n] = "done"]
      /\ HandlersGoOn
  BY DEF TaskFinish, taskFrame, HandlersGoOn, TypeInv, HandlersInv, HandlersTypeOK
<1>3. CASE ~Filed(id)
  BY <1>2, <1>3, StrayFrame DEF TaskFinish, incomingVars
<1>4. CASE Filed(id)
  <2>1. Answer(id, e, n) /\ Remove(id)
    BY <1>4 DEF TaskFinish
  <2>2. Later /\ \A i : TakenBack(i)' <=> TakenBack(i)
    BY <1>2 DEF Later, TakenBack
  <2>3. e.req \in DOMAIN requests /\ e.req \in HandlerIds /\ requests[e.req].id = id
    BY <1>1, <1>4, RequestType DEF AnswerInv, EntriesAreRequests, TypeInv
  <2>4. ASSUME e.req # n
        PROVE  /\ n < e.req
               /\ \E k \in 1..n : LostHold(k) /\ requests[k].id = id
    <3>1. Loose(n) /\ e.req \notin 1..n
      BY <1>1, <1>2, <2>4 DEF StrayInv, OwnEntryUnlessLoose, Able
    <3>2. n < e.req
      BY <2>3, <3>1 DEF HandlerIds
    <3>3. LostHold(n) \/ \E k \in 1..(n - 1) : LostHold(k) /\ requests[k].id = id
      BY <3>1 DEF Loose, LostHold, TakenBack, StrayInv, AbortsTakeBack
    <3>4. QED
      BY <3>2, <3>3 DEF HandlerIds
  <2>5. ASSUME e.req # n PROVE Loose(e.req)'
    <3>1. Loose(e.req)
      BY <2>3, <2>4, <2>5 DEF Loose, HandlerIds
    <3>2. QED
      BY <2>2, <2>3, <3>1, LooseStays
  <2>6. StaleAnswerNeedsLostHold'
    <3>1. PICK m : m = Response(id, e.req, n)
      OBVIOUS
    <3>2. m \in OutgoingMessages
      BY <1>1, <2>3, <3>1 DEF Response, OutgoingMessages
    <3>3. Explained(m)'
      BY <1>2, <2>2, <2>3, <2>4, <3>1 DEF Explained, Response, LostHold
    <3>4. QED
      BY <2>1, <2>2, <3>1, <3>2, <3>3, StaleStays DEF Answer, StrayInv
  <2>7. \A i \in DOMAIN requests : Able(i)' => Able(i) /\ (i = n => Loose(i)')
    <3>1. ASSUME Able(n)' PROVE requests[n].disowned
      BY <1>2, <3>1 DEF Able, StrayInv, RequestInHand, TypeInv, HandlersInv,
         HandlersTypeOK
    <3>2. \A i \in DOMAIN requests : Able(i)' => Able(i)
      BY <1>2, RequestType DEF Able, TypeInv, HandlersInv, HandlersTypeOK
    <3>3. QED
      BY <1>2, <3>1, <3>2 DEF Loose
  <2>8. \A i \in HandlerIds : TaskRuns(i)' => TaskRuns(i) /\ i # n
    BY <1>2 DEF TaskRuns, TypeInv, HandlersInv, HandlersTypeOK
  <2>9. AbortsTakeBack' /\ TasksAreTracked' /\ OwnEntryUnlessLoose'
    BY <1>1, <1>2, <1>4, <2>1, <2>2, <2>5, <2>7, <2>8, RemoveStray DEF StrayInv,
       AbortsTakeBack
  <2>10. RequestInHand'
    <3>1. \A i \in RequestIds : incoming_requests'[i] \in {NoEntry, incoming_requests[i]}
      BY <2>1 DEF Remove, TypeInv, IncomingTypeOK
    <3>2. InHand => dispatcher.req \in HandlerIds
                    /\ requests[dispatcher.req].id \in RequestIds
      BY RequestType DEF InHand, TypeInv, DispatcherInv
    <3>3. QED
      BY <1>2, <3>1, <3>2 DEF StrayInv, RequestInHand, InHand, TypeInv,
         HandlersInv, HandlersTypeOK
  <2>11. QED
    BY <2>6, <2>9, <2>10 DEF StrayInv
<1>5. QED
  BY <1>3, <1>4

LEMMA CancelIncomingStray ==
  ASSUME TypeInv, AnswerInv, StrayInv, NEW id \in RequestIds, CancelIncoming(id)
  PROVE  StrayInv'
<1> PICK k : k = incoming_requests[id].req
  OBVIOUS
<1>1. /\ Filed(id) /\ Remove(id) /\ UNCHANGED <<dispatcher, handlers>>
      /\ k \in DOMAIN requests /\ k \in HandlerIds
  BY RequestType DEF CancelIncoming, requestFrame, AnswerInv, EntriesAreRequests,
     TypeInv
<1>2. /\ DOMAIN requests' = DOMAIN requests
      /\ requests'[k].fate = "cancelled" /\ requests'[k].id = requests[k].id
      /\ requests'[k].disowned <=> requests[k].disowned
      /\ \A i \in DOMAIN requests \ {k} : requests'[i] = requests[i]
  <2>1. requests' = [requests EXCEPT ![k].fate = "cancelled"]
    BY DEF CancelIncoming
  <2>2. requests[k] \in RequestRecords
    BY <1>1, RequestsSeq DEF TypeInv
  <2>3. QED
    BY <1>1, <2>1, <2>2 DEF RequestRecords
<1>3. /\ aborted \subseteq aborted'
      /\ \A i \in HandlerIds :
           HandlerTask(i) \in aborted' => HandlerTask(i) \in aborted \/ i = k
  BY DEF CancelIncoming, PushAborts, HeldTasks, HandlerTask
<1>4. Later /\ Loose(k)' /\ TakenBack(k)'
  BY <1>1, <1>2, <1>3 DEF Later, TakenBack, Loose
<1>5. StaleAnswerNeedsLostHold'
  <2>1. PICK m : m = Response(id, k, k)
    OBVIOUS
  <2>2. m \in OutgoingMessages /\ Explained(m)'
    BY <1>1, <2>1 DEF Explained, Response, OutgoingMessages
  <2>3. UNCHANGED outbox \/ Push(m)
    BY <2>1 DEF CancelIncoming
  <2>4. QED
    BY <1>4, <2>2, <2>3, StaleStays DEF StrayInv
<1>6. \A i \in HandlerIds :
        HandlerTask(i) \in aborted' => i \in DOMAIN requests /\ TakenBack(i)'
  BY <1>1, <1>3, <1>4 DEF StrayInv, AbortsTakeBack, Later
<1>7. /\ \A i \in DOMAIN requests : Able(i)' <=> Able(i)
      /\ \A i \in HandlerIds : TaskRuns(i)' <=> TaskRuns(i)
  BY <1>1 DEF Able, TaskRuns
<1>8. AbortsTakeBack' /\ TasksAreTracked' /\ OwnEntryUnlessLoose'
  BY <1>1, <1>2, <1>4, <1>6, <1>7, RemoveStray
<1>9. RequestInHand'
  <2>1. \A i \in RequestIds : incoming_requests'[i] \in {NoEntry, incoming_requests[i]}
    BY <1>1 DEF Remove, TypeInv, IncomingTypeOK
  <2>2. InHand => /\ requests'[dispatcher.req].id = requests[dispatcher.req].id
                  /\ requests[dispatcher.req].disowned
                       => requests'[dispatcher.req].disowned
                  /\ requests[dispatcher.req].id \in RequestIds
    BY <1>2, RequestType DEF InHand, TypeInv, DispatcherInv
  <2>3. QED
    BY <1>1, <2>1, <2>2 DEF StrayInv, RequestInHand, InHand
<1>10. QED
  BY <1>5, <1>8, <1>9 DEF StrayInv

LEMMA ShutdownStray ==
  ASSUME TypeInv, AnswerInv, StrayInv, ShutdownSession PROVE StrayInv'
<1>1. /\ UNCHANGED <<dispatcher, handlers, outbox>>
      /\ CancelAll /\ PushAborts(ShutdownAborts)
  BY DEF ShutdownSession
<1>2. \A i \in RequestIds :
        /\ ~Filed(i) => incoming_requests'[i] = NoEntry
        /\ Filed(i) => /\ incoming_requests'[i].req = incoming_requests[i].req
                       /\ incoming_requests'[i].init <=> incoming_requests[i].init
                       /\ incoming_requests'[i].sent /\ incoming_requests'[i].abort
                       /\ ~incoming_requests'[i].task
  BY <1>1 DEF CancelAll, TypeInv, IncomingTypeOK, Filed, Entries
<1>3. /\ DOMAIN requests' = DOMAIN requests
      /\ \A n \in DOMAIN requests :
           /\ requests'[n].id = requests[n].id
           /\ requests'[n].disowned <=> requests[n].disowned
           /\ requests'[n].fate = IF Pending(n) THEN "shutdown" ELSE requests[n].fate
  <2>1. \A n \in DOMAIN requests : requests[n] \in RequestRecords
    BY RequestsSeq DEF TypeInv
  <2>2. QED
    BY <1>1, <2>1 DEF CancelAll, Pending, RequestRecords
<1>4. Later
  <2>1. \A n \in DOMAIN requests : requests[n].fate = "cancelled" => ~Pending(n)
    BY DEF AnswerInv, RequestsAccounted
  <2>2. aborted \subseteq aborted'
    BY <1>1 DEF PushAborts
  <2>3. QED
    BY <1>3, <2>1, <2>2 DEF Later, TakenBack
<1>5. ASSUME NEW i \in RequestIds, Filed(i), NEW k, k = incoming_requests[i].req
      PROVE  k \in DOMAIN requests /\ TakenBack(k)'
  <2>1. k \in DOMAIN requests
    BY <1>5 DEF AnswerInv, EntriesAreRequests
  <2>2. TakenBack(k) \/ Pending(k)
    BY <1>5 DEF StrayInv, AbortsTakeBack, Pending
  <2>3. QED
    BY <1>3, <1>4, <2>1, <2>2 DEF Later, TakenBack
<1>6. \A n \in HandlerIds : HandlerTask(n) \in aborted' =>
        \/ HandlerTask(n) \in aborted
        \/ \E i \in RequestIds : Filed(i) /\ incoming_requests[i].req = n
  BY <1>1 DEF PushAborts, ShutdownAborts, SessionTaskSet, HeldTasks, HandlerTask,
     ReadTask, WriteTask, CancelTask
<1>7. AbortsTakeBack'
  <2>1. ASSUME NEW n \in HandlerIds, HandlerTask(n) \in aborted'
        PROVE  n \in DOMAIN requests /\ TakenBack(n)'
    <3>1. CASE HandlerTask(n) \in aborted
      BY <1>4, <3>1 DEF StrayInv, AbortsTakeBack, Later
    <3>2. ASSUME NEW i \in RequestIds, Filed(i), incoming_requests[i].req = n
          PROVE  n \in DOMAIN requests /\ TakenBack(n)'
      BY <1>5, <3>2
    <3>3. QED
      BY <1>6, <2>1, <3>1, <3>2
  <2>2. ASSUME NEW i \in RequestIds, Filed(i)' PROVE AbortedIsTaken(i)'
    <3>1. Filed(i)
      BY <1>2, <2>2 DEF Filed
    <3>2. PICK k : k = incoming_requests[i].req
      OBVIOUS
    <3>3. TakenBack(k)'
      BY <1>5, <3>1, <3>2
    <3>4. QED
      BY <1>2, <3>1, <3>2, <3>3 DEF AbortedIsTaken, TakenBack
  <2>3. QED
    BY <1>3, <2>1, <2>2 DEF AbortsTakeBack, AbortedIsTaken
<1>8. TasksAreTracked'
  <2>1. ASSUME NEW n \in HandlerIds, TaskRuns(n), HasTask(n) PROVE Loose(n)'
    <3>1. PICK i \in RequestIds : /\ incoming_requests[i].req = n
                                  /\ incoming_requests[i].task
      BY <2>1 DEF HasTask
    <3>2. Filed(i)
      BY <2>1, <3>1, BoundsAssumption DEF Filed, NoEntry, HandlerIds
    <3>3. HandlerTask(n) \in ShutdownAborts
      BY <3>1, <3>2 DEF ShutdownAborts, HeldTasks
    <3>4. ~Finished(HandlerTask(n))
      BY <2>1 DEF TaskRuns, Finished, HandlerTask, ReadTask, WriteTask, CancelTask
    <3>5. QED
      BY <1>1, <3>3, <3>4 DEF PushAborts, Loose
  <2>2. \A n \in HandlerIds : TaskRuns(n)' => TaskRuns(n)
    BY <1>1 DEF TaskRuns
  <2>3. QED
    BY <1>4, <2>1, <2>2, TrackedStays DEF StrayInv
<1>9. OwnEntryUnlessLoose'
  <2>1. \A n \in DOMAIN requests : Able(n)' => Able(n)
    BY <1>1 DEF Able
  <2>2. \A n \in DOMAIN requests : EntryOf(n).req' = EntryOf(n).req
    BY <1>2, <1>3, RequestType DEF EntryOf, Filed, TypeInv
  <2>3. QED
    BY <1>3, <1>4, <2>1, <2>2, OwnStays DEF StrayInv
<1>10. RequestInHand'
  <2>1. InHand => /\ requests'[dispatcher.req].id = requests[dispatcher.req].id
                  /\ requests[dispatcher.req].disowned
                       => requests'[dispatcher.req].disowned
                  /\ requests[dispatcher.req].id \in RequestIds
    BY <1>3, RequestType DEF InHand, TypeInv, DispatcherInv
  <2>2. QED
    BY <1>1, <1>2, <2>1 DEF StrayInv, RequestInHand, InHand, Filed
<1>11. StaleAnswerNeedsLostHold'
  BY <1>1, <1>4, StaleStays DEF StrayInv
<1>12. QED
  BY <1>7, <1>8, <1>9, <1>10, <1>11 DEF StrayInv

LEMMA StrayInit == Init => StrayInv
BY DEF Init, TasksInit, IncomingInit, StrayInv, OwnEntryUnlessLoose,
   AbortsTakeBack, RequestInHand, TasksAreTracked, StaleAnswerNeedsLostHold,
   Filed, TaskRuns

LEMMA ReaderStepStray ==
  ASSUME TypeInv, AnswerInv, StrayInv, ReaderStep PROVE StrayInv'
<1>1. CASE FinishRead
  <2>1. ErrorWithoutId \in OutgoingMessages /\ ~IsResponse(ErrorWithoutId)
    BY DEF OutgoingMessages, IsResponse, ErrorWithoutId
  <2>2. ~InHand /\ ~InHand'
    BY <1>1 DEF FinishRead, InHand, TypeInv, DispatcherInv, DispatcherTypeOK
  <2>3. QED
    BY <1>1, <2>1, <2>2, StrayFrame DEF FinishRead, finishFrame, HandlersGoOn
<1>2. CASE \/ ReadLine \/ ReadEnds \/ ReadFails \/ DispatchFails \/ OnNotification
           \/ (OnResponse \/ ResolveSlot) /\ UNCHANGED incomingVars
  <2>1. ~InHand /\ ~InHand'
    BY <1>2 DEF ReadLine, ReadEnds, ReadFails, DispatchFails, OnNotification,
       OnResponse, ResolveSlot, Stops, NextPc, InHand, TypeInv, DispatcherInv,
       DispatcherTypeOK
  <2>2. UNCHANGED <<incomingVars, aborted, handlers, outbox>>
    BY <1>2 DEF ReadLine, ReadEnds, ReadFails, DispatchFails, OnNotification,
       readFrame, OnResponse, ResolveSlot, dispatcherFrame
  <2>3. QED
    BY <2>1, <2>2, StrayFrame DEF HandlersGoOn
<1>3. QED
  BY <1>1, <1>2, OnRequestStray, HandlerStep, InitFinishStray DEF ReaderStep

LEMMA TaskStepStray ==
  ASSUME TypeInv, AnswerInv, StrayInv, NEW n \in HandlerIds, TaskStep(n)
  PROVE  StrayInv'
<1>1. CASE TaskReturns(n) \/ TaskPanics(n) \/ TaskOutlivesSession(n)
  <2>1. /\ UNCHANGED <<incomingVars, aborted, dispatcher, outbox>> /\ HandlersGoOn
    BY <1>1 DEF TaskReturns, TaskPanics, TaskOutlivesSession, taskFrame,
       incomingVars, HandlersGoOn, TypeInv, HandlersInv, HandlersTypeOK
  <2>2. QED
    BY <2>1, StrayFrame
<1>2. QED
  BY <1>1, TaskFinishStray DEF TaskStep

LEMMA StrayStep == TypeInv /\ AnswerInv /\ StrayInv /\ [Next]_vars => StrayInv'
<1> SUFFICES ASSUME TypeInv, AnswerInv, StrayInv, [Next]_vars PROVE StrayInv'
  OBVIOUS
<1> USE DEF HandlersGoOn
<1>1. CASE UNCHANGED vars
  BY <1>1, StrayFrame DEF vars, taskVars
<1>2. ASSUME NEW w \in Waiters, WaiterStep(w) PROVE StrayInv'
  BY <1>2, StrayFrame DEF WaiterStep, WaitStart, WaitServer, WaitPop, WaitJoin,
     WaitReturn, WaitDropped, waitFrame, writerVars
<1>3. ASSUME NEW c \in Callers, CallerStep(c) PROVE StrayInv'
  <2>1. CASE RequestSent(c)
    <3>1. Request(callers[c].id) \in OutgoingMessages
          /\ ~IsResponse(Request(callers[c].id))
      <4>1. callers[c].id \in OutgoingIds
        BY <2>1, BoundsAssumption DEF RequestSent, InFlight, TypeInv, CallersInv,
           CallersTypeOK, OutgoingIds
      <4>2. QED
        BY <4>1 DEF Request, OutgoingMessages, IsResponse
    <3>2. QED
      BY <1>3, <2>1, <3>1, StrayFrame DEF CallerStep, RequestSent
  <2>2. CASE ~RequestSent(c)
    BY <1>3, <2>2, StrayFrame DEF CallerStep, RequestRefused,
       RequestRegistered, SerializeFails, PollSlot, RequestReturns,
       RequestDropped, taskVars
  <2>3. QED
    BY <2>1, <2>2
<1>4. CASE WriterStep
  BY <1>4, StrayFrame DEF WriterStep, FinishWrite, finishFrame, FetchMessages,
     WriteMessage, Flush, WriteFails, writerFrame
<1>5. CASE CancellerStep
  <2>1. CASE CallHook /\ UNCHANGED incomingVars
    <3>1. PICK m : m = Cancel(outgoing_cancellations[called + 1])
      OBVIOUS
    <3>2. m \in OutgoingMessages /\ ~IsResponse(m)
      <4>1. /\ outgoing_cancellations \in Seq(OutgoingIds)
            /\ called \in Nat /\ called < Len(outgoing_cancellations)
        BY <2>1, LenProperties DEF CallHook, TypeInv, CancellerInv,
           CancellationsTypeOK
      <4>2. outgoing_cancellations[called + 1] \in OutgoingIds
        BY <4>1, LenProperties
      <4>3. QED
        BY <3>1, <4>2 DEF Cancel, OutgoingMessages, IsResponse
    <3>3. /\ UNCHANGED outbox \/ Push(m)
          /\ UNCHANGED <<dispatcher, handlers, aborted>>
      BY <2>1, <3>1 DEF CallHook, cancellerFrame
    <3>4. QED
      BY <2>1, <3>2, <3>3, StrayFrame
  <2>2. CASE FetchCancellations /\ UNCHANGED incomingVars
    BY <2>2, StrayFrame DEF FetchCancellations, cancellerFrame
  <2>3. CASE FinishCancel
    BY <2>3, StrayFrame DEF FinishCancel, finishFrame
  <2>4. QED
    BY <1>5, <2>1, <2>2, <2>3 DEF CancellerStep
<1>6. CASE RuntimeStep
  <2>1. PICK t \in Tasks : Reap(t) /\ UNCHANGED <<outgoingVars, incomingVars>>
    BY <1>6 DEF RuntimeStep
  <2>2. HandlersGoOn
    BY <2>1 DEF Reap, TypeInv, HandlersInv, HandlersTypeOK
  <2>3. \/ ~InHand /\ ~InHand'
        \/ UNCHANGED dispatcher
    BY <2>1 DEF Reap, InHand, TypeInv, DispatcherInv, DispatcherTypeOK
  <2>4. UNCHANGED <<incomingVars, aborted, outbox>>
    BY <2>1 DEF Reap
  <2>5. QED
    BY <2>2, <2>3, <2>4, StrayFrame
<1>7. CASE ApplicationStep
  <2>1. CASE DropSession /\ ~ShutdownSession
    BY <2>1, StrayFrame DEF DropSession
  <2>2. CASE Notify
    BY <2>2, StrayFrame DEF Notify, OutgoingMessages, IsResponse, Notification
  <2>3. QED
    BY <1>7, <2>1, <2>2, ShutdownStray, CancelIncomingStray DEF ApplicationStep,
       Shutdown
<1>8. QED
  BY <1>1, <1>2, <1>3, <1>4, <1>5, <1>6, <1>7, TaskStepStray, ReaderStepStray
     DEF Next, Terminated

LEMMA TrackingCorrect == Spec => [](TypeInv /\ AnswerInv /\ StrayInv)
<1>1. Init => TypeInv /\ AnswerInv /\ StrayInv
  BY TypeInit, AnswerInit, StrayInit
<1>2. TypeInv /\ AnswerInv /\ StrayInv /\ [Next]_vars
        => TypeInv' /\ AnswerInv' /\ StrayInv'
  BY TypeStep, AnswerStep, StrayStep
<1>3. QED
  BY <1>1, <1>2, PTL DEF Spec

\* A response comes from the handler of another request only after the session
\* lost its hold of that or an earlier request with the same id: it was
\* cancelled, aborted by a shutdown, or disowned by a handler that failed after
\* handle_async. The table lookup in task_finish finds the wrong entry in no
\* other way.
THEOREM StaleAnswersExplained == Spec => []StaleAnswerNeedsLostHold
<1>1. StrayInv => StaleAnswerNeedsLostHold
  BY DEF StrayInv
<1>2. QED
  BY <1>1, TrackingCorrect, PTL

\* A running task is in the table, or aborted, or got away: its request was
\* cancelled, or its handler failed after handle_async, or the session lost its
\* hold of an earlier request with its id.
THEOREM TasksTracked == Spec => []TasksAreTracked
<1>1. StrayInv => TasksAreTracked
  BY DEF StrayInv
<1>2. QED
  BY <1>1, TrackingCorrect, PTL

\* The assertion of IncomingRequestState::init_finish never fails.
THEOREM InitFinishAssertHolds == Spec => []InitFinishAsserts
<1>1. StrayInv => InitFinishAsserts
  BY DEF StrayInv, RequestInHand, InitFinishAsserts
<1>2. QED
  BY <1>1, TrackingCorrect, PTL
=============================================================================
