----------------------------- MODULE DataProofs -----------------------------
(***************************************************************************)
(* Proofs about the data of a session: how lines are read, for lines of    *)
(* any length; how ids are looked up and compared, for numbers of any      *)
(* width; what errors show, for chains of servers of any length; and what  *)
(* the vector of aborted tasks holds, for any number of them.              *)
(***************************************************************************)
EXTENDS MessageReader, RequestIds, Errors, AbortingHandles,
        FiniteSetTheorems, FunctionTheorems, SequenceTheorems, TLAPS

-----------------------------------------------------------------------------
(* Induction and recursion on numbers                                      *)

\* Induction on a set of numbers, which the provers can instantiate: the map
\* from n to n + 1 would inject a finite set in itself less its 0.
LEMMA InductionOnSet ==
  ASSUME NEW S, 0 \in S, \A n \in Nat : n \in S => n + 1 \in S
  PROVE  Nat \subseteq S
<1> SUFFICES ASSUME NEW n \in Nat, n \notin S PROVE FALSE
  OBVIOUS
<1> DEFINE T == S \intersect (0..n)
           f == [x \in T |-> x + 1]
<1>1. IsFiniteSet(T)
  BY FS_Interval, FS_Subset, 0 \in Int, n \in Int
<1>2. f \in Injection(T, T \ {0})
  BY DEF Injection, IsInjective
<1>3. 0 \in T
  OBVIOUS
<1> HIDE DEF T
<1>4. IsFiniteSet(T \ {0}) /\ Cardinality(T \ {0}) = Cardinality(T) - 1
  BY <1>1, <1>3, FS_RemoveElement
<1>5. Cardinality(T) <= Cardinality(T \ {0})
  BY <1>2, <1>4, FS_Injection
<1> QED BY <1>1, <1>4, <1>5, FS_CardinalityType

\* The first n + 1 values of a function defined by recursion
Upto(S, first, step, n, g) ==
  /\ g \in [0..n -> S] /\ g[0] = first
  /\ \A i \in 0..(n - 1) : g[i + 1] = step[i][g[i]]

\* They exist for every n,
LEMMA UptoExists ==
  ASSUME NEW S, NEW first \in S, NEW step \in [Nat -> [S -> S]], NEW n \in Nat
  PROVE  \E g : Upto(S, first, step, n, g)
<1> DEFINE Defined == {m \in Nat : \E g : Upto(S, first, step, m, g)}
<1>1. 0 \in Defined
  <2>1. Upto(S, first, step, 0, [i \in 0..0 |-> first])
    BY DEF Upto
  <2> QED BY <2>1
<1>2. ASSUME NEW m \in Nat, m \in Defined PROVE m + 1 \in Defined
  <2>1. PICK g : Upto(S, first, step, m, g)
    BY <1>2
  <2> DEFINE h == [i \in 0..(m + 1) |->
                     IF i <= m THEN g[i] ELSE step[m][g[m]]]
  <2>2. /\ g \in [0..m -> S] /\ g[m] \in S /\ step[m][g[m]] \in S
        /\ g[0] = first
    BY <2>1 DEF Upto
  <2>3. h \in [0..(m + 1) -> S] /\ h[0] = first
    BY <2>2
  <2>4. ASSUME NEW i \in 0..m PROVE h[i + 1] = step[i][h[i]]
    <3>1. h[i] = g[i] /\ i \in Nat /\ i <= m
      OBVIOUS
    <3>2. CASE i < m
      <4>1. i \in 0..(m - 1) /\ i + 1 <= m /\ i + 1 \in 0..(m + 1)
        BY <3>1, <3>2
      <4>2. g[i + 1] = step[i][g[i]] /\ h[i + 1] = g[i + 1]
        BY <2>1, <4>1 DEF Upto
      <4> QED BY <3>1, <4>2
    <3>3. CASE i = m
      BY <3>1, <3>3
    <3> QED BY <3>1, <3>2, <3>3
  <2> HIDE DEF h
  <2>5. Upto(S, first, step, m + 1, h)
    <3>1. (m + 1) - 1 = m
      OBVIOUS
    <3> QED BY <2>3, <2>4, <3>1 DEF Upto
  <2> QED BY <2>5
<1> HIDE DEF Defined
<1>3. Nat \subseteq Defined
  BY <1>1, <1>2, InductionOnSet
<1> QED BY <1>3 DEF Defined

\* and no two choices of them disagree where both are defined.
LEMMA UptoUnique ==
  ASSUME NEW S, NEW first, NEW step, NEW n \in Nat, NEW k \in Nat, NEW l \in Nat,
         n <= k, n <= l, NEW g, NEW h,
         Upto(S, first, step, k, g), Upto(S, first, step, l, h)
  PROVE  g[n] = h[n]
<1> DEFINE Same == {m \in Nat : m <= n => g[m] = h[m]}
<1>1. 0 \in Same
  BY DEF Upto
<1>2. ASSUME NEW m \in Nat, m \in Same PROVE m + 1 \in Same
  <2> SUFFICES ASSUME m + 1 <= n PROVE g[m + 1] = h[m + 1]
    OBVIOUS
  <2>1. m \in 0..(k - 1) /\ m \in 0..(l - 1) /\ g[m] = h[m]
    BY <1>2
  <2> QED BY <2>1 DEF Upto
<1> HIDE DEF Same
<1>3. n \in Same
  BY <1>1, <1>2, InductionOnSet
<1> QED BY <1>3 DEF Same

\* f is defined by recursion
Recursive(f, first, step) ==
  f[0] = first /\ \A n \in Nat : f[n + 1] = step[n][f[n]]

\* A function defined by recursion from a value and a step exists: for every n
\* there is one up to n, and what it is at n does not depend on the choice.
LEMMA RecursionOnNat ==
  ASSUME NEW S, NEW first \in S, NEW step \in [Nat -> [S -> S]]
  PROVE  \E f \in [Nat -> S] : Recursive(f, first, step)
<1> DEFINE upto(n) == CHOOSE g : Upto(S, first, step, n, g)
           f == [n \in Nat |-> upto(n)[n]]
<1>1. ASSUME NEW n \in Nat PROVE Upto(S, first, step, n, upto(n))
  BY UptoExists
<1> HIDE DEF upto
<1>2. ASSUME NEW n \in Nat PROVE upto(n + 1)[n] = upto(n)[n]
  BY <1>1, UptoUnique, n + 1 \in Nat
<1>3. ASSUME NEW n \in Nat PROVE f[n] \in S
  BY <1>1 DEF Upto
<1>4. f[0] = first
  BY <1>1 DEF Upto
<1>5. ASSUME NEW n \in Nat PROVE f[n + 1] = step[n][f[n]]
  <2>1. Upto(S, first, step, n + 1, upto(n + 1)) /\ n \in 0..((n + 1) - 1)
    BY <1>1
  <2>2. upto(n + 1)[n + 1] = step[n][upto(n + 1)[n]]
    BY <2>1 DEF Upto
  <2> QED BY <1>2, <2>2
<1>6. f \in [Nat -> S]
  BY <1>3
<1> HIDE DEF f
<1> QED BY <1>4, <1>5, <1>6 DEF Recursive

\* The indexes of a vector that grew by one
LEMMA IntervalGrows ==
  ASSUME NEW n \in Nat PROVE 1..(n + 1) = 1..n \union {n + 1}
OBVIOUS
-----------------------------------------------------------------------------
(* MessageReader: how a line is read                                       *)

\* A message that is dispatched as a kind has the members of that kind, and one
\* that has them is dispatched as it. (into_variants)
LEMMA ConformsIffIntoVariants ==
  ASSUME NEW m \in Messages, WellFormed(m), Deserializes(m),
         NEW kind \in Dispatchable
  PROVE  Conforms(m, kind) <=> IntoVariants(m) = kind
<1> DEFINE real == m.has \ (m.null \intersect {"error"})
           p == Present(m)
<1>1. /\ m.has \subseteq Members /\ m.null \subseteq {"params", "result", "error"}
      /\ m.wrong = {} /\ "jsonrpc" \in m.has /\ m.version \in {"2.0", "other"}
  BY DEF Messages, Deserializes
<1>2. /\ \A x : x \in p <=> x \in real /\ x # "jsonrpc"
      /\ \A x : x \in real => x \in Members
      /\ "jsonrpc" \in real
  BY <1>1 DEF Present
<1>3. Conforms(m, kind) <=>
        /\ m.version = "2.0"
        /\ CASE kind = "Request"  -> /\ {"id", "method"} \subseteq real
                                     /\ "result" \notin real /\ "error" \notin real
             [] kind = "Notification" ->
                                     /\ "method" \in real /\ "id" \notin real
                                     /\ "result" \notin real /\ "error" \notin real
             [] kind = "Success"  -> real = {"jsonrpc", "id", "result"}
             [] kind = "Error"    -> real = {"jsonrpc", "id", "error"}
  BY <1>1, <1>2 DEF Conforms
<1> HIDE DEF real, p
<1>4. /\ {"id", "method"} \subseteq real /\ "result" \notin real /\ "error" \notin real
         <=> p \ {"params"} = {"id", "method"}
      /\ /\ "method" \in real /\ "id" \notin real
         /\ "result" \notin real /\ "error" \notin real
         <=> p \ {"params"} = {"method"}
      /\ real = {"jsonrpc", "id", "result"} <=> p = {"id", "result"}
      /\ real = {"jsonrpc", "id", "error"} <=> p = {"id", "error"}
  BY <1>2 DEF Members
<1>5. IntoVariants(m) =
        CASE m.version # "2.0" -> "Unsupported"
          [] m.version = "2.0" /\ p \ {"params"} = {"id", "method"} -> "Request"
          [] m.version = "2.0" /\ p = {"id", "result"}  -> "Success"
          [] m.version = "2.0" /\ p = {"id", "error"}   -> "Error"
          [] m.version = "2.0" /\ p = {"error"}         -> "ErrorWithoutId"
          [] m.version = "2.0" /\ p \ {"params"} = {"method"} -> "Notification"
          [] OTHER -> "Invalid"
  BY DEF IntoVariants, p
<1>6. CASE kind = "Request"
  BY <1>3, <1>4, <1>5, <1>6
<1>7. CASE kind = "Notification"
  BY <1>3, <1>4, <1>5, <1>7
<1>8. CASE kind = "Success"
  BY <1>3, <1>4, <1>5, <1>8
<1>9. CASE kind = "Error"
  BY <1>3, <1>4, <1>5, <1>9
<1> QED BY <1>6, <1>7, <1>8, <1>9 DEF Dispatchable

\* A message of the session's own is dispatched as the kind it was written as.
LEMMA OwnIntoVariants ==
  ASSUME NEW kind \in OwnKinds, NEW m \in OwnMessages(kind)
  PROVE  IntoVariants(m) = kind
<1>1. CASE kind = "Request"
  BY <1>1 DEF OwnMessages, FromRequest, Written, IntoVariants, Present, Params
<1>2. CASE kind = "Notification"
  BY <1>2 DEF OwnMessages, FromNotification, Written, IntoVariants, Present, Params
<1>3. CASE kind = "Success"
  BY <1>3 DEF OwnMessages, FromSuccess, Written, IntoVariants, Present, Params
<1>4. CASE kind = "Error"
  BY <1>4 DEF OwnMessages, FromError, Written, IntoVariants, Present
<1>5. CASE kind = "ErrorWithoutId"
  BY <1>5 DEF OwnMessages, FromError, Written, IntoVariants, Present
<1> QED BY <1>1, <1>2, <1>3, <1>4, <1>5 DEF OwnKinds, Dispatchable

\* A message of the session's own deserializes, null or not.
LEMMA OwnDeserialize ==
  ASSUME NEW kind \in OwnKinds, NEW m \in OwnMessages(kind)
  PROVE  Deserializes(m)
<1>1. \E members : \E null \in SUBSET {"params", "result"} : m = Written(members, null)
  <2>1. CASE kind = "Request"
    <3>1. PICK p : m = FromRequest(p)
      BY <2>1 DEF OwnMessages
    <3> QED BY <3>1 DEF FromRequest
  <2>2. CASE kind = "Notification"
    <3>1. PICK p : m = FromNotification(p)
      BY <2>2 DEF OwnMessages
    <3> QED BY <3>1 DEF FromNotification
  <2>3. CASE kind = "Success"
    <3>1. PICK r : m = FromSuccess(r)
      BY <2>3 DEF OwnMessages
    <3> QED BY <3>1 DEF FromSuccess
  <2>4. CASE kind \in {"Error", "ErrorWithoutId"}
    <3>1. PICK withId : m = FromError(withId)
      BY <2>4 DEF OwnMessages
    <3> QED BY <3>1 DEF FromError
  <2> QED BY <2>1, <2>2, <2>3, <2>4 DEF OwnKinds, Dispatchable
<1> QED BY <1>1 DEF Written, Deserializes
-----------------------------------------------------------------------------
\* The whole line deserializes.
Deserialized == \A i \in DOMAIN line : Deserializes(line[i])

\* What has been handed on is what the messages are; a line is only given up
\* for a message that does not deserialize, or at one that is none, or is the
\* peer's last.
ReaderInv ==
  /\ line \in LinesRead \union {<<>>}
  /\ handed \in Seq(Dispatchable)
  /\ handed # <<>> => Deserialized
  /\ Len(handed) <= Len(line)
  /\ \A i \in DOMAIN handed : handed[i] = IntoVariants(line[i])
  /\ outcome = "batch" => Deserialized /\ Len(handed) < Len(line)
  /\ outcome = "ParseError" /\ line # <<>> => ~Deserialized
  /\ outcome \in {"InvalidRequest", "PeerError"} =>
       /\ Deserialized /\ Len(handed) < Len(line)
       /\ IntoVariants(line[Len(handed) + 1]) \notin Dispatchable
       /\ IntoVariants(line[Len(handed) + 1]) = "ErrorWithoutId"
            <=> outcome = "PeerError"

\* A line that is read is a sequence of well-formed messages.
LEMMA LinesAreSequences ==
  ASSUME NEW l \in LinesRead \union {<<>>}
  PROVE  /\ l \in Seq(Messages) /\ Len(l) \in Nat /\ DOMAIN l = 1..Len(l)
         /\ \A i \in DOMAIN l : l[i] \in Messages /\ WellFormed(l[i])
<1>1. CASE l \in LinesRead
  <2>1. l \in Seq(Messages) /\ \A i \in DOMAIN l : WellFormed(l[i])
    BY <1>1, LinesReadAssumption
  <2> QED BY <2>1, LenProperties, ElementOfSeq
<1>2. CASE l = <<>>
  BY <1>2, EmptySeq, LenProperties
<1> QED BY <1>1, <1>2

\* It is inductive, for lines of any length and content.
THEOREM ReaderInvHolds == ReaderSpec => []ReaderInv
<1>1. ReaderInit => ReaderInv
  BY DEF ReaderInit, ReaderInv
<1>2. ReaderInv /\ [ReaderNext]_readerVars => ReaderInv'
  <2> SUFFICES ASSUME ReaderInv, [ReaderNext]_readerVars PROVE ReaderInv'
    OBVIOUS
  <2>1. CASE ReadLine
    <3>1. PICK l \in LinesRead : FromLine(l)
      BY <2>1 DEF ReadLine
    <3>2. /\ l \in Seq(Messages) /\ Len(l) \in Nat /\ DOMAIN l = 1..Len(l)
          /\ l # <<>> => 0 < Len(l)
      BY LinesAreSequences, LenProperties, EmptySeq
    <3>3. Len(handed') = 0 /\ handed' = <<>> /\ line' = l
      BY <3>1 DEF FromLine
    <3>4. outcome' = "batch" => l # <<>> /\ \A i \in DOMAIN l : Deserializes(l[i])
      BY <3>1 DEF FromLine
    <3>5. /\ outcome' \in {"ParseError", "reading", "batch"}
          /\ outcome' = "ParseError" => \E i \in DOMAIN l : ~Deserializes(l[i])
      BY <3>1 DEF FromLine
    <3> QED BY <3>2, <3>3, <3>4, <3>5 DEF ReaderInv, Deserialized
  <2>2. CASE ReadGarbage
    BY <2>2 DEF ReadGarbage, ReaderInv, Deserialized
  <2>3. CASE Dispatch
    <3> DEFINE n == Len(handed) + 1
    <3>1. PICK kind : kind = IntoVariants(line[n])
      OBVIOUS
    <3>2. /\ line' = line /\ Deserialized /\ Deserialized' /\ n \in Nat
          /\ n <= Len(line) /\ Len(line) \in Nat
      BY <2>3, LenProperties, LinesAreSequences
         DEF Dispatch, ReaderInv, Deserialized
    <3>3. CASE /\ kind \in Dispatchable /\ handed' = Append(handed, kind)
               /\ outcome' = IF Len(handed') = Len(line) THEN "reading" ELSE "batch"
      <4>1. /\ handed' \in Seq(Dispatchable) /\ Len(handed') = n
            /\ DOMAIN handed' = 1..n /\ handed'[n] = kind
            /\ \A i \in 1..Len(handed) : handed'[i] = handed[i]
            /\ DOMAIN handed = 1..Len(handed)
        BY <3>3, AppendProperties, LenProperties DEF ReaderInv
      <4>2. \A i \in DOMAIN handed' : handed'[i] = IntoVariants(line'[i])
        BY <4>1, <3>1, <3>2 DEF ReaderInv
      <4> QED BY <4>1, <4>2, <3>2, <3>3 DEF ReaderInv
    <3>4. CASE kind \in {"Invalid", "Unsupported"} /\ outcome' = "InvalidRequest"
               /\ UNCHANGED handed
      BY <3>1, <3>2, <3>4 DEF ReaderInv, Dispatchable
    <3>5. CASE kind = "ErrorWithoutId" /\ outcome' = "PeerError"
               /\ UNCHANGED handed
      <4>1. /\ IntoVariants(line'[Len(handed') + 1]) = "ErrorWithoutId"
            /\ "ErrorWithoutId" \notin Dispatchable
        BY <3>1, <3>2, <3>5 DEF Dispatchable
      <4> QED BY <4>1, <3>2, <3>5 DEF ReaderInv
    <3> QED BY <2>3, <3>1, <3>3, <3>4, <3>5 DEF Dispatch
  <2>4. CASE ReaderEnded \/ UNCHANGED readerVars
    BY <2>4 DEF ReaderEnded, readerVars, ReaderInv, Deserialized
  <2> QED BY <2>1, <2>2, <2>3, <2>4 DEF ReaderNext
<1> QED BY <1>1, <1>2, PTL DEF ReaderSpec

\* Lines of any length are dispatched in order up to the first message that is
\* none, or not at all. (from_line and dispatch_message, message.rs:152-232)
THEOREM LinesDispatchedInOrder == ReaderSpec => []DispatchedInOrder
<1>1. ReaderInv => DispatchedInOrder
  <2> SUFFICES ASSUME ReaderInv PROVE DispatchedInOrder
    OBVIOUS
  <2>1. \A i \in DOMAIN handed : i \in DOMAIN line /\ handed[i] \in Dispatchable
    BY LenProperties, LinesAreSequences, ElementOfSeq DEF ReaderInv
  <2>2. \A i \in DOMAIN handed : Conforms(line[i], handed[i])
    BY <2>1, ConformsIffIntoVariants, LinesAreSequences DEF ReaderInv, Deserialized
  <2>3. ASSUME outcome \in {"InvalidRequest", "PeerError"}, NEW kind \in Dispatchable
        PROVE  ~Conforms(line[Len(handed) + 1], kind)
    <3>1. Len(handed) + 1 \in DOMAIN line
      BY <2>3, LenProperties, LinesAreSequences DEF ReaderInv
    <3> QED BY <2>3, <3>1, ConformsIffIntoVariants, LinesAreSequences
            DEF ReaderInv, Deserialized
  <2> QED BY <2>2, <2>3 DEF DispatchedInOrder, ReaderInv, Deserialized
<1> QED BY <1>1, ReaderInvHolds, PTL

\* A line of any length that a session wrote is never refused, and in any line
\* what a session writes is dispatched as what it was written as, and ends
\* nothing but what an error without id must. (MessageData, message.rs:236-312,
\* against from_line and into_variants)
THEOREM OwnMessagesAreUnderstood == ReaderSpec => []OwnMessagesUnderstood
<1>1. ReaderInv => OwnMessagesUnderstood
  <2> SUFFICES ASSUME ReaderInv PROVE OwnMessagesUnderstood
    OBVIOUS
  <2>1. ASSUME NEW kind \in OwnKinds, NEW i \in DOMAIN line, line[i] \in OwnMessages(kind)
        PROVE  /\ i \in DOMAIN handed => handed[i] = kind
               /\ i = Len(handed) + 1 /\ outcome \in {"InvalidRequest", "PeerError"}
                    => kind = "ErrorWithoutId" /\ outcome = "PeerError"
    <3>1. IntoVariants(line[i]) = kind
      BY <2>1, OwnIntoVariants
    <3> QED BY <2>1, <3>1 DEF ReaderInv, OwnKinds
  <2>2. ASSUME line # <<>>,
               \A i \in DOMAIN line : \E kind \in OwnKinds : line[i] \in OwnMessages(kind)
        PROVE  outcome \notin {"ParseError", "InvalidRequest"}
    <3>1. \A i \in DOMAIN line : Deserializes(line[i]) /\ IntoVariants(line[i]) \in OwnKinds
      BY <2>2, OwnDeserialize, OwnIntoVariants
    <3>2. outcome # "ParseError"
      BY <2>2, <3>1 DEF ReaderInv, Deserialized
    <3>3. CASE outcome = "InvalidRequest"
      <4>1. Len(handed) + 1 \in DOMAIN line
        BY <3>3, LenProperties, LinesAreSequences DEF ReaderInv
      <4>2. IntoVariants(line[Len(handed) + 1]) \notin OwnKinds
        BY <3>3 DEF ReaderInv, OwnKinds
      <4> QED BY <3>1, <4>1, <4>2
    <3> QED BY <3>2, <3>3
  <2> QED BY <2>1, <2>2 DEF OwnMessagesUnderstood
<1> QED BY <1>1, ReaderInvHolds, PTL
-----------------------------------------------------------------------------
(* RequestIds: powers of 2                                                             *)

\* The recursive function Pow2 has a value at every n.
LEMMA Pow2Recursive ==
  /\ Pow2[0] = 1 /\ \A n \in Nat : Pow2[n + 1] = 2 * Pow2[n]
<1>1. PICK step \in [Nat -> [Nat -> Nat]] : \A n, m \in Nat : step[n][m] = 2 * m
  <2> DEFINE step == [n \in Nat |-> [m \in Nat |-> 2 * m]]
  <2>1. step \in [Nat -> [Nat -> Nat]] /\ \A n, m \in Nat : step[n][m] = 2 * m
    OBVIOUS
  <2> QED BY <2>1
<1>2. PICK f \in [Nat -> Nat] : Recursive(f, 1, step)
  BY RecursionOnNat, 1 \in Nat
<1>3. f = [n \in Nat |-> IF n = 0 THEN 1 ELSE 2 * f[n - 1]]
  <2>1. ASSUME NEW n \in Nat, n # 0 PROVE f[n] = 2 * f[n - 1]
    <3>1. n - 1 \in Nat /\ (n - 1) + 1 = n
      BY <2>1
    <3> QED BY <1>1, <1>2, <3>1 DEF Recursive
  <2> QED BY <1>2, <2>1 DEF Recursive
<1>4. Pow2 = [n \in Nat |-> IF n = 0 THEN 1 ELSE 2 * Pow2[n - 1]]
  BY <1>3 DEF Pow2
<1>5. Pow2[0] = 1
  BY <1>4
<1>6. ASSUME NEW n \in Nat PROVE Pow2[n + 1] = 2 * Pow2[n]
  <2>1. n + 1 \in Nat /\ n + 1 # 0 /\ (n + 1) - 1 = n
    OBVIOUS
  <2> QED BY <1>4, <2>1
<1> QED BY <1>5, <1>6

\* What the other lemmas use of it
LEMMA Pow2Facts ==
  /\ \A n \in Nat : Pow2[n] \in Nat
  /\ Pow2[0] = 1 /\ \A n \in Nat : Pow2[n + 1] = 2 * Pow2[n]
<1> DEFINE Typed == {n \in Nat : Pow2[n] \in Nat}
<1>1. 0 \in Typed
  BY Pow2Recursive
<1>2. ASSUME NEW n \in Nat, n \in Typed PROVE n + 1 \in Typed
  BY <1>2, Pow2Recursive
<1> HIDE DEF Typed
<1>3. Nat \subseteq Typed
  BY <1>1, <1>2, InductionOnSet
<1> QED BY <1>3, Pow2Recursive DEF Typed

\* 2^(a + b) = 2^a * 2^b
LEMMA Pow2Adds ==
  ASSUME NEW a \in Nat, NEW b \in Nat
  PROVE  Pow2[a + b] = Pow2[a] * Pow2[b]
<1> DEFINE Adds == {n \in Nat : Pow2[a + n] = Pow2[a] * Pow2[n]}
<1>1. 0 \in Adds
  BY Pow2Facts
<1>2. ASSUME NEW n \in Nat, n \in Adds PROVE n + 1 \in Adds
  <2>1. /\ Pow2[(a + n) + 1] = 2 * Pow2[a + n] /\ Pow2[n + 1] = 2 * Pow2[n]
        /\ a + (n + 1) = (a + n) + 1
        /\ Pow2[a] \in Nat /\ Pow2[n] \in Nat
    BY Pow2Facts
  <2>2. Pow2[a + n] = Pow2[a] * Pow2[n]
    BY <1>2
  <2>3. 2 * (Pow2[a] * Pow2[n]) = Pow2[a] * (2 * Pow2[n])
    BY <2>1
  <2> QED BY <2>1, <2>2, <2>3
<1> HIDE DEF Adds
<1>3. b \in Adds
  BY <1>1, <1>2, InductionOnSet
<1> QED BY <1>3 DEF Adds

\* A greater exponent gives a greater power.
LEMMA Pow2Grows ==
  ASSUME NEW a \in Nat, NEW b \in Nat, a < b
  PROVE  0 < Pow2[a] /\ Pow2[a] < Pow2[b]
<1> DEFINE Positive == {n \in Nat : 0 < Pow2[n]}
           Above == {n \in Nat : Pow2[a] < Pow2[a + 1 + n]}
<1>1. 0 \in Positive
  BY Pow2Facts
<1>2. ASSUME NEW n \in Nat, n \in Positive PROVE n + 1 \in Positive
  BY <1>2, Pow2Facts
<1> HIDE DEF Positive
<1>3. \A n \in Nat : 0 < Pow2[n] /\ Pow2[n] \in Nat
  <2>1. Nat \subseteq Positive
    BY <1>1, <1>2, InductionOnSet
  <2> QED BY <2>1, Pow2Facts DEF Positive
<1>4. 0 \in Above
  BY <1>3, Pow2Facts
<1>5. ASSUME NEW n \in Nat, n \in Above PROVE n + 1 \in Above
  <2>1. Pow2[(a + 1 + n) + 1] = 2 * Pow2[a + 1 + n] /\ (a + 1 + n) + 1 = a + 1 + (n + 1)
    BY Pow2Facts
  <2>2. Pow2[a] < Pow2[a + 1 + n] /\ 0 < Pow2[a + 1 + n] /\ Pow2[a + 1 + n] \in Nat
        /\ Pow2[a] \in Nat
    BY <1>3, <1>5
  <2> QED BY <2>1, <2>2
<1> HIDE DEF Above
<1>6. b - (a + 1) \in Above /\ a + 1 + (b - (a + 1)) = b
  BY <1>4, <1>5, InductionOnSet
<1> QED BY <1>3, <1>6 DEF Above
-----------------------------------------------------------------------------
(* f64 values                                                              *)

\* The limits of a double, a u64 and a u128, in their order
LEMMA Widths ==
  /\ MAX_SAFE_INTEGER \in Nat /\ U64_MAX \in Nat
  /\ MAX_SAFE_INTEGER < U64_MAX
  /\ Pow2[U64Bits] = U64_MAX + 1 /\ 2 * Pow2[U64Bits - 1] = U64_MAX + 1
  /\ Pow2[U128Bits] \in Nat
<1>1. /\ F64Bits \in Nat /\ U64Bits \in Nat /\ U128Bits \in Nat /\ F64Bits < U64Bits
      /\ U64Bits - 1 \in Nat /\ (U64Bits - 1) + 1 = U64Bits
  BY BitsAssumption
<1>2. /\ Pow2[F64Bits] \in Nat /\ Pow2[U64Bits] \in Nat /\ Pow2[U128Bits] \in Nat
      /\ 0 < Pow2[F64Bits] /\ Pow2[F64Bits] < Pow2[U64Bits]
      /\ Pow2[U64Bits] = 2 * Pow2[U64Bits - 1]
  BY <1>1, Pow2Facts, Pow2Grows
<1> QED BY <1>2 DEF MAX_SAFE_INTEGER, U64_MAX

\* Doubles are counted in halves.
LEMMA DoublesType == Doubles \subseteq Int
<1> DEFINE scaled == {m * Pow2[e] : m \in 0..MAX_SAFE_INTEGER,
                                   e \in 0..(U64Bits + 3 - F64Bits)}
<1>1. ASSUME NEW m \in 0..MAX_SAFE_INTEGER, NEW e \in 0..(U64Bits + 3 - F64Bits)
      PROVE  m * Pow2[e] \in Int
  <2>1. m \in Int /\ e \in Nat /\ Pow2[e] \in Int
    BY Widths, BitsAssumption, Pow2Facts
  <2> QED BY <2>1
<1>2. scaled \subseteq Int
  BY <1>1
<1>3. Doubles = scaled \union {-d : d \in scaled}
  BY DEF Doubles
<1> HIDE DEF scaled
<1>4. \A d \in scaled : -d \in Int
  BY <1>2
<1> QED BY <1>2, <1>3, <1>4

\* A significand with an exponent is a double.
LEMMA ScaledAreDoubles ==
  ASSUME NEW m \in 0..MAX_SAFE_INTEGER, NEW e \in 0..(U64Bits + 3 - F64Bits)
  PROVE  m * Pow2[e] \in Doubles
  BY DEF Doubles

\* Numbers as far as MAX_SAFE_INTEGER are doubles, and so are 2^64 and -2^63.
LEMMA SafeIntegersAreDoubles ==
  /\ \A n \in 0..MAX_SAFE_INTEGER : 2 * n \in Doubles
  /\ 2 * (U64_MAX + 1) \in Doubles
  /\ -(U64_MAX + 1) \in Doubles
<1>1. ASSUME NEW n \in 0..MAX_SAFE_INTEGER PROVE 2 * n \in Doubles
  <2>1. Pow2[1] = 2 /\ 1 \in 0..(U64Bits + 3 - F64Bits) /\ n \in Nat
    <3>1. 0 + 1 = 1 /\ 0 \in Nat
      OBVIOUS
    <3> QED BY <3>1, Pow2Facts, BitsAssumption, Widths
  <2>2. n * Pow2[1] \in Doubles
    BY <2>1, ScaledAreDoubles
  <2> QED BY <2>1, <2>2
<1>2. 2 * (U64_MAX + 1) \in Doubles
  <2> DEFINE a == F64Bits - 1
             b == U64Bits + 2 - F64Bits
  <2>1. /\ a \in Nat /\ b \in 0..(U64Bits + 3 - F64Bits) /\ b \in Nat
        /\ a + 1 = F64Bits /\ a + b = U64Bits + 1 /\ U64Bits \in Nat
    BY BitsAssumption
  <2> HIDE DEF a, b
  <2>2. Pow2[a] * Pow2[b] = 2 * Pow2[U64Bits]
    BY <2>1, Pow2Adds, Pow2Facts
  <2>3. Pow2[a] \in 0..MAX_SAFE_INTEGER
    <3>1. /\ Pow2[F64Bits] = 2 * Pow2[a] /\ Pow2[a] \in Nat
          /\ 0 < Pow2[a]
      <4>1. a < a + 1 /\ a + 1 \in Nat
        BY <2>1
      <4> QED BY <2>1, <4>1, Pow2Facts, Pow2Grows
    <3> QED BY <3>1 DEF MAX_SAFE_INTEGER
  <2>4. Pow2[a] * Pow2[b] \in Doubles
    BY <2>1, <2>3, ScaledAreDoubles
  <2> QED BY <2>2, <2>4, Widths
<1>3. -(U64_MAX + 1) \in Doubles
  <2> DEFINE a == F64Bits - 1
             b == U64Bits + 1 - F64Bits
  <2>1. /\ a \in Nat /\ b \in 0..(U64Bits + 3 - F64Bits) /\ b \in Nat
        /\ a + 1 = F64Bits /\ a + b = U64Bits
    BY BitsAssumption
  <2> HIDE DEF a, b
  <2>2. Pow2[a] * Pow2[b] = U64_MAX + 1
    BY <2>1, Pow2Adds, Widths
  <2>3. Pow2[a] \in 0..MAX_SAFE_INTEGER
    <3>1. /\ Pow2[F64Bits] = 2 * Pow2[a] /\ Pow2[a] \in Nat
          /\ 0 < Pow2[a]
      <4>1. a < a + 1 /\ a + 1 \in Nat
        BY <2>1
      <4> QED BY <2>1, <4>1, Pow2Facts, Pow2Grows
    <3> QED BY <3>1 DEF MAX_SAFE_INTEGER
  <2>4. -(Pow2[a] * Pow2[b]) \in Doubles
    BY <2>1, <2>3 DEF Doubles
  <2> QED BY <2>2, <2>4
<1> QED BY <1>1, <1>2, <1>3

\* A double is rounded to itself.
LEMMA NearestOfDouble ==
  ASSUME NEW h \in Doubles
  PROVE  Nearest(h) = {h}
  BY DEF Nearest

\* A number from 2^64 on is not rounded to one below it.
LEMMA NearestStaysAbove ==
  ASSUME NEW h \in Int, 2 * (U64_MAX + 1) <= h, NEW d \in Nearest(h)
  PROVE  d \in Int /\ 2 * (U64_MAX + 1) <= d
<1>1. CASE h \in Doubles
  BY <1>1, NearestOfDouble
<1>2. CASE h \notin Doubles
  <2> DEFINE e == 2 * (U64_MAX + 1)
  <2>1. e \in Doubles /\ e \in Int /\ e < h
    BY <1>2, SafeIntegersAreDoubles, Widths
  <2>2. d \in Doubles /\ d \in Int /\ ~(d < e /\ e < h)
    BY <1>2, <2>1, DoublesType DEF Nearest
  <2> QED BY <2>1, <2>2
<1> QED BY <1>1, <1>2
\* A number from -2^63 down is not rounded to one above it.
LEMMA NearestStaysBelow ==
  ASSUME NEW h \in Int, h <= -(U64_MAX + 1), NEW d \in Nearest(h)
  PROVE  d \in Int /\ d <= -(U64_MAX + 1)
<1>1. CASE h \in Doubles
  BY <1>1, NearestOfDouble
<1>2. CASE h \notin Doubles
  <2> DEFINE e == -(U64_MAX + 1)
  <2>1. e \in Doubles /\ e \in Int /\ h < e
    BY <1>2, SafeIntegersAreDoubles, Widths
  <2>2. d \in Doubles /\ d \in Int /\ ~(h < e /\ e < d)
    BY <1>2, <2>1, DoublesType DEF Nearest
  <2> QED BY <2>1, <2>2
<1> QED BY <1>1, <1>2
-----------------------------------------------------------------------------
(* Literals there are, and what they are taken for                         *)

Forms == {"integer", "decimal", "rounded"} \union StringForms

\* A literal a peer can write, of its own or as an echo of an id of ours
Plausible(l) ==
  \E form \in Forms, h \in Int :
    /\ l = Literal(form, h)
    /\ form \in {"integer", "digits", "padded"} => Integral(h)
    /\ form \in {"decimal", "rounded"} => h \in Doubles

\* A whole number, in halves
LEMMA IntegralDoubled ==
  ASSUME NEW n \in Int
  PROVE  2 * n \in Int /\ Integral(2 * n) /\ (2 * n) \div 2 = n
  BY DEF Integral

\* Every literal of PeerLiterals is one.
LEMMA PeerLiteralsPlausible == \A l \in PeerLiterals : Plausible(l)
<1>1. ASSUME NEW n \in (0 - Pow2[U64Bits - 1] - 3)..(U64_MAX + 3)
      PROVE  Plausible(Literal("integer", 2 * n))
  <2>1. U64Bits - 1 \in Nat /\ Pow2[U64Bits - 1] \in Nat
    BY Pow2Facts, BitsAssumption
  <2>2. n \in Int
    BY <2>1, Widths
  <2> QED BY <2>2, IntegralDoubled DEF Plausible, Forms
<1>2. ASSUME NEW f \in {"decimal", "rounded"}, NEW d \in Doubles
      PROVE  Plausible(Literal(f, d))
  BY DoublesType DEF Plausible, Forms, StringForms
<1>3. ASSUME NEW f \in {"digits", "padded"}, NEW n \in OutgoingIds
      PROVE  Plausible(Literal(f, 2 * n))
  <2>1. n \in Int
    BY Widths DEF OutgoingIds
  <2> QED BY <2>1, IntegralDoubled DEF Plausible, Forms, StringForms
<1>4. Plausible(None)
  BY DEF Plausible, None, Forms, StringForms
<1> QED BY <1>1, <1>2, <1>3, <1>4 DEF PeerLiterals

\* An id of ours comes back as it was, as a double that it is, or with a point
\* as a number serde_json rounds.
LEMMA EchoesPlausible ==
  ASSUME NEW n \in OutgoingIds, NEW l \in Echoes(FromOutgoing(n))
  PROVE  /\ Plausible(l)
         /\ l.form # "rounded" =>
              /\ l.halves = 2 * n
              /\ \/ l.form \in {"integer", "decimal"} /\ n < MAX_SAFE_INTEGER
                 \/ l.form = "digits"
<1>1. n \in Nat /\ Integral(2 * n) /\ 2 * n \in Int
  BY Widths, IntegralDoubled DEF OutgoingIds
<1>2. CASE n < MAX_SAFE_INTEGER
  <2>1. 2 * n \in Doubles
    BY <1>1, <1>2, SafeIntegersAreDoubles, Widths
  <2>2. FromOutgoing(n) = Literal("integer", 2 * n)
    BY <1>2 DEF FromOutgoing
  <2>3. l = Literal("integer", 2 * n) \/ l \in Pointed(2 * n)
    BY <2>1, <2>2, NearestOfDouble DEF Echoes, Literal
  <2>4. CASE l = Literal("integer", 2 * n)
    BY <1>1, <1>2, <2>4 DEF Plausible, Literal, Forms
  <2>5. CASE l \in Pointed(2 * n)
    <3>1. \/ l = Literal("decimal", 2 * n)
          \/ \E e \in Doubles : l = Literal("rounded", e)
      BY <2>5 DEF Pointed
    <3> QED BY <1>1, <1>2, <2>1, <3>1, DoublesType DEF Plausible, Literal, Forms
  <2> QED BY <2>3, <2>4, <2>5
<1>3. CASE ~(n < MAX_SAFE_INTEGER)
  <2>1. l = Literal("digits", 2 * n)
    BY <1>3 DEF FromOutgoing, Echoes, Literal
  <2> QED BY <1>1, <2>1 DEF Plausible, Literal, Forms, StringForms
<1> QED BY <1>2, <1>3

\* A literal has a form and a number.
LEMMA PlausibleForm ==
  ASSUME NEW l, Plausible(l)
  PROVE  l.form \in Forms /\ l.halves \in Int
  BY DEF Plausible, Literal

\* What a literal is taken for: what it is, or a double beyond u64 and i64.
LEMMA ParsedPlausible ==
  ASSUME NEW l, Plausible(l), NEW id \in Parse(l)
  PROVE  /\ l.halves \in Int /\ id.halves \in Int
         /\ id = RawRequestId(id.kind, id.halves)
         /\ \/ /\ l.form \in StringForms /\ id = RawRequestId(l.form, l.halves)
               /\ l.form \in {"digits", "padded"} => Integral(l.halves)
            \/ /\ l.form = "integer" /\ 0 <= l.halves /\ l.halves <= 2 * U64_MAX
               /\ Integral(l.halves) /\ id = RawRequestId("U64", l.halves)
            \/ /\ l.form = "integer" /\ l.halves < 0
               /\ Integral(l.halves) /\ id = RawRequestId("I64", l.halves)
            \/ /\ l.form = "integer" /\ 2 * (U64_MAX + 1) <= l.halves
               /\ id.kind = "F64" /\ 2 * (U64_MAX + 1) <= id.halves
            \/ /\ l.form = "integer" /\ l.halves <= -(U64_MAX + 1)
               /\ id.kind = "F64" /\ id.halves <= -(U64_MAX + 1)
            \/ l.form \in {"decimal", "rounded"} /\ id = RawRequestId("F64", l.halves)
<1>1. PICK form \in Forms, h \in Int :
        /\ l = Literal(form, h)
        /\ form \in {"integer", "digits", "padded"} => Integral(h)
        /\ form \in {"decimal", "rounded"} => h \in Doubles
  BY DEF Plausible
<1>2. l.form = form /\ l.halves = h
  BY <1>1 DEF Literal
<1>3. CASE form \in StringForms
  <2>1. id = RawRequestId(form, h)
    BY <1>2, <1>3 DEF Parse, StringForms
  <2> QED BY <1>1, <1>2, <1>3, <2>1 DEF RawRequestId
<1>4. CASE form = "integer" /\ 0 <= h /\ h <= 2 * U64_MAX
  <2>1. id = RawRequestId("U64", h)
    BY <1>2, <1>4 DEF Parse, StringForms
  <2> QED BY <1>1, <1>2, <1>4, <2>1 DEF RawRequestId
<1>5. CASE form = "integer" /\ h < 0 /\ -(U64_MAX + 1) <= h
  <2>1. -Pow2[U64Bits] <= h
    BY <1>1, <1>5, Widths
  <2>2. id = RawRequestId("I64", h)
    BY <1>2, <1>5, <2>1, Widths DEF Parse, StringForms
  <2> QED BY <1>1, <1>2, <1>5, <2>2 DEF RawRequestId
<1>6. CASE form = "integer" /\ 2 * U64_MAX < h
  <2>1. 2 * (U64_MAX + 1) <= h
    BY <1>1, <1>6, Widths DEF Integral
  <2>2. PICK d \in Nearest(h) : id = RawRequestId("F64", d)
    BY <1>2, <1>6, Widths DEF Parse, StringForms
  <2>3. d \in Int /\ 2 * (U64_MAX + 1) <= d
    BY <2>1, NearestStaysAbove
  <2> QED BY <1>1, <1>2, <1>6, <2>1, <2>2, <2>3 DEF RawRequestId
<1>7. CASE form = "integer" /\ h < -(U64_MAX + 1)
  <2>1. ~(0 <= h) /\ ~(-Pow2[U64Bits] <= h)
    BY <1>7, Widths
  <2>2. PICK d \in Nearest(h) : id = RawRequestId("F64", d)
    BY <1>2, <1>7, <2>1 DEF Parse, StringForms
  <2>3. d \in Int /\ d <= -(U64_MAX + 1)
    BY <1>7, Widths, NearestStaysBelow
  <2> QED BY <1>1, <1>2, <1>7, <2>2, <2>3, Widths DEF RawRequestId
<1>8. CASE form \in {"decimal", "rounded"}
  <2>1. id \in {RawRequestId("F64", d) : d \in Nearest(h)}
    BY <1>2, <1>8 DEF Parse, StringForms
  <2>2. id = RawRequestId("F64", h)
    BY <1>1, <1>8, <2>1, NearestOfDouble
  <2> QED BY <1>1, <1>2, <1>8, <2>2 DEF RawRequestId
<1> QED BY <1>1, <1>3, <1>4, <1>5, <1>6, <1>7, <1>8, Widths DEF Forms
-----------------------------------------------------------------------------
\* What is known of the ids at each point: where the literal comes from, and
\* that the look-up and the comparison were of what it was taken for
IdsInv ==
  /\ pc \in {"idle", "response", "looked up", "pending", "compared"}
  /\ pc \in {"response", "looked up"} =>
       \/ made = {} /\ wire \in PeerLiterals
       \/ \E n \in OutgoingIds : made = {n} /\ wire \in Echoes(FromOutgoing(n))
  /\ pc = "looked up" => \E id \in Parse(wire) : found = TryFrom(id)
  /\ pc \in {"pending", "compared"} =>
       filed.literal \in PeerLiterals /\ filed.id \in Parse(filed.literal)
  /\ pc = "compared" =>
       /\ wire \in PeerLiterals
       /\ \E id \in Parse(wire) : same = (Key(id) = Key(filed.id))

\* It is inductive: every step of a response or of two requests keeps it.
THEOREM IdsInvHolds == IdsSpec => []IdsInv
<1>1. IdsInit => IdsInv
  BY DEF IdsInit, IdsInv
<1>2. IdsInv /\ [IdsNext]_idVars => IdsInv'
  <2> SUFFICES ASSUME IdsInv, [IdsNext]_idVars PROVE IdsInv'
    OBVIOUS
  <2>1. CASE PeerResponds
    BY <2>1 DEF PeerResponds, IdsInv
  <2>2. CASE OnResponse
    BY <2>2 DEF OnResponse, IdsInv
  <2>3. CASE OnRequest
    BY <2>3 DEF OnRequest, IdsInv
  <2>4. CASE OnSecond
    BY <2>4 DEF OnSecond, IdsInv
  <2>5. CASE IdsCompared \/ UNCHANGED idVars
    BY <2>5 DEF IdsCompared, idVars, IdsInv
  <2> QED BY <2>1, <2>2, <2>3, <2>4, <2>5 DEF IdsNext
<1> QED BY <1>1, <1>2, PTL DEF IdsSpec

\* What is looked up for a literal
LEMMA LookedUp ==
  ASSUME NEW l, Plausible(l), NEW id \in Parse(l)
  PROVE  /\ \A n \in TryFrom(id) : n \in Int /\ l.halves = 2 * n
         /\ l.form = "rounded" => \A n \in TryFrom(id) : n <= MAX_SAFE_INTEGER
         /\ l.form = "digits" => TryFrom(id) # {}
         /\ l.form \in {"integer", "decimal"} /\ Integral(l.halves) /\ 0 <= l.halves
            /\ l.halves <= 2 * MAX_SAFE_INTEGER => TryFrom(id) # {}
<1>1. \A h \in Int : h \div 2 \in Int /\ (Integral(h) => h = 2 * (h \div 2))
  BY DEF Integral
<1>2. /\ l.halves \in Int /\ id.halves \in Int
      /\ MAX_SAFE_INTEGER \in Int /\ U64_MAX \in Int /\ MAX_SAFE_INTEGER < U64_MAX
      /\ 0 <= U64_MAX
  BY ParsedPlausible, Widths
<1>3. CASE /\ l.form \in StringForms /\ id = RawRequestId(l.form, l.halves)
           /\ l.form \in {"digits", "padded"} => Integral(l.halves)
  BY <1>1, <1>2, <1>3 DEF TryFrom, RawRequestId, StringForms
<1>4. CASE /\ l.form = "integer" /\ 0 <= l.halves /\ l.halves <= 2 * U64_MAX
           /\ Integral(l.halves) /\ id = RawRequestId("U64", l.halves)
  BY <1>1, <1>2, <1>4 DEF TryFrom, RawRequestId
<1>5. CASE /\ l.form = "integer" /\ l.halves < 0
           /\ Integral(l.halves) /\ id = RawRequestId("I64", l.halves)
  BY <1>1, <1>2, <1>5 DEF TryFrom, RawRequestId
<1>6. CASE /\ l.form = "integer" /\ 2 * (U64_MAX + 1) <= l.halves
           /\ id.kind = "F64" /\ 2 * (U64_MAX + 1) <= id.halves
  BY <1>1, <1>2, <1>6 DEF TryFrom
<1>7. CASE /\ l.form = "integer" /\ l.halves <= -(U64_MAX + 1)
           /\ id.kind = "F64" /\ id.halves <= -(U64_MAX + 1)
  BY <1>1, <1>2, <1>7 DEF TryFrom
<1>8. CASE l.form \in {"decimal", "rounded"} /\ id = RawRequestId("F64", l.halves)
  BY <1>1, <1>2, <1>8 DEF TryFrom, RawRequestId
<1> QED BY <1>3, <1>4, <1>5, <1>6, <1>7, <1>8, ParsedPlausible

\* A response carries a literal as above.
LEMMA WirePlausible ==
  ASSUME IdsInv, pc \in {"response", "looked up"}
  PROVE  Plausible(wire)
  BY PeerLiteralsPlausible, EchoesPlausible DEF IdsInv

\* With any widths: an id that is looked up is the number the peer wrote, or
\* what its number with a point is read as, which is then a safe integer.
\* (TryFrom<&RequestId>, message.rs:73-99)
THEOREM NoOthersCallHolds == IdsSpec => []NoOthersCall
<1>1. IdsInv => NoOthersCall
  BY WirePlausible, LookedUp DEF IdsInv, NoOthersCall
<1> QED BY <1>1, IdsInvHolds, PTL

\* An echo of id n is looked up as n, if serde_json reads it as what it is.
LEMMA EchoLookedUp ==
  ASSUME NEW n \in OutgoingIds, NEW l \in Echoes(FromOutgoing(n)), NEW id \in Parse(l),
         l.form # "rounded"
  PROVE  TryFrom(id) = {n}
<1>1. /\ Plausible(l) /\ l.halves = 2 * n
      /\ \/ l.form \in {"integer", "decimal"} /\ n < MAX_SAFE_INTEGER
         \/ l.form = "digits"
  BY EchoesPlausible
<1>2. n \in Nat /\ MAX_SAFE_INTEGER \in Nat
  BY Widths DEF OutgoingIds
<1>3. TryFrom(id) # {}
  <2>1. CASE l.form = "digits"
    BY <1>1, <2>1, LookedUp
  <2>2. CASE l.form \in {"integer", "decimal"} /\ n < MAX_SAFE_INTEGER
    <3>1. Integral(l.halves) /\ 0 <= l.halves /\ l.halves <= 2 * MAX_SAFE_INTEGER
      BY <1>1, <1>2, <2>2, IntegralDoubled
    <3> QED BY <1>1, <2>2, <3>1, LookedUp
  <2> QED BY <1>1, <2>1, <2>2
<1>4. \A k \in TryFrom(id) : k \in Int /\ 2 * n = 2 * k
  BY <1>1, LookedUp
<1>5. \A k \in TryFrom(id) : k = n
  BY <1>2, <1>4
<1> QED BY <1>3, <1>5

\* With any widths: an id of ours that a peer kept as a double, or spelled in
\* another way that serde_json reads exactly, is looked up as itself.
\* (MAX_SAFE_INTEGER, message.rs:60-69)
THEOREM AnswersFindTheirCallHolds == IdsSpec => []AnswersFindTheirCall
<1>1. IdsInv => AnswersFindTheirCall
  BY EchoLookedUp DEF IdsInv, AnswersFindTheirCall
<1> QED BY <1>1, IdsInvHolds, PTL

\* The key of what a literal is taken for, between -2^63 and 2^64 - 1
LEMMA KeyBelowEdge ==
  ASSUME NEW l, Plausible(l), NEW id \in Parse(l)
  PROVE  /\ Key(id).halves \in Int
         /\ l.form \in StringForms => Key(id) = RawRequestId(l.form, l.halves)
         /\ l.form \notin StringForms /\ 2 * U64_MAX <= l.halves =>
              /\ Key(id).kind \in {"U64", "F64"} /\ Key(id).halves >= 2 * U64_MAX
         /\ l.form \notin StringForms /\ 0 <= l.halves /\ l.halves < 2 * U64_MAX =>
              Key(id) = RawRequestId(IF Integral(l.halves) THEN "U64" ELSE "F64", l.halves)
         /\ l.form \notin StringForms /\ -(U64_MAX + 1) < l.halves /\ l.halves < 0 =>
              Key(id) = RawRequestId(IF l.form = "integer" THEN "I64" ELSE "F64", l.halves)
         /\ l.form \notin StringForms /\ l.halves <= -(U64_MAX + 1) =>
              /\ Key(id).kind \in {"I64", "F64"} /\ Key(id).halves <= -(U64_MAX + 1)
<1>1. /\ l.halves \in Int /\ id.halves \in Int /\ U64_MAX \in Nat
      /\ id = RawRequestId(id.kind, id.halves)
  BY ParsedPlausible, Widths
<1>2. CASE /\ l.form \in StringForms /\ id = RawRequestId(l.form, l.halves)
  BY <1>1, <1>2 DEF Key, RawRequestId, StringForms
<1>3. CASE /\ l.form = "integer" /\ 0 <= l.halves /\ l.halves <= 2 * U64_MAX
           /\ Integral(l.halves) /\ id = RawRequestId("U64", l.halves)
  BY <1>1, <1>3 DEF Key, RawRequestId, StringForms
<1>4. CASE /\ l.form = "integer" /\ l.halves < 0
           /\ Integral(l.halves) /\ id = RawRequestId("I64", l.halves)
  BY <1>1, <1>4 DEF Key, RawRequestId, StringForms
<1>5. CASE /\ l.form = "integer" /\ 2 * (U64_MAX + 1) <= l.halves
           /\ id.kind = "F64" /\ 2 * (U64_MAX + 1) <= id.halves
  BY <1>1, <1>5 DEF Key, RawRequestId, StringForms
<1>6. CASE /\ l.form = "integer" /\ l.halves <= -(U64_MAX + 1)
           /\ id.kind = "F64" /\ id.halves <= -(U64_MAX + 1)
  <2>1. Key(id) = id
    BY <1>1, <1>6 DEF Key
  <2> QED BY <1>1, <1>6, <2>1 DEF StringForms
<1>7. CASE l.form \in {"decimal", "rounded"} /\ id = RawRequestId("F64", l.halves)
  BY <1>1, <1>7 DEF Key, RawRequestId, StringForms
<1> QED BY <1>2, <1>3, <1>4, <1>5, <1>6, <1>7, ParsedPlausible

\* Two literals have the same key exactly if they are the same id, but beyond
\* the ends of u64 and i64. (RawRequestId::key, message.rs:43-58)
LEMMA SameKeys ==
  ASSUME NEW a, NEW l, Plausible(a), Plausible(l), NEW b \in Parse(a), NEW i \in Parse(l)
  PROVE  \/ /\ Key(i) = Key(b) <=>
                 /\ a.halves = l.halves
                 /\ a.form \in StringForms <=> l.form \in StringForms
                 /\ a.form \in StringForms => a.form = l.form
                 /\ a.halves < 0 => (a.form = "integer" <=> l.form = "integer")
         \/ /\ a.form \notin StringForms /\ a.halves >= 2 * U64_MAX
            /\ l.form \notin StringForms /\ l.halves >= 2 * U64_MAX
         \/ /\ a.form \notin StringForms /\ a.halves <= -(U64_MAX + 1)
            /\ l.form \notin StringForms /\ l.halves <= -(U64_MAX + 1)
<1>1. /\ a.form \in Forms /\ a.halves \in Int
      /\ l.form \in Forms /\ l.halves \in Int
      /\ U64_MAX \in Nat
      /\ "U64" \notin StringForms /\ "I64" \notin StringForms /\ "F64" \notin StringForms
      /\ "integer" \notin StringForms
  BY PlausibleForm, Widths DEF StringForms
<1> DEFINE isString(x) == x.form \in StringForms
<1>2. \A k, h, m, n : RawRequestId(k, h) = RawRequestId(m, n) <=> k = m /\ h = n
  BY DEF RawRequestId
<1>3. \A k, h : RawRequestId(k, h).kind = k /\ RawRequestId(k, h).halves = h
  BY DEF RawRequestId
<1>4. CASE isString(a) /\ isString(l)
  BY <1>1, <1>2, <1>4, KeyBelowEdge
<1>5. ASSUME NEW x \in {a, l}, NEW id \in Parse(x)
      PROVE  /\ isString(x) => Key(id).kind \in StringForms
             /\ ~isString(x) => Key(id).kind \in {"U64", "I64", "F64"}
  BY <1>1, <1>3, <1>5, KeyBelowEdge
<1>6. CASE ~(isString(a) <=> isString(l))
  BY <1>1, <1>5, <1>6
<1>7. CASE ~isString(a) /\ ~isString(l) /\ (a.halves >= 2 * U64_MAX \/ l.halves >= 2 * U64_MAX)
  <2>1. ASSUME NEW x \in {a, l}, NEW id \in Parse(x)
        PROVE  IF 2 * U64_MAX <= x.halves THEN 2 * U64_MAX <= Key(id).halves
               ELSE ~(2 * U64_MAX <= Key(id).halves)
    <3>1. CASE 2 * U64_MAX <= x.halves
      BY <1>1, <1>7, <2>1, <3>1, KeyBelowEdge
    <3>2. CASE x.halves <= -(U64_MAX + 1)
      BY <1>1, <1>7, <2>1, <3>2, KeyBelowEdge
    <3>3. CASE -(U64_MAX + 1) < x.halves /\ x.halves < 2 * U64_MAX
      <4>1. Key(id).halves = x.halves
        BY <1>1, <1>3, <1>7, <2>1, <3>3, KeyBelowEdge
      <4> QED BY <1>1, <2>1, <3>3, <4>1
    <3> QED BY <1>1, <3>1, <3>2, <3>3
  <2> QED BY <1>1, <1>7, <2>1
<1>8. CASE /\ ~isString(a) /\ ~isString(l)
           /\ a.halves <= -(U64_MAX + 1) \/ l.halves <= -(U64_MAX + 1)
  <2>1. ASSUME NEW x \in {a, l}, NEW id \in Parse(x)
        PROVE  IF x.halves <= -(U64_MAX + 1) THEN Key(id).halves <= -(U64_MAX + 1)
               ELSE ~(Key(id).halves <= -(U64_MAX + 1))
    <3>1. CASE x.halves <= -(U64_MAX + 1)
      BY <1>1, <1>8, <2>1, <3>1, KeyBelowEdge
    <3>2. CASE 2 * U64_MAX <= x.halves
      BY <1>1, <1>8, <2>1, <3>2, KeyBelowEdge
    <3>3. CASE -(U64_MAX + 1) < x.halves /\ x.halves < 2 * U64_MAX
      <4>1. Key(id).halves = x.halves
        BY <1>1, <1>3, <1>8, <2>1, <3>3, KeyBelowEdge
      <4> QED BY <1>1, <2>1, <3>3, <4>1
    <3> QED BY <1>1, <3>1, <3>2, <3>3
  <2> QED BY <1>1, <1>8, <2>1
<1>9. CASE /\ ~isString(a) /\ ~isString(l)
           /\ -(U64_MAX + 1) < a.halves /\ -(U64_MAX + 1) < l.halves
           /\ a.halves < 2 * U64_MAX /\ l.halves < 2 * U64_MAX
  <2>1. Key(b) = RawRequestId(IF a.halves < 0
                              THEN IF a.form = "integer" THEN "I64" ELSE "F64"
                              ELSE IF Integral(a.halves) THEN "U64" ELSE "F64", a.halves)
    BY <1>1, <1>9, KeyBelowEdge
  <2>2. Key(i) = RawRequestId(IF l.halves < 0
                              THEN IF l.form = "integer" THEN "I64" ELSE "F64"
                              ELSE IF Integral(l.halves) THEN "U64" ELSE "F64", l.halves)
    BY <1>1, <1>9, KeyBelowEdge
  <2> QED BY <1>1, <1>2, <1>9, <2>1, <2>2
<1> QED BY <1>1, <1>4, <1>6, <1>7, <1>8, <1>9

\* With any widths: which ids of a peer are taken for the same one, numbers with
\* a point standing for what they are read as. Beyond the ends of u64 and i64 it
\* says nothing. (RawRequestId::key, message.rs:43-58)
THEOREM SameIdSameNumberHolds == IdsSpec => []SameIdSameNumber
<1>1. IdsInv => SameIdSameNumber
  <2> SUFFICES ASSUME IdsInv, pc = "compared" PROVE SameIdSameNumber
    BY DEF SameIdSameNumber
  <2>1. PICK a, b, l, i : /\ a = filed.literal /\ b = filed.id /\ l = wire
                          /\ i \in Parse(l) /\ same = (Key(i) = Key(b))
    BY DEF IdsInv
  <2>2. Plausible(a) /\ Plausible(l) /\ b \in Parse(a)
    BY <2>1, PeerLiteralsPlausible DEF IdsInv
  <2> QED BY <2>1, <2>2, SameKeys DEF SameIdSameNumber
<1> QED BY <1>1, IdsInvHolds, PTL
-----------------------------------------------------------------------------
(* Errors: what a chain of servers shows                                   *)

\* What a line was to its author
Kinds == {"message", "public", "source", "detail", "added", "backtrace",
          "Internal error", "Invalid params", "Server error", "Unknown error"}
Lines == Nat \X Kinds
Texts == Seq(Lines)
Options(S) == {{}} \union {{x} : x \in S}

\* The values of Error, with its texts as options
ErrorType == [code: Int, message: Options(Texts), message_is_public: BOOLEAN,
              data: Options(Texts), source: Options(Texts)]
ObjectType == [code: Int, message: Texts, data: Options(Texts)]

\* The lines of the first server's source, whole or without its detail
Sources == {<<>>, <<<<1, "source">>>>, <<<<1, "source">>, <<1, "detail">>>>}

\* An error made in that way: `public` has the lines its maker means for
\* others; the first one has no data; one that was passed on holds its cause.
Holds(e, way, public) ==
  /\ e.message_is_public => \A t \in e.message : LinesOf(t) \subseteq public
  /\ \A d \in e.data : LinesOf(d) \subseteq public
  /\ Hop = 1 =>
       /\ e.data = {} /\ e.source \subseteq Sources
       /\ \A t \in e.message :
            LinesOf(t) \intersect {<<1, "source">>, <<1, "detail">>} = {}
  /\ Hop > 1 /\ way = "wrap" =>
       e.data = {} /\ e.source = {DisplayObject(sent[Hop - 1])}
  /\ Hop > 1 /\ way = "relay" => e.data = sent[Hop - 1].data

\* Every variable of the chain has its type, and they are as long as it is.
ErrorsTypeOK ==
  /\ expose \in [1..Hops -> BOOLEAN]
  /\ error \in Options(ErrorType)
  /\ received \in Options(Texts)
  /\ relayed \in BOOLEAN
  /\ how \in Seq({"own", "wrap", "relay"})
  /\ sent \in Seq(ObjectType)
  /\ published \in Seq(SUBSET Lines)
  /\ Len(how) = Len(published)
  /\ Len(published) = IF error = {} THEN Len(sent) ELSE Len(sent) + 1
  /\ Len(sent) <= Hops
  /\ error # {} => Len(sent) < Hops

\* The lines of an error's source, and of an object's data
SourceLines(e) == UNION {LinesOf(t) : t \in e.source}
DataLines(o) == UNION {LinesOf(d) : d \in o.data}

\* What CauseSurvives says, of the data alone
CauseInData ==
  \A h \in DOMAIN sent :
    /\ \A i \in 1..h : expose[i]
    /\ \A i \in 2..h : how[i] # "own"
    => \A kind \in {"source", "detail"} :
         <<1, kind>> \in ObjectLines(sent[1]) => <<1, kind>> \in DataLines(sent[h])

\* The first answer shows no detail of a source without its first line.
FirstCause ==
  1 \in DOMAIN sent /\ expose[1] /\ <<1, "detail">> \in ObjectLines(sent[1])
    => <<1, "source">> \in ObjectLines(sent[1])

\* What makes OnlyPublished and CauseSurvives inductive: what the error in the
\* hands of a server holds, and how it came by it
ErrorsInv ==
  /\ ErrorsTypeOK
  /\ Hop = 1 => received = {}
  /\ \A e \in error : Holds(e, how[Hop], published[Hop])
  /\ relayed => Hop > 1 /\ error = {FromErrorObject(sent[Hop - 1])}
  /\ OnlyPublished /\ CauseInData /\ FirstCause
-----------------------------------------------------------------------------
\* The lines of an empty text, and of a text of one line
LEMMA LinesOfTexts ==
  ASSUME NEW s \in Texts
  PROVE  /\ LinesOf(s) \subseteq Lines
         /\ LinesOf(<<>>) = {}
         /\ \A x : LinesOf(<<x>>) = {x}
         /\ \A x, y : LinesOf(<<x, y>>) = {x, y}
         /\ s # <<>> => Head(s) \in LinesOf(s) /\ <<Head(s)>> \in Texts
<1>1. \A i \in DOMAIN s : s[i] \in Lines
  BY ElementOfSeq, LenProperties DEF Texts
<1>2. s # <<>> => Head(s) = s[1] /\ 1 \in DOMAIN s
  BY HeadTailProperties, LenProperties, EmptySeq DEF Texts
<1>3. s # <<>> => <<Head(s)>> \in Texts
  BY <1>1, <1>2 DEF Texts
<1> QED BY <1>1, <1>2, <1>3 DEF LinesOf

\* The lines of a text put together from two
LEMMA LinesOfConcat ==
  ASSUME NEW s \in Texts, NEW t \in Texts
  PROVE  s \o t \in Texts /\ LinesOf(s \o t) = LinesOf(s) \union LinesOf(t)
<1>1. /\ s \o t \in Seq(Lines) /\ Len(s \o t) = Len(s) + Len(t)
      /\ \A i \in 1 .. Len(s) + Len(t) :
           (s \o t)[i] = IF i <= Len(s) THEN s[i] ELSE t[i - Len(s)]
  BY ConcatProperties DEF Texts
<1>2. /\ DOMAIN s = 1..Len(s) /\ DOMAIN t = 1..Len(t)
      /\ DOMAIN (s \o t) = 1..Len(s \o t) /\ Len(s) \in Nat /\ Len(t) \in Nat
  BY <1>1, LenProperties DEF Texts
<1>3. ASSUME NEW i \in DOMAIN (s \o t)
      PROVE  (s \o t)[i] \in LinesOf(s) \union LinesOf(t)
  <2>1. CASE i <= Len(s)
    BY <1>1, <1>2, <2>1 DEF LinesOf
  <2>2. CASE ~(i <= Len(s))
    <3>1. i - Len(s) \in DOMAIN t /\ (s \o t)[i] = t[i - Len(s)]
      BY <1>1, <1>2, <2>2
    <3> QED BY <3>1 DEF LinesOf
  <2> QED BY <2>1, <2>2
<1>4. \A i \in DOMAIN s : i \in DOMAIN (s \o t) /\ (s \o t)[i] = s[i]
  BY <1>1, <1>2
<1>5. \A i \in DOMAIN t : /\ i + Len(s) \in DOMAIN (s \o t)
                          /\ (s \o t)[i + Len(s)] = t[i]
  BY <1>1, <1>2
<1>6. LinesOf(s \o t) \subseteq LinesOf(s) \union LinesOf(t)
  BY <1>3 DEF LinesOf
<1>7. LinesOf(s) \subseteq LinesOf(s \o t) /\ LinesOf(t) \subseteq LinesOf(s \o t)
  BY <1>4, <1>5 DEF LinesOf
<1> QED BY <1>1, <1>6, <1>7 DEF Texts

\* Only takes out what Some holds.
LEMMA OnlyOption ==
  ASSUME NEW x
  PROVE  Only({x}) = x
  BY DEF Only

\* An option is None, or Some of one thing.
LEMMA OptionCases ==
  ASSUME NEW S, NEW option \in Options(S)
  PROVE  option = {} \/ \E x \in S : option = {x} /\ Only(option) = x
  BY OnlyOption DEF Options

\* The server at work, the lines it writes, and what was answered before it
LEMMA HopType ==
  ASSUME ErrorsTypeOK
  PROVE  /\ Hop \in Nat /\ Hop >= 1 /\ Len(sent) \in Nat /\ DOMAIN sent = 1..Len(sent)
         /\ \A kind \in Kinds : Line(kind) \in Lines /\ Line(kind)[1] = Hop
         /\ \A h \in DOMAIN sent : sent[h] \in ObjectType
  BY LenProperties, ElementOfSeq DEF ErrorsTypeOK, Hop, Line, Lines

\* The name of a code is nobody's line.
LEMMA CodeMessageType ==
  ASSUME NEW code \in Int
  PROVE  /\ CodeMessage(code) \in Texts
         /\ \A ln \in LinesOf(CodeMessage(code)) : ln[1] = 0
<1>1. CodeName(code) \in Kinds
  BY DEF CodeName, Kinds, INTERNAL_ERROR, INVALID_PARAMS, SERVER_ERROR_START,
         SERVER_ERROR_END
<1>2. <<0, CodeName(code)>> \in Lines
  BY <1>1 DEF Lines
<1> QED BY <1>2, LinesOfTexts DEF CodeMessage, Texts
-----------------------------------------------------------------------------
(* What the errors and the objects made of them hold                       *)

\* A server that does not expose its internals shows a message only if that
\* is public. (Error::message, error.rs:126-143)
LEMMA MessageType ==
  ASSUME NEW e \in ErrorType, NEW x \in BOOLEAN
  PROVE  /\ Message(e, x) \in Texts
         /\ ~x => \A ln \in LinesOf(Message(e, x)) :
                    \/ ln[1] = 0
                    \/ e.message_is_public /\ \E t \in e.message : ln \in LinesOf(t)
         /\ \A ln \in LinesOf(Message(e, x)) :
              \/ ln[1] = 0
              \/ \E t \in e.message \union e.source : ln \in LinesOf(t)
<1>1. /\ e.code \in Int /\ e.message \in Options(Texts) /\ e.source \in Options(Texts)
      /\ e.message_is_public \in BOOLEAN
  BY DEF ErrorType
<1>2. CASE (x \/ e.message_is_public) /\ e.message # {}
  <2>1. Message(e, x) = Only(e.message)
    BY <1>2 DEF Message
  <2>2. PICK t \in Texts : e.message = {t} /\ Only(e.message) = t
    BY <1>1, <1>2, OptionCases
  <2> QED BY <1>2, <2>1, <2>2
<1>3. CASE /\ ~((x \/ e.message_is_public) /\ e.message # {})
           /\ x /\ e.message = {} /\ e.source # {} /\ Only(e.source) # <<>>
  <2>1. Message(e, x) = <<Head(Only(e.source))>>
    BY <1>3 DEF Message
  <2>2. PICK t \in Texts : e.source = {t} /\ Only(e.source) = t
    BY <1>1, <1>3, OptionCases
  <2>3. /\ <<Head(t)>> \in Texts /\ LinesOf(<<Head(t)>>) = {Head(t)}
        /\ Head(t) \in LinesOf(t)
    BY <1>3, <2>2, LinesOfTexts
  <2> QED BY <1>3, <2>1, <2>2, <2>3
<1>4. CASE /\ ~((x \/ e.message_is_public) /\ e.message # {})
           /\ ~(x /\ e.message = {} /\ e.source # {} /\ Only(e.source) # <<>>)
  <2>1. Message(e, x) = CodeMessage(e.code)
    BY <1>4 DEF Message
  <2> QED BY <1>1, <2>1, CodeMessageType
<1> QED BY <1>2, <1>3, <1>4

\* What an error shows of itself when it is answered with
\* (Error::to_error_object, error.rs:100-117)
LEMMA ObjectOfError ==
  ASSUME ErrorsTypeOK, NEW e \in ErrorType, NEW x \in BOOLEAN,
         NEW o, o = ToErrorObject(e, x)
  PROVE  /\ o \in ObjectType /\ o.code = e.code /\ o.message = Message(e, x)
         /\ ~x \/ e.data # {} => o.data = e.data
         /\ x /\ e.data = {} =>
              DataLines(o) = SourceLines(e)
                               \union {Line("backtrace")}
<1>1. /\ e.code \in Int /\ e.data \in Options(Texts) /\ e.source \in Options(Texts)
  BY DEF ErrorType
<1>2. o.code = e.code /\ o.message = Message(e, x)
  BY DEF ToErrorObject
<1>3. Line("backtrace") \in Lines
  <2>1. "backtrace" \in Kinds
    BY DEF Kinds
  <2> QED BY <2>1, HopType
<1>4. CASE x /\ e.data = {}
  <2> DEFINE s == IF e.source = {} THEN <<>> ELSE Only(e.source)
             u == <<Line("backtrace")>>
  <2>1. o.data = {s \o u}
    BY <1>4 DEF ToErrorObject
  <2>2. s \in Texts /\ LinesOf(s) = SourceLines(e)
    <3>1. CASE e.source = {}
      BY <3>1, LinesOfTexts, EmptySeq DEF Texts, SourceLines
    <3>2. CASE e.source # {}
      BY <1>1, <3>2, OptionCases DEF SourceLines
    <3> QED BY <3>1, <3>2
  <2>3. u \in Texts /\ LinesOf(u) = {Line("backtrace")}
    BY <1>3 DEF Texts, LinesOf
  <2> HIDE DEF s, u
  <2>4. s \o u \in Texts /\ LinesOf(s \o u) = LinesOf(s) \union LinesOf(u)
    BY <2>2, <2>3, LinesOfConcat
  <2>5. o.data \in Options(Texts) /\ DataLines(o) = LinesOf(s \o u)
    BY <2>1, <2>4 DEF Options, DataLines
  <2>6. o \in ObjectType
    BY <1>1, <1>2, <2>5, MessageType DEF ToErrorObject, ObjectType
  <2>7. DataLines(o) = SourceLines(e) \union {Line("backtrace")}
    BY <2>2, <2>3, <2>4, <2>5
  <2> QED BY <1>2, <1>4, <2>6, <2>7
<1>5. CASE ~(x /\ e.data = {})
  <2>1. o.data = e.data
    BY <1>5 DEF ToErrorObject
  <2>2. o \in ObjectType
    BY <1>1, <1>2, <2>1, MessageType DEF ToErrorObject, ObjectType
  <2> QED BY <1>2, <1>5, <2>1, <2>2
<1> QED BY <1>4, <1>5

\* What a SessionError prints of an ErrorObject
LEMMA DisplayedObject ==
  ASSUME NEW o \in ObjectType
  PROVE  /\ DisplayObject(o) \in Texts
         /\ LinesOf(DisplayObject(o)) = LinesOf(o.message) \union DataLines(o)
         /\ ObjectLines(o) = LinesOf(o.message) \union DataLines(o)
         /\ ObjectLines(o) \subseteq Lines
<1>1. o.message \in Texts /\ o.data \in Options(Texts)
  BY DEF ObjectType
<1> DEFINE t == IF o.data = {} THEN <<>> ELSE Only(o.data)
<1>2. t \in Texts /\ LinesOf(t) = DataLines(o)
  <2>1. CASE o.data = {}
    BY <2>1, LinesOfTexts, EmptySeq DEF Texts, DataLines
  <2>2. CASE o.data # {}
    BY <1>1, <2>2, OptionCases DEF DataLines
  <2> QED BY <2>1, <2>2
<1>3. DisplayObject(o) = o.message \o t
  BY DEF DisplayObject
<1> HIDE DEF t
<1>4. ObjectLines(o) = LinesOf(o.message) \union DataLines(o)
  BY DEF ObjectLines, DataLines
<1>5. /\ o.message \o t \in Texts
      /\ LinesOf(o.message \o t) = LinesOf(o.message) \union LinesOf(t)
  BY <1>1, <1>2, LinesOfConcat
<1>6. LinesOf(o.message) \subseteq Lines /\ LinesOf(t) \subseteq Lines
  BY <1>1, <1>2, LinesOfTexts
<1> QED BY <1>2, <1>3, <1>4, <1>5, <1>6
-----------------------------------------------------------------------------
(* The invariant                                                           *)

Ways == {"own", "wrap", "relay"}

\* An error that was just made is empty.
LEMMA NewType ==
  ASSUME NEW code \in Int
  PROVE  /\ New(code) \in ErrorType
         /\ New(code).message = {} /\ New(code).data = {} /\ New(code).source = {}
  BY DEF New, ErrorType, Options

\* Some and None of a set
LEMMA OptionType ==
  ASSUME NEW S, NEW x \in S
  PROVE  {x} \in Options(S) /\ {} \in Options(S)
  BY DEF Options

\* An error that holds what its maker says of it keeps the invariant.
LEMMA MakesKeeps ==
  ASSUME ErrorsInv, Hop <= Hops,
         NEW e \in ErrorType, NEW way \in Ways, NEW public \in SUBSET Lines,
         Makes(e, way, public), Holds(e, way, public),
         way = "relay" => Hop > 1 /\ e = FromErrorObject(sent[Hop - 1])
  PROVE  ErrorsInv'
<1>1. /\ error = {} /\ error' = {e} /\ how' = Append(how, way)
      /\ relayed' = (way = "relay") /\ published' = Append(published, public)
      /\ UNCHANGED <<expose, received, sent>> /\ Hop' = Hop
  BY DEF Makes, Hop
<1>2. /\ Len(how) = Len(sent) /\ Len(published) = Len(sent)
      /\ how \in Seq(Ways) /\ published \in Seq(SUBSET Lines)
      /\ Len(sent) \in Nat /\ Hop = Len(sent) + 1 /\ DOMAIN sent = 1..Len(sent)
  BY <1>1, HopType DEF ErrorsInv, ErrorsTypeOK, Hop, Ways
<1>3. /\ how' \in Seq(Ways) /\ Len(how') = Len(sent) + 1 /\ how'[Hop] = way
      /\ \A i \in 1..Len(sent) : how'[i] = how[i]
  BY <1>1, <1>2, AppendProperties
<1>4. /\ published' \in Seq(SUBSET Lines) /\ Len(published') = Len(sent) + 1
      /\ published'[Hop] = public
      /\ \A i \in 1..Len(sent) : published'[i] = published[i]
  BY <1>1, <1>2, AppendProperties
<1>5. ErrorsTypeOK'
  <2>1. error' \in Options(ErrorType) /\ error' # {} /\ Len(sent) < Hops
    BY <1>1, <1>2, OptionType, ErrorsAssumption
  <2> QED BY <1>1, <1>2, <1>3, <1>4, <2>1 DEF ErrorsInv, ErrorsTypeOK, Ways
<1>6. (\A f \in error : Holds(f, how[Hop], published[Hop]))'
  <2>1. Holds(e, way, public)'
    BY <1>1 DEF Holds
  <2>2. how[Hop]' = way /\ published[Hop]' = public
    BY <1>1, <1>3, <1>4
  <2> QED BY <1>1, <2>1, <2>2
<1>7. OnlyPublished'
  BY <1>1, <1>2, <1>4 DEF ErrorsInv, OnlyPublished
<1>8. CauseInData'
  <2> SUFFICES ASSUME NEW h \in DOMAIN sent,
                      \A i \in 1..h : expose[i], \A i \in 2..h : how'[i] # "own"
               PROVE  \A kind \in {"source", "detail"} :
                        <<1, kind>> \in ObjectLines(sent[1])
                          => <<1, kind>> \in DataLines(sent[h])
    BY <1>1 DEF CauseInData
  <2>1. \A i \in 2..h : how[i] # "own"
    BY <1>2, <1>3
  <2> QED BY <2>1 DEF ErrorsInv, CauseInData
<1>9. FirstCause'
  BY <1>1 DEF ErrorsInv, FirstCause
<1> QED BY <1>1, <1>5, <1>6, <1>7, <1>8, <1>9 DEF ErrorsInv

\* An error that `?` makes has a source and nothing else.
LEMMA FromStdType ==
  ASSUME NEW text \in Texts
  PROVE  /\ FromStd(text) \in ErrorType
         /\ FromStd(text).message = {} /\ FromStd(text).data = {}
         /\ FromStd(text).source = {text}
         /\ FromStd(text).message_is_public = FALSE
<1>1. {text} \in Options(Texts) /\ {} \in Options(Texts)
  BY OptionType
<1>2. INTERNAL_ERROR \in Int
  BY DEF INTERNAL_ERROR
<1> QED BY <1>1, <1>2 DEF FromStd, WithSource, New, ErrorType

\* The texts a server writes of its own accord
LEMMA OwnTexts ==
  ASSUME ErrorsTypeOK, NEW kind \in Kinds, NEW kind2 \in Kinds
  PROVE  /\ <<>> \in Texts /\ LinesOf(<<>>) = {}
         /\ Line(kind) \in Lines /\ Line(kind) = <<Hop, kind>>
         /\ <<Line(kind)>> \in Texts /\ LinesOf(<<Line(kind)>>) = {Line(kind)}
         /\ <<Line(kind), Line(kind2)>> \in Texts
<1>1. Line(kind) \in Lines /\ Line(kind2) \in Lines
  BY HopType
<1> QED BY <1>1 DEF Texts, LinesOf, Line

\* Errors of a server's own keep the invariant.
LEMMA MakingKeeps ==
  ASSUME ErrorsInv, Hop <= Hops,
         Bail \/ BailPublic \/ Question \/ InvalidParams \/ SerializeFailed
  PROVE  ErrorsInv'
<1>0. /\ ErrorsTypeOK /\ Hop \in Nat
      /\ INTERNAL_ERROR \in Int /\ INVALID_PARAMS \in Int
      /\ {} \in Options(Texts)
  BY HopType DEF ErrorsInv, INTERNAL_ERROR, INVALID_PARAMS, Options
<1>1. CASE Bail
  <2>1. PICK text \in {{}, {<<Line("message")>>}} :
          Makes([New(INTERNAL_ERROR) EXCEPT !.message = text], "own", {})
    BY <1>1 DEF Bail
  <2> DEFINE e == [New(INTERNAL_ERROR) EXCEPT !.message = text]
  <2>2. /\ text \in Options(Texts)
        /\ \A t \in text : LinesOf(t) = {<<Hop, "message">>}
    BY <1>0, OwnTexts DEF Kinds, Options
  <2>3. /\ e \in ErrorType /\ e.message = text /\ e.data = {} /\ e.source = {}
        /\ e.message_is_public = FALSE
    BY <1>0, <2>2, OptionType DEF New, ErrorType
  <2> HIDE DEF e
  <2>4. Holds(e, "own", {})
    BY <2>2, <2>3 DEF Holds
  <2> QED BY <2>1, <2>3, <2>4, MakesKeeps DEF Ways, e
<1>2. CASE BailPublic
  <2>1. PICK code \in PublicCodes, text \in {{}, {<<Line("public")>>}} :
          Makes([New(code) EXCEPT !.message = text, !.message_is_public = (text # {})],
                "own", UNION {LinesOf(t) : t \in text})
    BY <1>2 DEF BailPublic
  <2> DEFINE e == [New(code) EXCEPT !.message = text,
                                    !.message_is_public = (text # {})]
             public == UNION {LinesOf(t) : t \in text}
  <2>2. /\ text \in Options(Texts)
        /\ \A t \in text : LinesOf(t) = {<<Hop, "public">>}
        /\ <<Hop, "public">> \in Lines
    BY <1>0, OwnTexts DEF Kinds, Options
  <2>3. code \in Int
    BY ErrorsAssumption
  <2>4. /\ e \in ErrorType /\ e.message = text /\ e.data = {} /\ e.source = {}
    BY <2>2, <2>3, OptionType DEF New, ErrorType, Options
  <2>5. public \in SUBSET Lines
    BY <2>2
  <2>6. Holds(e, "own", public)
    BY <2>2, <2>4 DEF Holds
  <2> HIDE DEF e, public
  <2> QED BY <2>1, <2>4, <2>5, <2>6, MakesKeeps DEF Ways, e, public
<1>3. CASE Question
  <2>1. PICK text \in {<<>>, <<Line("source"), Line("detail")>>} :
          Makes(FromStd(text), "own", {})
    BY <1>3 DEF Question
  <2>2. text \in Texts /\ (Hop = 1 => text \in Sources)
    BY <1>0, OwnTexts DEF Kinds, Sources, Line
  <2>3. Holds(FromStd(text), "own", {})
    BY <2>2, FromStdType DEF Holds
  <2> QED BY <2>1, <2>2, <2>3, FromStdType, MakesKeeps DEF Ways
<1>4. CASE Makes(WithMessage(New(INVALID_PARAMS), <<Line("public")>>, TRUE), "own",
                 {Line("public")})
  <2> DEFINE e == WithMessage(New(INVALID_PARAMS), <<Line("public")>>, TRUE)
  <2>1. /\ {<<Line("public")>>} \in Options(Texts) /\ {Line("public")} \in SUBSET Lines
        /\ LinesOf(<<Line("public")>>) = {Line("public")}
        /\ Line("public") = <<Hop, "public">>
    BY <1>0, OwnTexts DEF Kinds, Options
  <2>2. /\ e \in ErrorType /\ e.message = {<<Line("public")>>} /\ e.data = {}
        /\ e.source = {}
    BY <1>0, <2>1, OptionType DEF WithMessage, New, ErrorType
  <2> HIDE DEF e
  <2>3. Holds(e, "own", {Line("public")})
    BY <2>1, <2>2 DEF Holds
  <2> QED BY <1>4, <2>1, <2>2, <2>3, MakesKeeps DEF Ways, e
<1>5. CASE Makes(WithSource(New(INVALID_PARAMS), <<Line("source")>>), "own", {})
  <2> DEFINE e == WithSource(New(INVALID_PARAMS), <<Line("source")>>)
  <2>1. /\ {<<Line("source")>>} \in Options(Texts)
        /\ Hop = 1 => <<Line("source")>> \in Sources
    BY <1>0, OwnTexts DEF Kinds, Options, Sources, Line
  <2>2. /\ e \in ErrorType /\ e.source = {<<Line("source")>>} /\ e.data = {}
        /\ e.message = {} /\ e.message_is_public = FALSE
    BY <1>0, <2>1, OptionType DEF WithSource, New, ErrorType
  <2> HIDE DEF e
  <2>3. Holds(e, "own", {})
    BY <2>1, <2>2 DEF Holds
  <2> QED BY <1>5, <2>1, <2>2, <2>3, MakesKeeps DEF Ways, e
<1>6. CASE SerializeFailed
  <2> DEFINE e == WithMessage(FromStd(<<Line("source")>>), <<Line("public")>>, TRUE)
  <2>1. /\ <<Line("source")>> \in Texts /\ <<Line("public")>> \in Texts
        /\ {Line("public")} \in SUBSET Lines
        /\ LinesOf(<<Line("public")>>) = {Line("public")}
        /\ Line("public") = <<Hop, "public">>
        /\ Hop = 1 => <<Line("source")>> \in Sources
    BY <1>0, OwnTexts DEF Kinds, Sources, Line
  <2>2. /\ e \in ErrorType /\ e.message = {<<Line("public")>>} /\ e.data = {}
        /\ e.source = {<<Line("source")>>}
    BY <2>1, OptionType, FromStdType DEF WithMessage, ErrorType
  <2> HIDE DEF e
  <2>3. Holds(e, "own", {Line("public")})
    BY <2>1, <2>2 DEF Holds
  <2> QED BY <1>6, <2>1, <2>2, <2>3, MakesKeeps DEF SerializeFailed, Ways, e
<1> QED BY <1>1, <1>2, <1>3, <1>4, <1>5, <1>6 DEF InvalidParams

\* Wrapped or relayed, an error holds what the peer's object showed.
LEMMA PassingKeeps ==
  ASSUME ErrorsInv, Hop <= Hops, Wrap \/ Relay
  PROVE  ErrorsInv'
<1>0. ErrorsTypeOK /\ Hop \in Nat /\ Hop = Len(sent) + 1
  BY HopType DEF ErrorsInv, Hop
<1>1. CASE Wrap
  <2> DEFINE way == IF FromPeer THEN "wrap" ELSE "own"
  <2>1. PICK text \in received : Makes(FromStd(text), way, {})
    BY <1>1 DEF Wrap
  <2>2. text \in Texts /\ received = {text}
    BY <1>0, OptionCases DEF ErrorsTypeOK
  <2>3. Hop # 1
    BY <2>2 DEF ErrorsInv
  <2>4. way = "wrap" => text = DisplayObject(sent[Hop - 1])
    BY <2>2 DEF FromPeer
  <2>5. way \in Ways /\ way # "relay"
    BY DEF Ways
  <2> HIDE DEF way
  <2>6. Holds(FromStd(text), way, {})
    BY <2>2, <2>3, <2>4, <2>5, FromStdType DEF Holds
  <2> QED BY <2>1, <2>2, <2>5, <2>6, FromStdType, MakesKeeps
<1>2. CASE Relay
  <2>1. PICK o : o = sent[Hop - 1]
    OBVIOUS
  <2>2. Hop > 1 /\ Makes(FromErrorObject(o), "relay", ObjectLines(o))
    BY <1>2, <2>1 DEF Relay, FromPeer
  <2>3. o \in ObjectType
    BY <1>0, <2>1, <2>2, HopType
  <2> DEFINE e == FromErrorObject(o)
  <2>4. /\ e \in ErrorType /\ e.message = {o.message} /\ e.data = o.data
        /\ e.source = {}
    BY <2>3, OptionType DEF FromErrorObject, ErrorType, ObjectType, Options
  <2> HIDE DEF e
  <2>5. Holds(e, "relay", ObjectLines(o))
    BY <2>1, <2>2, <2>4 DEF Holds, ObjectLines
  <2> QED BY <2>1, <2>2, <2>3, <2>4, <2>5, DisplayedObject, MakesKeeps DEF Ways, e
<1> QED BY <1>1, <1>2

\* with_message and with_source keep it: what they add is a private line, or
\* one that is meant for others.
LEMMA AdorningKeeps ==
  ASSUME ErrorsInv, Hop <= Hops, AdornMessage \/ AdornSource
  PROVE  ErrorsInv'
<1>0. /\ ErrorsTypeOK /\ Hop \in Nat /\ Hop = Len(sent) + 1
      /\ DOMAIN sent = 1..Len(sent) /\ Len(sent) \in Nat
  BY HopType DEF ErrorsInv, Hop
<1>1. CASE AdornMessage
  <2>1. PICK e \in error, is_public \in BOOLEAN :
          /\ Adorns(WithMessage(e, <<Line("added")>>, is_public))
          /\ published' = IF is_public
                          THEN [published EXCEPT ![Hop] = @ \union {Line("added")}]
                          ELSE published
          /\ UNCHANGED <<expose, received, how, sent>>
    BY <1>1 DEF AdornMessage
  <2>2. e \in ErrorType /\ error = {e}
    BY <1>0, OptionCases DEF ErrorsTypeOK
  <2> DEFINE f == WithMessage(e, <<Line("added")>>, is_public)
  <2>3. /\ <<Line("added")>> \in Texts /\ Line("added") \in Lines
        /\ LinesOf(<<Line("added")>>) = {Line("added")}
        /\ Line("added") = <<Hop, "added">>
    BY <1>0, OwnTexts DEF Kinds
  <2>4. /\ f \in ErrorType /\ f.message = {<<Line("added")>>}
        /\ f.message_is_public = is_public
        /\ f.data = e.data /\ f.source = e.source
    BY <2>2, <2>3, OptionType DEF WithMessage, ErrorType
  <2>5. error' = {f} /\ relayed' = FALSE /\ Hop' = Hop
    BY <2>1 DEF Adorns, Hop
  <2> HIDE DEF f
  <2>6. /\ published \in Seq(SUBSET Lines) /\ Len(published) = Hop
        /\ DOMAIN published = 1..Hop /\ published[Hop] \in SUBSET Lines
    BY <1>0, <2>2, LenProperties, ElementOfSeq DEF ErrorsTypeOK
  <2>7. /\ published' \in Seq(SUBSET Lines) /\ Len(published') = Hop
        /\ \A h \in 1..Len(sent) : published'[h] = published[h]
        /\ published[Hop] \subseteq published'[Hop]
        /\ is_public => Line("added") \in published'[Hop]
    <3>1. CASE is_public
      <4> DEFINE x == published[Hop] \union {Line("added")}
      <4>1. published' = [published EXCEPT ![Hop] = x] /\ x \in SUBSET Lines
        BY <2>1, <2>3, <2>6, <3>1
      <4> HIDE DEF x
      <4>2. /\ published' \in Seq(SUBSET Lines) /\ Len(published') = Hop
            /\ published'[Hop] = x
            /\ \A h \in 1..Len(sent) : published'[h] = published[h]
        BY <1>0, <2>6, <4>1, ExceptSeq
      <4> QED BY <3>1, <4>2 DEF x
    <3>2. CASE ~is_public
      BY <2>1, <2>6, <3>2
    <3> QED BY <3>1, <3>2
  <2>8. Holds(e, how[Hop], published[Hop])
    BY <2>2 DEF ErrorsInv
  <2>9. Holds(f, how[Hop], published'[Hop])
    BY <2>3, <2>4, <2>7, <2>8 DEF Holds
  <2>10. (\A g \in error : Holds(g, how[Hop], published[Hop]))'
    BY <2>1, <2>5, <2>9 DEF Holds
  <2>11. ErrorsTypeOK'
    BY <1>0, <2>1, <2>2, <2>4, <2>5, <2>6, <2>7 DEF ErrorsTypeOK, Options
  <2>12. OnlyPublished'
    BY <1>0, <2>1, <2>7 DEF ErrorsInv, OnlyPublished
  <2>13. CauseInData' /\ FirstCause'
    BY <2>1 DEF ErrorsInv, CauseInData, FirstCause
  <2> QED BY <2>1, <2>5, <2>10, <2>11, <2>12, <2>13 DEF ErrorsInv
<1>2. CASE AdornSource
  <2>1. PICK e \in error : /\ e.source = {}
                           /\ Adorns(WithSource(e, <<Line("source")>>))
                           /\ UNCHANGED <<expose, received, how, sent, published>>
    BY <1>2 DEF AdornSource
  <2>2. e \in ErrorType /\ error = {e}
    BY <1>0, OptionCases DEF ErrorsTypeOK
  <2> DEFINE f == WithSource(e, <<Line("source")>>)
  <2>3. <<Line("source")>> \in Texts /\ (Hop = 1 => <<Line("source")>> \in Sources)
    BY <1>0, OwnTexts DEF Kinds, Sources, Line
  <2>4. /\ f \in ErrorType /\ f.message = e.message
        /\ f.message_is_public = e.message_is_public
        /\ f.data = e.data /\ f.source = {<<Line("source")>>}
    BY <2>2, <2>3, OptionType DEF WithSource, ErrorType
  <2>5. error' = {f} /\ relayed' = FALSE /\ Hop' = Hop
    BY <2>1 DEF Adorns, Hop
  <2> HIDE DEF f
  <2>6. Holds(e, how[Hop], published[Hop])
    BY <2>2 DEF ErrorsInv
  <2>7. Holds(f, how[Hop], published[Hop])
    BY <2>1, <2>3, <2>4, <2>6 DEF Holds
  <2>8. (\A g \in error : Holds(g, how[Hop], published[Hop]))'
    BY <2>1, <2>5, <2>7 DEF Holds
  <2>9. ErrorsTypeOK'
    BY <1>0, <2>1, <2>2, <2>4, <2>5 DEF ErrorsTypeOK, Options
  <2>10. OnlyPublished' /\ CauseInData' /\ FirstCause'
    BY <2>1 DEF ErrorsInv, OnlyPublished, CauseInData, FirstCause
  <2> QED BY <2>1, <2>5, <2>8, <2>9, <2>10 DEF ErrorsInv
<1> QED BY <1>1, <1>2

\* A source that has its detail has its first line.
LEMMA SourcesCauses ==
  ASSUME NEW t \in Sources, <<1, "detail">> \in LinesOf(t)
  PROVE  <<1, "source">> \in LinesOf(t)
<1>1. LinesOf(<<>>) = {} /\ LinesOf(<<<<1, "source">>>>) = {<<1, "source">>}
  BY DEF LinesOf
<1>2. t # <<>> /\ t # <<<<1, "source">>>>
  BY <1>1
<1>3. t = <<<<1, "source">>, <<1, "detail">>>>
  BY <1>2 DEF Sources
<1> QED BY <1>3 DEF LinesOf

\* What the answer of an exposing server holds, if it was the first one.
LEMMA FirstAnswer ==
  ASSUME ErrorsTypeOK, NEW e \in ErrorType,
         Hop = 1, e.data = {}, e.source \subseteq Sources,
         \A t \in e.message :
           LinesOf(t) \intersect {<<1, "source">>, <<1, "detail">>} = {},
         NEW o, o = ToErrorObject(e, TRUE)
  PROVE  /\ \A kind \in {"source", "detail"} :
              <<1, kind>> \in ObjectLines(o) => <<1, kind>> \in DataLines(o)
         /\ <<1, "detail">> \in ObjectLines(o) => <<1, "source">> \in ObjectLines(o)
<1>1. /\ o \in ObjectType /\ o.message = Message(e, TRUE)
      /\ DataLines(o) = SourceLines(e) \union {Line("backtrace")}
  BY ObjectOfError
<1>2. ObjectLines(o) = LinesOf(o.message) \union DataLines(o)
  BY <1>1, DisplayedObject
<1>3. ASSUME NEW kind \in {"source", "detail"}, <<1, kind>> \in ObjectLines(o)
      PROVE  \E t \in e.source : <<1, kind>> \in LinesOf(t)
  <2>1. <<1, kind>>[1] # 0 /\ <<1, kind>> # Line("backtrace")
    BY DEF Line
  <2>2. CASE <<1, kind>> \in LinesOf(o.message)
    BY <1>1, <2>1, <2>2, MessageType
  <2>3. CASE <<1, kind>> \in DataLines(o)
    BY <1>1, <2>1, <2>3 DEF SourceLines
  <2> QED BY <1>2, <1>3, <2>2, <2>3
<1>4. \A t \in e.source : LinesOf(t) \subseteq DataLines(o)
  BY <1>1 DEF SourceLines
<1> QED BY <1>2, <1>3, <1>4, SourcesCauses

\* An answer holds what its server published, or its server exposes; and it
\* holds the cause, if all before it did.
LEMMA RespondingKeeps ==
  ASSUME ErrorsInv, Hop <= Hops, Respond
  PROVE  ErrorsInv'
<1>1. PICK e \in error :
        LET o == ToErrorObject(e, expose[Hop])
        IN  /\ sent' = Append(sent, o)
            /\ received' = {DisplayObject(o)}
            /\ error' = {} /\ relayed' = FALSE
            /\ UNCHANGED <<expose, how, published>>
  BY DEF Respond
<1>2. PICK x, n : x = expose[Hop] /\ n = Hop
  OBVIOUS
<1>3. PICK o : o = ToErrorObject(e, x)
  OBVIOUS
<1>4. /\ sent' = Append(sent, o) /\ received' = {DisplayObject(o)}
      /\ error' = {} /\ relayed' = FALSE /\ UNCHANGED <<expose, how, published>>
  BY <1>1, <1>2, <1>3
<1>5. /\ ErrorsTypeOK /\ e \in ErrorType /\ error = {e} /\ error # {}
      /\ n \in Nat /\ n >= 1 /\ n = Len(sent) + 1 /\ DOMAIN sent = 1..Len(sent)
      /\ Len(sent) \in Nat /\ sent \in Seq(ObjectType)
      /\ \A h \in DOMAIN sent : sent[h] \in ObjectType
      /\ x \in BOOLEAN /\ n \in 1..Hops
  BY <1>2, OptionCases, HopType DEF ErrorsInv, ErrorsTypeOK, Hop
<1>6. Holds(e, how[n], published[n])
  BY <1>2 DEF ErrorsInv
<1>7. /\ o \in ObjectType /\ o.message = Message(e, x)
      /\ ~x \/ e.data # {} => o.data = e.data
      /\ x /\ e.data = {} => DataLines(o) = SourceLines(e) \union {Line("backtrace")}
  BY <1>3, <1>5, ObjectOfError
<1>8. /\ sent' \in Seq(ObjectType) /\ Len(sent') = n /\ sent'[n] = o
      /\ \A h \in 1..Len(sent) : sent'[h] = sent[h]
      /\ DOMAIN sent' = 1..n
  BY <1>4, <1>5, <1>7, AppendProperties, LenProperties
<1>9. ErrorsTypeOK'
  <2>1. received' \in Options(Texts) /\ error' \in Options(ErrorType)
    BY <1>4, <1>7, DisplayedObject DEF Options
  <2>2. Len(published) = n /\ Len(how) = n /\ n <= Hops
    BY <1>5, ErrorsAssumption DEF ErrorsTypeOK
  <2> QED BY <1>4, <1>5, <1>8, <2>1, <2>2 DEF ErrorsTypeOK
<1>10. OnlyPublished'
  <2>1. ASSUME ~x, NEW ln \in ObjectLines(o)
        PROVE  ln \in published[n] \/ ln[1] = 0
    <3>1. ln \in LinesOf(o.message) \/ \E d \in e.data : ln \in LinesOf(d)
      BY <1>7, <2>1, DisplayedObject DEF DataLines
    <3>2. CASE ln \in LinesOf(o.message)
      BY <1>5, <1>6, <1>7, <2>1, <3>2, MessageType DEF Holds
    <3>3. CASE \E d \in e.data : ln \in LinesOf(d)
      BY <1>6, <3>3 DEF Holds
    <3> QED BY <3>1, <3>2, <3>3
  <2> SUFFICES ASSUME NEW h \in 1..n, ~expose[h], NEW ln \in ObjectLines(sent'[h])
               PROVE  ln \in published[h] \/ ln[1] = 0
    BY <1>4, <1>8 DEF OnlyPublished
  <2>2. CASE h = n
    BY <1>2, <1>8, <2>1, <2>2
  <2>3. CASE h # n
    BY <1>5, <1>8, <2>3 DEF ErrorsInv, OnlyPublished
  <2> QED BY <2>2, <2>3
<1>11. CASE n = 1
  <2>1. x => /\ \A kind \in {"source", "detail"} :
                  <<1, kind>> \in ObjectLines(o) => <<1, kind>> \in DataLines(o)
             /\ <<1, "detail">> \in ObjectLines(o)
                  => <<1, "source">> \in ObjectLines(o)
    BY <1>2, <1>3, <1>5, <1>6, <1>11, FirstAnswer DEF Holds
  <2>2. FirstCause'
    BY <1>2, <1>4, <1>8, <1>11, <2>1 DEF FirstCause
  <2>3. CauseInData'
    <3> SUFFICES ASSUME NEW h \in 1..n, \A i \in 1..h : expose[i],
                        NEW kind \in {"source", "detail"},
                        <<1, kind>> \in ObjectLines(sent'[1])
                 PROVE  <<1, kind>> \in DataLines(sent'[h])
      BY <1>4, <1>8 DEF CauseInData
    <3> QED BY <1>2, <1>8, <1>11, <2>1
  <2> QED BY <1>4, <1>5, <1>8, <1>9, <1>10, <2>2, <2>3 DEF ErrorsInv, Hop
<1>12. CASE n # 1
  <2>1. sent'[1] = sent[1] /\ 1 \in DOMAIN sent /\ n - 1 \in DOMAIN sent
    BY <1>5, <1>8, <1>12
  <2>2. FirstCause'
    BY <1>4, <2>1 DEF ErrorsInv, FirstCause
  <2>3. CauseInData'
    <3> SUFFICES ASSUME NEW h \in 1..n, \A i \in 1..h : expose[i],
                        \A i \in 2..h : how[i] # "own",
                        NEW kind \in {"source", "detail"},
                        <<1, kind>> \in ObjectLines(sent[1])
                 PROVE  <<1, kind>> \in DataLines(sent'[h])
      BY <1>4, <1>8, <2>1 DEF CauseInData
    <3>1. CASE h # n
      <4>1. h \in DOMAIN sent /\ sent'[h] = sent[h]
        BY <1>5, <1>8, <3>1
      <4> QED BY <4>1 DEF ErrorsInv, CauseInData
    <3>2. CASE h = n
      <4>1. <<1, kind>> \in DataLines(sent[n - 1])
        BY <1>5, <1>12, <2>1, <3>2 DEF ErrorsInv, CauseInData
      <4>2. x /\ how[n] \in {"wrap", "relay"}
        <5>1. /\ how \in Seq({"own", "wrap", "relay"}) /\ Len(how) = n
              /\ DOMAIN how = 1..Len(how)
          BY <1>5, LenProperties DEF ErrorsTypeOK
        <5>2. how[n] \in {"own", "wrap", "relay"}
          BY <1>5, <5>1, ElementOfSeq
        <5> QED BY <1>2, <1>5, <1>12, <3>2, <5>2
      <4>3. CASE how[n] = "wrap"
        <5>1. e.data = {} /\ e.source = {DisplayObject(sent[n - 1])}
          BY <1>2, <1>5, <1>6, <1>12, <4>3 DEF Holds
        <5>2. <<1, kind>> \in LinesOf(DisplayObject(sent[n - 1]))
          BY <1>5, <2>1, <4>1, DisplayedObject
        <5> QED BY <1>7, <1>8, <3>2, <4>2, <5>1, <5>2 DEF SourceLines
      <4>4. CASE how[n] = "relay"
        <5>1. e.data = sent[n - 1].data
          BY <1>2, <1>5, <1>6, <1>12, <4>4 DEF Holds
        <5> QED BY <1>7, <1>8, <3>2, <4>1, <5>1 DEF DataLines
      <4> QED BY <4>2, <4>3, <4>4
    <3> QED BY <3>1, <3>2
  <2> QED BY <1>4, <1>5, <1>8, <1>9, <1>10, <2>2, <2>3 DEF ErrorsInv, Hop
<1> QED BY <1>11, <1>12

\* A result of the wrong type is an error of the server's own.
LEMMA MisreadingKeeps ==
  ASSUME ErrorsInv, Misread
  PROVE  ErrorsInv'
<1>1. /\ ErrorsTypeOK /\ Hop # 1 /\ error = {} /\ Hop' = Hop
      /\ UNCHANGED <<expose, error, relayed, how, sent, published>>
  BY HopType DEF ErrorsInv, Misread, Hop
<1>2. received' \in Options(Texts)
  <2>1. <<Line("source")>> \in Texts
    BY <1>1, OwnTexts DEF Kinds
  <2>2. DisplayError(FromStd(<<Line("source")>>)) \in Texts
    BY <2>1, FromStdType, MessageType DEF DisplayError
  <2> QED BY <2>2, OptionType DEF Misread
<1>3. ErrorsTypeOK'
  BY <1>1, <1>2 DEF ErrorsTypeOK
<1> QED BY <1>1, <1>3 DEF ErrorsInv, OnlyPublished, CauseInData, FirstCause

\* It is inductive: whatever a server makes of an error, wraps, relays or adds
\* keeps it.
THEOREM ErrorsInvHolds == ErrorsSpec => []ErrorsInv
<1>1. ErrorsInit => ErrorsInv
  <2> SUFFICES ASSUME ErrorsInit PROVE ErrorsInv
    OBVIOUS
  <2>1. Len(sent) = 0 /\ DOMAIN sent = {} /\ Hop = 1
    BY EmptySeq, LenProperties DEF ErrorsInit, Hop
  <2>2. ErrorsTypeOK
    <3>1. {} \in Options(ErrorType) /\ {} \in Options(Texts)
      BY DEF Options
    <3>2. Len(how) = 0 /\ Len(published) = 0 /\ relayed \in BOOLEAN
      BY EmptySeq DEF ErrorsInit
    <3> QED BY <2>1, <3>1, <3>2, ErrorsAssumption, EmptySeq
            DEF ErrorsInit, ErrorsTypeOK
  <2> QED BY <2>1, <2>2
          DEF ErrorsInit, ErrorsInv, OnlyPublished, CauseInData, FirstCause
<1>2. ErrorsInv /\ [ErrorsNext]_errorVars => ErrorsInv'
  <2> SUFFICES ASSUME ErrorsInv, [ErrorsNext]_errorVars PROVE ErrorsInv'
    OBVIOUS
  <2>1. CASE UNCHANGED errorVars
    BY <2>1 DEF errorVars, ErrorsInv, ErrorsTypeOK, Hop, Holds, OnlyPublished,
                CauseInData, FirstCause
  <2>2. CASE Arrived
    BY <2>1, <2>2 DEF Arrived
  <2>3. CASE Hop <= Hops /\ ErrorsNext /\ ~Arrived
    BY <2>3, MakingKeeps, PassingKeeps, AdorningKeeps, RespondingKeeps,
       MisreadingKeeps
       DEF ErrorsNext
  <2> QED BY <2>1, <2>2, <2>3 DEF ErrorsNext
<1> QED BY <1>1, <1>2, PTL DEF ErrorsSpec

\* No chain of servers, however long, and no order of wrapping, relaying and
\* adorning makes a server that does not expose its internals show a line it
\* did not mean for others. (Error::to_error_object, error.rs:100-143)
THEOREM OnlyPublishedHolds == ErrorsSpec => []OnlyPublished
<1>1. ErrorsInv => OnlyPublished
  BY DEF ErrorsInv
<1> QED BY <1>1, ErrorsInvHolds, PTL

\* However long the chain, servers that expose their internals and pass the
\* error on lose no line of its cause. (error.rs:102-117, 226-235)
THEOREM CauseSurvivesHolds == ErrorsSpec => []CauseSurvives
<1>1. ErrorsInv => CauseSurvives
  <2> SUFFICES ASSUME ErrorsInv, NEW h \in DOMAIN sent,
                      \A i \in 1..h : expose[i], \A i \in 2..h : how[i] # "own",
                      ObjectLines(sent[1]) \intersect {<<1, "source">>, <<1, "detail">>} # {}
               PROVE  /\ <<1, "source">> \in ObjectLines(sent[h])
                      /\ <<1, "detail">> \in ObjectLines(sent[1])
                           => <<1, "detail">> \in ObjectLines(sent[h])
    BY DEF CauseSurvives
  <2>1. /\ h \in 1..Len(sent) /\ 1 \in DOMAIN sent /\ sent[h] \in ObjectType
        /\ expose[1]
    BY HopType DEF ErrorsInv
  <2>2. <<1, "source">> \in ObjectLines(sent[1])
    BY <2>1 DEF ErrorsInv, FirstCause
  <2>3. \A kind \in {"source", "detail"} :
          <<1, kind>> \in ObjectLines(sent[1]) => <<1, kind>> \in DataLines(sent[h])
    BY DEF ErrorsInv, CauseInData
  <2> QED BY <2>1, <2>2, <2>3, DisplayedObject
<1> QED BY <1>1, ErrorsInvHolds, PTL

\* An ErrorObject that is relayed as it came is answered with as it was, by
\* whichever server. (From<ErrorObject>, error.rs:156)
THEOREM RelayedAsIsHolds == ErrorsSpec => RelayedAsIs
<1>1. ErrorsInv /\ [ErrorsNext]_errorVars =>
        [relayed /\ sent' # sent =>
           LET o == sent[Hop - 1]
               p == sent'[Hop]
           IN  /\ p.code = o.code /\ p.message = o.message
               /\ (p.data = o.data \/ (expose[Hop] /\ o.data = {}))]_errorVars
  <2> SUFFICES ASSUME ErrorsInv, [ErrorsNext]_errorVars, relayed, sent' # sent,
                      NEW o, o = sent[Hop - 1], NEW p, p = sent'[Hop]
               PROVE  /\ p.code = o.code /\ p.message = o.message
                      /\ (p.data = o.data \/ (expose[Hop] /\ o.data = {}))
    OBVIOUS
  <2>1. Respond
    BY DEF ErrorsNext, errorVars, Arrived, Bail, BailPublic, Question, InvalidParams,
           SerializeFailed, Misread, Wrap, Relay, AdornMessage, AdornSource, Makes
  <2>2. /\ ErrorsTypeOK /\ Hop > 1 /\ error = {FromErrorObject(o)}
        /\ Hop = Len(sent) + 1 /\ Len(sent) \in Nat /\ sent \in Seq(ObjectType)
    BY HopType DEF ErrorsInv, ErrorsTypeOK, Hop
  <2>3. PICK e \in error : sent' = Append(sent, ToErrorObject(e, expose[Hop]))
    BY <2>1 DEF Respond
  <2>4. p = ToErrorObject(FromErrorObject(o), expose[Hop])
    BY <2>2, <2>3, AppendProperties
  <2>5. o.code = FromErrorObject(o).code /\ Message(FromErrorObject(o), expose[Hop]) = o.message
    BY OnlyOption DEF FromErrorObject, Message
  <2> QED BY <2>4, <2>5 DEF ToErrorObject, FromErrorObject
<1> QED BY <1>1, ErrorsInvHolds, PTL DEF ErrorsSpec, RelayedAsIs
-----------------------------------------------------------------------------
(* AbortingHandles: Max, retain and push                                   *)

\* The greatest of a finite set of numbers is there.
LEMMA MaxUpto ==
  ASSUME NEW n \in Nat, NEW S \in SUBSET (0..n), S # {}
  PROVE  Max(S) \in S /\ \A y \in S : y <= Max(S)
<1> DEFINE Bounded == {m \in Nat : \A T \in SUBSET (0..m) : T # {} =>
                         \E x \in T : \A y \in T : x >= y}
<1>1. 0 \in Bounded
  <2> SUFFICES ASSUME NEW T \in SUBSET (0..0), T # {}
               PROVE  \E x \in T : \A y \in T : x >= y
    OBVIOUS
  <2>1. PICK x \in T : TRUE
    OBVIOUS
  <2>2. \A y \in T : x >= y
    OBVIOUS
  <2> QED BY <2>2
<1>2. ASSUME NEW m \in Nat, m \in Bounded PROVE m + 1 \in Bounded
  <2> SUFFICES ASSUME NEW T \in SUBSET (0..(m + 1)), T # {}
               PROVE  \E x \in T : \A y \in T : x >= y
    OBVIOUS
  <2>1. CASE m + 1 \in T
    <3>1. \A y \in T : m + 1 >= y
      OBVIOUS
    <3> QED BY <2>1, <3>1
  <2>2. CASE m + 1 \notin T
    <3>1. T \in SUBSET (0..m)
      <4> SUFFICES ASSUME NEW y \in T PROVE y \in 0..m
        OBVIOUS
      <4>1. y \in 0..(m + 1) /\ y # m + 1
        BY <2>2
      <4> QED BY <4>1
    <3> QED BY <1>2, <3>1
  <2> QED BY <2>1, <2>2
<1> HIDE DEF Bounded
<1>3. n \in Bounded
  BY <1>1, <1>2, InductionOnSet
<1>4. \E x \in S : \A y \in S : x >= y
  BY <1>3 DEF Bounded
<1>5. \A y \in S : y \in Nat
  OBVIOUS
<1>6. Max(S) \in S /\ \A y \in S : Max(S) >= y
  BY <1>4 DEF Max
<1> QED BY <1>5, <1>6

\* The greater of two,
LEMMA MaxOfTwo ==
  ASSUME NEW a \in Nat, NEW b \in Nat
  PROVE  LET m == Max({a} \union {b})
         IN  m \in Nat /\ a <= m /\ b <= m /\ m \in {a, b}
<1>1. PICK n \in Nat : a <= n /\ b <= n
  <2>1. a + b \in Nat /\ a <= a + b /\ b <= a + b
    OBVIOUS
  <2> QED BY <2>1
<1>2. {a} \union {b} \in SUBSET (0..n)
  BY <1>1
<1> QED BY <1>2, MaxUpto

\* and the greatest of three
LEMMA MaxOfThree ==
  ASSUME NEW a \in Nat, NEW b \in Nat, NEW c \in Nat
  PROVE  LET m == Max({a, b, c})
         IN  m \in Nat /\ a <= m /\ b <= m /\ c <= m /\ m \in {a, b, c}
<1>1. PICK n \in Nat : a <= n /\ b <= n /\ c <= n
  <2>1. a + b + c \in Nat /\ a <= a + b + c /\ b <= a + b + c /\ c <= a + b + c
    OBVIOUS
  <2> QED BY <2>1
<1>2. {a, b, c} \in SUBSET (0..n)
  BY <1>1
<1> QED BY <1>2, MaxUpto
-----------------------------------------------------------------------------
\* No handle is in the vector twice.
Distinct(hs) == \A i, j \in DOMAIN hs : hs[i] = hs[j] => i = j

\* A handle that is pushed is the only one more.
LEMMA ListedAppend ==
  ASSUME NEW S, NEW hs \in Seq(S), NEW t \in S
  PROVE  /\ Listed(Append(hs, t)) = Listed(hs) \union {t}
         /\ Distinct(hs) /\ t \notin Listed(hs) => Distinct(Append(hs, t))
<1> DEFINE app == Append(hs, t)
<1>1. /\ Len(hs) \in Nat /\ DOMAIN hs = 1..Len(hs) /\ DOMAIN app = 1..(Len(hs) + 1)
      /\ \A i \in 1..Len(hs) : app[i] = hs[i]
      /\ app[Len(hs) + 1] = t
  BY LenProperties, AppendProperties
<1> HIDE DEF app
<1>2. DOMAIN app = DOMAIN hs \union {Len(hs) + 1} /\ Len(hs) + 1 \notin DOMAIN hs
  BY <1>1
<1>3. Listed(app) = Listed(hs) \union {t}
  <2>1. ASSUME NEW x \in Listed(app) PROVE x \in Listed(hs) \union {t}
    <3>1. PICK i \in DOMAIN app : x = app[i]
      BY DEF Listed
    <3>2. CASE i \in DOMAIN hs
      BY <1>1, <3>1, <3>2 DEF Listed
    <3>3. CASE i = Len(hs) + 1
      BY <1>1, <3>1, <3>3
    <3> QED BY <1>2, <3>2, <3>3
  <2>2. ASSUME NEW x \in Listed(hs) PROVE x \in Listed(app)
    <3>1. PICK i \in DOMAIN hs : x = hs[i]
      BY DEF Listed
    <3>2. i \in DOMAIN app /\ app[i] = x
      BY <1>1, <1>2, <3>1
    <3> QED BY <3>2 DEF Listed
  <2>3. t \in Listed(app)
    BY <1>1, <1>2 DEF Listed
  <2> QED BY <2>1, <2>2, <2>3
<1>4. ASSUME Distinct(hs), t \notin Listed(hs) PROVE Distinct(app)
  <2>1. \A i \in DOMAIN hs : app[i] = hs[i] /\ hs[i] # t
    BY <1>1, <1>4 DEF Listed
  <2>2. \A i, j \in DOMAIN hs : hs[i] = hs[j] => i = j
    BY <1>4 DEF Distinct
  <2> QED BY <1>1, <1>2, <2>1, <2>2 DEF Distinct
<1> QED BY <1>3, <1>4 DEF app

\* Vec::retain keeps what it is to keep, once.
LEMMA WithoutFacts ==
  ASSUME NEW S, NEW hs \in Seq(S), NEW out
  PROVE  /\ Without(hs, out) \in Seq(S)
         /\ Len(Without(hs, out)) <= Len(hs)
         /\ Listed(Without(hs, out)) = Listed(hs) \ out
         /\ Distinct(hs) => Distinct(Without(hs, out))
<1> DEFINE next(n, s) == IF n + 1 \in DOMAIN hs /\ hs[n + 1] \notin out
                         THEN Append(s, hs[n + 1]) ELSE s
           N == Len(hs)
<1>1. N \in Nat /\ DOMAIN hs = 1..N /\ \A i \in 1..N : hs[i] \in S
  BY LenProperties, ElementOfSeq
<1>2. PICK step \in [Nat -> [Seq(S) -> Seq(S)]] :
        \A n \in Nat : \A s \in Seq(S) : step[n][s] = next(n, s)
  <2> DEFINE st == [n \in Nat |-> [s \in Seq(S) |-> next(n, s)]]
  <2>1. ASSUME NEW n \in Nat, NEW s \in Seq(S) PROVE next(n, s) \in Seq(S)
    BY <1>1, AppendProperties
  <2> HIDE DEF next
  <2>2. st \in [Nat -> [Seq(S) -> Seq(S)]]
    BY <2>1
  <2>3. \A n \in Nat : \A s \in Seq(S) : st[n][s] = next(n, s)
    OBVIOUS
  <2> QED BY <2>2, <2>3
<1>3. <<>> \in Seq(S)
  OBVIOUS
<1>4. PICK f \in [Nat -> Seq(S)] : Recursive(f, <<>>, step)
  BY <1>2, <1>3, RecursionOnNat
<1>5. f[0] = <<>> /\ \A n \in Nat : f[n] \in Seq(S) /\ f[n + 1] = next(n, f[n])
  BY <1>2, <1>4 DEF Recursive
<1> DEFINE body(g, i) == IF i = 0 THEN <<>>
                         ELSE IF hs[i] \in out THEN g[i - 1]
                         ELSE Append(g[i - 1], hs[i])
           kept == CHOOSE g : g = [i \in 0..N |-> body(g, i)]
<1>6. kept = [i \in 0..N |-> body(kept, i)]
  <2> DEFINE h == [i \in 0..N |-> f[i]]
  <2>1. ASSUME NEW i \in 0..N PROVE h[i] = body(h, i)
    <3>1. CASE i = 0
      BY <1>5, <3>1 DEF body
    <3>2. CASE i # 0
      <4>1. /\ i - 1 \in Nat /\ i - 1 \in 0..N /\ (i - 1) + 1 = i /\ i \in DOMAIN hs
        BY <1>1, <3>2
      <4>2. f[i] = next(i - 1, f[i - 1])
        BY <1>5, <4>1
      <4> QED BY <3>2, <4>1, <4>2 DEF next, body
    <3> QED BY <3>1, <3>2
  <2> HIDE DEF body
  <2>2. h = [i \in 0..N |-> body(h, i)]
    BY <2>1
  <2> QED BY <2>2
<1>7. Without(hs, out) = kept[N]
  BY DEF Without
<1> HIDE DEF kept
<1> DEFINE first(n) == {hs[i] : i \in 1..n}
           right(n) == /\ kept[n] \in Seq(S) /\ Len(kept[n]) <= n
                       /\ Listed(kept[n]) = first(n) \ out
                       /\ Distinct(hs) => Distinct(kept[n])
           Right == {n \in Nat : n <= N => right(n)}
<1> HIDE DEF next, body, right
<1>8. 0 \in Right
  <2>1. kept[0] = <<>>
    BY <1>1, <1>6 DEF body
  <2>2. /\ <<>> \in Seq(S) /\ Len(<<>>) = 0 /\ Listed(<<>>) = {} /\ first(0) = {}
        /\ Distinct(<<>>)
    BY DEF Listed, Distinct
  <2>3. right(0)
    BY <2>1, <2>2 DEF right
  <2> QED BY <2>3
<1>9. ASSUME NEW n \in Nat, n \in Right PROVE n + 1 \in Right
  <2> SUFFICES ASSUME n + 1 <= N PROVE right(n + 1)
    OBVIOUS
  <2>1. /\ n + 1 \in 0..N /\ n + 1 # 0 /\ (n + 1) - 1 = n /\ n + 1 \in 1..N
        /\ hs[n + 1] \in S /\ n \in 0..N /\ n <= N
    BY <1>1
  <2>2. /\ kept[n] \in Seq(S) /\ Len(kept[n]) <= n
        /\ Listed(kept[n]) = first(n) \ out
        /\ Distinct(hs) => Distinct(kept[n])
    BY <1>9, <2>1 DEF right
  <2>3. kept[n + 1] = IF hs[n + 1] \in out THEN kept[n]
                      ELSE Append(kept[n], hs[n + 1])
    BY <1>6, <2>1 DEF body
  <2>4. first(n + 1) = first(n) \union {hs[n + 1]}
    BY IntervalGrows
  <2>5. Distinct(hs) => hs[n + 1] \notin first(n)
    <3>1. \A i \in 1..n : i \in DOMAIN hs /\ i # n + 1
      BY <1>1, <2>1
    <3>2. n + 1 \in DOMAIN hs
      BY <1>1, <2>1
    <3> QED BY <3>1, <3>2 DEF Distinct
  <2>6. Len(kept[n]) \in Nat /\ Len(kept[n]) <= n + 1
    BY <2>2, LenProperties
  <2> HIDE DEF first
  <2>7. CASE hs[n + 1] \in out
    <3>1. kept[n + 1] = kept[n]
      BY <2>3, <2>7
    <3> QED BY <2>2, <2>4, <2>6, <2>7, <3>1 DEF right
  <2>8. CASE hs[n + 1] \notin out
    <3>1. kept[n + 1] = Append(kept[n], hs[n + 1])
      BY <2>3, <2>8
    <3>2. /\ Append(kept[n], hs[n + 1]) \in Seq(S)
          /\ Len(Append(kept[n], hs[n + 1])) = Len(kept[n]) + 1
      BY <2>1, <2>2, AppendProperties
    <3>3. kept[n] \in Seq(S) /\ hs[n + 1] \in S
      BY <2>1, <2>2
    <3>4. /\ Listed(Append(kept[n], hs[n + 1])) = Listed(kept[n]) \union {hs[n + 1]}
          /\ Distinct(kept[n]) /\ hs[n + 1] \notin Listed(kept[n])
               => Distinct(Append(kept[n], hs[n + 1]))
      BY <3>3, ListedAppend
    <3>5. Listed(kept[n + 1]) = first(n + 1) \ out
      BY <2>2, <2>4, <2>8, <3>1, <3>4
    <3>6. Distinct(hs) => Distinct(kept[n + 1])
      BY <2>2, <2>5, <3>1, <3>4
    <3>7. kept[n + 1] \in Seq(S) /\ Len(kept[n + 1]) <= n + 1
      BY <2>2, <2>6, <3>1, <3>2
    <3> QED BY <3>5, <3>6, <3>7 DEF right
  <2> QED BY <2>7, <2>8
<1>10. N \in Right
  <2> HIDE DEF Right
  <2> QED BY <1>1, <1>8, <1>9, InductionOnSet
<1>11. first(N) = Listed(hs)
  BY <1>1 DEF Listed
<1> HIDE DEF first
<1> QED BY <1>1, <1>7, <1>10, <1>11 DEF right

\* There are as many handles as places.
LEMMA DistinctCardinality ==
  ASSUME NEW S, NEW hs \in Seq(S), Distinct(hs)
  PROVE  IsFiniteSet(Listed(hs)) /\ Cardinality(Listed(hs)) = Len(hs)
<1>1. Len(hs) \in Nat /\ DOMAIN hs = 1..Len(hs) /\ hs \in [1..Len(hs) -> S]
  BY LenProperties
<1> DEFINE g == [i \in 1..Len(hs) |-> hs[i]]
<1>2. g \in Bijection(1..Len(hs), Listed(hs))
  <2>1. g \in [1..Len(hs) -> Listed(hs)]
    BY <1>1 DEF Listed
  <2>2. IsInjective(g)
    BY <1>1 DEF IsInjective, Distinct
  <2>3. \A x \in Listed(hs) : \E i \in 1..Len(hs) : g[i] = x
    BY <1>1 DEF Listed
  <2> QED BY <2>1, <2>2, <2>3 DEF Bijection, Injection, Surjection
<1>3. ExistsBijection(1..Len(hs), Listed(hs))
  BY <1>2 DEF ExistsBijection
<1> QED BY <1>1, <1>3, FS_CountingElements, FS_NatBijection
-----------------------------------------------------------------------------
(* The vector of aborted tasks                                             *)

\* The vector never outgrows its capacity, which is none or at least what
\* Vec::reserve gives first.
Sizes ==
  /\ capacity \in Nat /\ peak \in Nat /\ Len(handles) <= capacity
  /\ capacity = 0 \/ capacity >= 4
  /\ MemoryBounded

\* The handles in the vector are those of tasks that were pushed.
Entries ==
  /\ pushed \in Nat /\ handles \in Seq(1..pushed) /\ popped \subseteq 1..pushed
  /\ NoneLost

\* What makes NoneLost and MemoryBounded inductive
HandlesInv == Sizes /\ Entries

\* NoneLost, with Distinct
LEMMA NoneLostInParts ==
  NoneLost <=>
    /\ \A t \in 1..pushed : Running(t) => t \in Listed(handles) \union popped
    /\ Listed(handles) \intersect popped = {}
    /\ Distinct(handles)
BY DEF NoneLost, Distinct

\* The tasks that run can be counted.
LEMMA RunningListed ==
  ASSUME NEW S, NEW hs \in Seq(S), Distinct(hs)
  PROVE  Cardinality({u \in Listed(hs) : Running(u)}) \in Nat
<1>1. {u \in Listed(hs) : Running(u)} \in SUBSET Listed(hs)
  OBVIOUS
<1>2. IsFiniteSet({u \in Listed(hs) : Running(u)})
  BY <1>1, DistinctCardinality, FS_Subset
<1> QED BY <1>2, FS_CardinalityType

\* Vec::reserve leaves room for what is to come.
LEMMA ReserveFacts ==
  ASSUME NEW cap \in Nat, NEW len \in Nat, NEW more \in Nat
  PROVE  /\ Reserve(cap, len, more) \in Nat
         /\ len + more <= Reserve(cap, len, more)
         /\ len + more <= cap => Reserve(cap, len, more) = cap
         /\ len + more > cap =>
              /\ Reserve(cap, len, more) >= 4
              /\ Reserve(cap, len, more) \in {2 * cap, len + more, 4}
<1>1. 2 * cap \in Nat /\ len + more \in Nat /\ 4 \in Nat
  OBVIOUS
<1>2. LET m == Max({2 * cap, len + more, 4})
      IN  m \in Nat /\ len + more <= m /\ 4 <= m /\ m \in {2 * cap, len + more, 4}
  BY <1>1, MaxOfThree
<1> QED BY <1>1, <1>2 DEF Reserve

\* A push into a full vector grows it only if half of its handles, at least,
\* are of running tasks; and it keeps those. (AbortingHandles::push)
LEMMA PushSizes ==
  ASSUME HandlesInv, NEW t, t = pushed + 1, Running(t), PushRunning(t),
         peak' = Max({peak} \union {Cardinality({u \in Listed(handles') : Running(u)})}),
         UNCHANGED finished
  PROVE  /\ Sizes' /\ handles' \in Seq(1..t) /\ Distinct(handles')
         /\ t \in Listed(handles') /\ Listed(handles') \subseteq Listed(handles) \union {t}
         /\ \A u \in Listed(handles) : Running(u) => u \in Listed(handles')
<1> DEFINE kept == IF capacity = Len(handles) THEN Without(handles, finished)
                   ELSE handles
<1>1. /\ pushed \in Nat /\ handles \in Seq(1..pushed) /\ t \in 1..t /\ t \in Nat
      /\ Distinct(handles) /\ t \notin Listed(handles)
      /\ capacity \in Nat /\ peak \in Nat /\ capacity <= 4 * peak
      /\ Len(handles) \in Nat /\ Len(handles) <= capacity
      /\ capacity = 0 \/ capacity >= 4
  <2>1. t \notin Listed(handles)
    <3> SUFFICES ASSUME t \in Listed(handles) PROVE FALSE
      OBVIOUS
    <3>1. PICK i \in DOMAIN handles : handles[i] = t
      BY DEF Listed
    <3>2. handles[i] \in 1..pushed
      BY LenProperties, ElementOfSeq DEF HandlesInv, Entries
    <3> QED BY <3>1, <3>2 DEF HandlesInv, Entries
  <2>2. Distinct(handles)
    BY NoneLostInParts DEF HandlesInv, Entries
  <2> QED BY <2>1, <2>2, LenProperties
          DEF HandlesInv, Entries, Sizes, MemoryBounded
<1>2. /\ kept \in Seq(1..t) /\ Distinct(kept) /\ t \notin Listed(kept)
      /\ Len(kept) \in Nat /\ Len(kept) <= Len(handles)
      /\ Listed(kept) \subseteq Listed(handles)
      /\ \A u \in Listed(handles) : Running(u) => u \in Listed(kept)
      /\ capacity = Len(handles) => \A u \in Listed(kept) : Running(u)
  <2>1. handles \in Seq(1..t)
    <3>1. 1..pushed \subseteq 1..t
      BY <1>1
    <3> QED BY <1>1, <3>1
  <2>2. /\ Without(handles, finished) \in Seq(1..t)
        /\ Len(Without(handles, finished)) <= Len(handles)
        /\ Listed(Without(handles, finished)) = Listed(handles) \ finished
        /\ Distinct(Without(handles, finished))
    BY <1>1, <2>1, WithoutFacts
  <2>3. CASE capacity = Len(handles)
    <3>1. kept = Without(handles, finished)
      BY <2>3
    <3> HIDE DEF kept
    <3> QED BY <1>1, <2>2, <2>3, <3>1, LenProperties DEF Running
  <2>4. CASE capacity # Len(handles)
    <3>1. kept = handles
      BY <2>4
    <3> HIDE DEF kept
    <3> QED BY <1>1, <2>1, <2>4, <3>1
  <2> QED BY <2>3, <2>4
<1>3. handles' = Append(kept, t)
  BY DEF PushRunning
<1>4. capacity' = Reserve(IF capacity = Len(handles) /\ Len(kept) >= capacity \div 2
                          THEN Reserve(capacity, Len(kept), 2 * capacity - Len(kept))
                          ELSE capacity, Len(kept), 1)
  BY DEF PushRunning
<1> HIDE DEF kept
<1>5. /\ Listed(handles') = Listed(kept) \union {t} /\ Distinct(handles')
      /\ handles' \in Seq(1..t) /\ Len(handles') = Len(kept) + 1
  <2>1. kept \in Seq(1..t) /\ t \in 1..t
    BY <1>1, <1>2
  <2>2. /\ Listed(Append(kept, t)) = Listed(kept) \union {t}
        /\ Distinct(kept) /\ t \notin Listed(kept) => Distinct(Append(kept, t))
    BY <2>1, ListedAppend
  <2>3. Append(kept, t) \in Seq(1..t) /\ Len(Append(kept, t)) = Len(kept) + 1
    BY <2>1, AppendProperties
  <2> QED BY <1>2, <1>3, <2>2, <2>3
<1> DEFINE now == Cardinality({u \in Listed(handles') : Running(u)})
<1>6. now \in Nat /\ (capacity = Len(handles) => now = Len(kept) + 1)
  <2>1. now \in Nat
    BY <1>5, RunningListed
  <2>2. ASSUME capacity = Len(handles) PROVE now = Len(kept) + 1
    <3>1. {u \in Listed(handles') : Running(u)} = Listed(handles')
      BY <1>2, <1>5, <2>2
    <3>2. Cardinality(Listed(handles')) = Len(handles')
      BY <1>5, DistinctCardinality
    <3> QED BY <1>5, <3>1, <3>2
  <2> QED BY <2>1, <2>2
<1>7. peak' \in Nat /\ peak <= peak' /\ now <= peak'
  <2>1. peak' = Max({peak} \union {now})
    OBVIOUS
  <2> HIDE DEF now
  <2> QED BY <1>1, <1>6, <2>1, MaxOfTwo
<1> HIDE DEF now
<1>8. /\ capacity' \in Nat /\ Len(kept) + 1 <= capacity'
      /\ capacity' = 0 \/ capacity' >= 4
      /\ capacity' <= 4 * peak'
  <2>1. CASE capacity # Len(handles)
    <3>1. capacity' = Reserve(capacity, Len(kept), 1)
      BY <1>4, <2>1
    <3>2. Len(kept) + 1 <= capacity
      BY <1>1, <1>2, <2>1
    <3>3. capacity' = capacity
      BY <1>1, <1>2, <3>1, <3>2, ReserveFacts
    <3> QED BY <1>1, <1>2, <1>7, <3>2, <3>3
  <2>2. CASE capacity = Len(handles) /\ ~(Len(kept) >= capacity \div 2)
    <3>1. capacity' = Reserve(capacity, Len(kept), 1)
      BY <1>4, <2>2
    <3>2. Len(kept) + 1 <= capacity
      BY <1>1, <1>2, <2>2
    <3>3. capacity' = capacity
      BY <1>1, <1>2, <3>1, <3>2, ReserveFacts
    <3> QED BY <1>1, <1>2, <1>7, <3>2, <3>3
  <2>3. CASE capacity = Len(handles) /\ Len(kept) >= capacity \div 2
    <3> DEFINE more == 2 * capacity - Len(kept)
               reserved == Reserve(capacity, Len(kept), more)
    <3>1. capacity' = Reserve(reserved, Len(kept), 1)
      BY <1>4, <2>3
    <3>2. more \in Nat /\ Len(kept) + more = 2 * capacity
      BY <1>1, <1>2
    <3>3. now = Len(kept) + 1 /\ capacity <= 2 * Len(kept) + 1
      BY <1>1, <1>2, <1>6, <2>3
    <3> HIDE DEF more
    <3>4. /\ reserved \in Nat
          /\ capacity = 0 => reserved = 0
          /\ capacity # 0 => reserved = 2 * capacity
      <4>1. capacity \in Nat /\ Len(kept) \in Nat /\ more \in Nat
        BY <1>1, <1>2, <3>2
      <4>2. /\ reserved \in Nat
            /\ Len(kept) + more <= capacity => reserved = capacity
            /\ Len(kept) + more > capacity =>
                 reserved >= 4 /\ reserved \in {2 * capacity, Len(kept) + more, 4}
            /\ Len(kept) + more <= reserved
        BY <4>1, ReserveFacts
      <4> HIDE DEF reserved
      <4>3. /\ 2 * capacity <= capacity => reserved = capacity
            /\ 2 * capacity > capacity => reserved \in {2 * capacity, 4}
            /\ 2 * capacity <= reserved
        BY <3>2, <4>2
      <4> QED BY <1>1, <4>2, <4>3
    <3> HIDE DEF reserved
    <3>5. CASE capacity = 0
      <4>1. Len(kept) = 0 /\ reserved = 0
        BY <1>1, <1>2, <2>3, <3>4, <3>5
      <4>2. capacity' = 4
        <5>1. Reserve(0, 0, 1) >= 4 /\ Reserve(0, 0, 1) \in {2 * 0, 0 + 1, 4}
          BY ReserveFacts, 0 \in Nat, 1 \in Nat, 0 + 1 > 0
        <5>2. Reserve(0, 0, 1) = 4
          BY <5>1
        <5> QED BY <3>1, <4>1, <5>2
      <4> QED BY <1>7, <3>3, <4>1, <4>2
    <3>6. CASE capacity # 0
      <4>1. Len(kept) + 1 <= reserved /\ reserved = 2 * capacity
        BY <1>1, <1>2, <3>4, <3>6
      <4>2. capacity' = reserved
        BY <1>2, <3>1, <3>4, <4>1, ReserveFacts
      <4> QED BY <1>1, <1>2, <1>7, <3>3, <3>6, <4>1, <4>2
    <3> QED BY <3>5, <3>6
  <2> QED BY <2>1, <2>2, <2>3
<1>9. Sizes'
  BY <1>2, <1>5, <1>7, <1>8 DEF Sizes, MemoryBounded
<1> QED BY <1>2, <1>5, <1>9

\* Each operation keeps the invariant: push,
LEMMA PushKeeps == ASSUME HandlesInv, Push PROVE HandlesInv'
<1> DEFINE t == pushed + 1
<1>1. /\ pushed \in Nat /\ pushed' = t /\ 1..pushed' = 1..pushed \union {t}
      /\ UNCHANGED <<finished, popped>> /\ popped \subseteq 1..pushed
      /\ peak' = Max({peak} \union {Cardinality({u \in Listed(handles') : Running(u)})})
  BY IntervalGrows DEF Push, HandlesInv, Entries
<1>2. /\ \A u \in 1..pushed : Running(u) => u \in Listed(handles) \union popped
      /\ Listed(handles) \intersect popped = {}
      /\ Distinct(handles)
  BY NoneLostInParts DEF HandlesInv, Entries
<1>3. t \notin popped
  BY <1>1
<1>5. \A u : Running(u)' <=> Running(u)
  BY <1>1 DEF Running
<1>6. CASE Running(t) /\ PushRunning(t)
  <2> HIDE DEF t
  <2>1. t = pushed + 1
    BY DEF t
  <2>2. /\ Sizes' /\ handles' \in Seq(1..t) /\ Distinct(handles')
        /\ t \in Listed(handles') /\ Listed(handles') \subseteq Listed(handles) \union {t}
        /\ \A u \in Listed(handles) : Running(u) => u \in Listed(handles')
    BY <1>1, <1>6, <2>1, PushSizes
  <2>3. \A u \in 1..pushed' : Running(u)' => u \in Listed(handles') \union popped'
    BY <1>1, <1>2, <1>5, <2>2
  <2>4. Listed(handles') \intersect popped' = {}
    BY <1>1, <1>2, <1>3, <2>2
  <2>5. /\ Listed(handles)' = Listed(handles') /\ Distinct(handles)' = Distinct(handles')
    BY DEF Listed, Distinct
  <2>6. NoneLost'
    BY <2>2, <2>3, <2>4, Zenon DEF NoneLost, Distinct, Listed
  <2>7. pushed' \in Nat /\ popped' \subseteq 1..pushed'
    BY <1>1, <2>1
  <2> QED BY <1>1, <2>2, <2>6, <2>7 DEF HandlesInv, Entries
<1>7. CASE ~Running(t) /\ UNCHANGED <<handles, capacity>>
  <2>1. HandlesInv /\ capacity \in Nat /\ peak \in Nat /\ capacity <= 4 * peak
        /\ handles \in Seq(1..pushed)
    BY DEF HandlesInv, Sizes, Entries, MemoryBounded
  <2> DEFINE now == Cardinality({u \in Listed(handles') : Running(u)})
  <2>2. now \in Nat
    BY <1>2, <1>7, <2>1, RunningListed
  <2>3. peak' = Max({peak} \union {now})
    BY <1>1
  <2> HIDE DEF now
  <2>4. peak' \in Nat /\ peak <= peak'
    BY <2>1, <2>2, <2>3, MaxOfTwo
  <2>5. Sizes'
    <3>1. capacity' = capacity /\ Len(handles') = Len(handles)
      BY <1>7
    <3>2. Len(handles) <= capacity /\ (capacity = 0 \/ capacity >= 4)
      BY DEF HandlesInv, Sizes
    <3>3. capacity <= 4 * peak'
      <4>1. \A p, q, c \in Nat : c <= 4 * p /\ p <= q => c <= 4 * q
        OBVIOUS
      <4> QED BY <2>1, <2>4, <4>1
    <3> QED BY <2>1, <2>4, <3>1, <3>2, <3>3 DEF Sizes, MemoryBounded
  <2>6. handles' \in Seq(1..pushed')
    <3>1. 1..pushed \subseteq 1..pushed'
      BY <1>1
    <3>2. \A S, T : S \subseteq T => Seq(S) \subseteq Seq(T)
      OBVIOUS
    <3>3. Seq(1..pushed) \subseteq Seq(1..pushed')
      BY <3>1, <3>2
    <3>4. handles' = handles
      BY <1>7
    <3> QED BY <2>1, <3>3, <3>4
  <2>7. NoneLost'
    <3>1. \A u \in 1..pushed' : Running(u)' => u \in Listed(handles) \union popped
      BY <1>1, <1>2, <1>5, <1>7
    <3>2. Listed(handles)' = Listed(handles)
      BY <1>7 DEF Listed
    <3> QED BY <1>1, <1>2, <1>7, <3>1, <3>2 DEF NoneLost, Distinct
  <2> QED BY <1>1, <2>5, <2>6, <2>7 DEF HandlesInv, Entries
<1> QED BY <1>6, <1>7 DEF Push

\* pop, which throws out the finished ones behind the last that runs,
LEMMA PopKeeps == ASSUME HandlesInv, Pop PROVE HandlesInv'
<1> DEFINE running == {i \in DOMAIN handles : Running(handles[i])}
           last == Max(running)
<1>1. /\ pushed \in Nat /\ handles \in Seq(1..pushed) /\ popped \subseteq 1..pushed
      /\ Len(handles) \in Nat /\ DOMAIN handles = 1..Len(handles)
      /\ \A i \in 1..Len(handles) : handles[i] \in 1..pushed
      /\ UNCHANGED <<capacity, pushed, finished, peak>>
      /\ \A u : Running(u)' <=> Running(u)
  BY LenProperties, ElementOfSeq DEF Pop, HandlesInv, Entries, Running
<1>2. /\ \A u \in 1..pushed : Running(u) => u \in Listed(handles) \union popped
      /\ Listed(handles) \intersect popped = {}
      /\ Distinct(handles)
  BY NoneLostInParts DEF HandlesInv, Entries
<1>3. CASE /\ running # {}
           /\ handles' = SubSeq(handles, 1, last - 1)
           /\ popped' = popped \union {handles[last]}
  <2>1. running \in SUBSET (0..Len(handles))
    BY <1>1
  <2>2. last \in running /\ \A i \in running : i <= last
    BY <1>1, <1>3, <2>1, MaxUpto
  <2>3. /\ last \in 1..Len(handles) /\ Running(handles[last])
        /\ \A i \in 1..Len(handles) : Running(handles[i]) => i <= last
    BY <1>1, <2>2
  <2>4. /\ handles' = SubSeq(handles, 1, last - 1)
        /\ popped' = popped \union {handles[last]}
    BY <1>3
  <2> HIDE DEF last, running
  <2>5. /\ handles' \in Seq(1..pushed) /\ Len(handles') = last - 1
        /\ DOMAIN handles' = 1..(last - 1)
        /\ \A i \in 1..(last - 1) : handles'[i] = handles[i]
    <3>1. /\ last - 1 \in 0..Len(handles) /\ 1 \in 1..(Len(handles) + 1)
          /\ (last - 1) - 1 + 1 = last - 1
      BY <1>1, <2>3
    <3>2. /\ SubSeq(handles, 1, last - 1) \in Seq(1..pushed)
          /\ Len(SubSeq(handles, 1, last - 1)) = last - 1
          /\ \A i \in 1..(last - 1) :
               SubSeq(handles, 1, last - 1)[i] = handles[1 + i - 1]
      BY <1>1, <2>3, <3>1, SubSeqProperties
    <3>3. \A i \in 1..(last - 1) : 1 + i - 1 = i
      BY <2>3
    <3>4. DOMAIN SubSeq(handles, 1, last - 1) = 1..(last - 1)
      BY <3>2, LenProperties
    <3> QED BY <2>4, <3>2, <3>3, <3>4
  <2>6. Listed(handles)' = {handles[i] : i \in 1..(last - 1)}
    BY <2>5 DEF Listed
  <2>7. \A u \in 1..pushed : Running(u) => u \in Listed(handles)' \union popped'
    <3> SUFFICES ASSUME NEW u \in 1..pushed, Running(u), u \notin popped'
                 PROVE  u \in Listed(handles)'
      OBVIOUS
    <3>1. u \in Listed(handles) /\ u # handles[last]
      BY <1>2, <2>4
    <3>2. PICK i \in 1..Len(handles) : u = handles[i]
      BY <1>1, <3>1 DEF Listed
    <3>3. i <= last /\ i # last
      BY <2>3, <3>1, <3>2
    <3>4. i \in 1..(last - 1)
      BY <2>3, <3>3
    <3> QED BY <2>6, <3>2, <3>4
  <2>8. Listed(handles)' \intersect popped' = {}
    <3> SUFFICES ASSUME NEW u \in Listed(handles)', u \in popped' PROVE FALSE
      OBVIOUS
    <3>1. PICK i \in 1..(last - 1) : u = handles[i]
      BY <2>6
    <3>2. i \in DOMAIN handles /\ last \in DOMAIN handles /\ i # last
      BY <1>1, <2>3, <3>1
    <3>3. u \in Listed(handles) /\ u # handles[last]
      BY <1>2, <3>1, <3>2 DEF Listed, Distinct
    <3> QED BY <1>2, <2>4, <3>3
  <2>9. Distinct(handles)'
    <3> SUFFICES ASSUME NEW i \in DOMAIN handles', NEW j \in DOMAIN handles',
                        handles'[i] = handles'[j]
                 PROVE  i = j
      BY DEF Distinct
    <3>1. i \in DOMAIN handles /\ j \in DOMAIN handles
      BY <1>1, <2>3, <2>5
    <3> QED BY <1>2, <2>5, <3>1 DEF Distinct
  <2>10. NoneLost'
    BY <1>1, <2>7, <2>8, <2>9 DEF NoneLost, Distinct
  <2>11. Sizes'
    BY <1>1, <2>3, <2>5 DEF HandlesInv, Sizes, MemoryBounded
  <2>12. popped' \subseteq 1..pushed'
    BY <1>1, <2>3, <2>4
  <2> QED BY <1>1, <2>5, <2>10, <2>11, <2>12 DEF HandlesInv, Entries
<1>4. CASE running = {} /\ handles' = <<>> /\ UNCHANGED popped
  <2>1. \A u \in Listed(handles) : ~Running(u)
    BY <1>4 DEF Listed
  <2>2. /\ handles' \in Seq(1..pushed) /\ Len(handles') = 0 /\ Listed(handles)' = {}
        /\ DOMAIN handles' = {}
    BY <1>4 DEF Listed
  <2>3. NoneLost'
    BY <1>1, <1>2, <1>4, <2>1, <2>2 DEF NoneLost
  <2>4. Sizes'
    BY <1>1, <2>2 DEF HandlesInv, Sizes, MemoryBounded
  <2> QED BY <1>1, <1>4, <2>2, <2>3, <2>4 DEF HandlesInv, Entries
<1> QED BY <1>3, <1>4 DEF Pop

\* and a task that finishes in the vector.
LEMMA FinishKeeps == ASSUME HandlesInv, TaskFinishes PROVE HandlesInv'
<1>1. /\ UNCHANGED <<handles, capacity, pushed, popped, peak>>
      /\ \A u : Running(u)' => Running(u)
  BY DEF TaskFinishes, Running
<1>2. Listed(handles)' = Listed(handles)
  BY <1>1 DEF Listed
<1>3. NoneLost'
  BY <1>1, <1>2 DEF HandlesInv, Entries, NoneLost
<1> QED BY <1>1, <1>3 DEF HandlesInv, Sizes, Entries, MemoryBounded

\* The inductive invariant behind both properties of the vector
THEOREM HandlesInvHolds == HandlesSpec => []HandlesInv
<1>1. HandlesInit => HandlesInv
  <2> SUFFICES ASSUME HandlesInit PROVE HandlesInv
    OBVIOUS
  <2>1. handles = <<>> /\ capacity = 0 /\ pushed = 0 /\ popped = {} /\ peak = 0
    BY DEF HandlesInit
  <2>2. Len(handles) = 0 /\ DOMAIN handles = {} /\ Listed(handles) = {}
    BY <2>1 DEF Listed
  <2>3. NoneLost
    BY <2>1, <2>2 DEF NoneLost
  <2> QED BY <2>1, <2>2, <2>3 DEF HandlesInv, Sizes, Entries, MemoryBounded
<1>2. HandlesInv /\ [HandlesNext]_handleVars => HandlesInv'
  <2> SUFFICES ASSUME HandlesInv, [HandlesNext]_handleVars PROVE HandlesInv'
    OBVIOUS
  <2>1. CASE UNCHANGED handleVars
    <3>1. /\ UNCHANGED <<handles, capacity, pushed, popped, peak>>
          /\ \A u : Running(u)' <=> Running(u)
      BY <2>1 DEF handleVars, Running
    <3>2. Listed(handles)' = Listed(handles)
      BY <3>1 DEF Listed
    <3>3. NoneLost'
      BY <3>1, <3>2 DEF HandlesInv, Entries, NoneLost
    <3> QED BY <3>1, <3>3 DEF HandlesInv, Sizes, Entries, MemoryBounded
  <2>2. CASE Emptied
    <3>1. UNCHANGED handleVars
      BY <2>2 DEF Emptied
    <3> QED BY <2>1, <3>1
  <2> QED BY <2>1, <2>2, PushKeeps, PopKeeps, FinishKeeps DEF HandlesNext
<1> QED BY <1>1, <1>2, PTL DEF HandlesSpec

\* However many tasks are aborted and whenever they finish, retain and pop lose
\* no running one. (AbortingHandles, lib.rs:1027-1043)
THEOREM HandlesNoneLost == HandlesSpec => []NoneLost
<1>1. HandlesInv => NoneLost
  BY DEF HandlesInv, Entries
<1> QED BY <1>1, HandlesInvHolds, PTL

\* However many tasks a session aborts in its life, the vector takes at most
\* four times the room its running ones ever needed. (lib.rs:1027-1033)
THEOREM HandlesMemoryBounded == HandlesSpec => []MemoryBounded
<1>1. HandlesInv => MemoryBounded
  BY DEF HandlesInv, Sizes
<1> QED BY <1>1, HandlesInvHolds, PTL
=============================================================================
