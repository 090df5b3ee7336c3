----------------------------- MODULE RequestIds -----------------------------
(***************************************************************************)
(* Request ids between a session and JSON: what an id of ours looks like   *)
(* on the wire and is taken for when it comes back, and which ids of a     *)
(* peer are the same one. Numbers are counted in halves, so that the       *)
(* fractions next to an integer can be written. The widths are parameters: *)
(* 53 bits of an f64, 64 of a u64 and 128 of a u128 in the code.           *)
(***************************************************************************)
EXTENDS Integers

CONSTANTS F64Bits, U64Bits, U128Bits

ASSUME BitsAssumption ==
  /\ F64Bits \in Nat /\ U64Bits \in Nat /\ U128Bits \in Nat
  /\ 1 < F64Bits /\ F64Bits < U64Bits /\ U64Bits < U128Bits

\* Powers of 2 of any exponent, which a proof can reason about
Pow2[n \in Nat] == IF n = 0 THEN 1 ELSE 2 * Pow2[n - 1]

MAX_SAFE_INTEGER == Pow2[F64Bits] - 1
U64_MAX == Pow2[U64Bits] - 1
OutgoingIds == 0..(Pow2[U128Bits] - 2)   \* u128::MAX is never given
-----------------------------------------------------------------------------
(* JSON literals and numbers, as halves. Forms: an integer; a number with   *)
(* a point or an exponent that serde_json reads as what it is, "decimal";   *)
(* one that it does not, "rounded", with the f64 it is read as, which need  *)
(* not be the nearest (float_roundtrip is off) nor whole where the number   *)
(* is; a string of digits as `to_string` writes them; one with a zero       *)
(* before them, "padded"; any other string. A number no f64 comes near,     *)
(* like 1e400, does not deserialize at all.                                 *)

StringForms == {"digits", "padded", "string"}
Literal(form, halves) == [form |-> form, halves |-> halves]
Integral(h) == h % 2 = 0

\* f64 values: F64Bits significant bits, as far as literals go
Doubles ==
  LET scaled == {m * Pow2[e] : m \in 0..MAX_SAFE_INTEGER, e \in 0..(U64Bits + 3 - F64Bits)}
  IN  scaled \union {-d : d \in scaled}

\* An f64 for h: h itself, or one of its two neighbours. (Those serde_json makes
\* of more digits than a u64 has may be further off, but are as far from zero.)
Nearest(h) ==
  IF h \in Doubles THEN {h}
  ELSE {d \in Doubles : ~\E e \in Doubles : (d < e /\ e < h) \/ (h < e /\ e < d)}

\* RawRequestId by serde's untagged order: u64, i64, f64, string
RawRequestId(kind, halves) == [kind |-> kind, halves |-> halves]
Parse(l) ==
  CASE l.form \in StringForms -> {RawRequestId(l.form, l.halves)}
    [] l.form = "integer" /\ 0 <= l.halves /\ l.halves <= 2 * U64_MAX ->
         {RawRequestId("U64", l.halves)}
    [] l.form = "integer" /\ -Pow2[U64Bits] <= l.halves /\ l.halves < 0 ->
         {RawRequestId("I64", l.halves)}
    [] OTHER -> {RawRequestId("F64", d) : d \in Nearest(l.halves)}

\* Mutant: a fraction is cut off.
KeyTruncates(id) ==
  IF id.kind = "F64" /\ 0 <= id.halves THEN RawRequestId("U64", 2 * (id.halves \div 2))
  ELSE id

\* RawRequestId::key. The cast to u64 saturates: `u64::MAX as f64` is 2^64.
Key(id) ==
  IF id.kind \in {"I64", "F64"} /\ Integral(id.halves)
     /\ (IF id.kind = "I64" THEN 0 < id.halves
         ELSE 0 <= id.halves /\ id.halves <= 2 * (U64_MAX + 1))
  THEN RawRequestId("U64", IF id.halves > 2 * U64_MAX THEN 2 * U64_MAX ELSE id.halves)
  ELSE id

\* Mutant: numbers as far as a u64 goes.
FromOutgoingWide(n) ==
  IF n <= U64_MAX THEN Literal("integer", 2 * n) ELSE Literal("digits", 2 * n)

\* From<OutgoingRequestId> for RequestId
FromOutgoing(n) ==
  IF n < MAX_SAFE_INTEGER THEN Literal("integer", 2 * n) ELSE Literal("digits", 2 * n)

\* Mutant: a float is any number it holds.
TryFromUnbounded(id) ==
  CASE id.kind \in {"U64", "digits", "padded"} -> {id.halves \div 2}
    [] id.kind = "F64" /\ Integral(id.halves) /\ 0 <= id.halves -> {id.halves \div 2}
    [] OTHER -> {}

\* TryFrom<&RequestId> for OutgoingRequestId, as an option
TryFrom(id) ==
  CASE id.kind \in {"U64", "digits", "padded"} -> {id.halves \div 2}
    [] id.kind = "I64" /\ 0 <= id.halves -> {id.halves \div 2}
    [] /\ id.kind = "F64" /\ Integral(id.halves)
       /\ 0 <= id.halves /\ id.halves <= 2 * MAX_SAFE_INTEGER -> {id.halves \div 2}
    [] OTHER -> {}
-----------------------------------------------------------------------------
(* A response comes back with an id of ours, or with any other; a request  *)
(* comes, and a second one or a cancellation while the first is pending.   *)

VARIABLES pc,
          wire,  \* the literal read last
          made,  \* the id of ours it answers, as an option
          found, \* what on_response looks up
          filed, \* the id in incoming_requests, and its literal
          same   \* was the id of the second message found there?

idVars == <<pc, wire, made, found, filed, same>>

None == Literal("string", 0)

\* d printed with a point and one digit after it, as serde_json reads it: its
\* digits are an integer that is divided by 10, and both steps round if that
\* integer is no f64.
Pointed(d) ==
  IF 5 * d <= MAX_SAFE_INTEGER THEN {Literal("decimal", d)}
  ELSE {Literal("rounded", e) : e \in {e \in Doubles : d - 2 <= e /\ e <= d + 2}}

\* What a peer may make of an id it sends back: it may hold numbers as f64s,
\* and print them with or without a point.
Echoes(l) ==
  IF l.form # "integer" THEN {l}
  ELSE {l} \union UNION {{Literal("integer", d)} \union Pointed(d) : d \in Nearest(l.halves)}

\* Ids a peer may think of: numbers to below -2^63 and above 2^64, and strings
PeerLiterals ==
  {Literal("integer", 2 * n) : n \in (0 - Pow2[U64Bits - 1] - 3)..(U64_MAX + 3)}
  \union {Literal(f, d) : f \in {"decimal", "rounded"},
                         d \in {e \in Doubles : e <= 2 * (U64_MAX + 3)}}
  \union {Literal(f, 2 * n) : f \in {"digits", "padded"}, n \in OutgoingIds}
  \union {None}

IdsInit == pc = "idle" /\ wire = None /\ made = {} /\ found = {}
        /\ filed = [literal |-> None, id |-> None] /\ same = FALSE

PeerResponds ==
  /\ pc = "idle" /\ pc' = "response"
  /\ \/ \E n \in OutgoingIds :
          made' = {n} /\ wire' \in Echoes(FromOutgoing(n))
     \/ made' = {} /\ wire' \in PeerLiterals
  /\ UNCHANGED <<found, filed, same>>

OnResponse ==
  /\ pc = "response" /\ pc' = "looked up"
  /\ \E id \in Parse(wire) : found' = TryFrom(id)
  /\ UNCHANGED <<wire, made, filed, same>>

OnRequest ==
  /\ pc = "idle" /\ pc' = "pending"
  /\ \E l \in PeerLiterals : \E id \in Parse(l) : filed' = [literal |-> l, id |-> id]
  /\ UNCHANGED <<wire, made, found, same>>

OnSecond ==
  /\ pc = "pending" /\ pc' = "compared"
  /\ wire' \in PeerLiterals
  /\ \E id \in Parse(wire') : same' = (Key(id) = Key(filed.id))
  /\ UNCHANGED <<made, found, filed>>

IdsCompared == pc \in {"looked up", "compared"} /\ UNCHANGED idVars

IdsNext == PeerResponds \/ OnResponse \/ OnRequest \/ OnSecond \/ IdsCompared
IdsSpec == IdsInit /\ [][IdsNext]_idVars
-----------------------------------------------------------------------------
\* The response to a request finds the request, also when the peer keeps
\* numbers as f64s: ids it could not keep are sent as strings. Only a peer that
\* adds a point to an id with more digits than serde_json reads exactly may find
\* another call or none. (MAX_SAFE_INTEGER, message.rs:60-69)
AnswersFindTheirCall ==
  pc = "looked up" /\ made # {} /\ wire.form # "rounded" => found = made

\* An id that is looked up is the number the peer wrote: an integer that an f64
\* rounds is taken for no call. A number with a point is taken for what it is
\* read as, rounded or not (4503599627370496.5 is call 4503599627370496), and
\* only up to MAX_SAFE_INTEGER, below which f64s have every integer.
\* (TryFrom<&RequestId>, message.rs:73-99)
NoOthersCall ==
  pc = "looked up" => \A n \in found :
    wire.halves = 2 * n /\ (wire.form = "rounded" => n <= MAX_SAFE_INTEGER)

\* Ids of a peer are the same exactly if they are strings and equal or numbers
\* of the same value, where one with a point has the value it is read as: two
\* that round to one f64 are one id. Below 0 an integer is never the same as a
\* number with a point; beyond the ends of u64 and i64 what is the same depends
\* on how an f64 rounds it. (RawRequestId::key, message.rs:43-58)
SameIdSameNumber ==
  LET a == filed.literal
      beyond(l) == l.form \notin StringForms /\ l.halves >= 2 * U64_MAX
      before(l) == l.form \notin StringForms /\ l.halves <= -(U64_MAX + 1)
  IN  pc = "compared" =>
        \/ same <=> /\ a.halves = wire.halves
                    /\ a.form \in StringForms <=> wire.form \in StringForms
                    /\ a.form \in StringForms => a.form = wire.form
                    /\ a.halves < 0 => (a.form = "integer" <=> wire.form = "integer")
        \/ beyond(a) /\ beyond(wire)
        \/ before(a) /\ before(wire)
=============================================================================
