--------------------------- MODULE MessageReader ---------------------------
(***************************************************************************)
(* How a session reads its peer's lines: RawMessage::from_line takes all   *)
(* of a line or nothing, then each message is classified and dispatched in *)
(* turn. This is the detail behind the lines of module Session.            *)
(***************************************************************************)
EXTENDS Messages, Sequences

CONSTANT LinesRead   \* lines that may arrive, each a sequence of messages

ASSUME LinesReadAssumption ==
  /\ LinesRead \subseteq Seq(Messages)
  /\ \A line \in LinesRead : \A i \in DOMAIN line : WellFormed(line[i])

VARIABLES line,    \* the line being dispatched, or the last one that was
          handed,  \* what its messages were dispatched as, so far
          outcome  \* "reading", "batch", or why the session ended

readerVars == <<line, handed, outcome>>

ReaderInit == line = <<>> /\ handed = <<>> /\ outcome = "reading"

\* from_line, for text that is JSON. An empty batch dispatches nothing.
FromLine(l) ==
  /\ handed' = <<>>
  /\ line' = l
  /\ outcome' = CASE \E i \in DOMAIN l : ~Deserializes(l[i]) -> "ParseError"
                  [] l = <<>>                                -> "reading"
                  [] OTHER                                   -> "batch"

ReadLine == outcome = "reading" /\ \E l \in LinesRead : FromLine(l)

\* from_line, for text that is not JSON or neither an object nor an array
ReadGarbage ==
  /\ outcome = "reading"
  /\ line' = <<>> /\ handed' = <<>> /\ outcome' = "ParseError"

\* dispatch_message
Dispatch ==
  LET kind == IntoVariants(line[Len(handed) + 1])
  IN  /\ outcome = "batch"
      /\ \/ /\ kind \in Dispatchable
            /\ handed' = Append(handed, kind)
            /\ outcome' = IF Len(handed') = Len(line) THEN "reading" ELSE "batch"
         \/ /\ kind \in {"Invalid", "Unsupported"}
            /\ outcome' = "InvalidRequest" /\ UNCHANGED handed
         \/ /\ kind = "ErrorWithoutId"
            /\ outcome' = "PeerError" /\ UNCHANGED handed
      /\ UNCHANGED line

ReaderEnded == outcome \notin {"reading", "batch"} /\ UNCHANGED readerVars

ReaderNext == ReadLine \/ ReadGarbage \/ Dispatch \/ ReaderEnded

ReaderSpec == ReaderInit /\ [][ReaderNext]_readerVars
-----------------------------------------------------------------------------
Params == {"none", "null", "value"}
OwnMessages(kind) ==
  CASE kind = "Request"        -> {FromRequest(p) : p \in Params}
    [] kind = "Notification"   -> {FromNotification(p) : p \in Params}
    [] kind = "Success"        -> {FromSuccess(r) : r \in Params \ {"none"}}
    [] kind = "Error"          -> {FromError(TRUE)}
    [] kind = "ErrorWithoutId" -> {FromError(FALSE)}
OwnKinds == Dispatchable \union {"ErrorWithoutId"}

\* What a session writes another one reads as what was meant, results and
\* parameters that are null included: a line of our messages alone is never
\* refused, neither as a whole nor at one of them, and of ours the error that
\* ends a session is the only one that ends its peer's.
\* (MessageData's constructors against from_line, deserialize_some and
\* into_variants, message.rs:107-147, 152-232)
OwnMessagesUnderstood ==
  /\ line # <<>> /\ (\A i \in DOMAIN line : \E kind \in OwnKinds : line[i] \in OwnMessages(kind))
       => outcome \notin {"ParseError", "InvalidRequest"}
  /\ \A kind \in OwnKinds : \A i \in DOMAIN line : line[i] \in OwnMessages(kind) =>
       /\ i \in DOMAIN handed => handed[i] = kind
       /\ i = Len(handed) + 1 /\ outcome \in {"InvalidRequest", "PeerError"}
            => kind = "ErrorWithoutId" /\ outcome = "PeerError"

\* Which members JSON-RPC 2.0 gives each kind; error: null is let pass.
Conforms(m, kind) ==
  LET real == m.has \ (m.null \intersect {"error"})
  IN  /\ m.version = "2.0" /\ "jsonrpc" \in real /\ m.wrong = {}
      /\ m.null \intersect {"id", "method", "jsonrpc"} = {}
      /\ CASE kind = "Request"  -> /\ {"id", "method"} \subseteq real
                                   /\ "result" \notin real /\ "error" \notin real
           [] kind = "Notification" ->
                                   /\ "method" \in real /\ "id" \notin real
                                   /\ "result" \notin real /\ "error" \notin real
           [] kind = "Success"  -> real = {"jsonrpc", "id", "result"}
           [] kind = "Error"    -> real = {"jsonrpc", "id", "error"}

\* A line is dispatched message by message up to the first that is not a
\* JSON-RPC message, and not at all if it does not deserialize as a whole; so
\* no member of a message is ignored that would make it another one.
\* (from_line and dispatch_message, message.rs:152-232, lib.rs:466-492)
DispatchedInOrder ==
  /\ handed # <<>> => \A i \in DOMAIN line : Deserializes(line[i])
  /\ \A i \in DOMAIN handed : Conforms(line[i], handed[i])
  /\ outcome \in {"InvalidRequest", "PeerError"} =>
       \A kind \in Dispatchable : ~Conforms(line[Len(handed) + 1], kind)
=============================================================================
