------------------------------- MODULE Errors -------------------------------
(***************************************************************************)
(* An error on its way through a chain of servers, each of which answers   *)
(* the request of the one after it: what expose_internals lets through.    *)
(*                                                                         *)
(* A text is a sequence of lines, and a line only says whose it is and     *)
(* what it was to its author; an option is a set of at most one element.   *)
(***************************************************************************)
EXTENDS Integers, Sequences

CONSTANTS
  Hops,        \* bound: servers in the chain
  PublicCodes  \* ErrorCodes an application gives to bail_public

ASSUME ErrorsAssumption == Hops \in Nat \ {0} /\ PublicCodes \subseteq Int

INTERNAL_ERROR == -32603
INVALID_PARAMS == -32602
SERVER_ERROR_START == -32000
SERVER_ERROR_END == -32099

VARIABLES
  expose,    \* expose_internals of each server
  error,     \* the Error in the hands of the current server, as an option
  received,  \* Display of the SessionError its own request gave, as an option
  relayed,   \* is `error` an ErrorObject from there, as it came?
  how,       \* what each server made its error from
  sent,      \* the ErrorObject each server answered with
  published  \* lines each server meant for others to see

errorVars == <<expose, error, received, relayed, how, sent, published>>

Hop == Len(sent) + 1
Line(kind) == <<Hop, kind>>

\* ErrorCode::message, for the codes used here
CodeName(code) ==
  CASE code = INTERNAL_ERROR -> "Internal error"
    [] code = INVALID_PARAMS -> "Invalid params"
    [] SERVER_ERROR_START <= code /\ code <= SERVER_ERROR_END -> "Server error"
    [] OTHER -> "Unknown error"

\* ErrorCode::message
CodeMessage(code) == <<<<0, CodeName(code)>>>>
-----------------------------------------------------------------------------
(* Error                                                                   *)

New(code) ==
  [code |-> code, message |-> {}, message_is_public |-> FALSE, data |-> {},
   source |-> {}]

\* Error::with_message and Error::with_source
WithMessage(e, text, is_public) ==
  [e EXCEPT !.message = {text}, !.message_is_public = is_public]
WithSource(e, text) == [e EXCEPT !.source = {text}]

\* Mutant: relayed messages are private.
FromErrorObjectPrivate(o) ==
  [code |-> o.code, message |-> {o.message}, message_is_public |-> FALSE,
   data |-> o.data, source |-> {}]

\* impl From<ErrorObject> for Error
FromErrorObject(o) ==
  [code |-> o.code, message |-> {o.message}, message_is_public |-> TRUE,
   data |-> o.data, source |-> {}]

\* impl From<E: std::error::Error> for Error, which is what `?` does
FromStd(text) == WithSource(New(INTERNAL_ERROR), text)

Only(option) == CHOOSE x \in option : TRUE

\* Mutant: the source speaks when there is no message, exposed or not.
MessageOfSource(e, expose_internals) ==
  IF (expose_internals \/ e.message_is_public) /\ e.message # {}
  THEN Only(e.message)
  ELSE IF e.source # {} /\ Only(e.source) # <<>> THEN <<Head(Only(e.source))>>
       ELSE CodeMessage(e.code)

\* Error::message. Only the first line of a source stands in for a message.
Message(e, expose_internals) ==
  IF (expose_internals \/ e.message_is_public) /\ e.message # {}
  THEN Only(e.message)
  ELSE IF /\ expose_internals /\ e.message = {}
          /\ e.source # {} /\ Only(e.source) # <<>>
       THEN <<Head(Only(e.source))>>
       ELSE CodeMessage(e.code)

\* Mutant: no source in the data when its first line is the message.
ToErrorObjectOnce(e, expose_internals) ==
  [code |-> e.code, message |-> Message(e, expose_internals),
   data |-> IF expose_internals /\ e.data = {}
            THEN {(IF e.source = {} \/ e.message = {} THEN <<>>
                   ELSE Only(e.source)) \o <<Line("backtrace")>>}
            ELSE e.data]

\* Error::to_error_object, with the backtrace captured
ToErrorObject(e, expose_internals) ==
  [code |-> e.code, message |-> Message(e, expose_internals),
   data |-> IF expose_internals /\ e.data = {}
            THEN {(IF e.source = {} THEN <<>> ELSE Only(e.source))
                    \o <<Line("backtrace")>>}
            ELSE e.data]

\* Display of a SessionError: of an ErrorObject with its data, of an Error
\* just the message
DisplayObject(o) == o.message \o (IF o.data = {} THEN <<>> ELSE Only(o.data))
DisplayError(e) == Message(e, TRUE)
-----------------------------------------------------------------------------
(* What the application of a server makes of the error                     *)

LinesOf(text) == {text[i] : i \in DOMAIN text}
ObjectLines(o) == LinesOf(o.message) \union UNION {LinesOf(d) : d \in o.data}

\* The server makes error e, of which `public` is meant for others.
Makes(e, way, public) ==
  /\ error = {}
  /\ error' = {e}
  /\ how' = Append(how, way)
  /\ relayed' = (way = "relay")
  /\ published' = Append(published, public)
  /\ UNCHANGED <<expose, received, sent>>

\* bail! and bail_public!, with or without a message
Bail ==
  \E text \in {{}, {<<Line("message")>>}} :
    Makes([New(INTERNAL_ERROR) EXCEPT !.message = text], "own", {})

BailPublic ==
  \E code \in PublicCodes, text \in {{}, {<<Line("public")>>}} :
    Makes([New(code) EXCEPT !.message = text, !.message_is_public = (text # {})],
          "own", UNION {LinesOf(t) : t \in text})

\* `?` on an error of the server's own, which may print as nothing
Question ==
  \E text \in {<<>>, <<Line("source"), Line("detail")>>} :
    Makes(FromStd(text), "own", {})

\* Params::to: parameters that are missing, or of another type
InvalidParams ==
  \/ Makes(WithMessage(New(INVALID_PARAMS), <<Line("public")>>, TRUE), "own",
           {Line("public")})
  \/ Makes(WithSource(New(INVALID_PARAMS), <<Line("source")>>), "own", {})

\* MessageData::from_result, of a result that does not serialize
SerializeFailed ==
  Makes(WithMessage(FromStd(<<Line("source")>>), <<Line("public")>>, TRUE),
        "own", {Line("public")})

\* A result of the wrong type: the SessionError holds an Error of its own.
Misread ==
  /\ Hop > 1 /\ error = {}
  /\ received' = {DisplayError(FromStd(<<Line("source")>>))}
  /\ UNCHANGED <<expose, error, relayed, how, sent, published>>

\* `?` on the SessionError of the server's own request
FromPeer == Hop > 1 /\ received = {DisplayObject(sent[Hop - 1])}
Wrap ==
  \E text \in received :
    Makes(FromStd(text), IF FromPeer THEN "wrap" ELSE "own", {})

\* SessionError::error_object, sent on as an Error
Relay ==
  /\ FromPeer
  /\ LET o == sent[Hop - 1]
     IN  Makes(FromErrorObject(o), "relay", ObjectLines(o))

\* with_message and with_source on what there is, once each
Adorns(e) == error' = {e} /\ relayed' = FALSE
AdornMessage ==
  \E e \in error, is_public \in BOOLEAN :
    /\ Line("added") \notin UNION {LinesOf(t) : t \in e.message}
    /\ Adorns(WithMessage(e, <<Line("added")>>, is_public))
    /\ published' = IF is_public
                    THEN [published EXCEPT ![Hop] = @ \union {Line("added")}]
                    ELSE published
    /\ UNCHANGED <<expose, received, how, sent>>
AdornSource ==
  \E e \in error :
    /\ e.source = {}
    /\ Adorns(WithSource(e, <<Line("source")>>))
    /\ UNCHANGED <<expose, received, how, sent, published>>

\* MessageData::from_error, and the SessionError::ErrorObject it becomes
Respond ==
  \E e \in error :
    LET o == ToErrorObject(e, expose[Hop])
    IN  /\ sent' = Append(sent, o)
        /\ received' = {DisplayObject(o)}
        /\ error' = {} /\ relayed' = FALSE
        /\ UNCHANGED <<expose, how, published>>

Arrived == Hop > Hops /\ UNCHANGED errorVars

ErrorsInit ==
  /\ expose \in [1..Hops -> BOOLEAN]
  /\ error = {} /\ received = {} /\ relayed = FALSE
  /\ how = <<>> /\ sent = <<>> /\ published = <<>>

ErrorsNext ==
  \/ /\ Hop <= Hops
     /\ \/ Bail \/ BailPublic \/ Question \/ InvalidParams
        \/ SerializeFailed \/ Misread \/ Wrap \/ Relay
        \/ AdornMessage \/ AdornSource \/ Respond
  \/ Arrived

ErrorsSpec == ErrorsInit /\ [][ErrorsNext]_errorVars
-----------------------------------------------------------------------------
\* A server that does not expose its internals answers with lines it meant
\* for others and the name of the code, whatever it wrapped, relayed or added:
\* no private message, source or backtrace of its own, and nothing another
\* server told it that it did not relay. (Error::to_error_object, error.rs:100)
OnlyPublished ==
  \A h \in DOMAIN sent : ~expose[h] =>
    \A line \in ObjectLines(sent[h]) : line \in published[h] \/ line[1] = 0

\* An ErrorObject that is relayed as it came arrives as it was, but for the
\* data an exposing server adds to one that has none. (error.rs:102, 156)
RelayedAsIs ==
  [][relayed /\ sent' # sent =>
       LET o == sent[Hop - 1]
           p == sent'[Hop]
       IN  /\ p.code = o.code /\ p.message = o.message
           /\ (p.data = o.data \/ (expose[Hop] /\ o.data = {}))]_errorVars

\* When all servers expose their internals and pass the error on, the last
\* one still shows every line of the cause. (error.rs:102-117, 226-235)
CauseSurvives ==
  \A h \in DOMAIN sent :
    /\ \A i \in 1..h : expose[i]
    /\ \A i \in 2..h : how[i] # "own"
    /\ ObjectLines(sent[1]) \intersect {<<1, "source">>, <<1, "detail">>} # {}
    => /\ <<1, "source">> \in ObjectLines(sent[h])
       /\ <<1, "detail">> \in ObjectLines(sent[1])
            => <<1, "detail">> \in ObjectLines(sent[h])

\* message.rs:358-360 calls the codes between the two constants server errors.
ServerErrorsNamed ==
  \A h \in DOMAIN sent :
    /\ SERVER_ERROR_END <= sent[h].code /\ sent[h].code <= SERVER_ERROR_START
    /\ sent[h].message[1][1] = 0
    => sent[h].message = <<<<0, "Server error">>>>
=============================================================================
