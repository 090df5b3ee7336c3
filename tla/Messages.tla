------------------------------ MODULE Messages ------------------------------
(***************************************************************************)
(* JSON-RPC messages as jsoncall writes and reads them: which members an   *)
(* object has decides what it is. A message is the set of its members with *)
(* those of them that are null, or of a type RawMessage does not take.     *)
(***************************************************************************)
EXTENDS Naturals

Members == {"jsonrpc", "id", "method", "params", "result", "error"}
Messages == [has: SUBSET Members, null: SUBSET Members, wrong: SUBSET Members,
             version: {"2.0", "other"}]

\* params and result are RawValue: no JSON value is wrong for them.
WellFormed(m) ==
  /\ m.null \subseteq m.has /\ m.wrong \subseteq m.has \ m.null
  /\ m.wrong \subseteq {"jsonrpc", "id", "method", "error"}

-----------------------------------------------------------------------------
(* Writing: the constructors of MessageData. None is left out.             *)

Written(members, null) ==
  [has |-> {"jsonrpc"} \union members, null |-> null, wrong |-> {},
   version |-> "2.0"]

\* params: "none", "null" or "value"
FromRequest(params) ==
  Written({"id", "method"} \union (IF params = "none" THEN {} ELSE {"params"}),
          IF params = "null" THEN {"params"} ELSE {})
FromNotification(params) ==
  Written({"method"} \union (IF params = "none" THEN {} ELSE {"params"}),
          IF params = "null" THEN {"params"} ELSE {})

\* A result that is `()` is written as null.
FromSuccess(result) ==
  Written({"id", "result"}, IF result = "null" THEN {"result"} ELSE {})

FromError(withId) ==
  Written({"error"} \union (IF withId THEN {"id"} ELSE {}), {})
-----------------------------------------------------------------------------
(* Reading                                                                 *)

\* Mutant: null is refused for a member that is there.
DeserializesNoNull(m) == "jsonrpc" \in m.has /\ m.wrong = {} /\ m.null = {}

\* RawMessage::deserialize succeeds. Of the optional members deserialize_some
\* hands null to the type itself, which only a RawValue takes.
Deserializes(m) ==
  /\ "jsonrpc" \in m.has
  /\ m.wrong = {}
  /\ m.null \subseteq {"params", "result", "error"}

\* The options of the RawMessage that are Some: error is a plain Option.
Present(m) == m.has \ ({"jsonrpc"} \union (m.null \intersect {"error"}))

\* Mutant: the members a message must not have are not looked at.
IntoVariantsLoose(m) ==
  LET p == Present(m)
  IN  CASE m.version # "2.0"            -> "Unsupported"
        [] m.version = "2.0" /\ {"id", "method"} \subseteq p -> "Request"
        [] m.version = "2.0" /\ {"id", "result"} \subseteq p
             /\ "method" \notin p       -> "Success"
        [] m.version = "2.0" /\ "error" \in p
             /\ p \intersect {"method", "result"} = {}
                                        -> IF "id" \in p THEN "Error"
                                           ELSE "ErrorWithoutId"
        [] m.version = "2.0" /\ "method" \in p /\ "id" \notin p -> "Notification"
        [] OTHER                        -> "Invalid"

\* RawMessage::into_variants, with verify_version
IntoVariants(m) ==
  LET p == Present(m)
  IN  CASE m.version # "2.0" -> "Unsupported"
        [] m.version = "2.0" /\ p \ {"params"} = {"id", "method"} -> "Request"
        [] m.version = "2.0" /\ p = {"id", "result"}  -> "Success"
        [] m.version = "2.0" /\ p = {"id", "error"}   -> "Error"
        [] m.version = "2.0" /\ p = {"error"}         -> "ErrorWithoutId"
        [] m.version = "2.0" /\ p \ {"params"} = {"method"} -> "Notification"
        [] OTHER -> "Invalid"

\* What MessageDispatcher::dispatch_message hands on; it fails on the others.
Dispatchable == {"Request", "Success", "Error", "Notification"}
=============================================================================
