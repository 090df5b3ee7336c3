------------------------------- MODULE MCData -------------------------------
(***************************************************************************)
(* The modules that model data, next to each other: each is explored while *)
(* the others are where they begin, so that their states add up and do not *)
(* multiply. With the lines and codes they are given.                      *)
(***************************************************************************)
EXTENDS MessageReader, RequestIds, Errors, AbortingHandles

\* Objects of the right version, with every choice of members
WholeMessages ==
  {m \in [has: SUBSET Members, null: SUBSET {"id", "params", "result", "error"},
          wrong: SUBSET {"id", "error"}, version: {"2.0"}] :
     WellFormed(m) /\ "jsonrpc" \in m.has}

OddMessages ==
  {[FromRequest("value") EXCEPT !.version = "other"],
   [FromNotification("none") EXCEPT !.has = {"method"}],
   [FromRequest("none") EXCEPT !.wrong = {"method"}]}

Own == UNION {OwnMessages(k) : k \in OwnKinds}

\* Single messages of every shape, and batches of own and odd ones
AllLines ==
  {<<>>} \union {<<m>> : m \in WholeMessages \union OddMessages}
  \union {<<m, n>> : m, n \in Own \union OddMessages}

\* One code with a name, one of the server errors
SomeCodes == {INVALID_PARAMS, -32050}
-----------------------------------------------------------------------------
ErrorsIdle == ErrorsInit /\ \A h \in 1..Hops : ~expose[h]

Init == ReaderInit /\ IdsInit /\ ErrorsInit /\ HandlesInit

Next ==
  \/ /\ IdsInit /\ ErrorsIdle /\ HandlesInit
     /\ ReaderNext /\ UNCHANGED <<idVars, errorVars, handleVars>>
  \/ /\ ReaderInit /\ ErrorsIdle /\ HandlesInit
     /\ IdsNext /\ UNCHANGED <<readerVars, errorVars, handleVars>>
  \/ /\ ReaderInit /\ IdsInit /\ HandlesInit
     /\ ErrorsNext /\ UNCHANGED <<readerVars, idVars, handleVars>>
  \/ /\ ReaderInit /\ IdsInit /\ ErrorsIdle
     /\ HandlesNext /\ UNCHANGED <<readerVars, idVars, errorVars>>

Spec == Init /\ [][Next]_<<readerVars, idVars, errorVars, handleVars>>
=============================================================================
