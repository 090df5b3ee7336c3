-------------------------- MODULE RequestContract --------------------------
(***************************************************************************)
(* What Session::request promises to those who call it, whatever the read, *)
(* write and cancel tasks do to keep the promise:                          *)
(*   - a call that is accepted gets an id no other call has or will have;  *)
(*   - it settles once, with the answer of the peer or the end of the      *)
(*     session, and returns that;                                          *)
(*   - the end of the session settles every open call but at most one,     *)
(*     whose answer is on its way, and every later call is refused;        *)
(*   - the hook hears of each abandoned call once, and of no other.        *)
(***************************************************************************)
EXTENDS Sequences, Naturals

CONSTANTS Callers,
          Ids,        \* what may be given to a call
          NoId,       \* what a call has that was given none
          Answers,    \* what a call may learn from the peer
          Endings,    \* what it may learn of the end of the session
          Exhausted,  \* there is no id left
          Unsendable, \* its parameters cannot be serialized
          Nothing     \* no result

VARIABLES call,   \* phase, id and result of each call
          over,   \* has the session ended?
          hooked  \* the ids the hook was called with, in order

contractVars == <<call, over, hooked>>

Init ==
  /\ call = [c \in Callers |-> [st |-> "idle", id |-> NoId, result |-> Nothing]]
  /\ over = FALSE
  /\ hooked = <<>>

Given == {call[c].id : c \in Callers}

\* Call c goes on to phase st, and has this id and this result from now on.
Becomes(c, st, id, r) ==
  call' = [call EXCEPT ![c] = [st |-> st, id |-> id, result |-> r]]

Open(c) ==
  /\ call[c].st = "idle" /\ ~over
  /\ \E id \in Ids \ Given : Becomes(c, "open", id, Nothing)
  /\ UNCHANGED <<over, hooked>>

Refuse(c) ==
  /\ call[c].st = "idle"
  /\ \E r \in Endings \union {Exhausted} :
       /\ r = Exhausted => Ids \subseteq Given
       /\ over <=> r \in Endings
       /\ Becomes(c, "returned", call[c].id, r)
  /\ UNCHANGED <<over, hooked>>

Answer(c) ==
  /\ call[c].st = "open"
  /\ \E r \in Answers : Becomes(c, "settled", call[c].id, r)
  /\ UNCHANGED <<over, hooked>>

\* cs are left to their answers.
End(cs) ==
  /\ ~over /\ over' = TRUE
  /\ \A c, d \in cs : c = d
  /\ \E r \in Endings :
       call' = [c \in Callers |->
                  IF call[c].st = "open" /\ c \notin cs
                  THEN [st |-> "settled", id |-> call[c].id, result |-> r]
                  ELSE call[c]]
  /\ UNCHANGED hooked

Return(c) ==
  /\ call[c].st = "settled"
  /\ Becomes(c, "returned", call[c].id, call[c].result)
  /\ UNCHANGED <<over, hooked>>

\* Nobody learns what a call was told that fails or is dropped.
Fail(c) ==
  /\ call[c].st \in {"open", "settled"}
  /\ Becomes(c, "returned", call[c].id, Unsendable)
  /\ UNCHANGED <<over, hooked>>

Withdraw(c) ==
  /\ call[c].st \in {"open", "settled"}
  /\ Becomes(c, "withdrawn", call[c].id, Nothing)
  /\ UNCHANGED <<over, hooked>>

Forsaken(c) ==
  \/ call[c].st = "withdrawn"
  \/ call[c].st = "returned" /\ call[c].result = Unsendable

Hook(c) ==
  /\ Forsaken(c)
  /\ \A i \in DOMAIN hooked : hooked[i] # call[c].id
  /\ hooked' = Append(hooked, call[c].id)
  /\ UNCHANGED <<call, over>>

Next ==
  \/ \E c \in Callers :
       \/ Open(c) \/ Refuse(c) \/ Answer(c) \/ Return(c) \/ Fail(c)
       \/ Withdraw(c) \/ Hook(c)
  \/ \E cs \in SUBSET Callers : End(cs)

Spec == Init /\ [][Next]_contractVars
=============================================================================
