---------------------------- MODULE MCConnection ----------------------------
(* Lines for Connection: what a response may hold                          *)
EXTENDS Connection, TLC

Answers(id) == {[type |-> "Request", id |-> id], [type |-> "Error", id |-> id],
                [type |-> "Success", id |-> id, result |-> "value"]}

AllLines ==
  {<<m>> : m \in UNION {Answers(id) : id \in 0..(IdMax - 1)}
                \union {[type |-> "Notification"], [type |-> "ErrorWithoutId"]}}

\* Every response holds the same.
PlainLines == {line \in AllLines : line[1].type # "Error"}

\* Sessions that are not ended: what calls do to each other needs no end.
NeverEnded == ~is_shutdown /\ ~s_is_shutdown

CallSymmetry == Permutations(ClientCalls)
=============================================================================
