----------------------------- MODULE DirCursor -----------------------------
(***************************************************************************)
(* What a search of a directory promises to a program: it begins with some *)
(* set of entries to come, every call gives the first ones of those, none  *)
(* is given twice and none is left out, and the end is told only when      *)
(* nothing is left.                                                        *)
(***************************************************************************)
EXTENDS Naturals

VARIABLES
  open,    \* whether the program has a search handle
  todo,    \* entries that have not been given yet
  answer   \* of the last call: [given, end]

cvars == <<open, todo, answer>>

Nothing == [given |-> {}, end |-> FALSE]
TheEnd  == [given |-> {}, end |-> TRUE]
Given(D) == [given |-> D, end |-> FALSE]

\* What is given comes before what is left.
Before(D, W) == D \cap W = {} /\ \A i \in D, j \in W : i < j

Init == open = FALSE /\ todo = {} /\ answer = Nothing

\* The next answer gives something, before everything that is left.
GivesNext ==
  LET D == answer'.given
  IN  D # {} /\ answer' = Given(D) /\ Before(D, todo')

\* A search that is begun gives something at once, or is not begun.
Begin ==
  /\ ~open /\ open' = TRUE
  /\ GivesNext
  /\ answer'.given \cup todo' \subseteq Nat

NothingFound ==
  /\ ~open /\ answer' = TheEnd
  /\ UNCHANGED <<open, todo>>

Give ==
  /\ open /\ GivesNext
  /\ answer'.given \cup todo' = todo
  /\ UNCHANGED open

\* No room, or a request that is no good
Refuse ==
  /\ answer' = Nothing
  /\ UNCHANGED <<open, todo>>

NoMore ==
  /\ open /\ todo = {} /\ answer' = TheEnd
  /\ UNCHANGED <<open, todo>>

Close ==
  /\ open /\ open' = FALSE /\ todo' = {} /\ answer' = Nothing

Next == Begin \/ NothingFound \/ Give \/ Refuse \/ NoMore \/ Close

Spec == Init /\ [][Next]_cvars
=============================================================================
