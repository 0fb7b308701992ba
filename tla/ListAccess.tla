----------------------------- MODULE ListAccess -----------------------------
(***************************************************************************)
(* What the status, the count and the condition of task18.c promise: main  *)
(* is alone with the list, or any number of sorting threads are in it.     *)
(***************************************************************************)
CONSTANTS Main, Sorter

VARIABLE inside

AccessInit == inside = {}

Conflicting(t) == IF t = Main THEN Sorter ELSE {Main}

Admit(t) ==
  /\ t \notin inside
  /\ inside \cap Conflicting(t) = {}
  /\ inside' = inside \cup {t}

Dismiss(t) == t \in inside /\ inside' = inside \ {t}

AccessNext == \E t \in Sorter \cup {Main} : Admit(t) \/ Dismiss(t)

AccessSpec == AccessInit /\ [][AccessNext]_inside

=============================================================================
