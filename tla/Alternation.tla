---------------------------- MODULE Alternation ----------------------------
(***************************************************************************)
(* What task12.c, task12_.c, task14.c and task16/task16a.c promise: two    *)
(* players print their messages in turn, the first one beginning, until    *)
(* both have printed Loops times.                                          *)
(***************************************************************************)
EXTENDS Naturals

CONSTANT Loops      \* COUNT_OF_LOOPS

ASSUME LoopsAssumption == Loops \in Nat \ {0}

VARIABLE printed    \* messages printed so far by each player

Player == {1, 2}
Other(t) == 3 - t

AlternationInit == printed = [t \in Player |-> 0]

MyTurn(t) ==
  /\ printed[t] < Loops
  /\ printed[t] = IF t = 1 THEN printed[2] ELSE printed[1] - 1

PlayerPrints(t) == MyTurn(t) /\ printed' = [printed EXCEPT ![t] = @ + 1]

AlternationNext == \E t \in Player : PlayerPrints(t)

AlternationSpec == AlternationInit /\ [][AlternationNext]_printed

=============================================================================
