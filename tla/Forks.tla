------------------------------- MODULE Forks -------------------------------
(***************************************************************************)
(* task10.c and task22.c: N philosophers around a table, with a fork       *)
(* between every two of them. Each takes its fork l first and then its     *)
(* fork r; the last philosopher's are the other way round.                 *)
(***************************************************************************)
EXTENDS Naturals

CONSTANT N      \* COUNT_OF_PHIL (5)

(* With one philosopher the two forks would be the same.                   *)
ASSUME ForksAssumption == N \in Nat /\ N >= 2

Phil == 0 .. N - 1
Fork == 0 .. N - 1

LeftThenRight(rank) == <<rank, (rank + 1) % N>>
Pair(rank) == IF rank = N - 1 THEN <<0, N - 1>> ELSE <<rank, rank + 1>>

L(rank) == Pair(rank)[1]
R(rank) == Pair(rank)[2]

Neighbours(p, q) == p # q /\ {L(p), R(p)} \cap {L(q), R(q)} # {}

NoPhil == N     \* the owner of a fork that lies on the table

=============================================================================
