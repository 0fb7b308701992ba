---------------------------- MODULE DiningTable ----------------------------
(***************************************************************************)
(* What task10.c and task22.c promise: a philosopher begins to eat only    *)
(* when no neighbour is eating.                                            *)
(***************************************************************************)
EXTENDS Forks

VARIABLE eating

TableInit == eating = {}

Begin(p) ==
  /\ p \notin eating
  /\ \A q \in eating : ~ Neighbours(p, q)
  /\ eating' = eating \cup {p}

End(p) ==
  /\ p \in eating
  /\ eating' = eating \ {p}

TableNext == \E p \in Phil : Begin(p) \/ End(p)

TableSpec == TableInit /\ [][TableNext]_eating

=============================================================================
