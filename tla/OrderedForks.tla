---------------------------- MODULE OrderedForks ----------------------------
(***************************************************************************)
(* task10.c: every philosopher locks its fork l, then its fork r,          *)
(* eats, and unlocks them in the opposite order. Thinking, eating and the  *)
(* 2000000000 rounds take no steps of their own: a round follows another   *)
(* for ever. A call of pthread_mutex_lock that must wait is a step not     *)
(* taken yet.                                                              *)
(***************************************************************************)
EXTENDS Forks

VARIABLES
  pc,       \* the next call of each philosopher
  owner     \* who has locked each fork

vars == <<pc, owner>>

Init ==
  /\ pc = [p \in Phil |-> "lock_l"]
  /\ owner = [f \in Fork |-> NoPhil]

LockWithoutCheck(p, f) == owner' = [owner EXCEPT ![f] = p]
Lock(p, f) == owner[f] = NoPhil /\ owner' = [owner EXCEPT ![f] = p]
Unlock(f) == owner' = [owner EXCEPT ![f] = NoPhil]
Goto(p, label) == pc' = [pc EXCEPT ![p] = label]

LockL(p) == pc[p] = "lock_l" /\ Lock(p, L(p)) /\ Goto(p, "lock_r")
LockR(p) == pc[p] = "lock_r" /\ Lock(p, R(p)) /\ Goto(p, "unlock_r")

(* The dinner comes before the first unlock. *)
UnlockR(p) == pc[p] = "unlock_r" /\ Unlock(R(p)) /\ Goto(p, "unlock_l")
UnlockL(p) == pc[p] = "unlock_l" /\ Unlock(L(p)) /\ Goto(p, "lock_l")

Step(p) == LockL(p) \/ LockR(p) \/ UnlockR(p) \/ UnlockL(p)

Next == \E p \in Phil : Step(p)

(* Each thread that can run is scheduled in the end. Nothing is assumed    *)
(* about which of several waiting threads gets a mutex.                    *)
Fairness == \A p \in Phil : WF_vars(Step(p))

Spec == Init /\ [][Next]_vars
FairSpec == Spec /\ Fairness

-----------------------------------------------------------------------------
Labels == {"lock_l", "lock_r", "unlock_r", "unlock_l"}

TypeOK == pc \in [Phil -> Labels] /\ owner \in [Fork -> Phil \cup {NoPhil}]

(* A philosopher's progress through its round and the forks locked in its  *)
(* name agree.                                                             *)
Holds(p, f) ==
  \/ f = L(p) /\ pc[p] \in {"lock_r", "unlock_r", "unlock_l"}
  \/ f = R(p) /\ pc[p] = "unlock_r"

OwnerInv == \A p \in Phil, f \in Fork : owner[f] = p <=> Holds(p, f)

(* The philosopher's next call does not wait. *)
CanGo(p) ==
  \/ pc[p] = "lock_l" /\ owner[L(p)] = NoPhil
  \/ pc[p] = "lock_r" /\ owner[R(p)] = NoPhil
  \/ pc[p] \in {"unlock_r", "unlock_l"}

(* The philosophers never all wait for each other: that is what the swapped *)
(* forks of the last one are for (task10.c:29-32).                         *)
NoDeadlock == \E p \in Phil : CanGo(p)

(* Whatever threads get the forks, somebody eats again and again.          *)
SomebodyEats == []<>(\E p \in Phil : pc[p] = "unlock_r")

(* Mutual exclusion on every fork amounts to the promise of the table: the *)
(* dinner, in which both forks are held, is never shared by neighbours.    *)
Eating == {p \in Phil : pc[p] = "unlock_r"}
Table == INSTANCE DiningTable WITH eating <- Eating
RefinesTable == Table!TableSpec

=============================================================================
