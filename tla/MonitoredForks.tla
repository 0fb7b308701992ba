--------------------------- MODULE MonitoredForks ---------------------------
(***************************************************************************)
(* task22.c: a philosopher tries both of its forks with the mutex m held.  *)
(* If one is taken it holds neither and waits on the condition c; if it    *)
(* gets both it unlocks m and eats. The forks are unlocked without m;      *)
(* only then does the philosopher lock m to wake everybody up.             *)
(***************************************************************************)
EXTENDS Forks

VARIABLES
  pc,       \* the next call of each philosopher
  owner,    \* who has locked each fork
  m,        \* who has locked m
  waiting   \* who is blocked on c

vars == <<pc, owner, m, waiting>>

Init ==
  /\ pc = [p \in Phil |-> "lock_m"]
  /\ owner = [f \in Fork |-> NoPhil]
  /\ m = NoPhil
  /\ waiting = {}

FreeAfterAnyError(f) == TRUE
Free(f) == owner[f] = NoPhil
Take(p, f) == owner' = [owner EXCEPT ![f] = p]
PutBack(f) == owner' = [owner EXCEPT ![f] = NoPhil]
Goto(p, label) == pc' = [pc EXCEPT ![p] = label]

(* Before a round, or at the end of pthread_cond_wait.                     *)
LockM(p) ==
  /\ pc[p] \in {"lock_m", "in_wait"} /\ p \notin waiting
  /\ m = NoPhil /\ m' = p
  /\ Goto(p, "try_l")
  /\ UNCHANGED <<owner, waiting>>

TryL(p) ==
  /\ pc[p] = "try_l"
  /\ IF Free(L(p))
     THEN Take(p, L(p)) /\ Goto(p, "try_r")
     ELSE Goto(p, "wait") /\ UNCHANGED owner
  /\ UNCHANGED <<m, waiting>>

(* Nobody can tell the second trylock from the unlocking of m after it.    *)
TryR(p) ==
  /\ pc[p] = "try_r"
  /\ IF Free(R(p))
     THEN Take(p, R(p)) /\ m' = NoPhil /\ Goto(p, "unlock_r")
     ELSE Goto(p, "give_back") /\ UNCHANGED <<owner, m>>
  /\ UNCHANGED waiting

KeepL(p) ==
  /\ pc[p] = "give_back"
  /\ Goto(p, "wait")
  /\ UNCHANGED <<owner, m, waiting>>
GiveBack(p) ==
  /\ pc[p] = "give_back"
  /\ PutBack(L(p))
  /\ Goto(p, "wait")
  /\ UNCHANGED <<m, waiting>>

Wait(p) ==
  /\ pc[p] = "wait"
  /\ waiting' = waiting \cup {p} /\ m' = NoPhil
  /\ Goto(p, "in_wait")
  /\ UNCHANGED owner

(* The dinner comes before the first unlock. *)
UnlockR(p) ==
  /\ pc[p] = "unlock_r"
  /\ PutBack(R(p))
  /\ Goto(p, "unlock_l")
  /\ UNCHANGED <<m, waiting>>

UnlockL(p) ==
  /\ pc[p] = "unlock_l"
  /\ PutBack(L(p))
  /\ Goto(p, "broadcast")
  /\ UNCHANGED <<m, waiting>>

(* Lock m, broadcast and unlock m: the forks are not touched meanwhile.    *)
OneWoken == IF waiting = {} THEN {} ELSE waiting \ {CHOOSE p \in waiting : TRUE}
Woken == {}
Broadcast(p) ==
  /\ pc[p] = "broadcast"
  /\ m = NoPhil
  /\ waiting' = Woken
  /\ Goto(p, "lock_m")
  /\ UNCHANGED <<owner, m>>

Step(p) ==
  \/ LockM(p) \/ TryL(p) \/ TryR(p) \/ GiveBack(p) \/ Wait(p)
  \/ UnlockR(p) \/ UnlockL(p) \/ Broadcast(p)

SpuriousWakeup(p) ==
  /\ p \in waiting
  /\ waiting' = waiting \ {p}
  /\ UNCHANGED <<pc, owner, m>>

Next == \E p \in Phil : Step(p) \/ SpuriousWakeup(p)

(* Each thread that can run is scheduled in the end; neither mutex is fair *)
(* and no wakeup is promised that nobody caused.                           *)
Fairness == \A p \in Phil : WF_vars(Step(p))

Spec == Init /\ [][Next]_vars
FairSpec == Spec /\ Fairness

-----------------------------------------------------------------------------
Inside == {"try_l", "try_r", "give_back", "wait"}
Labels == Inside \cup {"lock_m", "in_wait", "unlock_r", "unlock_l", "broadcast"}

TypeOK ==
  /\ pc \in [Phil -> Labels]
  /\ owner \in [Fork -> Phil \cup {NoPhil}]
  /\ m \in Phil \cup {NoPhil}
  /\ waiting \subseteq {p \in Phil : pc[p] = "in_wait"}

(* m is locked exactly between LockM and the step that unlocks it.         *)
MonitorInv == \A p \in Phil : m = p <=> pc[p] \in Inside

(* A philosopher's progress and the forks locked in its name agree; in     *)
(* particular nobody waits with a fork in its hand.                        *)
Holds(p, f) ==
  \/ f = L(p) /\ pc[p] \in {"try_r", "give_back", "unlock_r", "unlock_l"}
  \/ f = R(p) /\ pc[p] = "unlock_r"

OwnerInv == \A p \in Phil, f \in Fork : owner[f] = p <=> Holds(p, f)

(* Who has eaten and has not announced it yet. *)
WillAnnounce(q) == pc[q] \in {"unlock_r", "unlock_l", "broadcast"}

(* Whoever found a fork taken, and waits or is about to, has a neighbour   *)
(* that will still broadcast, although the forks are unlocked without m:   *)
(* no wakeup is lost between a failed trylock and pthread_cond_wait.       *)
NoLostWakeup ==
  \A p \in Phil :
    p \in waiting \/ pc[p] \in {"give_back", "wait"} =>
      \E q \in Phil : Neighbours(p, q) /\ WillAnnounce(q)

(* Some philosopher's next call does not wait, whatever has been woken.    *)
CanGo(p) ==
  \/ pc[p] \in Inside \cup {"unlock_r", "unlock_l"}
  \/ pc[p] \in {"lock_m", "broadcast"} /\ m = NoPhil
  \/ pc[p] = "in_wait" /\ p \notin waiting /\ m = NoPhil

NoDeadlock == \E p \in Phil : CanGo(p)

(* Somebody eats again and again.                                          *)
SomebodyEats == []<>(\E p \in Phil : pc[p] = "unlock_r")

(* The dinner, in which both forks are held, is never shared by            *)
(* neighbours.                                                             *)
Eating == {p \in Phil : pc[p] = "unlock_r"}
Table == INSTANCE DiningTable WITH eating <- Eating
RefinesTable == Table!TableSpec

=============================================================================
