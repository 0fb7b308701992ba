------------------------ MODULE OrderedForksProofs ------------------------
(***************************************************************************)
(* Proofs about task10.c for any number of philosophers.                   *)
(***************************************************************************)
EXTENDS OrderedForks, WellFoundedInduction, TLAPS

(* Every philosopher takes two forks of the table, the lower one first:    *)
(* the branches of task10.c:29-36.                                         *)
LEMMA PairOrdered ==
  ASSUME NEW p \in Phil
  PROVE  L(p) \in Fork /\ R(p) \in Fork /\ L(p) < R(p)
<1>1. CASE p = N - 1
  BY <1>1, ForksAssumption DEF L, R, Pair, Fork
<1>2. CASE p # N - 1
  BY <1>2, ForksAssumption DEF L, R, Pair, Phil, Fork
<1>3. QED
  BY <1>1, <1>2

LEMMA NobodyIsNoPhil == NoPhil \notin Phil
  BY ForksAssumption DEF NoPhil, Phil

(* A nonempty set of forks has a greatest one.                             *)
LEMMA GreatestFork ==
  ASSUME NEW T, T \subseteq Fork, T # {}
  PROVE  \E f \in T : \A g \in T : g <= f
<1> DEFINE Mirror == {N - 1 - f : f \in T}
<1>1. Mirror \subseteq Nat /\ Mirror # {}
  <2>1. \A f \in T : N - 1 - f \in Nat
    BY ForksAssumption DEF Fork
  <2>2. QED
    BY <2>1
<1>2. PICK x \in Mirror : \A y \in Mirror : ~ (<<y, x>> \in OpToRel(<, Nat))
  BY <1>1, NatLessThanWellFounded, WFMin
<1>3. PICK f \in T : x = N - 1 - f
  OBVIOUS
<1>4. ASSUME NEW g \in T PROVE g <= f
  <2>1. N - 1 - g \in Mirror
    OBVIOUS
  <2>2. ~ (N - 1 - g < x)
    BY <1>1, <1>2, <2>1 DEF OpToRel
  <2>3. QED
    BY <1>3, <2>2, ForksAssumption DEF Fork
<1>5. QED
  BY <1>4

-----------------------------------------------------------------------------
(* What a philosopher has locked follows from where it is in its round:    *)
(* what a thread holds between the calls of task10.c:40-45.                *)
IInv == TypeOK /\ OwnerInv

LEMMA NothingLockedAtStart == Init => IInv
BY NobodyIsNoPhil DEF Init, IInv, TypeOK, OwnerInv, Holds, Labels

(* pthread_mutex_lock returns with a fork that was on the table, and its   *)
(* caller is the only one who moves on to a label that needs that fork.    *)
LEMMA LockingKeepsOwners ==
  ASSUME IInv, NEW p \in Phil, LockL(p) \/ LockR(p)
  PROVE  IInv'
<1> USE NobodyIsNoPhil, PairOrdered
    DEF IInv, TypeOK, OwnerInv, Holds, Labels, Goto, Lock
<1>lower. CASE LockL(p)
  BY <1>lower DEF LockL
<1>upper. CASE LockR(p)
  BY <1>upper DEF LockR
<1> QED
  BY <1>lower, <1>upper

(* pthread_mutex_unlock is called by the owner only, on one of its two     *)
(* different forks; the other one stays as it was.                         *)
LEMMA UnlockingKeepsOwners ==
  ASSUME IInv, NEW p \in Phil, UnlockR(p) \/ UnlockL(p)
  PROVE  IInv'
<1> USE NobodyIsNoPhil DEF IInv, TypeOK, OwnerInv, Holds, Labels, Goto, Unlock
<1>forks. L(p) \in Fork /\ R(p) \in Fork /\ L(p) # R(p)
  BY PairOrdered, ForksAssumption DEF Fork
<1>types. TypeOK'
  BY <1>forks DEF UnlockR, UnlockL
<1>owners. ASSUME NEW q \in Phil, NEW f \in Fork
           PROVE  (owner[f] = q <=> Holds(q, f))'
  <2>right. CASE UnlockR(p)
    BY <1>forks, <2>right DEF UnlockR
  <2>left. CASE UnlockL(p)
    BY <1>forks, <2>left DEF UnlockL
  <2> QED
    BY <2>right, <2>left
<1> QED
  BY <1>types, <1>owners

(* Every step is a philosopher's call of one kind or the other.            *)
LEMMA EveryCallKeepsOwners ==
  ASSUME IInv, [Next]_vars
  PROVE  IInv'
<1>stutter. CASE pc' = pc /\ owner' = owner
  BY <1>stutter DEF IInv, TypeOK, OwnerInv, Holds
<1>call. CASE Next
  <2> PICK p \in Phil : Step(p)
    BY <1>call DEF Next
  <2> QED
    BY LockingKeepsOwners, UnlockingKeepsOwners DEF Step
<1> QED
  BY <1>stutter, <1>call DEF vars

(* At every moment each fork's owner is the philosopher whose progress     *)
(* through the round says so, for any number of philosophers.              *)
THEOREM InductiveInvariant == Spec => []IInv
BY NothingLockedAtStart, EveryCallKeepsOwners, PTL DEF Spec

-----------------------------------------------------------------------------
(* If a philosopher could not go on it would be waiting for a fork; the    *)
(* owner of the greatest fork that anybody holds can only wait for a       *)
(* greater one, which then is free.                                        *)
LEMMA SomebodyCanGo == IInv => NoDeadlock
<1> SUFFICES ASSUME IInv PROVE NoDeadlock
  OBVIOUS
<1> DEFINE Taken == {f \in Fork : owner[f] # NoPhil}
<1>1. CASE Taken = {}
  <2>1. 0 \in Phil
    BY ForksAssumption DEF Phil
  <2>2. owner[L(0)] = NoPhil /\ owner[R(0)] = NoPhil
    BY <1>1, <2>1, PairOrdered
  <2>3. CanGo(0)
    BY <2>1, <2>2 DEF IInv, TypeOK, Labels, CanGo
  <2>4. QED
    BY <2>1, <2>3 DEF NoDeadlock
<1>2. CASE Taken # {}
  <2>1. PICK f \in Taken : \A g \in Taken : g <= f
    BY <1>2, GreatestFork
  <2>2. PICK p \in Phil : owner[f] = p
    BY DEF IInv, TypeOK
  <2>3. Holds(p, f)
    BY <2>2 DEF IInv, OwnerInv
  <2>4. CASE pc[p] \in {"unlock_r", "unlock_l"}
    BY <2>4 DEF NoDeadlock, CanGo
  <2>5. CASE pc[p] = "lock_r"
    <3>1. R(p) \in Fork /\ f < R(p)
      BY <2>3, <2>5, PairOrdered DEF Holds
    <3>2. R(p) \notin Taken
      BY <2>1, <3>1, ForksAssumption DEF Fork
    <3>3. QED
      BY <2>5, <3>1, <3>2 DEF NoDeadlock, CanGo
  <2>6. QED
    BY <2>3, <2>4, <2>5 DEF Holds
<1>3. QED
  BY <1>1, <1>2

(* For any number of philosophers, swapping the last one's forks is enough *)
(* to exclude every deadlock.                                              *)
THEOREM NeverDeadlocked == Spec => []NoDeadlock
  BY InductiveInvariant, SomebodyCanGo, PTL

-----------------------------------------------------------------------------
(* Two owners of the same fork are one.                                    *)
LEMMA DinersAreNoNeighbours ==
  ASSUME IInv, NEW p \in Eating, NEW q \in Eating
  PROVE  ~ Neighbours(p, q)
<1>1. \A x \in Eating : owner[L(x)] = x /\ owner[R(x)] = x
  BY PairOrdered DEF IInv, OwnerInv, Holds, Eating
<1>2. QED
  BY <1>1 DEF Neighbours

(* The second lock of a round begins the dinner, which is a step the table *)
(* allows: whoever eats after it owns both forks, so no neighbour does.    *)
LEMMA SecondLockBegins ==
  ASSUME IInv, IInv', NEW p \in Phil, LockR(p)
  PROVE  Table!Begin(p)
<1>joins. p \notin Eating /\ Eating' = Eating \cup {p}
  BY DEF LockR, Goto, IInv, TypeOK, Eating
<1>alone. \A q \in Eating : ~ Neighbours(p, q)
  <2>both. \A x \in Eating' : owner'[L(x)] = x /\ owner'[R(x)] = x
    BY PairOrdered DEF IInv, OwnerInv, Holds, Eating
  <2> QED
    BY <1>joins, <2>both DEF Neighbours
<1> QED
  BY <1>joins, <1>alone
  DEF Neighbours, L, R, Pair,
      Table!Begin, Table!Neighbours, Table!L, Table!R, Table!Pair

(* The first unlock ends it.                                               *)
LEMMA FirstUnlockEnds ==
  ASSUME IInv, NEW p \in Phil, UnlockR(p)
  PROVE  Table!End(p)
BY DEF UnlockR, Goto, IInv, TypeOK, Eating, Table!End

(* The first lock and the last unlock of a round change no dinner.         *)
LEMMA OuterCallsChangeNoDinner ==
  ASSUME IInv, NEW p \in Phil, LockL(p) \/ UnlockL(p)
  PROVE  Eating' = Eating
BY DEF LockL, UnlockL, Goto, IInv, TypeOK, Eating

(* So every step of the philosophers is one of the table's, or none.       *)
LEMMA CallsAreTheTables ==
  ASSUME IInv, IInv', [Next]_vars
  PROVE  [Table!TableNext]_Eating
<1>stutter. CASE UNCHANGED vars
  BY <1>stutter DEF vars, Eating
<1>call. CASE Next
  <2> PICK p \in Phil : Step(p)
    BY <1>call DEF Next
  <2>seat. p \in Table!Phil
    BY DEF Phil, Table!Phil
  <2> QED
    BY <2>seat, SecondLockBegins, FirstUnlockEnds, OuterCallsChangeNoDinner
    DEF Step, Table!TableNext
<1> QED
  BY <1>stutter, <1>call

(* Neighbours never eat together: task10.c implements the abstract table.  *)
THEOREM TableRefined == Spec => RefinesTable
<1>empty. Init => Table!TableInit
  BY DEF Init, Table!TableInit, Eating
<1> QED
  BY <1>empty, CallsAreTheTables, InductiveInvariant, PTL
  DEF Spec, RefinesTable, Table!TableSpec

=============================================================================
