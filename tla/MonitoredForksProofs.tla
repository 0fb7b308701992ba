----------------------- MODULE MonitoredForksProofs -----------------------
(***************************************************************************)
(* Proofs about task22.c for any number of philosophers.                   *)
(***************************************************************************)
EXTENDS MonitoredForks, TLAPS

(* Every philosopher takes two different forks of the table: the branches  *)
(* of task22.c:32-39.                                                      *)
LEMMA PairOfForks ==
  ASSUME NEW p \in Phil
  PROVE  L(p) \in Fork /\ R(p) \in Fork /\ L(p) # R(p)
<1>1. CASE p = N - 1
  BY <1>1, ForksAssumption DEF L, R, Pair, Fork
<1>2. CASE p # N - 1
  BY <1>2, ForksAssumption DEF L, R, Pair, Phil, Fork
<1>3. QED
  BY <1>1, <1>2

LEMMA NobodyIsNoPhil == NoPhil \notin Phil
  BY ForksAssumption DEF NoPhil, Phil

(* Two philosophers with a fork in common are neighbours.                  *)
LEMMA ShareAFork ==
  ASSUME NEW p \in Phil, NEW q \in Phil, p # q, NEW f,
         f = L(p) \/ f = R(p), f = L(q) \/ f = R(q)
  PROVE  Neighbours(p, q)
  BY DEF Neighbours

-----------------------------------------------------------------------------
(* Who has m and who has which fork follows from where everyone is.        *)
Ownership == TypeOK /\ MonitorInv /\ OwnerInv

LEMMA OwnershipInvariant == Spec => []Ownership
<1>1. Init => Ownership
  BY NobodyIsNoPhil
  DEF Init, Ownership, TypeOK, MonitorInv, OwnerInv, Holds, Labels, Inside
<1>2. Ownership /\ [Next]_vars => Ownership'
  <2> SUFFICES ASSUME Ownership, [Next]_vars PROVE Ownership'
    OBVIOUS
  <2> USE NobodyIsNoPhil DEF Ownership, TypeOK, Labels, Inside, Goto
  <2>1. ASSUME NEW p \in Phil, LockM(p) PROVE Ownership'
    <3>1. TypeOK'
      BY <2>1, PairOfForks DEF LockM
    <3>2. MonitorInv'
      BY <2>1 DEF LockM, MonitorInv
    <3>3. OwnerInv'
      BY <2>1, PairOfForks DEF LockM, OwnerInv, Holds
    <3>4. QED
      BY <3>1, <3>2, <3>3
  <2>2. ASSUME NEW p \in Phil, TryL(p) PROVE Ownership'
    <3>1. TypeOK'
      BY <2>2, PairOfForks DEF TryL, Take, Free
    <3>2. MonitorInv'
      BY <2>2 DEF TryL, MonitorInv
    <3>3. OwnerInv'
      BY <2>2, PairOfForks DEF TryL, Take, Free, OwnerInv, Holds
    <3>4. QED
      BY <3>1, <3>2, <3>3
  <2>3. ASSUME NEW p \in Phil, TryR(p) PROVE Ownership'
    <3>1. TypeOK'
      BY <2>3, PairOfForks DEF TryR, Take, Free
    <3>2. MonitorInv'
      BY <2>3 DEF TryR, MonitorInv
    <3>3. OwnerInv'
      BY <2>3, PairOfForks DEF TryR, Take, Free, OwnerInv, Holds
    <3>4. QED
      BY <3>1, <3>2, <3>3
  <2>4. ASSUME NEW p \in Phil, GiveBack(p) PROVE Ownership'
    <3>1. TypeOK'
      BY <2>4, PairOfForks DEF GiveBack, PutBack
    <3>2. MonitorInv'
      BY <2>4 DEF GiveBack, MonitorInv
    <3>3. OwnerInv'
      BY <2>4, PairOfForks DEF GiveBack, PutBack, OwnerInv, Holds
    <3>4. QED
      BY <3>1, <3>2, <3>3
  <2>5. ASSUME NEW p \in Phil, Wait(p) PROVE Ownership'
    <3>1. TypeOK'
      BY <2>5, PairOfForks DEF Wait
    <3>2. MonitorInv'
      BY <2>5 DEF Wait, MonitorInv
    <3>3. OwnerInv'
      BY <2>5, PairOfForks DEF Wait, OwnerInv, Holds
    <3>4. QED
      BY <3>1, <3>2, <3>3
  <2>6. ASSUME NEW p \in Phil, UnlockR(p) PROVE Ownership'
    <3>1. TypeOK'
      BY <2>6, PairOfForks DEF UnlockR, PutBack
    <3>2. MonitorInv'
      BY <2>6 DEF UnlockR, MonitorInv
    <3>3. OwnerInv'
      BY <2>6, PairOfForks DEF UnlockR, PutBack, OwnerInv, Holds
    <3>4. QED
      BY <3>1, <3>2, <3>3
  <2>7. ASSUME NEW p \in Phil, UnlockL(p) PROVE Ownership'
    <3>1. TypeOK'
      BY <2>7, PairOfForks DEF UnlockL, PutBack
    <3>2. MonitorInv'
      BY <2>7 DEF UnlockL, MonitorInv
    <3>3. OwnerInv'
      BY <2>7, PairOfForks DEF UnlockL, PutBack, OwnerInv, Holds
    <3>4. QED
      BY <3>1, <3>2, <3>3
  <2>8. ASSUME NEW p \in Phil, Broadcast(p) PROVE Ownership'
    <3>1. TypeOK'
      BY <2>8, PairOfForks DEF Broadcast, Woken
    <3>2. MonitorInv'
      BY <2>8 DEF Broadcast, MonitorInv
    <3>3. OwnerInv'
      BY <2>8, PairOfForks DEF Broadcast, Woken, OwnerInv, Holds
    <3>4. QED
      BY <3>1, <3>2, <3>3
  <2>9. ASSUME NEW p \in Phil, SpuriousWakeup(p) PROVE Ownership'
    BY <2>9 DEF SpuriousWakeup, MonitorInv, OwnerInv, Holds
  <2>10. CASE UNCHANGED vars
    BY <2>10 DEF vars, MonitorInv, OwnerInv, Holds
  <2>11. QED
    BY <2>1, <2>2, <2>3, <2>4, <2>5, <2>6, <2>7, <2>8, <2>9, <2>10 DEF Next, Step
<1>3. QED
  BY <1>1, <1>2, PTL DEF Spec

-----------------------------------------------------------------------------
(* A fork that a philosopher inside m finds taken belongs to a neighbour   *)
(* that has left m to eat.                                                 *)
LEMMA TakenByDiner ==
  ASSUME Ownership, NEW p \in Phil, pc[p] \in Inside,
         NEW f \in {L(p), R(p)}, ~ Free(f), owner[f] # p
  PROVE  \E q \in Phil : Neighbours(p, q) /\ pc[q] \in {"unlock_r", "unlock_l"}
<1>1. f \in Fork
  BY PairOfForks
<1>2. PICK q \in Phil : owner[f] = q
  BY <1>1 DEF Ownership, TypeOK, Free
<1>3. Holds(q, f) /\ q # p
  BY <1>1, <1>2 DEF Ownership, OwnerInv
<1>4. pc[q] \notin Inside
  BY <1>3 DEF Ownership, MonitorInv
<1>5. Neighbours(p, q)
  BY <1>3, ShareAFork DEF Holds
<1>6. QED
  BY <1>3, <1>4, <1>5 DEF Holds, Inside

(* No wakeup is lost, for any number of philosophers.                      *)
THEOREM NoWakeupLost == Spec => []NoLostWakeup
<1>1. Init => NoLostWakeup
  BY DEF Init, NoLostWakeup
<1>2. Ownership /\ NoLostWakeup /\ [Next]_vars => NoLostWakeup'
  <2> SUFFICES ASSUME Ownership, NoLostWakeup, [Next]_vars,
                      NEW x \in Phil, (x \in waiting \/ pc[x] \in {"give_back", "wait"})'
               PROVE  \E q \in Phil : Neighbours(x, q) /\ WillAnnounce(q)'
    BY DEF NoLostWakeup
  <2> DEFINE Awaited == \E q \in Phil : Neighbours(x, q) /\ WillAnnounce(q)
  <2> USE DEF Ownership, TypeOK, Goto, WillAnnounce
  <2>1. ASSUME x \in waiting \/ pc[x] \in {"give_back", "wait"} PROVE Awaited
    BY <2>1 DEF NoLostWakeup
  <2>2. ASSUME NEW p \in Phil, LockM(p) PROVE Awaited'
    BY <2>1, <2>2 DEF LockM
  <2>3. ASSUME NEW p \in Phil, TryL(p) PROVE Awaited'
    <3>1. CASE x = p /\ ~ Free(L(p))
      <4>1. owner[L(p)] # p
        BY <2>3, PairOfForks DEF TryL, OwnerInv, Holds
      <4>2. PICK q \in Phil : Neighbours(p, q) /\ pc[q] \in {"unlock_r", "unlock_l"}
        BY <2>3, <3>1, <4>1, TakenByDiner DEF TryL, Inside
      <4>3. QED
        BY <2>3, <3>1, <4>2 DEF TryL
    <3>2. CASE ~ (x = p /\ ~ Free(L(p)))
      BY <2>1, <2>3, <3>2 DEF TryL
    <3>3. QED
      BY <3>1, <3>2
  <2>4. ASSUME NEW p \in Phil, TryR(p) PROVE Awaited'
    <3>1. CASE x = p /\ ~ Free(R(p))
      <4>1. owner[R(p)] # p
        BY <2>4, PairOfForks DEF TryR, OwnerInv, Holds
      <4>2. PICK q \in Phil : Neighbours(p, q) /\ pc[q] \in {"unlock_r", "unlock_l"}
        BY <2>4, <3>1, <4>1, TakenByDiner DEF TryR, Inside
      <4>3. QED
        BY <2>4, <3>1, <4>2 DEF TryR
    <3>2. CASE ~ (x = p /\ ~ Free(R(p)))
      BY <2>1, <2>4, <3>2 DEF TryR
    <3>3. QED
      BY <3>1, <3>2
  <2>5. ASSUME NEW p \in Phil, GiveBack(p) PROVE Awaited'
    BY <2>1, <2>5 DEF GiveBack
  <2>6. ASSUME NEW p \in Phil, Wait(p) PROVE Awaited'
    BY <2>1, <2>6 DEF Wait
  <2>7. ASSUME NEW p \in Phil, UnlockR(p) PROVE Awaited'
    BY <2>1, <2>7 DEF UnlockR
  <2>8. ASSUME NEW p \in Phil, UnlockL(p) PROVE Awaited'
    BY <2>1, <2>8 DEF UnlockL
  <2>9. ASSUME NEW p \in Phil, Broadcast(p) PROVE Awaited'
    <3>1. pc[x] \notin {"give_back", "wait"}
      BY <2>9, NobodyIsNoPhil DEF Broadcast, MonitorInv, Inside
    <3>2. QED
      BY <2>9, <3>1 DEF Broadcast, Woken
  <2>10. ASSUME NEW p \in Phil, SpuriousWakeup(p) PROVE Awaited'
    BY <2>1, <2>10 DEF SpuriousWakeup
  <2>11. CASE UNCHANGED vars
    BY <2>1, <2>11 DEF vars
  <2>12. QED
    BY <2>2, <2>3, <2>4, <2>5, <2>6, <2>7, <2>8, <2>9, <2>10, <2>11 DEF Next, Step
<1>3. QED
  BY <1>1, <1>2, OwnershipInvariant, PTL DEF Spec

(* Some philosopher can always go on: whoever waits has a neighbour that   *)
(* needs at most m, and whoever has m does not wait.                       *)
THEOREM NeverDeadlocked == Spec => []NoDeadlock
<1>1. Ownership /\ NoLostWakeup => NoDeadlock
  <2> SUFFICES ASSUME Ownership, NoLostWakeup PROVE NoDeadlock
    OBVIOUS
  <2>1. CASE m \in Phil
    BY <2>1 DEF Ownership, MonitorInv, NoDeadlock, CanGo
  <2>2. CASE m = NoPhil
    <3>1. 0 \in Phil
      BY ForksAssumption DEF Phil
    <3>2. CASE 0 \in waiting
      <4>1. PICK q \in Phil : WillAnnounce(q)
        BY <3>1, <3>2 DEF NoLostWakeup
      <4>2. QED
        BY <2>2, <4>1 DEF WillAnnounce, NoDeadlock, CanGo
    <3>3. CASE 0 \notin waiting
      BY <2>2, <3>1, <3>3 DEF Ownership, TypeOK, Labels, NoDeadlock, CanGo
    <3>4. QED
      BY <3>2, <3>3
  <2>3. QED
    BY <2>1, <2>2 DEF Ownership, TypeOK
<1>2. QED
  BY <1>1, OwnershipInvariant, NoWakeupLost, PTL

-----------------------------------------------------------------------------
(* Neighbours never eat together: the program's steps are those of the     *)
(* abstract table.                                                         *)
THEOREM TableRefined == Spec => RefinesTable
<1> USE DEF Table!TableNext, Table!Begin, Table!End, Table!Phil, Table!Neighbours,
            Table!L, Table!R, Table!Pair
<1>1. Init => Table!TableInit
  BY DEF Init, Table!TableInit, Eating
<1>2. Ownership /\ Ownership' /\ [Next]_vars => [Table!TableNext]_Eating
  <2> SUFFICES ASSUME Ownership, Ownership', [Next]_vars PROVE [Table!TableNext]_Eating
    OBVIOUS
  <2> USE DEF Ownership, TypeOK, Goto, Eating
  <2>1. ASSUME NEW p \in Phil, TryR(p), Free(R(p)) PROVE Table!TableNext
    <3>1. p \notin Eating /\ Eating' = Eating \cup {p}
      BY <2>1 DEF TryR
    <3>2. \A q \in Eating : ~ Neighbours(p, q)
      <4>1. \A x \in Eating' : owner'[L(x)] = x /\ owner'[R(x)] = x
        BY PairOfForks DEF OwnerInv, Holds
      <4>2. QED
        BY <3>1, <4>1 DEF Neighbours
    <3>3. QED
      BY <3>1, <3>2 DEF Phil, Neighbours, L, R, Pair
  <2>2. ASSUME NEW p \in Phil, UnlockR(p) PROVE Table!TableNext
    <3>1. p \in Eating /\ Eating' = Eating \ {p}
      BY <2>2 DEF UnlockR
    <3>2. QED
      BY <3>1 DEF Phil
  <2>3. ASSUME NEW p \in Phil, TryR(p), ~ Free(R(p)) PROVE Eating' = Eating
    BY <2>3 DEF TryR
  <2>4. ASSUME NEW p \in Phil,
               LockM(p) \/ TryL(p) \/ GiveBack(p) \/ Wait(p) \/ UnlockL(p) \/ Broadcast(p)
        PROVE  Eating' = Eating
    BY <2>4 DEF LockM, TryL, GiveBack, Wait, UnlockL, Broadcast
  <2>5. ASSUME NEW p \in Phil, SpuriousWakeup(p) PROVE Eating' = Eating
    BY <2>5 DEF SpuriousWakeup
  <2>6. CASE UNCHANGED vars
    BY <2>6 DEF vars
  <2>7. QED
    BY <2>1, <2>2, <2>3, <2>4, <2>5, <2>6 DEF Next, Step
<1>3. QED
  BY <1>1, <1>2, OwnershipInvariant, PTL DEF Spec, RefinesTable, Table!TableSpec

=============================================================================
