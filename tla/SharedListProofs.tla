-------------------------- MODULE SharedListProofs --------------------------
(***************************************************************************)
(* Proofs about task18.c for any number of sorting threads and of lines:   *)
(* who gets in (IInv), what the list is meanwhile (DataInv), and in what   *)
(* order its first two lines are left (OrderInv).                          *)
(***************************************************************************)
EXTENDS SharedList, FiniteSetTheorems, WellFoundedInduction, TLAPS

MainInside == {"print", "allocate", "link", "leave"}
SorterInside == Passing \cup {"leave"}
Sorting == {s \in Sorter : at[s] \in SorterInside}

ControlOK ==
  /\ at \in [Thread -> SorterInside \cup MainInside \cup {"begin", "rest", "read", "enter"}]
  /\ at[Main] \in MainInside \cup {"read", "enter"}
  /\ \A s \in Sorter : at[s] \in SorterInside \cup {"begin", "rest"}
  /\ asleep \subseteq Thread

(* What the status and the count say about who is inside.                  *)
StatusInv ==
  /\ sorting_count = Cardinality(Sorting)
  /\ status \in {"FREE", "SORTING", "UPDATING"}
  /\ status = "UPDATING" <=> at[Main] \in MainInside
  /\ status = "SORTING" <=> Sorting # {}

IInv == ControlOK /\ StatusInv /\ NoLostWakeup

-----------------------------------------------------------------------------
LEMMA ThreadsApart == Main \notin Sorter /\ Sorter \cup {Main} = Thread
  BY ListAssumption DEF Main, Sorter, Thread

LEMMA SortersFinite == ASSUME NEW S, S \subseteq Sorter PROVE IsFiniteSet(S)
<1>1. IsFiniteSet(1 .. COUNT_OF_SORTING_THREADS)
  BY ListAssumption, FS_Interval
<1>2. QED
  BY <1>1, FS_Subset DEF Sorter

LEMMA InsideParts ==
  ControlOK => Inside = Sorting \cup {t \in {Main} : at[t] \in MainInside}
  BY DEF Inside, Sorting, MainInside, SorterInside

(* A step that lets nobody in or out, and puts nobody to sleep.            *)
LEMMA QuietStep ==
  ASSUME IInv, ControlOK', UNCHANGED <<status, sorting_count>>,
         asleep' \subseteq asleep,
         Sorting' = Sorting, at[Main] \in MainInside <=> at'[Main] \in MainInside
  PROVE  IInv' /\ Inside' = Inside
<1>1. Inside' = Inside
  BY InsideParts DEF IInv, ControlOK, Inside, Sorting, MainInside, SorterInside
<1>2. StatusInv'
  BY DEF IInv, StatusInv
<1>3. NoLostWakeup'
  BY <1>1 DEF IInv, NoLostWakeup, Access!Conflicting
<1>4. QED
  BY <1>1, <1>2, <1>3 DEF IInv

(* Such is a step of a thread between two places that are both inside or   *)
(* both outside.                                                           *)
LEMMA SorterMoves ==
  ASSUME IInv, NEW s \in Sorter, NEW from, NEW to, Goes(s, from, to),
         UNCHANGED <<status, sorting_count, asleep>>,
         \/ from \in SorterInside /\ to \in SorterInside
         \/ from \in {"begin", "rest"} /\ to \in {"begin", "rest"}
  PROVE  IInv' /\ Inside' = Inside
<1>1. /\ ControlOK' /\ Sorting' = Sorting
      /\ at[Main] \in MainInside <=> at'[Main] \in MainInside
  BY ThreadsApart DEF Goes, IInv, ControlOK, Sorting, SorterInside, MainInside, Passing
<1>2. QED
  BY <1>1, QuietStep

LEMMA MainMoves ==
  ASSUME IInv, NEW from, NEW to, Goes(Main, from, to),
         UNCHANGED <<status, sorting_count, asleep>>,
         \/ from \in MainInside /\ to \in MainInside
         \/ from \in {"read", "enter"} /\ to \in {"read", "enter"}
  PROVE  IInv' /\ Inside' = Inside
<1>1. /\ ControlOK' /\ Sorting' = Sorting
      /\ at[Main] \in MainInside <=> at'[Main] \in MainInside
  BY ThreadsApart DEF Goes, IInv, ControlOK, Sorting, SorterInside, MainInside, Passing
<1>2. QED
  BY <1>1, QuietStep

LEMMA NobodyMoves ==
  ASSUME IInv, UNCHANGED <<status, sorting_count, at>>, asleep' \subseteq asleep
  PROVE  IInv' /\ Inside' = Inside
<1>1. /\ ControlOK' /\ Sorting' = Sorting
      /\ at[Main] \in MainInside <=> at'[Main] \in MainInside
  BY DEF IInv, ControlOK, Sorting
<1>2. QED
  BY <1>1, QuietStep

-----------------------------------------------------------------------------
(* task18.c:104-113 and 143-149: a sorting thread enters and leaves.       *)
LEMMA SorterEntersInv ==
  ASSUME IInv, NEW s \in Sorter, SorterEnters(s)
  PROVE  IInv' /\ Access!Admit(s)
<1>1. Sorting' = Sorting \cup {s} /\ s \notin Sorting /\ at'[Main] = at[Main]
  BY ThreadsApart DEF SorterEnters, Goes, IInv, ControlOK, Sorting, SorterInside, Passing
<1>2. ControlOK'
  BY ThreadsApart DEF SorterEnters, Goes, IInv, ControlOK, SorterInside, Passing
<1>3. sorting_count' = Cardinality(Sorting')
  BY <1>1, SortersFinite, FS_AddElement
  DEF SorterEnters, IInv, StatusInv, Sorting
<1>4. status # "UPDATING" /\ at[Main] \notin MainInside
  BY DEF SorterEnters, SorterAdmitted, IInv, StatusInv
<1>5. StatusInv'
  BY <1>1, <1>3, <1>4 DEF SorterEnters, StatusInv
<1>6. Inside = Sorting /\ Inside' = Inside \cup {s}
  BY <1>1, <1>2, <1>4, InsideParts
  DEF IInv, Inside, Sorting, MainInside, SorterInside
<1>7. NoLostWakeup'
  BY <1>6 DEF IInv, NoLostWakeup, SorterEnters, Access!Conflicting
<1>8. Access!Admit(s)
  BY <1>1, <1>6, ThreadsApart DEF Access!Admit, Access!Conflicting, Sorting
<1>9. QED
  BY <1>2, <1>5, <1>7, <1>8 DEF IInv

LEMMA SorterLeavesInv ==
  ASSUME IInv, NEW s \in Sorter, SorterLeaves(s)
  PROVE  IInv' /\ Access!Dismiss(s)
<1>1. Sorting' = Sorting \ {s} /\ s \in Sorting /\ at'[Main] = at[Main]
  BY ThreadsApart DEF SorterLeaves, Goes, IInv, ControlOK, Sorting, SorterInside, Passing
<1>2. ControlOK'
  BY ThreadsApart DEF SorterLeaves, StillAsleep, Goes, IInv, ControlOK, SorterInside, Passing
<1>3. sorting_count' = Cardinality(Sorting')
  BY <1>1, SortersFinite, FS_RemoveElement
  DEF SorterLeaves, IInv, StatusInv, Sorting
<1>4. status = "SORTING" /\ at[Main] \notin MainInside
  BY <1>1 DEF IInv, StatusInv
<1>5. sorting_count' = 0 <=> Sorting' = {}
  BY <1>3, SortersFinite, FS_EmptySet DEF Sorting
<1>6. StatusInv'
  BY <1>1, <1>3, <1>4, <1>5 DEF SorterLeaves, StatusWithout, StatusInv
<1>7. Inside = Sorting /\ Inside' = Inside \ {s}
  BY <1>1, <1>2, <1>4, InsideParts
  DEF IInv, Inside, Sorting, MainInside, SorterInside
<1>8. NoLostWakeup'
  BY DEF NoLostWakeup, SorterLeaves, StillAsleep
<1>9. QED
  BY <1>1, <1>2, <1>6, <1>7, <1>8 DEF IInv, Access!Dismiss

(* task18.c:48-53, 61-64, 154-159, 169-172: main enters and leaves.        *)
LEMMA MainEntersInv ==
  ASSUME IInv, MainEnters
  PROVE  IInv' /\ Access!Admit(Main)
<1>1. /\ Sorting' = Sorting /\ Sorting = {}
      /\ at[Main] \notin MainInside /\ at'[Main] \in MainInside
  BY ThreadsApart
  DEF MainEnters, MainAdmitted, Goes, IInv, ControlOK, StatusInv, Sorting, MainInside
<1>2. ControlOK'
  BY ThreadsApart DEF MainEnters, Goes, IInv, ControlOK, MainInside
<1>3. StatusInv'
  BY <1>1 DEF MainEnters, IInv, StatusInv
<1>4. Inside = {} /\ Inside' = {Main}
  BY <1>1, <1>2, InsideParts DEF IInv, Inside, Sorting, MainInside, SorterInside
<1>5. NoLostWakeup'
  BY <1>4 DEF IInv, NoLostWakeup, MainEnters
<1>6. QED
  BY <1>2, <1>3, <1>4, <1>5 DEF IInv, Access!Admit

LEMMA MainLeavesInv ==
  ASSUME IInv, MainLeaves
  PROVE  IInv' /\ Access!Dismiss(Main)
<1>1. /\ Sorting' = Sorting /\ Sorting = {}
      /\ at[Main] \in MainInside /\ at'[Main] \notin MainInside
  BY ThreadsApart
  DEF MainLeaves, Goes, IInv, ControlOK, StatusInv, Sorting, MainInside
<1>2. ControlOK'
  BY ThreadsApart DEF MainLeaves, StillAsleep, Goes, IInv, ControlOK, MainInside
<1>3. StatusInv'
  BY <1>1 DEF MainLeaves, IInv, StatusInv
<1>4. Inside = {Main} /\ Inside' = {}
  BY <1>1, <1>2, InsideParts DEF IInv, Inside, Sorting, MainInside, SorterInside
<1>5. NoLostWakeup'
  BY DEF NoLostWakeup, MainLeaves, StillAsleep
<1>6. QED
  BY <1>2, <1>3, <1>4, <1>5 DEF IInv, Access!Dismiss

(* task18.c:49-51, 107-109, 155-157: who is not let in has somebody inside *)
(* to wait for.                                                            *)
LEMMA SleepsInv ==
  ASSUME IInv, NEW t \in Thread, asleep' = asleep \cup {t},
         Inside \cap Access!Conflicting(t) # {},
         UNCHANGED <<status, sorting_count, at>>
  PROVE  IInv' /\ Inside' = Inside
<1>1. Sorting' = Sorting /\ Inside' = Inside /\ ControlOK'
  BY DEF IInv, ControlOK, Sorting, Inside
<1>2. StatusInv'
  BY <1>1 DEF IInv, StatusInv
<1>3. NoLostWakeup'
  BY <1>1 DEF IInv, NoLostWakeup, Access!Conflicting
<1>4. QED
  BY <1>1, <1>2, <1>3 DEF IInv

LEMMA SorterWaitsInv ==
  ASSUME IInv, NEW s \in Sorter, SorterWaits(s)
  PROVE  IInv' /\ Inside' = Inside
<1>1. Main \in Inside
  BY InsideParts DEF SorterWaits, SorterAdmitted, IInv, StatusInv
<1>2. Inside \cap Access!Conflicting(s) # {}
  BY <1>1, ThreadsApart DEF Access!Conflicting
<1>3. QED
  BY <1>2, ThreadsApart, SleepsInv DEF SorterWaits, Stays, Sleeps, list

LEMMA MainWaitsInv ==
  ASSUME IInv, MainWaits
  PROVE  IInv' /\ Inside' = Inside
<1>1. Sorting # {} /\ Sorting \subseteq Inside /\ Sorting \subseteq Sorter
  BY InsideParts
  DEF MainWaits, MainAdmitted, Stays, IInv, StatusInv, MainInside, Sorting
<1>2. Inside \cap Access!Conflicting(Main) # {}
  BY <1>1 DEF Access!Conflicting
<1>3. QED
  BY <1>2, ThreadsApart, SleepsInv DEF MainWaits, Stays, Sleeps, list

-----------------------------------------------------------------------------
LEMMA InitInv == ListInit => IInv /\ Inside = {}
<1> SUFFICES ASSUME ListInit PROVE IInv /\ Inside = {}
  OBVIOUS
<1>1. ControlOK /\ Sorting = {} /\ at[Main] = "read"
  BY ThreadsApart DEF ListInit, ControlOK, Sorting, SorterInside, Passing
<1>2. Inside = {}
  BY <1>1, InsideParts DEF MainInside
<1>3. StatusInv
  BY <1>1, FS_EmptySet DEF ListInit, StatusInv, MainInside
<1>4. NoLostWakeup
  BY DEF ListInit, NoLostWakeup
<1>5. QED
  BY <1>1, <1>2, <1>3, <1>4 DEF IInv

(* Every step keeps the invariant and lets at most one thread in or out.   *)
LEMMA StepInv ==
  ASSUME IInv, [ListNext]_listVars
  PROVE  IInv' /\ [Access!AccessNext]_Inside
<1> USE DEF list, mains
<1>1. ASSUME NEW s \in Sorter, SorterStep(s) PROVE IInv' /\ [Access!AccessNext]_Inside
  <2>1. CASE SorterEnters(s)
    BY <2>1, SorterEntersInv DEF Access!AccessNext
  <2>2. CASE SorterLeaves(s)
    BY <2>2, SorterLeavesInv DEF Access!AccessNext
  <2>3. CASE SorterWaits(s)
    BY <2>3, SorterWaitsInv
  <2>4. CASE Rest(s)
    BY <2>4, SorterMoves DEF Rest
  <2>5. CASE Pass(s) \/ EndPasses(s)
    BY <2>5, SorterMoves DEF Pass, EndPasses, SorterInside, Passing
  <2>6. CASE LockTerm(s)
    BY <2>6, SorterMoves DEF LockTerm, SorterInside, Passing
  <2>7. CASE LockFirst(s) \/ LockSecond(s)
    <3>1. ASSUME NEW n, NEW from \in SorterInside, NEW to \in SorterInside,
                 LockOrCrash(s, n, from, to)
          PROVE  IInv' /\ Inside' = Inside
      BY <3>1, SorterMoves, NobodyMoves DEF LockOrCrash, Crash, Stays
    <3>2. QED
      BY <2>7, <3>1 DEF LockFirst, LockSecond, SorterInside, Passing
  <2>8. CASE Keep(s) \/ ExchangeBase(s) \/ ExchangeSecond(s) \/ ExchangeFirst(s)
    BY <2>8, SorterMoves
    DEF Keep, ExchangeBase, ExchangeSecond, ExchangeFirst, SorterInside, Passing
  <2>9. CASE Advance(s) \/ UnlockNext(s) \/ UnlockBase(s)
    BY <2>9, SorterMoves DEF Advance, UnlockNext, UnlockBase, SorterInside, Passing
  <2>10. QED
    BY <1>1, <2>1, <2>2, <2>3, <2>4, <2>5, <2>6, <2>7, <2>8, <2>9 DEF SorterStep
<1>2. ASSUME ReadLine \/ MainStep PROVE IInv' /\ [Access!AccessNext]_Inside
  <2>1. CASE MainEnters
    BY <2>1, MainEntersInv DEF Access!AccessNext
  <2>2. CASE MainLeaves
    BY <2>2, MainLeavesInv DEF Access!AccessNext
  <2>3. CASE MainWaits
    BY <2>3, MainWaitsInv
  <2>4. CASE ReadLine
    BY <2>4, MainMoves DEF ReadLine
  <2>5. CASE Return \/ PrintNode
    BY <2>5, NobodyMoves DEF Return, PrintNode, Stays
  <2>6. CASE Printed \/ Allocate \/ Link
    BY <2>6, MainMoves DEF Printed, Allocate, Link, MainInside
  <2>7. QED
    BY <1>2, <2>1, <2>2, <2>3, <2>4, <2>5, <2>6 DEF MainStep
<1>3. ASSUME NEW t \in Thread, SpuriousWakeup(t) PROVE IInv' /\ [Access!AccessNext]_Inside
  BY <1>3, NobodyMoves DEF SpuriousWakeup
<1>4. CASE UNCHANGED listVars
  BY <1>4, NobodyMoves DEF listVars
<1>5. QED
  BY <1>1, <1>2, <1>3, <1>4 DEF ListNext

-----------------------------------------------------------------------------
(* Whoever waits on the condition of task18.c waits for a thread that is   *)
(* inside and still to broadcast, however many sorting threads there are.  *)
THEOREM NoWakeupLost == ListSpec => []NoLostWakeup
<1>1. ListInit => IInv
  BY InitInv
<1>2. IInv /\ [ListNext]_listVars => IInv'
  BY StepInv
<1>3. IInv => NoLostWakeup
  BY DEF IInv
<1>4. QED
  BY <1>1, <1>2, <1>3, PTL DEF ListSpec

(* main is alone with the list, or any number of sorting threads are at    *)
(* it: the status and the count of task18.c keep what ListAccess says.     *)
THEOREM AccessRefined == ListSpec => RefinesAccess
<1>1. ListInit => IInv /\ Access!AccessInit
  BY InitInv DEF Access!AccessInit
<1>2. IInv /\ [ListNext]_listVars => IInv' /\ [Access!AccessNext]_Inside
  BY StepInv
<1>3. QED
  BY <1>1, <1>2, PTL DEF ListSpec, RefinesAccess, Access!AccessSpec

-----------------------------------------------------------------------------
(* The list itself. Every thread that walks it has locked the head first,  *)
(* and keeps it until it has exchanged the two nodes or not: so the three  *)
(* pointers of an exchange are written by one thread at a time.            *)
Locking == Passing \ {"pass"}
Walking == {"lock_first", "lock_second", "compare", "second", "first", "advance"}
WithTwo == Locking \ {"lock_term", "lock_first"}

DataTyped ==
  /\ count \in 0 .. MaxLines /\ lines \in count .. MaxLines
  /\ next \in [Node \cup {Term} -> Node \cup {NULL}]
  /\ str \in [Node -> Lines \cup {Empty}] /\ line \in Lines \cup {Empty}
  /\ owner \in [Node \cup {Term} -> Sorter \cup {Nobody}]
  /\ loc \in [Sorter -> Locals]
  /\ it \in Node \cup {Term} /\ shown \subseteq Node
  /\ over \in {"no", "crashed", "returned"}

MainReady ==
  /\ at[Main] \in {"enter", "allocate", "link"} => count < lines
  /\ at[Main] \notin {"print", "leave"} => shown = {}
  /\ at[Main] = "link" => next[count + 1] = next[Term]

HeadHeld ==
  \A s \in Sorter :
    /\ at[s] \in Walking => loc[s].base = Term /\ owner[Term] = s
    /\ at[s] \in {"unlock_next", "unlock_base"} => loc[s].base \in Node
    /\ at[s] \in Locking => loc[s].i < Passes
    /\ at[s] \in WithTwo => count >= 2

(* The nodes in the order p, each but the last pointing to the next.       *)
Orders ==
  {p \in [1 .. count -> 1 .. count] :
     /\ \A j, k \in 1 .. count : p[j] = p[k] => j = k
     /\ \A n \in 1 .. count : \E k \in 1 .. count : p[k] = n}
Place(p, k) == IF k = 0 THEN Term ELSE p[k]
Succ(p, k) == IF k < count THEN p[k + 1] ELSE NULL
LinkedFrom(p, from) == \A k \in from .. count : next[Place(p, k)] = Succ(p, k)

(* In an exchange the first of the three pointers is written at "second",  *)
(* and the second, too, at "first".                                        *)
Exchanging == {s \in Sorter : at[s] \in {"second", "first"}}
HalfExchanged(p, s) ==
  /\ next[Term] = p[2] /\ next[p[1]] = p[2]
  /\ next[p[2]] = IF at[s] = "second" THEN Succ(p, 2) ELSE p[1]
  /\ loc[s].first = p[1] /\ loc[s].tmp = Succ(p, 2)
  /\ LinkedFrom(p, 3)

Printing(p) ==
  at[Main] = "print" =>
    \E j \in 0 .. count : it = Place(p, j) /\ shown = {p[k] : k \in 1 .. j}

Shape(p) ==
  /\ Exchanging = {} => LinkedFrom(p, 0)
  /\ \A s \in Exchanging : HalfExchanged(p, s)
  /\ Printing(p)

DataInv == DataTyped /\ MainReady /\ HeadHeld /\ CrashCause /\ \E p \in Orders : Shape(p)

LEMMA Numbers ==
  /\ Term = 0 /\ Term \notin Node /\ NULL \notin Node /\ NULL # Term /\ Node \subseteq Nat
  /\ Nobody \notin Sorter /\ MaxLines \in Nat /\ Node = 1 .. MaxLines
  BY ListAssumption DEF Term, Node, NULL, Nobody, Sorter

(* The passes of a sort, whose number wraps on the empty list.             *)
LEMMA PassesCounted ==
  DataTyped => /\ Passes \in Nat
               /\ count = 1 => Passes = 0
               /\ count >= 2 => Passes = count - 1
<1> SUFFICES ASSUME DataTyped
             PROVE  /\ Passes \in Nat
                    /\ count = 1 => Passes = 0
                    /\ count >= 2 => Passes = count - 1
  OBVIOUS
<1>1. SizeRange \in Nat /\ SizeRange > 0 /\ count \in Nat /\ count < SizeRange
  BY ListAssumption DEF DataTyped
<1>2. count = 0 => (count + SizeRange - 1) % SizeRange = SizeRange - 1
  BY <1>1
<1>3. count > 0 => (count + SizeRange - 1) % SizeRange = count - 1
  BY <1>1
<1>4. QED
  BY <1>1, <1>2, <1>3 DEF Passes

LEMMA PlacesAreNodes ==
  ASSUME DataTyped, NEW p \in Orders
  PROVE  count \in Nat /\ \A k \in 1 .. count : p[k] \in Node
<1>1. count \in Nat /\ count <= MaxLines
  BY Numbers DEF DataTyped
<1>2. p \in [1 .. count -> 1 .. count]
  BY DEF Orders
<1>3. 1 .. count \subseteq Node
  BY <1>1, Numbers
<1>4. QED
  BY <1>1, <1>2, <1>3

(* The first two nodes of a list that has two.                             *)
LEMMA FirstTwo ==
  ASSUME DataTyped, NEW p \in Orders, count >= 2
  PROVE  /\ p[1] \in Node /\ p[2] \in Node /\ p[1] # p[2] /\ Succ(p, 2) \in Node \cup {NULL}
         /\ p[1] # Term /\ p[2] # Term /\ 1 \in 1 .. count /\ 2 \in 1 .. count
         /\ LinkedFrom(p, 0) =>
              next[Term] = p[1] /\ next[p[1]] = p[2] /\ next[p[2]] = Succ(p, 2)
<1>1. count \in Nat /\ count <= MaxLines /\ 1 \in 1 .. count /\ 2 \in 1 .. count
  BY ListAssumption DEF DataTyped
<1>2. p \in [1 .. count -> 1 .. count] /\ \A j, k \in 1 .. count : p[j] = p[k] => j = k
  BY DEF Orders
<1>3. \A k \in 1 .. count : p[k] \in Node
  BY PlacesAreNodes
<1>4. Succ(p, 2) \in Node \cup {NULL}
  BY <1>1, <1>3 DEF Succ
<1>5. p[1] # p[2]
  BY <1>1, <1>2
<1>6. ASSUME LinkedFrom(p, 0)
      PROVE  next[Term] = p[1] /\ next[p[1]] = p[2] /\ next[p[2]] = Succ(p, 2)
  <2>1. 0 \in 0 .. count /\ 1 \in 0 .. count /\ 2 \in 0 .. count
    BY <1>1
  <2>2. Succ(p, 0) = p[1] /\ Succ(p, 1) = p[2]
    BY <1>1 DEF Succ
  <2>3. QED
    BY <1>6, <2>1, <2>2 DEF LinkedFrom, Place
<1>7. QED
  BY <1>1, <1>3, <1>4, <1>5, <1>6, Numbers

(* Who walks the list holds its head, so that nobody else exchanges nodes. *)
LEMMA OneWalks ==
  ASSUME HeadHeld, NEW s \in Sorter, at[s] \in Walking
  PROVE  /\ at[s] \in {"second", "first"} => Exchanging = {s}
         /\ at[s] \notin {"second", "first"} => Exchanging = {}
BY DEF HeadHeld, Walking, Exchanging

(* main is alone with the list.                                            *)
LEMMA MainAlone ==
  ASSUME IInv, at[Main] \in MainInside
  PROVE  /\ Sorting = {} /\ Exchanging = {}
         /\ \A s \in Sorter : at[s] \in {"begin", "rest"}
<1>1. Sorting = {}
  BY DEF IInv, StatusInv
<1>2. \A s \in Sorter : at[s] \in {"begin", "rest"}
  BY <1>1 DEF IInv, ControlOK, Sorting
<1>3. QED
  BY <1>1, <1>2 DEF Exchanging

-----------------------------------------------------------------------------
(* A step of a sorting thread that writes no pointer.                      *)
OnlyMoves(s) ==
  /\ \A t \in Thread \ {s} : at'[t] = at[t]
  /\ \A u \in Sorter \ {s} : loc'[u] = loc[u]
  /\ UNCHANGED <<count, next, str, mains, over>>

Rests(s) ==
  /\ at[s] \in Walking => loc[s].base = Term /\ owner[Term] = s
  /\ at[s] \in {"unlock_next", "unlock_base"} => loc[s].base \in Node
  /\ at[s] \in Locking => loc[s].i < Passes
  /\ at[s] \in WithTwo => count >= 2

LEMMA SorterWalks ==
  ASSUME IInv, DataInv, NEW s \in Sorter, OnlyMoves(s),
         at[s] \notin {"second", "first"}, at'[s] \notin {"second", "first"},
         owner' \in [Node \cup {Term} -> Sorter \cup {Nobody}],
         \A u \in Sorter \ {s} : owner[Term] = u => owner'[Term] = u,
         loc' \in [Sorter -> Locals],
         Rests(s)'
  PROVE  DataInv'
<1> USE DEF DataInv, OnlyMoves
<1>1. at'[Main] = at[Main] /\ Passes' = Passes
  BY ThreadsApart DEF Passes
<1>2. DataTyped' /\ CrashCause'
  BY DEF DataTyped, mains, CrashCause
<1>3. MainReady'
  BY <1>1 DEF MainReady, mains
<1>4. HeadHeld'
  <2> SUFFICES ASSUME NEW u \in Sorter, u # s
               PROVE  (/\ at[u] \in Walking => loc[u].base = Term /\ owner[Term] = u
                       /\ at[u] \in {"unlock_next", "unlock_base"} => loc[u].base \in Node
                       /\ at[u] \in Locking => loc[u].i < Passes
                       /\ at[u] \in WithTwo => count >= 2)'
    BY DEF HeadHeld, Rests
  <2>1. at'[u] = at[u] /\ loc'[u] = loc[u]
    BY ThreadsApart
  <2>2. QED
    BY <1>1, <2>1 DEF HeadHeld
<1>5. PICK p \in Orders : Shape(p)
  OBVIOUS
<1>6. Exchanging' = Exchanging /\ \A u \in Exchanging : at'[u] = at[u] /\ loc'[u] = loc[u]
  BY ThreadsApart DEF Exchanging
<1>7. p \in Orders'
  BY DEF Orders
<1>8. Shape(p)'
  BY <1>1, <1>5, <1>6 DEF Shape, HalfExchanged, LinkedFrom, Succ, Place, Printing, mains
<1>9. QED
  BY <1>2, <1>3, <1>4, <1>7, <1>8

LEMMA Goer ==
  ASSUME IInv, NEW s \in Sorter, NEW from, NEW to, Goes(s, from, to)
  PROVE  /\ at[s] = from /\ at'[s] = to /\ over = "no"
         /\ \A t \in Thread \ {s} : at'[t] = at[t]
BY ThreadsApart DEF Goes, IInv, ControlOK

(* task18.c:104-113, 116-117, 143-149: outside the loops over the nodes.   *)
LEMMA SorterAwayInv ==
  ASSUME IInv, DataInv, NEW s \in Sorter,
         SorterEnters(s) \/ SorterWaits(s) \/ EndPasses(s) \/ SorterLeaves(s) \/ Rest(s)
  PROVE  DataInv'
<1> USE DEF list, mains
<1>1. /\ at[s] \notin {"second", "first"} /\ at'[s] \in {"begin", "pass", "leave", "rest"}
      /\ \A t \in Thread \ {s} : at'[t] = at[t]
      /\ UNCHANGED <<count, next, str, owner, mains, over>>
  <2>1. CASE SorterEnters(s)
    BY <2>1, Goer DEF SorterEnters
  <2>2. CASE SorterWaits(s)
    BY <2>2 DEF SorterWaits, Stays, Sleeps
  <2>3. CASE EndPasses(s)
    BY <2>3, Goer DEF EndPasses
  <2>4. CASE SorterLeaves(s)
    BY <2>4, Goer DEF SorterLeaves
  <2>5. CASE Rest(s)
    BY <2>5, Goer DEF Rest
  <2>6. QED
    BY <2>1, <2>2, <2>3, <2>4, <2>5
<1>2. loc' \in [Sorter -> Locals] /\ \A u \in Sorter \ {s} : loc'[u] = loc[u]
  <2>1. AtFirst \in Locals
    BY Numbers DEF AtFirst, Locals
  <2>2. loc' = loc \/ loc' = [loc EXCEPT ![s] = AtFirst]
    BY DEF SorterEnters, SorterWaits, Sleeps, EndPasses, SorterLeaves, Rest
  <2>3. QED
    BY <2>1, <2>2 DEF DataInv, DataTyped
<1>3. Rests(s)'
  BY <1>1 DEF Rests, Walking, Locking, WithTwo, Passing
<1>4. QED
  BY <1>1, <1>2, <1>3, SorterWalks DEF OnlyMoves, DataInv, DataTyped

(* task18.c:116-119: a pass begins with the mutex of the head.             *)
LEMMA SorterBeginsInv ==
  ASSUME IInv, DataInv, NEW s \in Sorter, Pass(s) \/ LockTerm(s)
  PROVE  DataInv'
<1> USE DEF list, mains
<1>1. CASE Pass(s)
  <2>1. /\ at[s] = "pass" /\ at'[s] = "lock_term" /\ \A t \in Thread \ {s} : at'[t] = at[t]
        /\ loc[s].i < Passes
        /\ UNCHANGED <<count, next, str, mains, over, owner, loc>>
    BY <1>1, Goer DEF Pass
  <2>2. Rests(s)'
    BY <2>1 DEF Rests, Walking, Locking, WithTwo, Passing, Passes
  <2>3. QED
    BY <2>1, <2>2, SorterWalks DEF OnlyMoves, DataInv, DataTyped
<1>2. CASE LockTerm(s)
  <2>1. /\ at[s] = "lock_term" /\ at'[s] = "lock_first" /\ \A t \in Thread \ {s} : at'[t] = at[t]
        /\ owner[Term] = Nobody /\ owner' = [owner EXCEPT ![Term] = s]
        /\ loc' = [loc EXCEPT ![s].base = Term]
        /\ UNCHANGED <<count, next, str, mains, over>>
    BY <1>2, Goer DEF LockTerm, Lock
  <2>2. /\ loc' \in [Sorter -> Locals] /\ loc'[s].base = Term /\ loc'[s].i = loc[s].i
        /\ \A u \in Sorter \ {s} : loc'[u] = loc[u]
    BY <2>1 DEF DataInv, DataTyped, Locals
  <2>3. owner' \in [Node \cup {Term} -> Sorter \cup {Nobody}] /\ owner'[Term] = s
    BY <2>1 DEF DataInv, DataTyped
  <2>4. loc[s].i < Passes
    BY <2>1 DEF DataInv, HeadHeld, Locking, Passing
  <2>5. Rests(s)'
    BY <2>1, <2>2, <2>3, <2>4 DEF Rests, Walking, Locking, WithTwo, Passing, Passes
  <2>6. QED
    BY <2>1, <2>2, <2>3, <2>5, Numbers, SorterWalks DEF OnlyMoves
<1>3. QED
  BY <1>1, <1>2

(* The nodes that a thread with the head sees.                             *)
LEMMA HeadSeen ==
  ASSUME DataInv, NEW s \in Sorter, at[s] \in Walking \ {"second", "first"}
  PROVE  /\ First(s) = next[Term] /\ First(s) \in Node \cup {NULL}
         /\ next[Term] = NULL <=> count = 0
         /\ count # 1 /\ count \in Nat
         /\ \E p \in Orders : /\ Shape(p) /\ LinkedFrom(p, 0)
                              /\ count >= 2 => /\ First(s) = p[1] /\ Second(s) = p[2]
                                               /\ next[p[2]] = Succ(p, 2)
<1>1. loc[s].base = Term /\ owner[Term] = s /\ loc[s].i < Passes
  BY DEF DataInv, HeadHeld, Walking, Locking, Passing
<1>2. count # 1 /\ count \in Nat
  <2>1. loc[s] \in Locals
    BY DEF DataInv, DataTyped
  <2>2. loc[s].i \in Nat
    BY <2>1, Numbers DEF Locals
  <2>3. QED
    BY <1>1, <2>2, PassesCounted, Numbers DEF DataInv, DataTyped
<1>3. PICK p \in Orders : Shape(p)
  BY DEF DataInv
<1>4. LinkedFrom(p, 0)
  BY <1>3, OneWalks DEF DataInv, Shape
<1>5. next[Term] = Succ(p, 0)
  BY <1>2, <1>4 DEF LinkedFrom, Place
<1>6. count > 0 => p[1] \in Node
  BY <1>2, FirstTwo DEF DataInv
<1>7. next[Term] = NULL <=> count = 0
  BY <1>2, <1>5, <1>6, Numbers DEF Succ
<1>8. First(s) = next[Term] /\ First(s) \in Node \cup {NULL}
  BY <1>1 DEF First, DataInv, DataTyped
<1>9. count >= 2 => First(s) = p[1] /\ Second(s) = p[2] /\ next[p[2]] = Succ(p, 2)
  BY <1>4, <1>8, FirstTwo DEF Second, DataInv
<1>10. QED
  BY <1>2, <1>3, <1>4, <1>7, <1>8, <1>9

(* task18.c:120-123: on the empty list, and only there, the first node to  *)
(* lock is not there.                                                      *)
LEMMA SorterLocksInv ==
  ASSUME IInv, DataInv, NEW s \in Sorter, LockFirst(s) \/ LockSecond(s)
  PROVE  DataInv'
<1> USE DEF list, mains
<1>1. at[s] \in {"lock_first", "lock_second"}
  BY DEF LockFirst, LockSecond, LockOrCrash, Crash, Stays, Goes
<1>2. /\ loc[s].base = Term /\ owner[Term] = s /\ loc[s].i < Passes
      /\ at[s] = "lock_second" => count >= 2
  BY <1>1 DEF DataInv, HeadHeld, Walking, Locking, WithTwo, Passing
<1>3. at[s] \in Walking \ {"second", "first"}
  BY <1>1 DEF Walking
<1>4. PICK p \in Orders : /\ Shape(p) /\ LinkedFrom(p, 0)
                          /\ count >= 2 => /\ First(s) = p[1] /\ Second(s) = p[2]
                                           /\ next[p[2]] = Succ(p, 2)
  BY <1>3, HeadSeen
<1>5. /\ First(s) \in Node \cup {NULL}
      /\ First(s) = NULL <=> count = 0
      /\ count # 1 /\ count \in Nat
  BY <1>3, HeadSeen
<1>6. ASSUME NEW n \in Node, NEW to \in {"lock_second", "compare"}, Goes(s, at[s], to),
             Lock(s, n), UNCHANGED <<list, asleep, loc, mains, over>>, count # 0
      PROVE  DataInv'
  <2>1. /\ at'[s] = to /\ \A t \in Thread \ {s} : at'[t] = at[t]
    BY <1>6, Goer
  <2>2. owner' \in [Node \cup {Term} -> Sorter \cup {Nobody}] /\ owner'[Term] = owner[Term]
    BY <1>6, Numbers DEF Lock, DataInv, DataTyped
  <2>3. count >= 2
    BY <1>5, <1>6
  <2>4. Rests(s)'
    BY <1>2, <1>6, <2>1, <2>2, <2>3 DEF Rests, Walking, Locking, WithTwo, Passing, Passes
  <2>5. QED
    BY <1>1, <1>6, <2>1, <2>2, <2>4, SorterWalks DEF OnlyMoves, DataInv, DataTyped
<1>7. CASE LockFirst(s) /\ First(s) # NULL
  <2>1. /\ Goes(s, "lock_first", "lock_second") /\ Lock(s, First(s))
        /\ UNCHANGED <<list, asleep, loc, mains, over>>
    BY <1>7 DEF LockFirst, LockOrCrash, First
  <2>2. at[s] = "lock_first" /\ First(s) \in Node /\ count # 0
    BY <1>5, <1>7, <2>1 DEF Goes
  <2>3. QED
    BY <1>6, <2>1, <2>2
<1>8. CASE LockFirst(s) /\ First(s) = NULL
  <2>1. over' = "crashed" /\ UNCHANGED <<list, owner, at, loc, mains>> /\ count = 0
    BY <1>5, <1>8 DEF LockFirst, LockOrCrash, First, Crash, Stays
  <2>2. DataTyped' /\ MainReady' /\ HeadHeld' /\ CrashCause'
    BY <2>1 DEF DataInv, DataTyped, MainReady, HeadHeld, CrashCause, Passes
  <2>3. p \in Orders' /\ Shape(p)'
    BY <1>4, <2>1
       DEF Orders, Shape, Exchanging, HalfExchanged, LinkedFrom, Succ, Place, Printing
  <2>4. QED
    BY <2>2, <2>3 DEF DataInv
<1>9. CASE LockSecond(s)
  <2>1. at[s] = "lock_second" /\ count >= 2 /\ Second(s) = p[2] /\ p[2] \in Node /\ p[2] # NULL
    BY <1>2, <1>4, <1>9, FirstTwo, Numbers DEF LockSecond, DataInv
  <2>2. /\ Goes(s, "lock_second", "compare") /\ Lock(s, Second(s))
        /\ UNCHANGED <<list, asleep, loc, mains, over>>
    BY <1>9, <2>1 DEF LockSecond, LockOrCrash, First, Second
  <2>3. QED
    BY <1>5, <1>6, <2>1, <2>2
<1>10. QED
  BY <1>7, <1>8, <1>9

(* task18.c:124-125, 134-141: the two nodes are in order, or have been     *)
(* exchanged, and the mutexes are given back.                              *)
LEMMA SorterPassesInv ==
  ASSUME IInv, DataInv, NEW s \in Sorter,
         Keep(s) \/ Advance(s) \/ UnlockNext(s) \/ UnlockBase(s)
  PROVE  DataInv'
<1> USE DEF list, mains
<1>1. CASE Keep(s)
  <2>1. /\ at[s] = "compare" /\ at'[s] = "advance" /\ \A t \in Thread \ {s} : at'[t] = at[t]
        /\ UNCHANGED <<count, next, str, mains, over, owner, loc>>
    BY <1>1, Goer DEF Keep
  <2>2. Rests(s)'
    BY <2>1 DEF Rests, Walking, Locking, WithTwo, Passing, Passes, DataInv, HeadHeld
  <2>3. QED
    BY <2>1, <2>2, SorterWalks DEF OnlyMoves, DataInv, DataTyped
<1>2. CASE Advance(s)
  <2>1. at[s] = "advance"
    BY <1>2 DEF Advance
  <2>2. loc[s].base = Term /\ owner[Term] = s /\ loc[s].i < Passes /\ count >= 2
    BY <2>1 DEF DataInv, HeadHeld, Walking, Locking, WithTwo, Passing
  <2>3. First(s) \in Node /\ Second(s) \in Node /\ Second(s) # NULL
    <3>1. PICK p \in Orders : First(s) = p[1] /\ Second(s) = p[2]
      BY <2>1, <2>2, HeadSeen DEF Walking
    <3>2. QED
      BY <2>2, <3>1, FirstTwo, Numbers DEF DataInv
  <2>4. /\ at'[s] = "unlock_next" /\ \A t \in Thread \ {s} : at'[t] = at[t]
        /\ owner' = [owner EXCEPT ![Term] = Nobody]
        /\ loc' = [loc EXCEPT ![s].base = First(s)]
        /\ UNCHANGED <<count, next, str, mains, over>>
    BY <1>2, <2>2, <2>3, Goer DEF Advance, GoesOn
  <2>5. /\ loc' \in [Sorter -> Locals] /\ loc'[s].base = First(s) /\ loc'[s].i = loc[s].i
        /\ \A u \in Sorter \ {s} : loc'[u] = loc[u]
    BY <2>3, <2>4 DEF DataInv, DataTyped, Locals
  <2>6. owner' \in [Node \cup {Term} -> Sorter \cup {Nobody}]
    BY <2>4 DEF DataInv, DataTyped
  <2>7. Rests(s)'
    BY <2>2, <2>3, <2>4, <2>5 DEF Rests, Walking, Locking, WithTwo, Passing, Passes
  <2>8. QED
    BY <2>1, <2>2, <2>4, <2>5, <2>6, <2>7, SorterWalks DEF OnlyMoves
<1>3. CASE UnlockNext(s)
  <2>1. /\ at[s] = "unlock_next" /\ at'[s] = "unlock_base"
        /\ \A t \in Thread \ {s} : at'[t] = at[t]
        /\ owner' = [owner EXCEPT ![First(s)] = Nobody]
        /\ UNCHANGED <<count, next, str, mains, over, loc>>
    BY <1>3, Goer DEF UnlockNext
  <2>2. loc[s].base \in Node /\ loc[s].i < Passes /\ count >= 2
    BY <2>1 DEF DataInv, HeadHeld, Locking, WithTwo, Passing
  <2>3. First(s) # Term
    BY <2>2, Numbers DEF First, DataInv, DataTyped
  <2>4. owner' \in [Node \cup {Term} -> Sorter \cup {Nobody}] /\ owner'[Term] = owner[Term]
    BY <2>1, <2>3 DEF DataInv, DataTyped
  <2>5. Rests(s)'
    BY <2>1, <2>2 DEF Rests, Walking, Locking, WithTwo, Passing, Passes
  <2>6. QED
    BY <2>1, <2>4, <2>5, SorterWalks DEF OnlyMoves, DataInv, DataTyped
<1>4. CASE UnlockBase(s)
  <2>1. /\ at[s] = "unlock_base" /\ at'[s] = "pass" /\ \A t \in Thread \ {s} : at'[t] = at[t]
        /\ owner' = [owner EXCEPT ![loc[s].base] = Nobody]
        /\ loc' = [loc EXCEPT ![s].i = @ + 1, ![s].base = Term]
        /\ UNCHANGED <<count, next, str, mains, over>>
    BY <1>4, Goer DEF UnlockBase
  <2>2. loc[s].base \in Node /\ loc[s].i < Passes /\ count >= 2
    BY <2>1 DEF DataInv, HeadHeld, Locking, WithTwo, Passing
  <2>3. owner' \in [Node \cup {Term} -> Sorter \cup {Nobody}] /\ owner'[Term] = owner[Term]
    BY <2>1, <2>2, Numbers DEF DataInv, DataTyped
  <2>4. loc' \in [Sorter -> Locals] /\ \A u \in Sorter \ {s} : loc'[u] = loc[u]
    <3>1. loc \in [Sorter -> Locals] /\ loc[s] \in Locals
      BY DEF DataInv, DataTyped
    <3>2. loc[s].i \in Nat /\ count \in Nat /\ count <= MaxLines
      BY <3>1, Numbers DEF DataInv, DataTyped, Locals
    <3>3. Passes = count - 1
      BY <2>2, PassesCounted DEF DataInv
    <3>4. loc[s].i + 1 \in 0 .. MaxLines
      BY <2>2, <3>2, <3>3, Numbers
    <3>5. QED
      BY <2>1, <3>1, <3>4 DEF Locals
  <2>5. Rests(s)'
    BY <2>1 DEF Rests, Walking, Locking, WithTwo, Passing
  <2>6. QED
    BY <2>1, <2>3, <2>4, <2>5, SorterWalks DEF OnlyMoves
<1>5. QED
  BY <1>1, <1>2, <1>3, <1>4

(* task18.c:126-133: the three pointers of an exchange. The first two      *)
(* leave the list in a shape that only the third makes a list again, with  *)
(* the first two nodes in the other order.                                 *)
LEMMA SorterExchanges ==
  ASSUME IInv, DataInv, NEW s \in Sorter, at[s] \in Walking, at'[s] \in Walking,
         \A t \in Thread \ {s} : at'[t] = at[t],
         next' \in [Node \cup {Term} -> Node \cup {NULL}],
         loc' \in [Sorter -> Locals], \A u \in Sorter \ {s} : loc'[u] = loc[u],
         loc'[s].base = loc[s].base, loc'[s].i = loc[s].i, count >= 2,
         UNCHANGED <<count, str, owner, mains, over>>
  PROVE  /\ DataTyped' /\ MainReady' /\ HeadHeld' /\ CrashCause'
         /\ at'[Main] = at[Main] /\ at[Main] # "print"
<1> USE DEF DataInv
<1>1. Passes' = Passes /\ at'[Main] = at[Main]
  BY ThreadsApart DEF Passes
<1>2. at[Main] \notin MainInside
  <2>1. s \in Sorting
    BY DEF Sorting, SorterInside, Walking, Passing
  <2>2. QED
    BY <2>1, MainAlone
<1>3. DataTyped' /\ CrashCause'
  BY DEF DataTyped, CrashCause, mains
<1>4. MainReady'
  BY <1>1, <1>2 DEF MainReady, mains, MainInside
<1>5. HeadHeld'
  <2> SUFFICES ASSUME NEW u \in Sorter
               PROVE  (/\ at[u] \in Walking => loc[u].base = Term /\ owner[Term] = u
                       /\ at[u] \in {"unlock_next", "unlock_base"} => loc[u].base \in Node
                       /\ at[u] \in Locking => loc[u].i < Passes
                       /\ at[u] \in WithTwo => count >= 2)'
    BY DEF HeadHeld
  <2>1. CASE u = s
    BY <1>1, <2>1 DEF HeadHeld, Walking, Locking, WithTwo, Passing
  <2>2. CASE u # s
    <3>1. at'[u] = at[u] /\ loc'[u] = loc[u]
      BY <2>2, ThreadsApart
    <3>2. QED
      BY <1>1, <3>1 DEF HeadHeld
  <2>3. QED
    BY <2>1, <2>2
<1>6. QED
  BY <1>1, <1>2, <1>3, <1>4, <1>5 DEF MainInside

LEMMA ExchangeBaseInv ==
  ASSUME IInv, DataInv, NEW s \in Sorter, ExchangeBase(s) PROVE DataInv'
<1> USE DEF mains
<1>1. /\ at[s] = "compare" /\ at'[s] = "second" /\ \A t \in Thread \ {s} : at'[t] = at[t]
      /\ loc' = [loc EXCEPT ![s].first = First(s), ![s].tmp = next[Second(s)]]
      /\ next' = [next EXCEPT ![loc[s].base] = Second(s)]
      /\ UNCHANGED <<count, str, owner, mains, over>>
  BY Goer DEF ExchangeBase
<1>2. loc[s].base = Term /\ count >= 2
  BY <1>1 DEF DataInv, HeadHeld, Walking, WithTwo, Locking, Passing
<1>3. PICK p \in Orders : /\ Shape(p) /\ LinkedFrom(p, 0) /\ First(s) = p[1]
                          /\ Second(s) = p[2] /\ next[p[2]] = Succ(p, 2)
  BY <1>1, <1>2, HeadSeen DEF Walking
<1>4. /\ p[1] \in Node /\ p[2] \in Node /\ p[1] # p[2] /\ Succ(p, 2) \in Node \cup {NULL}
      /\ p[1] # Term /\ p[2] # Term /\ next[p[1]] = p[2]
  BY <1>2, <1>3, FirstTwo DEF DataInv
<1>5. /\ loc' \in [Sorter -> Locals] /\ \A u \in Sorter \ {s} : loc'[u] = loc[u]
      /\ loc'[s].base = loc[s].base /\ loc'[s].i = loc[s].i
      /\ loc'[s].first = p[1] /\ loc'[s].tmp = Succ(p, 2)
  <2>1. loc \in [Sorter -> Locals] /\ loc[s] \in Locals
    BY DEF DataInv, DataTyped
  <2>2. loc' = [loc EXCEPT ![s].first = p[1], ![s].tmp = Succ(p, 2)]
    BY <1>1, <1>3
  <2>3. QED
    BY <1>4, <2>1, <2>2 DEF Locals
<1>6. /\ next' \in [Node \cup {Term} -> Node \cup {NULL}] /\ next'[Term] = p[2]
      /\ \A n \in Node : next'[n] = next[n]
  BY <1>1, <1>2, <1>3, <1>4, Numbers DEF DataInv, DataTyped
<1>7. /\ DataTyped' /\ MainReady' /\ HeadHeld' /\ CrashCause'
      /\ at'[Main] = at[Main] /\ at[Main] # "print"
  BY <1>1, <1>2, <1>5, <1>6, SorterExchanges DEF Walking
<1>8. Exchanging' = {s}
  <2>1. Exchanging = {}
    BY <1>1, OneWalks DEF Walking, DataInv
  <2>2. QED
    BY <1>1, <2>1, ThreadsApart DEF Exchanging
<1>9. HalfExchanged(p, s)'
  <2>1. LinkedFrom(p, 3)'
    <3>1. \A k \in 3 .. count : k \in 1 .. count /\ p[k] \in Node
      BY PlacesAreNodes DEF DataInv
    <3>2. QED
      BY <1>1, <1>3, <1>6, <3>1 DEF LinkedFrom, Place, Succ
  <2>2. Succ(p, 2)' = Succ(p, 2)
    BY <1>1 DEF Succ
  <2>3. QED
    BY <1>1, <1>3, <1>4, <1>5, <1>6, <2>1, <2>2 DEF HalfExchanged
<1>10. p \in Orders' /\ Shape(p)'
  BY <1>1, <1>7, <1>8, <1>9 DEF Orders, Shape, Printing
<1>11. QED
  BY <1>7, <1>10 DEF DataInv

(* A thread in the middle of an exchange.                                  *)
LEMMA HalfSeen ==
  ASSUME DataInv, NEW s \in Sorter, at[s] \in {"second", "first"}
  PROVE  /\ loc[s].base = Term /\ count >= 2 /\ Exchanging = {s} /\ loc[s] \in Locals
         /\ \E p \in Orders :
              /\ HalfExchanged(p, s)
              /\ p[1] \in Node /\ p[2] \in Node /\ p[1] # p[2]
              /\ p[1] # Term /\ p[2] # Term /\ Succ(p, 2) \in Node \cup {NULL}
<1>1. loc[s].base = Term /\ count >= 2
  BY DEF DataInv, HeadHeld, Walking, WithTwo, Locking, Passing
<1>2. Exchanging = {s}
  BY OneWalks DEF Walking, DataInv
<1>3. PICK p \in Orders : Shape(p)
  BY DEF DataInv
<1>4. HalfExchanged(p, s)
  BY <1>2, <1>3 DEF Shape
<1>5. QED
  BY <1>1, <1>2, <1>4, FirstTwo DEF DataInv, DataTyped

LEMMA ExchangeSecondInv ==
  ASSUME IInv, DataInv, NEW s \in Sorter, ExchangeSecond(s) PROVE DataInv'
<1> USE DEF mains
<1>1. /\ at[s] = "second" /\ at'[s] = "first" /\ \A t \in Thread \ {s} : at'[t] = at[t]
      /\ next' = [next EXCEPT ![First(s)] = loc[s].first]
      /\ UNCHANGED <<count, str, owner, mains, over, loc>>
  BY Goer DEF ExchangeSecond
<1>2. /\ loc[s].base = Term /\ count >= 2 /\ Exchanging = {s}
      /\ \E p \in Orders :
           /\ HalfExchanged(p, s)
           /\ p[1] \in Node /\ p[2] \in Node /\ p[1] # p[2]
           /\ p[1] # Term /\ p[2] # Term /\ Succ(p, 2) \in Node \cup {NULL}
  BY <1>1, HalfSeen
<1>3. PICK p \in Orders :
        /\ HalfExchanged(p, s)
        /\ p[1] \in Node /\ p[2] \in Node /\ p[1] # p[2]
        /\ p[1] # Term /\ p[2] # Term /\ Succ(p, 2) \in Node \cup {NULL}
  BY <1>2
<1>4. /\ next[Term] = p[2] /\ next[p[1]] = p[2] /\ LinkedFrom(p, 3)
      /\ loc[s].first = p[1] /\ loc[s].tmp = Succ(p, 2)
  BY <1>3 DEF HalfExchanged
<1>5. /\ next' \in [Node \cup {Term} -> Node \cup {NULL}] /\ next'[p[2]] = p[1]
      /\ \A n \in Node \cup {Term} : n # p[2] => next'[n] = next[n]
  BY <1>1, <1>2, <1>3, <1>4 DEF First, DataInv, DataTyped
<1>6. /\ DataTyped' /\ MainReady' /\ HeadHeld' /\ CrashCause'
      /\ at'[Main] = at[Main] /\ at[Main] # "print"
  <2>1. loc' \in [Sorter -> Locals]
    BY <1>1 DEF DataInv, DataTyped
  <2>2. QED
    BY <1>1, <1>2, <1>5, <2>1, SorterExchanges DEF Walking
<1>7. Exchanging' = {s}
  BY <1>1, <1>2, ThreadsApart DEF Exchanging
<1>8. LinkedFrom(p, 3)'
  <2>1. \A k \in 3 .. count : k \in 1 .. count /\ p[k] \in Node /\ p[k] # p[2]
    <3>1. count \in Nat /\ \A k \in 1 .. count : p[k] \in Node
      BY PlacesAreNodes DEF DataInv
    <3>2. \A k \in 3 .. count : k \in 1 .. count /\ 2 \in 1 .. count /\ k # 2
      BY <3>1
    <3>3. QED
      BY <3>1, <3>2 DEF Orders
  <2>2. QED
    BY <1>1, <1>4, <1>5, <2>1 DEF LinkedFrom, Place, Succ
<1>9. HalfExchanged(p, s)'
  BY <1>1, <1>3, <1>4, <1>5, <1>8 DEF HalfExchanged, Succ
<1>10. p \in Orders' /\ Shape(p)'
  BY <1>1, <1>6, <1>7, <1>9 DEF Orders, Shape, Printing
<1>11. QED
  BY <1>6, <1>10 DEF DataInv

LEMMA ExchangeFirstInv ==
  ASSUME IInv, DataInv, NEW s \in Sorter, ExchangeFirst(s) PROVE DataInv'
<1> USE DEF mains
<1>1. /\ at[s] = "first" /\ at'[s] = "advance" /\ \A t \in Thread \ {s} : at'[t] = at[t]
      /\ next' = [next EXCEPT ![loc[s].first] = loc[s].tmp]
      /\ loc' = [loc EXCEPT ![s].first = NULL, ![s].tmp = NULL]
      /\ UNCHANGED <<count, str, owner, mains, over>>
  BY Goer DEF ExchangeFirst
<1>2. /\ loc[s].base = Term /\ count >= 2 /\ Exchanging = {s} /\ loc[s] \in Locals
      /\ \E p \in Orders :
           /\ HalfExchanged(p, s)
           /\ p[1] \in Node /\ p[2] \in Node /\ p[1] # p[2]
           /\ p[1] # Term /\ p[2] # Term /\ Succ(p, 2) \in Node \cup {NULL}
  BY <1>1, HalfSeen
<1>3. PICK p \in Orders :
        /\ HalfExchanged(p, s)
        /\ p[1] \in Node /\ p[2] \in Node /\ p[1] # p[2]
        /\ p[1] # Term /\ p[2] # Term /\ Succ(p, 2) \in Node \cup {NULL}
  BY <1>2
<1>4. /\ next[Term] = p[2] /\ next[p[1]] = p[2] /\ next[p[2]] = p[1] /\ LinkedFrom(p, 3)
      /\ loc[s].first = p[1] /\ loc[s].tmp = Succ(p, 2)
  BY <1>1, <1>3 DEF HalfExchanged
<1>5. /\ next' \in [Node \cup {Term} -> Node \cup {NULL}] /\ next'[p[1]] = Succ(p, 2)
      /\ \A n \in Node \cup {Term} : n # p[1] => next'[n] = next[n]
  BY <1>1, <1>3, <1>4 DEF DataInv, DataTyped
<1>6. /\ loc' \in [Sorter -> Locals] /\ \A u \in Sorter \ {s} : loc'[u] = loc[u]
      /\ loc'[s].base = loc[s].base /\ loc'[s].i = loc[s].i
  BY <1>1, <1>2 DEF DataInv, DataTyped, Locals
<1>7. /\ DataTyped' /\ MainReady' /\ HeadHeld' /\ CrashCause'
      /\ at'[Main] = at[Main] /\ at[Main] # "print"
  BY <1>1, <1>2, <1>5, <1>6, SorterExchanges DEF Walking
<1>8. Exchanging' = {}
  BY <1>1, <1>2, ThreadsApart DEF Exchanging
<1>0. PICK q : q = [k \in 1 .. count |-> IF k = 1 THEN p[2]
                                        ELSE IF k = 2 THEN p[1] ELSE p[k]]
  OBVIOUS
<1>9. count \in Nat /\ 1 \in 1 .. count /\ 2 \in 1 .. count
      /\ \A k \in 1 .. count : p[k] \in Node
  BY <1>2, PlacesAreNodes DEF DataInv
<1>10. q \in Orders
  <2>1. p \in [1 .. count -> 1 .. count]
    BY DEF Orders
  <2>2. q \in [1 .. count -> 1 .. count]
    BY <1>0, <1>9, <2>1
  <2>3. \A j, k \in 1 .. count : q[j] = q[k] => j = k
    BY <1>0, <1>9 DEF Orders
  <2>4. ASSUME NEW n \in 1 .. count PROVE \E k \in 1 .. count : q[k] = n
    <3>1. PICK k \in 1 .. count : p[k] = n
      BY DEF Orders
    <3>2. CASE k = 1
      BY <1>0, <1>9, <3>1, <3>2
    <3>3. CASE k = 2
      BY <1>0, <1>9, <3>1, <3>3
    <3>4. CASE k # 1 /\ k # 2
      BY <1>0, <3>1, <3>4
    <3>5. QED
      BY <3>2, <3>3, <3>4
  <2>5. QED
    BY <2>2, <2>3, <2>4 DEF Orders
<1>11. LinkedFrom(q, 0)'
  <2>1. \A k \in 0 .. count : next'[Place(q, k)] = Succ(q, k)
    <3> SUFFICES ASSUME NEW k \in 0 .. count PROVE next'[Place(q, k)] = Succ(q, k)
      OBVIOUS
    <3> USE DEF Place, Succ
    <3>1. CASE k = 0
      BY <1>0, <1>2, <1>3, <1>4, <1>5, <1>9, <3>1
    <3>2. CASE k = 1
      BY <1>0, <1>2, <1>3, <1>4, <1>5, <1>9, <3>2
    <3>3. CASE k = 2
      BY <1>0, <1>2, <1>3, <1>4, <1>5, <1>9, <3>3
    <3>4. CASE k >= 3
      <4>1. k \in 3 .. count /\ k \in 1 .. count /\ k # 0 /\ k # 1
        BY <1>9, <3>4
      <4>2. p[k] # p[1] /\ p[k] \in Node
        BY <1>9, <4>1 DEF Orders
      <4>3. next'[p[k]] = Succ(p, k)
        BY <1>4, <1>5, <4>1, <4>2 DEF LinkedFrom
      <4>4. Succ(q, k) = Succ(p, k) /\ Place(q, k) = p[k]
        BY <1>0, <1>9, <3>4, <4>1
      <4>5. QED
        BY <4>3, <4>4
    <3>5. QED
      BY <1>9, <3>1, <3>2, <3>3, <3>4
  <2>2. count' = count
    BY <1>1
  <2>3. QED
    BY <2>1, <2>2 DEF LinkedFrom, Place, Succ
<1>12. q \in Orders' /\ Shape(q)'
  <2>1. q \in Orders'
    BY <1>1, <1>10 DEF Orders
  <2>2. QED
    BY <1>7, <1>8, <1>11, <2>1 DEF Shape, Printing
<1>13. QED
  BY <1>7, <1>12 DEF DataInv

-----------------------------------------------------------------------------
(* main, which is alone with the list while it changes or prints it.       *)
LEMMA MainKeeps ==
  ASSUME DataInv, UNCHANGED <<count, next, owner, loc>>,
         \A s \in Sorter : at'[s] = at[s],
         DataTyped', MainReady', CrashCause',
         NEW p \in Orders, Shape(p), Printing(p)'
  PROVE  DataInv'
<1>1. HeadHeld'
  BY DEF DataInv, HeadHeld, Passes
<1>2. Exchanging' = Exchanging
  BY DEF Exchanging
<1>3. \A s \in Exchanging : at'[s] = at[s]
  BY DEF Exchanging
<1>4. p \in Orders' /\ LinkedFrom(p, 0)' = LinkedFrom(p, 0)
      /\ LinkedFrom(p, 3)' = LinkedFrom(p, 3)
  BY DEF Orders, LinkedFrom, Place, Succ
<1>5. Shape(p)'
  BY <1>2, <1>3, <1>4 DEF Shape, HalfExchanged, Succ
<1>6. QED
  BY <1>1, <1>4, <1>5 DEF DataInv

LEMMA MainGoes ==
  ASSUME IInv, NEW from, NEW to, Goes(Main, from, to)
  PROVE  /\ at[Main] = from /\ at'[Main] = to /\ over = "no"
         /\ \A s \in Sorter : at'[s] = at[s]
BY ThreadsApart DEF Goes, IInv, ControlOK

(* Steps that leave the list and what has been printed as they are.        *)
LEMMA MainIdlesInv ==
  ASSUME IInv, DataInv,
         \/ ReadLine \/ Return \/ MainWaits \/ Printed
         \/ \E t \in Thread : SpuriousWakeup(t)
         \/ UNCHANGED listVars
  PROVE  DataInv'
<1> USE DEF list, mains
<1>1. /\ UNCHANGED <<count, next, str, owner, loc, it, shown>>
      /\ \A s \in Sorter : at'[s] = at[s]
      /\ at'[Main] = at[Main] \/ at'[Main] \in {"enter", "leave"}
  <2>1. CASE ReadLine
    BY <2>1, MainGoes DEF ReadLine
  <2>2. CASE Printed
    BY <2>2, MainGoes DEF Printed
  <2>3. CASE Return \/ MainWaits
    BY <2>3 DEF Return, MainWaits, Stays, Sleeps
  <2>4. CASE (\E t \in Thread : SpuriousWakeup(t)) \/ UNCHANGED listVars
    BY <2>4 DEF SpuriousWakeup, listVars
  <2>5. QED
    BY <2>1, <2>2, <2>3, <2>4
<1>2. DataTyped' /\ MainReady' /\ CrashCause'
  <2>1. CASE ReadLine
    <3>1. /\ at'[Main] = "enter" /\ over' = over /\ lines < MaxLines /\ lines' = lines + 1
          /\ line' \in Lines \cup {Empty} /\ at[Main] = "read"
      BY <2>1, MainGoes DEF ReadLine
    <3>2. /\ lines \in Nat /\ count \in Nat /\ MaxLines \in Nat /\ count <= lines
      BY Numbers DEF DataInv, DataTyped
    <3>3. lines' \in count .. MaxLines /\ count < lines'
      BY <3>1, <3>2
    <3>4. DataTyped'
      BY <1>1, <3>1, <3>3 DEF DataInv, DataTyped
    <3>5. MainReady' /\ CrashCause'
      BY <1>1, <3>1, <3>3 DEF DataInv, MainReady, CrashCause
    <3>6. QED
      BY <3>4, <3>5
  <2>2. CASE Printed
    <3>1. at'[Main] = "leave" /\ UNCHANGED <<over, line, lines>>
      BY <2>2, MainGoes DEF Printed
    <3>2. QED
      BY <1>1, <3>1 DEF DataInv, DataTyped, MainReady, CrashCause
  <2>3. CASE ~ ReadLine /\ ~ Printed
    <3>1. at' = at /\ over' \in {over, "returned"} /\ UNCHANGED <<line, lines>>
      BY <2>3 DEF Return, MainWaits, Stays, Sleeps, SpuriousWakeup, listVars
    <3>2. QED
      BY <1>1, <3>1 DEF DataInv, DataTyped, MainReady, CrashCause
  <2>4. QED
    BY <2>1, <2>2, <2>3
<1>3. PICK p \in Orders : Shape(p)
  BY DEF DataInv
<1>4. Printing(p)'
  BY <1>1, <1>3 DEF Shape, Printing, Place
<1>5. QED
  BY <1>1, <1>2, <1>3, <1>4, MainKeeps

(* task18.c:48-53, 61-64, 154-159, 169-172: main enters and leaves.        *)
LEMMA MainComesInv ==
  ASSUME IInv, DataInv, MainEnters \/ MainLeaves
  PROVE  DataInv'
<1> USE DEF list, mains
<1>1. /\ UNCHANGED <<count, next, str, owner, loc, lines, over>>
      /\ it' = Term /\ shown' = {} /\ line' \in {line, Empty}
      /\ \A s \in Sorter : at'[s] = at[s]
      /\ at'[Main] \in {"read", "print", "allocate"}
      /\ at'[Main] = "allocate" => at[Main] = "enter"
  <2>1. CASE MainEnters
    <3>1. /\ at[Main] = "enter" /\ \A s \in Sorter : at'[s] = at[s]
          /\ at'[Main] \in {"print", "allocate"}
      BY <2>1, MainGoes DEF MainEnters
    <3>2. shown = {}
      BY <3>1 DEF DataInv, MainReady
    <3>3. QED
      BY <2>1, <3>1, <3>2 DEF MainEnters
  <2>2. CASE MainLeaves
    BY <2>2, MainGoes DEF MainLeaves
  <2>3. QED
    BY <2>1, <2>2
<1>2. DataTyped'
  BY <1>1 DEF DataInv, DataTyped
<1>3. MainReady' /\ CrashCause'
  BY <1>1 DEF DataInv, MainReady, CrashCause
<1>4. PICK p \in Orders : Shape(p)
  BY DEF DataInv
<1>5. Printing(p)'
  <2>1. 0 \in 0 .. count /\ {p[k] : k \in 1 .. 0} = {}
    BY Numbers DEF DataInv, DataTyped
  <2>2. QED
    BY <1>1, <2>1 DEF Printing, Place
<1>6. QED
  BY <1>1, <1>2, <1>3, <1>4, <1>5, MainKeeps

(* task18.c:160-167: each node printed is the next in the order p.         *)
LEMMA PrintNodeInv ==
  ASSUME IInv, DataInv, PrintNode PROVE DataInv'
<1> USE DEF list, mains
<1>1. /\ at[Main] = "print" /\ at' = at /\ next[it] # NULL /\ it' = next[it]
      /\ shown' = shown \cup {next[it]}
      /\ UNCHANGED <<count, next, str, owner, loc, line, lines, over>>
  BY DEF PrintNode, Stays
<1>2. PICK p \in Orders : Shape(p)
  BY DEF DataInv
<1>3. PICK j \in 0 .. count : it = Place(p, j) /\ shown = {p[k] : k \in 1 .. j}
  BY <1>1, <1>2 DEF Shape, Printing
<1>4. next[it] = Succ(p, j)
  <2>1. Exchanging = {}
    BY <1>1, MainAlone DEF MainInside
  <2>2. LinkedFrom(p, 0)
    BY <1>2, <2>1 DEF Shape
  <2>3. QED
    BY <1>3, <2>2 DEF LinkedFrom
<1>5. count \in Nat /\ \A k \in 1 .. count : p[k] \in Node
  BY PlacesAreNodes DEF DataInv
<1>6. j < count /\ next[it] = p[j + 1]
  BY <1>1, <1>3, <1>4, <1>5 DEF Succ
<1>7. /\ j + 1 \in 0 .. count /\ j + 1 \in 1 .. count /\ j + 1 # 0 /\ j \in Nat
      /\ 1 .. j + 1 = (1 .. j) \cup {j + 1}
  BY <1>3, <1>5, <1>6
<1>8. DataTyped' /\ MainReady' /\ CrashCause'
  BY <1>1, <1>5, <1>6, <1>7 DEF DataInv, DataTyped, MainReady, CrashCause
<1>9. Printing(p)'
  <2>1. it' = Place(p, j + 1)
    BY <1>1, <1>6, <1>7 DEF Place
  <2>2. shown' = {p[k] : k \in 1 .. j + 1}
    BY <1>1, <1>3, <1>6, <1>7
  <2>3. QED
    BY <1>1, <1>7, <2>1, <2>2 DEF Printing, Place
<1>10. QED
  BY <1>1, <1>2, <1>8, <1>9, MainKeeps

(* task18.c:72-88: a line goes to the front of the list in two steps.      *)
LEMMA AllocateInv ==
  ASSUME IInv, DataInv, Allocate PROVE DataInv'
<1> USE DEF mains
<1>1. /\ at[Main] = "allocate" /\ at'[Main] = "link" /\ \A s \in Sorter : at'[s] = at[s]
      /\ next' = [next EXCEPT ![count + 1] = next[Term]]
      /\ str' = [str EXCEPT ![count + 1] = line]
      /\ UNCHANGED <<count, owner, loc, line, lines, it, shown, over>>
  BY MainGoes DEF Allocate
<1>2. Exchanging = {} /\ Exchanging' = {}
  <2>1. Exchanging = {}
    BY <1>1, MainAlone DEF MainInside
  <2>2. QED
    BY <1>1, <2>1 DEF Exchanging
<1>3. PICK p \in Orders : Shape(p) /\ LinkedFrom(p, 0)
  BY <1>2 DEF DataInv, Shape
<1>4. count < lines /\ lines <= MaxLines /\ count \in Nat /\ lines \in Nat
  BY <1>1, Numbers DEF DataInv, DataTyped, MainReady
<1>5. count + 1 \in Node /\ count + 1 # Term /\ count + 1 \notin 1 .. count
  BY <1>4, Numbers
<1>6. /\ next' \in [Node \cup {Term} -> Node \cup {NULL}]
      /\ \A n \in Node \cup {Term} : n # count + 1 => next'[n] = next[n]
      /\ next'[count + 1] = next[Term]
  BY <1>1, <1>5 DEF DataInv, DataTyped
<1>7. DataTyped'
  <2>1. str' \in [Node -> Lines \cup {Empty}]
    BY <1>1, <1>5 DEF DataInv, DataTyped
  <2>2. QED
    BY <1>1, <1>6, <2>1 DEF DataInv, DataTyped
<1>8. MainReady' /\ CrashCause'
  BY <1>1, <1>4, <1>5, <1>6 DEF DataInv, MainReady, CrashCause
<1>9. HeadHeld'
  BY <1>1 DEF DataInv, HeadHeld, Passes
<1>10. LinkedFrom(p, 0)'
  <2>1. \A k \in 1 .. count : p[k] \in Node /\ p[k] # count + 1
    <3>1. \A k \in 1 .. count : p[k] \in 1 .. count /\ p[k] \in Node
      BY PlacesAreNodes DEF DataInv, Orders
    <3>2. QED
      BY <1>5, <3>1
  <2>2. ASSUME NEW k \in 0 .. count PROVE next'[Place(p, k)] = next[Place(p, k)]
    <3>1. k # 0 => k \in 1 .. count
      BY <1>4
    <3>2. QED
      BY <1>5, <1>6, <2>1, <3>1 DEF Place
  <2>3. QED
    BY <1>1, <1>3, <2>2 DEF LinkedFrom, Place, Succ
<1>11. p \in Orders' /\ Shape(p)'
  BY <1>1, <1>2, <1>10 DEF Orders, Shape, Printing
<1>12. QED
  BY <1>7, <1>8, <1>9, <1>11 DEF DataInv

LEMMA LinkInv ==
  ASSUME IInv, DataInv, Link PROVE DataInv'
<1> USE DEF mains
<1>1. /\ at[Main] = "link" /\ at'[Main] = "leave" /\ \A s \in Sorter : at'[s] = at[s]
      /\ next' = [next EXCEPT ![Term] = count + 1] /\ count' = count + 1
      /\ UNCHANGED <<str, owner, loc, line, lines, it, shown, over>>
  BY MainGoes DEF Link
<1>2. /\ Exchanging = {} /\ Exchanging' = {}
      /\ \A s \in Sorter : at[s] \in {"begin", "rest"} /\ at'[s] \in {"begin", "rest"}
  <2>1. Exchanging = {} /\ \A s \in Sorter : at[s] \in {"begin", "rest"}
    BY <1>1, MainAlone DEF MainInside
  <2>2. QED
    BY <1>1, <2>1 DEF Exchanging
<1>3. PICK p \in Orders : Shape(p) /\ LinkedFrom(p, 0)
  BY <1>2 DEF DataInv, Shape
<1>4. /\ count < lines /\ lines <= MaxLines /\ count \in Nat /\ lines \in Nat
      /\ next[count + 1] = next[Term]
  BY <1>1, Numbers DEF DataInv, DataTyped, MainReady
<1>5. count + 1 \in Node /\ count + 1 # Term
  BY <1>4, Numbers
<1>6. /\ next' \in [Node \cup {Term} -> Node \cup {NULL}] /\ next'[Term] = count + 1
      /\ \A n \in Node : next'[n] = next[n]
  BY <1>1, <1>5, Numbers DEF DataInv, DataTyped
<1>7. DataTyped' /\ over # "crashed"
  <2>1. count' \in 0 .. MaxLines /\ lines' \in count' .. MaxLines
    BY <1>1, <1>4, Numbers
  <2>2. over # "crashed"
    BY DEF Link, Goes
  <2>3. QED
    BY <1>1, <1>6, <2>1, <2>2 DEF DataInv, DataTyped
<1>8. MainReady' /\ CrashCause'
  BY <1>1, <1>7 DEF DataInv, MainReady, CrashCause
<1>9. HeadHeld'
  BY <1>2 DEF HeadHeld, Walking, Locking, WithTwo, Passing
<1>10. PICK q : q = [k \in 1 .. count + 1 |-> IF k = 1 THEN count + 1 ELSE p[k - 1]]
  OBVIOUS
<1>11. \A k \in 1 .. count + 1 : k # 1 => k - 1 \in 1 .. count
  BY <1>4
<1>12. /\ p \in [1 .. count -> 1 .. count] /\ \A j, k \in 1 .. count : p[j] = p[k] => j = k
       /\ \A n \in 1 .. count : \E k \in 1 .. count : p[k] = n
  BY DEF Orders
<1>13. q \in Orders'
  <2>1. q \in [1 .. count + 1 -> 1 .. count + 1]
    <3>1. ASSUME NEW k \in 1 .. count + 1 PROVE q[k] \in 1 .. count + 1
      <4>1. 1 .. count \subseteq 1 .. count + 1 /\ count + 1 \in 1 .. count + 1
        BY <1>4
      <4>2. QED
        BY <1>10, <1>11, <1>12, <4>1
    <3>2. QED
      BY <1>10, <3>1
  <2>2. ASSUME NEW j \in 1 .. count + 1, NEW k \in 1 .. count + 1, q[j] = q[k]
        PROVE  j = k
    <3>1. \A i \in 1 .. count + 1 : i # 1 => p[i - 1] # count + 1
      <4>1. count + 1 \notin 1 .. count
        BY <1>4
      <4>2. \A m \in 1 .. count : p[m] # count + 1
        BY <1>12, <4>1
      <4>3. QED
        BY <1>11, <4>2
    <3>2. j # 1 /\ k # 1 => j - 1 = k - 1
      BY <1>10, <1>11, <1>12, <2>2
    <3>3. j = 1 <=> k = 1
      BY <1>10, <2>2, <3>1
    <3>4. QED
      BY <1>4, <3>2, <3>3
  <2>3. ASSUME NEW n \in 1 .. count + 1 PROVE \E k \in 1 .. count + 1 : q[k] = n
    <3>1. CASE n = count + 1
      <4>1. 1 \in 1 .. count + 1
        BY <1>4
      <4>2. QED
        BY <1>10, <3>1, <4>1
    <3>2. CASE n # count + 1
      <4>1. n \in 1 .. count
        BY <1>4, <3>2
      <4>2. PICK k \in 1 .. count : p[k] = n
        BY <1>12, <4>1
      <4>3. k + 1 \in 1 .. count + 1 /\ k + 1 # 1 /\ k + 1 - 1 = k
        BY <1>4
      <4>4. q[k + 1] = n
        BY <1>10, <4>2, <4>3
      <4>5. QED
        BY <4>3, <4>4
    <3>3. QED
      BY <3>1, <3>2
  <2>4. QED
    BY <1>1, <2>1, <2>2, <2>3 DEF Orders
<1>14. LinkedFrom(q, 0)'
  <2>1. ASSUME NEW k \in 0 .. count + 1
        PROVE  next'[Place(q, k)] = IF k < count + 1 THEN q[k + 1] ELSE NULL
    <3>1. next[Term] = Succ(p, 0) /\ 1 \in 1 .. count + 1 /\ q[1] = count + 1
      BY <1>3, <1>4, <1>10 DEF LinkedFrom, Place
    <3>2. CASE k = 0
      BY <1>4, <1>6, <3>1, <3>2 DEF Place
    <3>3. CASE k = 1
      <4>1. next'[Place(q, k)] = Succ(p, 0)
        BY <1>4, <1>5, <1>6, <3>1, <3>3 DEF Place
      <4>2. count > 0 => 2 \in 1 .. count + 1 /\ q[2] = p[1]
        BY <1>4, <1>10
      <4>3. QED
        BY <1>4, <3>3, <4>1, <4>2 DEF Succ
    <3>4. CASE k > 1
      <4>1. k - 1 \in 0 .. count /\ k - 1 \in 1 .. count /\ k \in 1 .. count + 1
        BY <1>4, <3>4
      <4>2. Place(q, k) = p[k - 1] /\ Place(p, k - 1) = p[k - 1] /\ p[k - 1] \in Node
        BY <1>10, <3>4, <4>1, PlacesAreNodes DEF Place, DataInv
      <4>3. next'[Place(q, k)] = Succ(p, k - 1)
        BY <1>3, <1>6, <4>1, <4>2 DEF LinkedFrom
      <4>4. k < count + 1 => q[k + 1] = p[k - 1 + 1]
        <5>1. k < count + 1 => k + 1 \in 1 .. count + 1 /\ k + 1 # 1 /\ k + 1 - 1 = k
                               /\ k - 1 + 1 = k
          BY <1>4, <3>4
        <5>2. QED
          BY <1>10, <5>1
      <4>5. k - 1 < count <=> k < count + 1
        BY <1>4
      <4>6. QED
        BY <4>3, <4>4, <4>5 DEF Succ
    <3>5. QED
      BY <1>4, <3>2, <3>3, <3>4
  <2>2. QED
    BY <1>1, <2>1 DEF LinkedFrom, Place, Succ
<1>15. Shape(q)'
  BY <1>1, <1>2, <1>14 DEF Shape, Printing
<1>16. QED
  BY <1>7, <1>8, <1>9, <1>13, <1>15 DEF DataInv

-----------------------------------------------------------------------------
LEMMA InitData == ListInit => DataInv
<1> SUFFICES ASSUME ListInit PROVE DataInv
  OBVIOUS
<1> USE DEF ListInit
<1>1. \A s \in Sorter : at[s] = "begin"
  BY ThreadsApart DEF Thread
<1>2. AtFirst \in Locals
  BY Numbers DEF AtFirst, Locals
<1>3. at[Main] = "read"
  BY ThreadsApart
<1>4. DataTyped
  BY <1>2, Numbers DEF DataTyped
<1>5. MainReady /\ CrashCause
  BY <1>3 DEF MainReady, CrashCause
<1>6. HeadHeld
  BY <1>1 DEF HeadHeld, Walking, Locking, WithTwo, Passing
<1>7. PICK p : p = [k \in 1 .. count |-> k]
  OBVIOUS
<1>8. 1 .. count = {} /\ 0 .. count = {0}
  OBVIOUS
<1>9. p \in Orders
  BY <1>7, <1>8 DEF Orders
<1>10. LinkedFrom(p, 0)
  BY <1>8 DEF LinkedFrom, Place, Succ
<1>11. Exchanging = {}
  BY <1>1 DEF Exchanging
<1>12. Shape(p)
  BY <1>3, <1>10, <1>11 DEF Shape, Printing
<1>13. QED
  BY <1>4, <1>5, <1>6, <1>9, <1>12 DEF DataInv

LEMMA StepData ==
  ASSUME IInv, DataInv, [ListNext]_listVars
  PROVE  DataInv'
<1>1. ASSUME NEW s \in Sorter, SorterStep(s) PROVE DataInv'
  BY <1>1, SorterAwayInv, SorterBeginsInv, SorterLocksInv, SorterPassesInv,
     ExchangeBaseInv, ExchangeSecondInv, ExchangeFirstInv
  DEF SorterStep
<1>2. ASSUME ReadLine \/ MainStep PROVE DataInv'
  BY <1>2, MainIdlesInv, MainComesInv, PrintNodeInv, AllocateInv, LinkInv DEF MainStep
<1>3. CASE (\E t \in Thread : SpuriousWakeup(t)) \/ UNCHANGED listVars
  BY <1>3, MainIdlesInv
<1>4. QED
  BY <1>1, <1>2, <1>3 DEF ListNext

LEMMA Inductive == ListSpec => [](IInv /\ DataInv)
<1>1. ListInit => IInv /\ DataInv
  BY InitInv, InitData
<1>2. IInv /\ DataInv /\ [ListNext]_listVars => IInv' /\ DataInv'
  BY StepInv, StepData
<1>3. QED
  BY <1>1, <1>2, PTL DEF ListSpec

(* However many threads sort a list of however many lines, a null pointer  *)
(* is followed only by one that sorts the empty list of task18.c.          *)
THEOREM OnlyEmptyCrashes == ListSpec => []CrashCause
<1>1. IInv /\ DataInv => CrashCause
  BY DEF DataInv
<1>2. QED
  BY <1>1, Inductive, PTL

(* The list as Chain walks it is the order that the proof carries along.   *)
LEMMA ChainIsOrder ==
  ASSUME DataTyped, NEW p \in Orders, LinkedFrom(p, 0)
  PROVE  Chain = p
<1> DEFINE Walk(nth) ==
      nth = [k \in 0 .. count |->
               IF k = 0 THEN Term ELSE IF nth[k - 1] = NULL THEN NULL ELSE next[nth[k - 1]]]
<1>1. PICK nth : nth = CHOOSE f : Walk(f)
  OBVIOUS
<1>2. Chain = [k \in 1 .. count |-> nth[k]]
  BY <1>1 DEF Chain
<1>3. count \in Nat /\ p \in [1 .. count -> 1 .. count] /\ \A k \in 1 .. count : p[k] \in Node
  BY PlacesAreNodes DEF Orders
<1>4. ASSUME NEW k \in 0 .. count, k # 0
      PROVE  /\ k - 1 \in 0 .. count /\ k \in 1 .. count
             /\ Place(p, k - 1) # NULL /\ next[Place(p, k - 1)] = Place(p, k)
  <2>1. k - 1 \in 0 .. count /\ k \in 1 .. count /\ k - 1 < count /\ k - 1 + 1 = k
        /\ (k - 1 # 0 => k - 1 \in 1 .. count)
    BY <1>3, <1>4
  <2>2. Place(p, k - 1) # NULL
    BY <1>3, <2>1, Numbers DEF Place
  <2>3. next[Place(p, k - 1)] = Succ(p, k - 1)
    BY <2>1 DEF LinkedFrom
  <2>4. QED
    BY <1>4, <2>1, <2>2, <2>3 DEF Succ, Place
<1>5. Walk(nth)
  <2>1. PICK f : f = [k \in 0 .. count |-> Place(p, k)]
    OBVIOUS
  <2>2. ASSUME NEW k \in 0 .. count
        PROVE  f[k] = IF k = 0 THEN Term ELSE IF f[k - 1] = NULL THEN NULL ELSE next[f[k - 1]]
    <3>1. CASE k = 0
      BY <2>1, <3>1 DEF Place
    <3>2. CASE k # 0
      BY <1>4, <2>1, <3>2
    <3>3. QED
      BY <3>1, <3>2
  <2>3. Walk(f)
    BY <2>1, <2>2
  <2>4. QED
    BY <1>1, <2>3
<1>6. \A k \in 0 .. count : nth[k] = Place(p, k)
  <2> DEFINE Wrong == {k \in 0 .. count : nth[k] # Place(p, k)}
  <2> SUFFICES ASSUME Wrong # {} PROVE FALSE
    OBVIOUS
  <2>1. Wrong \subseteq Nat
    BY <1>3
  <2>2. PICK k \in Wrong : \A j \in Wrong : ~ (<<j, k>> \in OpToRel(<, Nat))
    <3> HIDE DEF Wrong
    <3> QED
      BY <2>1, NatLessThanWellFounded, WFMin
  <2>3. k \in 0 .. count /\ nth[k] # Place(p, k)
    OBVIOUS
  <2>4. nth[k] = IF k = 0 THEN Term ELSE IF nth[k - 1] = NULL THEN NULL ELSE next[nth[k - 1]]
    BY <1>5, <2>3
  <2>5. k # 0
    BY <2>3, <2>4 DEF Place
  <2>6. k - 1 \in 0 .. count /\ k - 1 < k /\ k - 1 \in Nat /\ k \in Nat
    BY <1>3, <2>3, <2>5
  <2>7. k - 1 \notin Wrong
    <3> HIDE DEF Wrong
    <3> QED
      BY <2>2, <2>6 DEF OpToRel
  <2>8. nth[k - 1] = Place(p, k - 1)
    BY <2>6, <2>7
  <2>9. QED
    BY <1>4, <2>3, <2>4, <2>5, <2>8
<1>7. ASSUME NEW k \in 1 .. count PROVE nth[k] = p[k]
  <2>1. k \in 0 .. count /\ k # 0
    BY <1>3
  <2>2. QED
    BY <1>6, <2>1 DEF Place
<1>8. Chain = [k \in 1 .. count |-> p[k]]
  BY <1>2, <1>7
<1>9. QED
  BY <1>3, <1>8

(* Whatever the sorting threads of task18.c exchange in what order, no     *)
(* line is lost or doubled, and main prints each of them once: for any     *)
(* number of threads and of lines.                                         *)
THEOREM NoLineLost == ListSpec => []ListIntact
<1>1. ASSUME IInv, DataInv PROVE ListIntact
  <2>1. PICK p \in Orders : Shape(p)
    BY <1>1 DEF DataInv
  <2>2. /\ count \in Nat /\ \A k \in 1 .. count : p[k] \in Node
        /\ p \in [1 .. count -> 1 .. count]
        /\ \A j, k \in 1 .. count : p[j] = p[k] => j = k
        /\ \A n \in 1 .. count : \E k \in 1 .. count : p[k] = n
    BY <1>1, <2>1, PlacesAreNodes DEF DataInv, Orders
  <2>3. {p[k] : k \in 1 .. count} = 1 .. count
    BY <2>2
  <2>4. ASSUME status = "FREE"
        PROVE  /\ {Chain[k] : k \in 1 .. count} = 1 .. count
               /\ next[IF count = 0 THEN Term ELSE Chain[count]] = NULL
    <3>1. Exchanging = {}
      BY <1>1, <2>4 DEF IInv, StatusInv, Sorting, SorterInside, Passing, Exchanging
    <3>2. LinkedFrom(p, 0)
      BY <2>1, <3>1 DEF Shape
    <3>3. Chain = p
      BY <1>1, <3>2, ChainIsOrder DEF DataInv
    <3>4. next[Place(p, count)] = NULL
      BY <2>2, <3>2 DEF LinkedFrom, Succ
    <3>5. QED
      BY <2>3, <3>3, <3>4 DEF Place
  <2>5. ASSUME at[Main] = "print"
        PROVE  next[it] \notin shown /\ (next[it] = NULL => shown = 1 .. count)
    <3>1. Exchanging = {}
      BY <1>1, <2>5, MainAlone DEF MainInside
    <3>2. LinkedFrom(p, 0)
      BY <2>1, <3>1 DEF Shape
    <3>3. PICK j \in 0 .. count : it = Place(p, j) /\ shown = {p[k] : k \in 1 .. j}
      BY <2>1, <2>5 DEF Shape, Printing
    <3>4. next[it] = Succ(p, j)
      BY <3>2, <3>3 DEF LinkedFrom
    <3>5. CASE j = count
      <4>0. shown = 1 .. count
        BY <2>3, <3>3, <3>5
      <4>1. next[it] = NULL /\ shown = 1 .. count
        BY <2>2, <3>4, <3>5, <4>0 DEF Succ
      <4>2. NULL \notin 1 .. count
        BY <1>1, <2>2, Numbers DEF NULL, DataInv, DataTyped
      <4>3. QED
        BY <4>1, <4>2
    <3>6. CASE j < count
      <4>1. j + 1 \in 1 .. count /\ \A k \in 1 .. j : k \in 1 .. count /\ k # j + 1
        BY <2>2, <3>6
      <4>2. next[it] = p[j + 1] /\ p[j + 1] # NULL
        BY <2>2, <3>4, <3>6, <4>1, Numbers DEF Succ
      <4>3. p[j + 1] \notin shown
        BY <2>2, <3>3, <4>1
      <4>4. QED
        BY <4>2, <4>3
    <3>7. QED
      BY <2>2, <3>5, <3>6
  <2>6. QED
    BY <2>4, <2>5 DEF ListIntact
<1>2. QED
  BY <1>1, Inductive, PTL

-----------------------------------------------------------------------------
(* The order of the strings.                                               *)
(* After, byte by byte: the first difference decides, and a string that    *)
(* ends there comes first.                                                 *)
Text == Seq(Nat \ {0})
FirstOff(s1, s2, m) ==
  /\ m \in 1 .. Len(s1) /\ m <= Len(s2) + 1
  /\ \A j \in 1 .. m - 1 : s1[j] = s2[j]
  /\ m <= Len(s2) => s1[m] > s2[m]

LEMMA TextBytes ==
  ASSUME NEW s \in Text
  PROVE  /\ Len(s) \in Nat /\ DOMAIN s = 1 .. Len(s)
         /\ \A j \in 1 .. Len(s) : s[j] \in Nat /\ s[j] > 0
         /\ s = [j \in 1 .. Len(s) |-> s[j]]
<1>1. s \in Seq(Nat \ {0})
  BY DEF Text
<1>2. Len(s) \in Nat /\ DOMAIN s = 1 .. Len(s) /\ \A j \in 1 .. Len(s) : s[j] \in Nat \ {0}
  BY <1>1
<1>3. s = [j \in 1 .. Len(s) |-> s[j]]
  BY <1>1
<1>4. QED
  BY <1>2, <1>3

LEMMA AfterByBytes ==
  ASSUME NEW s1 \in Text, NEW s2 \in Text
  PROVE  After(s1, s2) <=> \E m \in 1 .. Len(s1) : FirstOff(s1, s2, m)
<1>1. Len(s1) \in Nat /\ Len(s2) \in Nat /\ s1 \in Seq(Nat \ {0}) /\ s2 \in Seq(Nat \ {0})
  BY DEF Text
<1>2. ASSUME NEW m \in 1 .. Len(s1), FirstOff(s1, s2, m) PROVE After(s1, s2)
  <2>1. CASE m <= Len(s2)
    <3>1. SubSeq(s1, 1, m - 1) = SubSeq(s2, 1, m - 1)
      BY <1>1, <1>2, <2>1 DEF FirstOff
    <3>2. QED
      BY <1>2, <2>1, <3>1 DEF FirstOff, After
  <2>2. CASE m = Len(s2) + 1
    <3>1. Len(s1) > Len(s2) /\ \A j \in 1 .. Len(s2) : s2[j] = s1[j]
      BY <1>1, <1>2, <2>2 DEF FirstOff
    <3>2. s2 = SubSeq(s1, 1, Len(s2))
      BY <1>1, <3>1
    <3>3. QED
      BY <3>1, <3>2 DEF After
  <2>3. QED
    BY <1>1, <1>2, <2>1, <2>2 DEF FirstOff
<1>3. ASSUME After(s1, s2) PROVE \E m \in 1 .. Len(s1) : FirstOff(s1, s2, m)
  <2>1. CASE Len(s1) > Len(s2) /\ s2 = SubSeq(s1, 1, Len(s2))
    <3>1. \A j \in 1 .. Len(s2) : s1[j] = s2[j]
      BY <1>1, <2>1
    <3>2. Len(s2) + 1 \in 1 .. Len(s1) /\ Len(s2) + 1 - 1 = Len(s2) /\ ~ (Len(s2) + 1 <= Len(s2))
      BY <1>1, <2>1
    <3>3. FirstOff(s1, s2, Len(s2) + 1)
      BY <1>1, <3>1, <3>2 DEF FirstOff
    <3>4. QED
      BY <3>2, <3>3
  <2>2. ASSUME NEW i \in 1 .. Len(s1), i <= Len(s2), s1[i] > s2[i],
               SubSeq(s1, 1, i - 1) = SubSeq(s2, 1, i - 1)
        PROVE  FirstOff(s1, s2, i)
    <3>1. \A j \in 1 .. i - 1 : SubSeq(s1, 1, i - 1)[j] = s1[j] /\ SubSeq(s2, 1, i - 1)[j] = s2[j]
      BY <1>1, <2>2
    <3>2. QED
      BY <1>1, <2>2, <3>1 DEF FirstOff
  <2>3. QED
    BY <1>3, <2>1, <2>2 DEF After
<1>4. QED
  BY <1>2, <1>3

LEMMA AfterOneWay ==
  ASSUME NEW s1 \in Text, NEW s2 \in Text, After(s1, s2)
  PROVE  ~ After(s2, s1)
<1> SUFFICES ASSUME After(s2, s1) PROVE FALSE
  OBVIOUS
<1>1. PICK m \in 1 .. Len(s1) : FirstOff(s1, s2, m)
  BY AfterByBytes
<1>2. PICK n \in 1 .. Len(s2) : FirstOff(s2, s1, n)
  BY AfterByBytes
<1>3. /\ Len(s1) \in Nat /\ Len(s2) \in Nat
      /\ \A j \in 1 .. Len(s1) : s1[j] \in Nat
      /\ \A j \in 1 .. Len(s2) : s2[j] \in Nat
  BY TextBytes
<1>4. m <= Len(s1) /\ n <= Len(s2)
  OBVIOUS
<1>5. ~ (m < n)
  <2> SUFFICES ASSUME m < n PROVE FALSE
    OBVIOUS
  <2>1. m \in 1 .. n - 1 /\ m <= Len(s2) /\ m \in 1 .. Len(s2)
    BY <1>3, <1>4
  <2>2. s1[m] > s2[m] /\ s2[m] = s1[m]
    BY <1>1, <1>2, <2>1 DEF FirstOff
  <2>3. QED
    BY <1>3, <2>1, <2>2
<1>6. ~ (n < m)
  <2> SUFFICES ASSUME n < m PROVE FALSE
    OBVIOUS
  <2>1. n \in 1 .. m - 1 /\ n <= Len(s1) /\ n \in 1 .. Len(s1)
    BY <1>3, <1>4
  <2>2. s2[n] > s1[n] /\ s1[n] = s2[n]
    BY <1>1, <1>2, <2>1 DEF FirstOff
  <2>3. QED
    BY <1>3, <2>1, <2>2
<1>7. m = n
  BY <1>3, <1>5, <1>6
<1>8. s1[m] > s2[m] /\ s2[m] > s1[m] /\ s1[m] \in Nat /\ s2[m] \in Nat
  BY <1>1, <1>2, <1>3, <1>4, <1>7 DEF FirstOff
<1>9. QED
  BY <1>8

(* Where the loop of either version stops: the bytes before are equal, and *)
(* none of them is the final zero.                                         *)
Stopped(s1, s2, i) ==
  /\ i \in 1 .. Len(s1) + 1 /\ i <= Len(s2) + 1
  /\ \A j \in 1 .. i - 1 : j <= Len(s1) /\ j <= Len(s2) /\ s1[j] = s2[j]
  /\ i <= Len(s1) /\ i <= Len(s2) => s1[i] # s2[i]

LEMMA LoopStops ==
  ASSUME NEW s1 \in Text, NEW s2 \in Text, NEW S, S \subseteq 1 .. Len(s1) + 1,
         \A k \in 1 .. Len(s1) + 1 : k \in S => \/ Byte(s1, k) # Byte(s2, k)
                                                \/ Byte(s1, k) = 0 \/ Byte(s2, k) = 0,
         \A k \in 1 .. Len(s1) + 1 : k \notin S => /\ Byte(s1, k) = Byte(s2, k)
                                                   /\ Byte(s1, k) # 0
  PROVE  Stopped(s1, s2, Least(S))
<1>1. /\ Len(s1) \in Nat /\ Len(s2) \in Nat
      /\ \A j \in 1 .. Len(s1) : s1[j] \in Nat /\ s1[j] > 0
      /\ \A j \in 1 .. Len(s2) : s2[j] \in Nat /\ s2[j] > 0
  BY TextBytes
<1>2. S \subseteq Nat /\ Len(s1) + 1 \in S
  BY <1>1 DEF Byte
<1>3. PICK i : i = Least(S)
  OBVIOUS
<1>4. i \in S /\ \A j \in S : i <= j
  <2>1. PICK x \in S : \A y \in S : ~ (<<y, x>> \in OpToRel(<, Nat))
    BY <1>2, NatLessThanWellFounded, WFMin
  <2>2. ASSUME NEW y \in S PROVE x <= y
    <3>1. ~ (y < x)
      BY <1>2, <2>1 DEF OpToRel
    <3>2. QED
      BY <1>2, <3>1
  <2>3. Least(S) \in S /\ \A j \in S : Least(S) <= j
    BY <2>2 DEF Least
  <2>4. QED
    BY <1>3, <2>3
<1>5. i \in 1 .. Len(s1) + 1
  BY <1>4
<1>6. ASSUME NEW j \in 1 .. i - 1
      PROVE  j <= Len(s1) /\ j <= Len(s2) /\ s1[j] = s2[j]
  <2>1. j \in 1 .. Len(s1) + 1 /\ j < i /\ j \in Nat /\ j <= Len(s1)
    BY <1>1, <1>5
  <2>2. j \notin S
    BY <1>4, <1>5, <2>1
  <2>3. Byte(s1, j) = Byte(s2, j) /\ Byte(s2, j) # 0
    BY <2>1, <2>2
  <2>4. j <= Len(s2)
    BY <2>3 DEF Byte
  <2>5. QED
    BY <2>1, <2>3, <2>4 DEF Byte
<1>7. i <= Len(s2) + 1
  <2>1. CASE i = 1
    BY <1>1, <2>1
  <2>2. CASE i > 1
    <3>1. i - 1 \in 1 .. i - 1
      BY <1>1, <1>5, <2>2
    <3>2. i - 1 <= Len(s2)
      BY <1>6, <3>1
    <3>3. QED
      BY <1>1, <1>5, <3>2
  <2>3. QED
    BY <1>1, <1>5, <2>1, <2>2
<1>8. ASSUME i <= Len(s1), i <= Len(s2) PROVE s1[i] # s2[i]
  <2>1. Byte(s1, i) = s1[i] /\ Byte(s2, i) = s2[i]
    BY <1>8 DEF Byte
  <2>2. i \in 1 .. Len(s1) /\ i \in 1 .. Len(s2)
    BY <1>1, <1>5, <1>8
  <2>3. s1[i] # 0 /\ s2[i] # 0
    BY <1>1, <2>2
  <2>4. QED
    BY <1>4, <1>5, <2>1, <2>3
<1>9. QED
  BY <1>3, <1>5, <1>6, <1>7, <1>8 DEF Stopped

(* The bytes at which it stops tell whether a string comes after another.  *)
LEMMA StopDecides ==
  ASSUME NEW s1 \in Text, NEW s2 \in Text, NEW i, Stopped(s1, s2, i)
  PROVE  /\ Byte(s1, i) \in Nat /\ Byte(s2, i) \in Nat
         /\ Byte(s1, i) > Byte(s2, i) <=> After(s1, s2)
<1>1. /\ i \in 1 .. Len(s1) + 1 /\ i <= Len(s2) + 1
      /\ \A j \in 1 .. i - 1 : j <= Len(s1) /\ j <= Len(s2) /\ s1[j] = s2[j]
      /\ i <= Len(s1) /\ i <= Len(s2) => s1[i] # s2[i]
  BY DEF Stopped
<1>2. /\ Len(s1) \in Nat /\ Len(s2) \in Nat
      /\ \A j \in 1 .. Len(s1) : s1[j] \in Nat /\ s1[j] > 0
      /\ \A j \in 1 .. Len(s2) : s2[j] \in Nat /\ s2[j] > 0
  BY TextBytes
<1>3. /\ i <= Len(s1) => i \in 1 .. Len(s1)
      /\ i <= Len(s2) => i \in 1 .. Len(s2)
  BY <1>1, <1>2
<1>4. /\ Byte(s1, i) \in Nat /\ i <= Len(s1) => Byte(s1, i) = s1[i] /\ Byte(s1, i) > 0
      /\ Byte(s2, i) \in Nat /\ i <= Len(s2) => Byte(s2, i) = s2[i] /\ Byte(s2, i) > 0
      /\ i > Len(s1) => Byte(s1, i) = 0
      /\ i > Len(s2) => Byte(s2, i) = 0
  BY <1>1, <1>2, <1>3 DEF Byte
<1>5. Byte(s1, i) \in Nat /\ Byte(s2, i) \in Nat
  BY <1>1, <1>2, <1>3 DEF Byte
<1>6. ASSUME Byte(s1, i) > Byte(s2, i) PROVE FirstOff(s1, s2, i) /\ i \in 1 .. Len(s1)
  <2>1. i <= Len(s1)
    BY <1>1, <1>2, <1>4, <1>5, <1>6
  <2>2. i <= Len(s2) => s1[i] > s2[i]
    BY <1>4, <1>5, <1>6, <2>1
  <2>3. QED
    BY <1>1, <1>3, <2>1, <2>2 DEF FirstOff
<1>7. ASSUME NEW m \in 1 .. Len(s1), FirstOff(s1, s2, m) PROVE Byte(s1, i) > Byte(s2, i)
  <2>1. /\ m \in Nat /\ m >= 1 /\ m <= Len(s1) /\ m <= Len(s2) + 1
        /\ \A j \in 1 .. m - 1 : s1[j] = s2[j]
        /\ m <= Len(s2) => s1[m] > s2[m] /\ s1[m] \in Nat /\ s2[m] \in Nat
    BY <1>2, <1>7 DEF FirstOff
  <2>2. ~ (m < i)
    <3> SUFFICES ASSUME m < i PROVE FALSE
      OBVIOUS
    <3>1. m \in 1 .. i - 1
      BY <1>1, <1>2, <2>1
    <3>2. m <= Len(s2) /\ s1[m] = s2[m]
      BY <1>1, <3>1
    <3>3. QED
      BY <2>1, <3>2
  <2>3. ~ (i < m)
    <3> SUFFICES ASSUME i < m PROVE FALSE
      OBVIOUS
    <3>1. i \in 1 .. m - 1 /\ i <= Len(s1) /\ i <= Len(s2)
      BY <1>1, <1>2, <2>1
    <3>2. QED
      BY <1>1, <2>1, <3>1
  <2>4. i = m
    BY <1>1, <1>2, <2>1, <2>2, <2>3
  <2>5. CASE m <= Len(s2)
    BY <1>4, <1>5, <2>1, <2>4, <2>5
  <2>6. CASE m > Len(s2)
    BY <1>4, <1>5, <2>1, <2>4, <2>6
  <2>7. QED
    BY <1>2, <2>1, <2>5, <2>6
<1>8. QED
  BY <1>5, <1>6, <1>7, AfterByBytes

LEMMA StopSymmetric ==
  ASSUME NEW s1 \in Text, NEW s2 \in Text, NEW i, Stopped(s1, s2, i)
  PROVE  Stopped(s2, s1, i)
<1>1. Len(s1) \in Nat /\ Len(s2) \in Nat
  BY TextBytes
<1>2. i \in 1 .. Len(s2) + 1 /\ i <= Len(s1) + 1
  BY <1>1 DEF Stopped
<1>3. QED
  BY <1>2 DEF Stopped

(* Both versions of the comparison, task18.c:29-43 and my_strcmp.c, though *)
(* they leave their loops on other conditions, order all strings as a      *)
(* dictionary does.                                                        *)
THEOREM ComparedAsInDictionary ==
  \A s1, s2 \in Text :
    /\ str_comp(s1, s2) = GREATER <=> After(s1, s2)
    /\ my_str_comp(s1, s2) = GREATER <=> After(s1, s2)
    /\ my_str_comp(s1, s2) = LESS <=> After(s2, s1)
<1> SUFFICES ASSUME NEW s1 \in Text, NEW s2 \in Text
             PROVE  /\ str_comp(s1, s2) = GREATER <=> After(s1, s2)
                    /\ my_str_comp(s1, s2) = GREATER <=> After(s1, s2)
                    /\ my_str_comp(s1, s2) = LESS <=> After(s2, s1)
  OBVIOUS
<1>1. ASSUME NEW i, Stopped(s1, s2, i)
      PROVE  /\ ByBytes(s1, s2, i) = GREATER <=> After(s1, s2)
             /\ ByBytes(s1, s2, i) = LESS <=> After(s2, s1)
  <2>1. /\ Byte(s1, i) \in Nat /\ Byte(s2, i) \in Nat
        /\ Byte(s1, i) > Byte(s2, i) <=> After(s1, s2)
    BY <1>1, StopDecides
  <2>2. Byte(s2, i) > Byte(s1, i) <=> After(s2, s1)
    BY <1>1, StopSymmetric, StopDecides
  <2>3. QED
    BY <2>1, <2>2 DEF ByBytes, GREATER, LESS, EQ
<1>2. Stopped(s1, s2, WhileBoth(s1, s2))
  <2>1. PICK S : S = Differ(s1, s2)
                  \cup {k \in 1 .. Len(s1) + 1 : Byte(s1, k) = 0 \/ Byte(s2, k) = 0}
    OBVIOUS
  <2>2. /\ S \subseteq 1 .. Len(s1) + 1
        /\ \A k \in 1 .. Len(s1) + 1 :
             k \in S <=> \/ Byte(s1, k) # Byte(s2, k)
                         \/ Byte(s1, k) = 0 \/ Byte(s2, k) = 0
    BY <2>1 DEF Differ
  <2>3. Stopped(s1, s2, Least(S))
    BY <2>2, LoopStops
  <2>4. QED
    BY <2>1, <2>3 DEF WhileBoth
<1>3. Stopped(s1, s2, WhileEither(s1, s2))
  <2>1. PICK S : S = Differ(s1, s2)
                  \cup {k \in 1 .. Len(s1) + 1 : Byte(s1, k) = 0 /\ Byte(s2, k) = 0}
    OBVIOUS
  <2>2. /\ S \subseteq 1 .. Len(s1) + 1
        /\ \A k \in 1 .. Len(s1) + 1 :
             k \in S <=> \/ Byte(s1, k) # Byte(s2, k)
                         \/ Byte(s1, k) = 0 /\ Byte(s2, k) = 0
    BY <2>1 DEF Differ
  <2>3. Stopped(s1, s2, Least(S))
    BY <2>2, LoopStops
  <2>4. QED
    BY <2>1, <2>3 DEF WhileEither
<1>4. QED
  BY <1>1, <1>2, <1>3 DEF str_comp, my_str_comp

LEMMA Texts ==
  ASSUME DataTyped
  PROVE  \A n \in Node : str[n] \in Text
<1>1. Lines \cup {Empty} \subseteq Text
  <2>1. Lines \subseteq Text
    BY ListAssumption DEF Text
  <2>2. <<>> \in Seq(Nat \ {0})
    OBVIOUS
  <2>3. QED
    BY <2>1, <2>2 DEF Text, Empty
<1>2. QED
  BY <1>1 DEF DataTyped

-----------------------------------------------------------------------------
(* Who has finished a pass, or is about to, leaves the first two lines in  *)
(* order; nobody exchanges them any more.                                  *)
Settled(s) ==
  \/ at[s] \in {"advance", "unlock_next", "unlock_base", "leave"}
  \/ at[s] \in Passing /\ loc[s].i >= 1

OrderInv ==
  /\ \A s \in Sorter : at[s] \notin Passing => loc[s].i = 0
  /\ \A s \in Exchanging : After(str[loc[s].first], str[next[Term]])
  /\ \A s \in Sorter : count >= 2 /\ Settled(s) =>
       Exchanging = {} /\ ~ After(str[next[Term]], str[next[next[Term]]])

(* Steps that change no pointer, and settle nobody.                        *)
LEMMA OrderKept ==
  ASSUME OrderInv, UNCHANGED <<count, next, str>>, Exchanging' = Exchanging,
         \A s \in Exchanging : loc'[s].first = loc[s].first,
         \A s \in Sorter : at'[s] \notin Passing => loc'[s].i = 0,
         \A s \in Sorter : count >= 2 /\ Settled(s)' => Settled(s)
  PROVE  OrderInv'
BY DEF OrderInv

(* No sorting thread is settled while main changes the list.               *)
LEMMA OrderApart ==
  ASSUME OrderInv, \A s \in Sorter : at'[s] \in {"begin", "rest"},
         \A s \in Sorter : loc'[s].i = 0
  PROVE  OrderInv'
BY DEF OrderInv, Settled, Exchanging, Passing

(* A thread that exchanges, and the others as they were.                   *)
LEMMA OthersSettled ==
  ASSUME NEW s \in Sorter, \A t \in Sorter \ {s} : at'[t] = at[t] /\ loc'[t] = loc[t]
  PROVE  \A t \in Sorter \ {s} : Settled(t)' = Settled(t)
BY DEF Settled

LEMMA SorterOrder ==
  ASSUME IInv, DataInv, OrderInv, NEW s \in Sorter,
         \/ SorterEnters(s) \/ SorterWaits(s) \/ Pass(s) \/ EndPasses(s)
         \/ LockTerm(s) \/ LockFirst(s) \/ LockSecond(s)
         \/ Advance(s) \/ UnlockNext(s) \/ UnlockBase(s) \/ SorterLeaves(s) \/ Rest(s)
  PROVE  OrderInv'
<1> USE DEF list, mains
<1>0. /\ at[s] \notin Passing => loc[s].i = 0
      /\ DataTyped /\ loc[s] \in Locals /\ Sorter \subseteq Thread
  BY ThreadsApart DEF OrderInv, DataInv, DataTyped
<1>1. /\ UNCHANGED <<count, next, str>>
      /\ \A t \in Sorter \ {s} : at'[t] = at[t] /\ loc'[t] = loc[t]
      /\ at[s] \notin {"second", "first"} /\ at'[s] \notin {"second", "first"}
      /\ at'[s] \notin Passing => loc'[s].i = 0
      /\ count >= 2 /\ Settled(s)' => Settled(s)
  <2>1. CASE SorterEnters(s)
    <3>1. at[s] = "begin" /\ at'[s] = "pass" /\ \A t \in Thread \ {s} : at'[t] = at[t]
      BY <2>1, Goer DEF SorterEnters
    <3>2. UNCHANGED <<count, next, str, loc>>
      BY <2>1 DEF SorterEnters
    <3>3. QED
      BY <1>0, <3>1, <3>2 DEF Settled, Passing
  <2>2. CASE SorterWaits(s)
    BY <1>0, <2>2 DEF SorterWaits, Stays, Sleeps, Settled, Passing
  <2>3. CASE Pass(s)
    <3>1. at[s] = "pass" /\ at'[s] = "lock_term" /\ \A t \in Thread \ {s} : at'[t] = at[t]
      BY <2>3, Goer DEF Pass
    <3>2. UNCHANGED <<count, next, str, loc>>
      BY <2>3 DEF Pass
    <3>3. QED
      BY <1>0, <3>1, <3>2 DEF Settled, Passing
  <2>4. CASE EndPasses(s)
    <3>1. /\ at[s] = "pass" /\ at'[s] = "leave" /\ loc[s].i >= Passes
          /\ \A t \in Thread \ {s} : at'[t] = at[t]
      BY <2>4, Goer DEF EndPasses
    <3>2. /\ UNCHANGED <<count, next, str>> /\ loc'[s].i = 0
          /\ \A t \in Sorter \ {s} : loc'[t] = loc[t]
      BY <1>0, <2>4 DEF EndPasses, AtFirst, DataTyped
    <3>3. count >= 2 => loc[s].i >= 1
      <4>1. count \in Nat /\ loc[s].i \in Nat
        BY <1>0, Numbers DEF DataTyped, Locals
      <4>2. QED
        BY <1>0, <3>1, <4>1, PassesCounted
    <3>4. QED
      BY <1>0, <3>1, <3>2, <3>3 DEF Settled, Passing
  <2>5. CASE LockTerm(s)
    <3>1. /\ at[s] = "lock_term" /\ at'[s] = "lock_first"
          /\ \A t \in Thread \ {s} : at'[t] = at[t]
      BY <2>5, Goer DEF LockTerm
    <3>2. /\ UNCHANGED <<count, next, str>> /\ loc'[s].i = loc[s].i
          /\ \A t \in Sorter \ {s} : loc'[t] = loc[t]
      BY <1>0, <2>5 DEF LockTerm, DataTyped, Locals
    <3>3. QED
      BY <1>0, <3>1, <3>2 DEF Settled, Passing
  <2>6. CASE LockFirst(s) \/ LockSecond(s)
    <3>1. /\ at[s] \in {"lock_first", "lock_second"}
          /\ at'[s] \in {"lock_first", "lock_second", "compare"}
          /\ \A t \in Thread \ {s} : at'[t] = at[t]
      <4>1. ASSUME NEW n, NEW from, NEW to, LockOrCrash(s, n, from, to)
            PROVE  /\ at[s] = from /\ at'[s] \in {from, to}
                   /\ \A t \in Thread \ {s} : at'[t] = at[t]
        BY <4>1, Goer DEF LockOrCrash, Crash, Stays
      <4>2. QED
        BY <2>6, <4>1 DEF LockFirst, LockSecond
    <3>2. UNCHANGED <<count, next, str, loc>>
      BY <2>6 DEF LockFirst, LockSecond, LockOrCrash, Crash
    <3>3. QED
      BY <1>0, <3>1, <3>2 DEF Settled, Passing
  <2>7. CASE Advance(s)
    <3>1. /\ at[s] = "advance" /\ at'[s] \in {"lock_second", "unlock_next"}
          /\ \A t \in Thread \ {s} : at'[t] = at[t]
      BY <2>7, Goer DEF Advance
    <3>2. /\ UNCHANGED <<count, next, str>> /\ loc'[s].i = loc[s].i
          /\ \A t \in Sorter \ {s} : loc'[t] = loc[t]
      BY <1>0, <2>7 DEF Advance, DataTyped, Locals
    <3>3. QED
      BY <1>0, <3>1, <3>2 DEF Settled, Passing
  <2>8. CASE UnlockNext(s)
    <3>1. at[s] = "unlock_next" /\ at'[s] = "unlock_base" /\ \A t \in Thread \ {s} : at'[t] = at[t]
      BY <2>8, Goer DEF UnlockNext
    <3>2. UNCHANGED <<count, next, str, loc>>
      BY <2>8 DEF UnlockNext
    <3>3. QED
      BY <1>0, <3>1, <3>2 DEF Settled, Passing
  <2>9. CASE UnlockBase(s)
    <3>1. /\ at[s] = "unlock_base" /\ at'[s] = "pass"
          /\ \A t \in Thread \ {s} : at'[t] = at[t]
      BY <2>9, Goer DEF UnlockBase
    <3>2. /\ UNCHANGED <<count, next, str>>
          /\ \A t \in Sorter \ {s} : loc'[t] = loc[t]
      BY <1>0, <2>9 DEF UnlockBase, DataTyped
    <3>3. QED
      BY <1>0, <3>1, <3>2 DEF Settled, Passing
  <2>10. CASE SorterLeaves(s)
    <3>1. at[s] = "leave" /\ at'[s] = "rest" /\ \A t \in Thread \ {s} : at'[t] = at[t]
      BY <2>10, Goer DEF SorterLeaves
    <3>2. UNCHANGED <<count, next, str, loc>>
      BY <2>10 DEF SorterLeaves
    <3>3. QED
      BY <1>0, <3>1, <3>2 DEF Settled, Passing
  <2>11. CASE Rest(s)
    <3>1. at[s] = "rest" /\ at'[s] = "begin" /\ \A t \in Thread \ {s} : at'[t] = at[t]
      BY <2>11, Goer DEF Rest
    <3>2. UNCHANGED <<count, next, str, loc>>
      BY <2>11 DEF Rest
    <3>3. QED
      BY <1>0, <3>1, <3>2 DEF Settled, Passing
  <2>12. QED
    BY <2>1, <2>2, <2>3, <2>4, <2>5, <2>6, <2>7, <2>8, <2>9, <2>10, <2>11
<1>2. Exchanging' = Exchanging /\ \A t \in Exchanging : loc'[t].first = loc[t].first
  BY <1>1 DEF Exchanging
<1>3. \A t \in Sorter : count >= 2 /\ Settled(t)' => Settled(t)
  BY <1>1, OthersSettled
<1>4. \A t \in Sorter : at'[t] \notin Passing => loc'[t].i = 0
  BY <1>1 DEF OrderInv
<1>5. QED
  BY <1>1, <1>2, <1>3, <1>4, OrderKept

(* task18.c:124-133: a thread that compares in order is settled; one that  *)
(* exchanges was about to, which nobody is who is settled.                 *)
LEMMA KeepOrder ==
  ASSUME IInv, DataInv, OrderInv, NEW s \in Sorter, Keep(s)
  PROVE  OrderInv'
<1> USE DEF list, mains
<1>1. /\ at[s] = "compare" /\ at'[s] = "advance" /\ \A t \in Thread \ {s} : at'[t] = at[t]
      /\ UNCHANGED <<count, next, str, loc>> /\ InOrder(s)
  BY Goer DEF Keep
<1>2. loc[s].base = Term /\ count >= 2
  BY <1>1 DEF DataInv, HeadHeld, Walking, WithTwo, Locking, Passing
<1>3. PICK p \in Orders : First(s) = p[1] /\ Second(s) = p[2]
  BY <1>1, <1>2, HeadSeen DEF Walking
<1>4. p[1] \in Node /\ p[2] \in Node
  BY <1>2, FirstTwo DEF DataInv
<1>5. ~ After(str[First(s)], str[Second(s)])
  BY <1>1, <1>3, <1>4, Texts, ComparedAsInDictionary DEF InOrder, DataInv
<1>6. First(s) = next[Term] /\ Second(s) = next[next[Term]]
  BY <1>2 DEF First, Second
<1>7. Exchanging = {} /\ Exchanging' = {}
  <2>1. Exchanging = {}
    BY <1>1, OneWalks DEF DataInv, Walking
  <2>2. QED
    BY <1>1, <2>1, ThreadsApart DEF Exchanging
<1>8. ~ After(str'[next'[Term]], str'[next'[next'[Term]]])
  BY <1>1, <1>5, <1>6
<1>9. \A t \in Sorter : at'[t] \notin Passing => loc'[t].i = 0
  BY <1>1, ThreadsApart DEF OrderInv, Passing
<1>10. QED
  BY <1>7, <1>8, <1>9 DEF OrderInv

LEMMA BaseOrder ==
  ASSUME IInv, DataInv, OrderInv, NEW s \in Sorter, ExchangeBase(s)
  PROVE  OrderInv'
<1>1. /\ at[s] = "compare" /\ at'[s] = "second" /\ \A t \in Thread \ {s} : at'[t] = at[t]
      /\ loc' = [loc EXCEPT ![s].first = First(s), ![s].tmp = next[Second(s)]]
      /\ next' = [next EXCEPT ![loc[s].base] = Second(s)]
      /\ UNCHANGED <<count, str>> /\ ~ InOrder(s)
  BY Goer DEF ExchangeBase
<1>2. loc[s].base = Term /\ count >= 2
  BY <1>1 DEF DataInv, HeadHeld, Walking, WithTwo, Locking, Passing
<1>3. PICK p \in Orders : First(s) = p[1] /\ Second(s) = p[2]
  BY <1>1, <1>2, HeadSeen DEF Walking
<1>4. p[1] \in Node /\ p[2] \in Node
  BY <1>2, FirstTwo DEF DataInv
<1>5. After(str[First(s)], str[Second(s)])
  BY <1>1, <1>3, <1>4, Texts, ComparedAsInDictionary DEF InOrder, DataInv
<1>6. First(s) = next[Term] /\ Second(s) = next[next[Term]]
  BY <1>2 DEF First, Second
<1>7. \A t \in Sorter : ~ Settled(t)
  BY <1>2, <1>5, <1>6 DEF OrderInv
<1>8. Exchanging' = {s}
  <2>1. Exchanging = {}
    BY <1>1, OneWalks DEF DataInv, Walking
  <2>2. QED
    BY <1>1, <2>1, ThreadsApart DEF Exchanging
<1>9. /\ loc'[s].first = First(s) /\ loc'[s].i = loc[s].i
      /\ \A t \in Sorter \ {s} : loc'[t] = loc[t]
  <2>1. loc \in [Sorter -> Locals]
    BY DEF DataInv, DataTyped
  <2>2. loc[s] \in Locals
    BY <2>1
  <2>3. QED
    BY <1>1, <2>1, <2>2 DEF Locals
<1>10. next'[Term] = Second(s)
  BY <1>1, <1>2 DEF DataInv, DataTyped
<1>11. \A t \in Sorter : ~ Settled(t)'
  BY <1>1, <1>7, <1>9, ThreadsApart DEF Settled, Passing
<1>12. \A t \in Sorter : at'[t] \notin Passing => loc'[t].i = 0
  BY <1>1, <1>9, ThreadsApart DEF OrderInv, Passing
<1>13. \A t \in Exchanging' : After(str'[loc'[t].first], str'[next'[Term]])
  BY <1>1, <1>5, <1>8, <1>9, <1>10
<1>14. QED
  BY <1>11, <1>12, <1>13 DEF OrderInv

LEMMA SecondOrder ==
  ASSUME IInv, DataInv, OrderInv, NEW s \in Sorter, ExchangeSecond(s)
  PROVE  OrderInv'
<1>1. /\ at[s] = "second" /\ at'[s] = "first" /\ \A t \in Thread \ {s} : at'[t] = at[t]
      /\ next' = [next EXCEPT ![First(s)] = loc[s].first]
      /\ UNCHANGED <<count, str, loc>>
  BY Goer DEF ExchangeSecond
<1>2. /\ loc[s].base = Term /\ count >= 2 /\ Exchanging = {s}
      /\ \E p \in Orders : HalfExchanged(p, s) /\ p[2] # Term
  BY <1>1, HalfSeen
<1>3. Exchanging' = {s}
  BY <1>1, <1>2, ThreadsApart DEF Exchanging
<1>4. next'[Term] = next[Term]
  <2>1. First(s) # Term
    BY <1>2 DEF HalfExchanged, First
  <2>2. QED
    BY <1>1, <2>1 DEF DataInv, DataTyped
<1>5. \A t \in Sorter : ~ Settled(t)
  BY <1>2 DEF OrderInv
<1>6. \A t \in Sorter : ~ Settled(t)'
  BY <1>1, <1>5, ThreadsApart DEF Settled, Passing
<1>7. \A t \in Sorter : at'[t] \notin Passing => loc'[t].i = 0
  BY <1>1, ThreadsApart DEF OrderInv, Passing
<1>8. After(str'[loc'[s].first], str'[next'[Term]])
  BY <1>1, <1>2, <1>4 DEF OrderInv
<1>9. QED
  BY <1>3, <1>6, <1>7, <1>8 DEF OrderInv

LEMMA FirstOrder ==
  ASSUME IInv, DataInv, OrderInv, NEW s \in Sorter, ExchangeFirst(s)
  PROVE  OrderInv'
<1>1. /\ at[s] = "first" /\ at'[s] = "advance" /\ \A t \in Thread \ {s} : at'[t] = at[t]
      /\ next' = [next EXCEPT ![loc[s].first] = loc[s].tmp]
      /\ loc' = [loc EXCEPT ![s].first = NULL, ![s].tmp = NULL]
      /\ UNCHANGED <<count, str>>
  BY Goer DEF ExchangeFirst
<1>2. /\ count >= 2 /\ Exchanging = {s} /\ loc[s] \in Locals
      /\ \E p \in Orders : /\ HalfExchanged(p, s) /\ p[1] # Term /\ p[2] # p[1]
                           /\ p[1] \in Node /\ p[2] \in Node
  BY <1>1, HalfSeen
<1>3. PICK p \in Orders : /\ HalfExchanged(p, s) /\ p[1] # Term /\ p[2] # p[1]
                          /\ p[1] \in Node /\ p[2] \in Node
  BY <1>2
<1>4. next[Term] = p[2] /\ next[p[2]] = p[1] /\ loc[s].first = p[1]
  BY <1>1, <1>3 DEF HalfExchanged
<1>5. next'[Term] = p[2] /\ next'[p[2]] = p[1]
  BY <1>1, <1>3, <1>4 DEF DataInv, DataTyped
<1>6. ~ After(str'[next'[Term]], str'[next'[next'[Term]]])
  <2>1. After(str[p[1]], str[p[2]])
    BY <1>2, <1>4 DEF OrderInv
  <2>2. str[p[1]] \in Text /\ str[p[2]] \in Text
    BY <1>3, Texts DEF DataInv
  <2>3. ~ After(str[p[2]], str[p[1]])
    BY <2>1, <2>2, AfterOneWay
  <2>4. QED
    BY <1>1, <1>5, <2>3
<1>7. Exchanging' = {}
  BY <1>1, <1>2, ThreadsApart DEF Exchanging
<1>8. \A t \in Sorter : at'[t] \notin Passing => loc'[t].i = 0
  <2>1. \A t \in Sorter \ {s} : loc'[t] = loc[t] /\ at'[t] = at[t]
    BY <1>1, ThreadsApart DEF DataInv, DataTyped
  <2>2. QED
    BY <1>1, <2>1 DEF OrderInv, Passing
<1>9. QED
  BY <1>6, <1>7, <1>8 DEF OrderInv

LEMMA MainOrder ==
  ASSUME IInv, DataInv, OrderInv,
         \/ ReadLine \/ MainStep
         \/ \E t \in Thread : SpuriousWakeup(t)
         \/ UNCHANGED listVars
  PROVE  OrderInv'
<1> USE DEF list, mains
<1>1. loc' = loc /\ \A s \in Sorter : at'[s] = at[s]
  <2>1. CASE ReadLine \/ MainEnters \/ Printed \/ Allocate \/ Link \/ MainLeaves
    BY <2>1, MainGoes DEF ReadLine, MainEnters, Printed, Allocate, Link, MainLeaves
  <2>2. CASE \/ Return \/ MainWaits \/ PrintNode
             \/ \E t \in Thread : SpuriousWakeup(t)
             \/ UNCHANGED listVars
    BY <2>2 DEF Return, MainWaits, PrintNode, Stays, Sleeps, SpuriousWakeup, listVars
  <2>3. QED
    BY <2>1, <2>2 DEF MainStep
<1>2. CASE UNCHANGED <<count, next, str>>
  <2>1. Exchanging' = Exchanging /\ \A s \in Sorter : Settled(s)' = Settled(s)
    BY <1>1 DEF Exchanging, Settled
  <2>2. \A s \in Sorter : at'[s] \notin Passing => loc'[s].i = 0
    BY <1>1 DEF OrderInv
  <2>3. QED
    BY <1>1, <1>2, <2>1, <2>2, OrderKept
<1>3. CASE Allocate \/ Link
  <2>1. at[Main] \in MainInside
    BY <1>3 DEF Allocate, Link, Goes, MainInside
  <2>2. \A s \in Sorter : at[s] \in {"begin", "rest"}
    BY <2>1, MainAlone
  <2>3. \A s \in Sorter : at'[s] \in {"begin", "rest"} /\ loc'[s].i = 0
    BY <1>1, <2>2 DEF OrderInv, Passing
  <2>4. QED
    BY <2>3, OrderApart
<1>4. QED
  BY <1>2, <1>3
  DEF MainStep, ReadLine, Return, MainEnters, MainWaits, PrintNode, Printed, MainLeaves,
      Sleeps, SpuriousWakeup, listVars

LEMMA StepOrder ==
  ASSUME IInv, DataInv, OrderInv, [ListNext]_listVars
  PROVE  OrderInv'
<1>1. ASSUME NEW s \in Sorter, SorterStep(s) PROVE OrderInv'
  BY <1>1, SorterOrder, KeepOrder, BaseOrder, SecondOrder, FirstOrder DEF SorterStep
<1>2. QED
  BY <1>1, MainOrder DEF ListNext

LEMMA InitOrder == ListInit => OrderInv
<1> SUFFICES ASSUME ListInit PROVE OrderInv
  OBVIOUS
<1>1. \A s \in Sorter : at[s] = "begin" /\ loc[s].i = 0
  BY ThreadsApart DEF ListInit, Thread, AtFirst
<1>2. QED
  BY <1>1 DEF OrderInv, Settled, Exchanging, Passing

(* What the invariants say of the lines that a thread leaves.              *)
LEMMA ListLeaves == IInv /\ DataInv /\ OrderInv => ListTypeOK /\ LeftInOrder
<1> SUFFICES ASSUME IInv, DataInv, OrderInv PROVE ListTypeOK /\ LeftInOrder
  OBVIOUS
<1>1. LeftInOrder
  <2> SUFFICES ASSUME NEW s \in Sorter, at[s] = "leave", count >= 2
               PROVE  ~ After(str[Chain[1]], str[Chain[2]])
    BY DEF LeftInOrder
  <2>1. Exchanging = {} /\ ~ After(str[next[Term]], str[next[next[Term]]])
    BY DEF OrderInv, Settled
  <2>2. PICK p \in Orders : LinkedFrom(p, 0)
    BY <2>1 DEF DataInv, Shape
  <2>3. next[Term] = p[1] /\ next[next[Term]] = p[2]
    BY <2>2, FirstTwo DEF DataInv
  <2>4. Chain = p
    BY <2>2, ChainIsOrder DEF DataInv
  <2>5. QED
    BY <2>1, <2>3, <2>4
<1>2. ListTypeOK
  <2>1. sorting_count \in 0 .. COUNT_OF_SORTING_THREADS
    <3>1. /\ IsFiniteSet(Sorter) /\ Cardinality(Sorter) = COUNT_OF_SORTING_THREADS
          /\ Sorting \subseteq Sorter
      BY ListAssumption, FS_Interval DEF Sorter, Sorting
    <3>2. Cardinality(Sorting) \in Nat /\ Cardinality(Sorting) <= COUNT_OF_SORTING_THREADS
      BY <3>1, FS_Subset, FS_CardinalityType
    <3>3. QED
      BY <3>2, ListAssumption DEF IInv, StatusInv
  <2>2. at[Main] \in {"read", "enter", "print", "allocate", "link", "leave"}
    BY DEF IInv, ControlOK, MainInside
  <2>3. at \in [Thread -> Passing \cup {at[Main], "begin", "leave", "rest"}]
    BY ThreadsApart DEF IInv, ControlOK, SorterInside
  <2>4. QED
    BY <2>1, <2>2, <2>3
    DEF ListTypeOK, DataInv, DataTyped, IInv, ControlOK, StatusInv
<1>3. QED
  BY <1>1, <1>2

(* Whatever else sorts at the same time, a thread of task18.c that leaves  *)
(* has put the first two lines in order, and the variables keep their      *)
(* types.                                                                  *)
THEOREM FirstTwoLeftInOrder == ListSpec => [](ListTypeOK /\ LeftInOrder)
<1>1. ListInit => OrderInv
  BY InitOrder
<1>2. IInv /\ DataInv /\ OrderInv /\ [ListNext]_listVars => OrderInv'
  BY StepOrder
<1>3. QED
  BY <1>1, <1>2, ListLeaves, Inductive, PTL DEF ListSpec

=============================================================================
