----------------------------- MODULE LockedList -----------------------------
(***************************************************************************)
(* tasks17_20/task17.c: main pushes lines to the front of a list and       *)
(* prints it; a second thread sorts it from time to time. All three        *)
(* operations lock the one mutex of the list from beginning to end, so     *)
(* that only the sort, which need not end, is more than a step: a step for *)
(* each pair it compares. What is printed is the list as it is.            *)
(***************************************************************************)
EXTENDS StrComp

CONSTANTS
  MaxLines,     \* the lines main reads (10000)
  Lines         \* the lines that are not empty

LockedListAssumption ==
  MaxLines \in Nat /\ Lines \subseteq Seq(Nat \ {0}) \ {<<>>}

Term == 0
Node == 1 .. MaxLines
NULL == MaxLines + 1

VARIABLES
  count, next, str,   \* the list
  sorting,            \* whether the sorting thread has the mutex
  round,              \* the round of its sort (i)
  it,                 \* the node whose next it is about to compare
  exchanged,          \* whether it has exchanged a pair before
  crashed             \* whether it has followed a null pointer

vars == <<count, next, str, sorting, round, it, exchanged, crashed>>

Init ==
  /\ count = 0
  /\ next = [n \in Node \cup {Term} |-> NULL]
  /\ str = [n \in Node |-> <<>>]
  /\ sorting = FALSE /\ round = 0 /\ it = Term
  /\ exchanged = FALSE /\ crashed = FALSE

PushAtFront == count + 1
Push ==
  /\ ~ sorting /\ ~ crashed /\ count < MaxLines
  /\ \E line \in Lines : str' = [str EXCEPT ![PushAtFront] = line]
  /\ next' = [next EXCEPT ![PushAtFront] = next[Term], ![Term] = PushAtFront]
  /\ count' = count + 1
  /\ UNCHANGED <<sorting, round, it, exchanged, crashed>>

BeginSort ==
  /\ ~ sorting /\ ~ crashed
  /\ sorting' = TRUE /\ round' = 0 /\ it' = Term
  /\ UNCHANGED <<count, next, str, exchanged, crashed>>

First == next[it]
Second == next[First]
HasPair == First # NULL /\ Second # NULL
OutOfOrder == str_comp(str[First], str[Second]) = GREATER

KeepPair ==
  /\ sorting /\ ~ crashed /\ round < count
  /\ HasPair /\ ~ OutOfOrder
  /\ it' = Second
  /\ UNCHANGED <<count, next, str, sorting, round, exchanged, crashed>>

(* The pointer to the first node is overwritten before the next of the     *)
(* second is looked up through it: by then it points to the second, and    *)
(* the next that is assigned is that of the third node.                    *)
Moved == [next EXCEPT ![it] = Second]
WithThird(moved) == [moved EXCEPT ![moved[moved[it]]] = First]
ExchangePair ==
  /\ sorting /\ ~ crashed /\ round < count
  /\ HasPair /\ OutOfOrder
  /\ exchanged' = TRUE
  /\ IF Moved[Moved[it]] = NULL
     THEN crashed' = TRUE /\ next' = Moved /\ UNCHANGED it
     ELSE /\ next' = WithThird(Moved)
          /\ it' = next'[next'[it]]
          /\ UNCHANGED crashed
  /\ UNCHANGED <<count, str, sorting, round>>

EndRound ==
  /\ sorting /\ ~ crashed /\ round < count /\ ~ HasPair
  /\ round' = round + 1 /\ it' = Term
  /\ UNCHANGED <<count, next, str, sorting, exchanged, crashed>>

EndSort ==
  /\ sorting /\ ~ crashed /\ round = count
  /\ sorting' = FALSE
  /\ UNCHANGED <<count, next, str, round, it, exchanged, crashed>>

Next == Push \/ BeginSort \/ KeepPair \/ ExchangePair \/ EndRound \/ EndSort

Spec == Init /\ [][Next]_vars

-----------------------------------------------------------------------------
TypeOK ==
  /\ count \in 0 .. MaxLines /\ round \in 0 .. count
  /\ next \in [Node \cup {Term} -> Node \cup {NULL}]
  /\ str \in [Node -> Lines \cup {<<>>}]
  /\ it \in Node \cup {Term}
  /\ sorting \in BOOLEAN /\ exchanged \in BOOLEAN /\ crashed \in BOOLEAN

Nth ==
  LET nth[k \in 0 .. count] ==
        IF k = 0 THEN Term ELSE IF nth[k - 1] = NULL THEN NULL ELSE next[nth[k - 1]]
  IN nth

(* The list holds every line pushed, once: what the swap of two strings in *)
(* the comment of task17.c:93-95 would see to.                             *)
KeepsLines == {Nth[k] : k \in 1 .. count} = 1 .. count

(* As it is, a sort that ends has exchanged nothing: it has found the      *)
(* first line in order with the second, the third with the fourth and so   *)
(* on. A sort that does exchange a pair leaves a cycle, or follows a null  *)
(* pointer, and never unlocks the mutex.                                   *)
EndsInOrder ==
  /\ ~ sorting => ~ exchanged /\ KeepsLines
  /\ sorting /\ 0 < count /\ round = count =>
       \A k \in 1 .. count - 1 : k % 2 = 1 => ~ After(str[Nth[k]], str[Nth[k + 1]])

=============================================================================
