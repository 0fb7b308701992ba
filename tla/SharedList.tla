----------------------------- MODULE SharedList -----------------------------
(***************************************************************************)
(* tasks17_20/task18.c: main pushes lines to the front of a list, or       *)
(* prints it, while COUNT_OF_SORTING_THREADS threads sort it over and      *)
(* over. The status says whether the list is FREE, being changed by main   *)
(* (UPDATING, also while it is printed) or sorted by sorting_count threads *)
(* (SORTING); who does not get in waits on the condition cond. Sorting     *)
(* threads exchange nodes with the mutexes of three neighbours locked.     *)
(*                                                                         *)
(* The mutex of the list is locked only within a step. The mutex of a node *)
(* is locked from step to step. The next of a node is written only by who  *)
(* has locked it, so that the address of the next mutex to lock does not   *)
(* change while a thread waits for it.                                     *)
(***************************************************************************)
EXTENDS StrComp

CONSTANTS
  COUNT_OF_SORTING_THREADS,
  MaxLines,     \* the lines main reads (10000)
  SizeRange,    \* the values of a size_t (2^64)
  Lines         \* the lines that are not empty

ASSUME ListAssumption ==
  /\ COUNT_OF_SORTING_THREADS \in Nat
  /\ MaxLines \in Nat
  /\ SizeRange \in Nat /\ SizeRange > MaxLines
  /\ Lines \subseteq Seq(Nat \ {0}) \ {<<>>}

Main == 0
Sorter == 1 .. COUNT_OF_SORTING_THREADS
Thread == Sorter \cup {Main}
Nobody == COUNT_OF_SORTING_THREADS + 1

Term == 0                \* the head of the list, embedded in it
Node == 1 .. MaxLines    \* the nodes, in the order of their allocation
NULL == MaxLines + 1
Empty == <<>>            \* an empty line, and the string of no node

VARIABLES
  status, sorting_count, count,   \* of struct List
  next, str, owner,               \* of each node; owner is who locked its mutex
  at,                             \* what each thread does next
  asleep,                         \* who is blocked on cond
  loc,                            \* the local variables of sort_list
  line, lines,                    \* the line main has read, and how many
  it, shown,                      \* the node main has printed last, and all
  over                            \* whether and how the process has ended

list == <<status, sorting_count, count, next, str>>
mains == <<line, lines, it, shown>>
listVars == <<list, owner, at, asleep, loc, mains, over>>

Locals == [i : 0 .. MaxLines, base : Node \cup {Term}, first : Node \cup {NULL},
           tmp : Node \cup {NULL}]
AtFirst == [i |-> 0, base |-> Term, first |-> NULL, tmp |-> NULL]

ListInit ==
  /\ status = "FREE" /\ sorting_count = 0 /\ count = 0
  /\ next = [n \in Node \cup {Term} |-> NULL]
  /\ str = [n \in Node |-> Empty]
  /\ owner = [n \in Node \cup {Term} |-> Nobody]
  /\ at = [t \in Thread |-> IF t = Main THEN "read" ELSE "begin"]
  /\ asleep = {}
  /\ loc = [s \in Sorter |-> AtFirst]
  /\ line = Empty /\ lines = 0
  /\ it = Term /\ shown = {}
  /\ over = "no"

Goes(t, from, to) == at[t] = from /\ over = "no" /\ at' = [at EXCEPT ![t] = to]
Stays(t, label) == at[t] = label /\ over = "no" /\ UNCHANGED at

(* Another turn of the loop around pthread_cond_wait. *)
Sleeps(t) == asleep' = asleep \cup {t} /\ UNCHANGED <<list, owner, loc, mains, over>>
WokenOne == IF asleep = {} THEN {} ELSE asleep \ {CHOOSE t \in asleep : TRUE}
StillAsleep == {}

-----------------------------------------------------------------------------
(* main.                                                                   *)
ReadLine ==
  /\ lines < MaxLines /\ Goes(Main, "read", "enter")
  /\ line' \in Lines \cup {Empty}
  /\ lines' = lines + 1
  /\ UNCHANGED <<list, owner, asleep, loc, it, shown, over>>

Return ==
  /\ lines = MaxLines /\ Stays(Main, "read")
  /\ over' = "returned"
  /\ UNCHANGED <<list, owner, asleep, loc, mains>>

AmongSorters == status # "UPDATING"
MainAdmitted == status = "FREE"
MainEnters ==
  /\ Main \notin asleep /\ MainAdmitted
  /\ Goes(Main, "enter", IF line = Empty THEN "print" ELSE "allocate")
  /\ status' = "UPDATING"
  /\ it' = Term
  /\ UNCHANGED <<sorting_count, count, next, str, owner, asleep, loc, line, lines,
                 shown, over>>
MainWaits ==
  /\ Main \notin asleep /\ ~ MainAdmitted
  /\ Stays(Main, "enter") /\ Sleeps(Main)

PrintNode ==
  /\ next[it] # NULL /\ Stays(Main, "print")
  /\ it' = next[it]
  /\ shown' = shown \cup {next[it]}
  /\ UNCHANGED <<list, owner, asleep, loc, line, lines, over>>
Printed ==
  /\ next[it] = NULL /\ Goes(Main, "print", "leave")
  /\ UNCHANGED <<list, owner, asleep, loc, mains, over>>

Allocate ==
  /\ Goes(Main, "allocate", "link")
  /\ next' = [next EXCEPT ![count + 1] = next[Term]]
  /\ str' = [str EXCEPT ![count + 1] = line]
  /\ UNCHANGED <<status, sorting_count, count, owner, asleep, loc, mains, over>>
Link ==
  /\ Goes(Main, "link", "leave")
  /\ next' = [next EXCEPT ![Term] = count + 1]
  /\ count' = count + 1
  /\ UNCHANGED <<status, sorting_count, str, owner, asleep, loc, mains, over>>

MainLeaves ==
  /\ Goes(Main, "leave", "read")
  /\ status' = "FREE" /\ asleep' = StillAsleep
  /\ line' = Empty /\ it' = Term /\ shown' = {}
  /\ UNCHANGED <<sorting_count, count, next, str, owner, loc, lines, over>>

MainStep ==
  \/ Return \/ MainEnters \/ MainWaits \/ PrintNode \/ Printed
  \/ Allocate \/ Link \/ MainLeaves

-----------------------------------------------------------------------------
(* A sorting thread.                                                       *)
AsCommentedOut == status = "FREE" /\ status = "SORTING"
SorterAdmitted == status # "UPDATING"
SorterEnters(s) ==
  /\ s \notin asleep /\ SorterAdmitted /\ Goes(s, "begin", "pass")
  /\ status' = "SORTING" /\ sorting_count' = sorting_count + 1
  /\ UNCHANGED <<count, next, str, owner, asleep, loc, mains, over>>
SorterWaits(s) ==
  /\ s \notin asleep /\ ~ SorterAdmitted
  /\ Stays(s, "begin") /\ Sleeps(s)

(* As many passes as there are nodes but one, without a sign.              *)
Passes == (count + SizeRange - 1) % SizeRange
Pass(s) ==
  /\ loc[s].i < Passes /\ Goes(s, "pass", "lock_term")
  /\ UNCHANGED <<list, owner, asleep, loc, mains, over>>
EndPasses(s) ==
  /\ loc[s].i >= Passes /\ Goes(s, "pass", "leave")
  /\ loc' = [loc EXCEPT ![s] = AtFirst]
  /\ UNCHANGED <<list, owner, asleep, mains, over>>

Lock(s, n) == owner[n] = Nobody /\ owner' = [owner EXCEPT ![n] = s]

LockTerm(s) ==
  /\ Goes(s, "lock_term", "lock_first")
  /\ Lock(s, Term)
  /\ loc' = [loc EXCEPT ![s].base = Term]
  /\ UNCHANGED <<list, asleep, mains, over>>

(* The mutex of a null node: the process ends with a signal.               *)
Crash(s, label) ==
  /\ Stays(s, label)
  /\ over' = "crashed"
  /\ UNCHANGED <<list, owner, asleep, loc, mains>>

LockOrCrash(s, n, from, to) ==
  IF n = NULL THEN Crash(s, from)
  ELSE Goes(s, from, to) /\ Lock(s, n) /\ UNCHANGED <<list, asleep, loc, mains, over>>

LockFirst(s) == LockOrCrash(s, next[loc[s].base], "lock_first", "lock_second")
LockSecond(s) ==
  /\ at[s] = "lock_second"
  /\ LockOrCrash(s, next[next[loc[s].base]], "lock_second", "compare")

First(s) == next[loc[s].base]
Second(s) == next[First(s)]

InOrder(s) == str_comp(str[First(s)], str[Second(s)]) # GREATER
Keep(s) ==
  /\ at[s] = "compare" /\ InOrder(s) /\ Goes(s, "compare", "advance")
  /\ UNCHANGED <<list, owner, asleep, loc, mains, over>>

(* The exchange writes three pointers: base->next, second->next and        *)
(* first->next.                                                            *)
ExchangeBase(s) ==
  /\ at[s] = "compare" /\ ~ InOrder(s) /\ Goes(s, "compare", "second")
  /\ loc' = [loc EXCEPT ![s].first = First(s), ![s].tmp = next[Second(s)]]
  /\ next' = [next EXCEPT ![loc[s].base] = Second(s)]
  /\ UNCHANGED <<status, sorting_count, count, str, owner, asleep, mains, over>>
ExchangeSecond(s) ==
  /\ Goes(s, "second", "first")
  /\ next' = [next EXCEPT ![First(s)] = loc[s].first]
  /\ UNCHANGED <<status, sorting_count, count, str, owner, asleep, loc, mains, over>>
ExchangeFirst(s) ==
  /\ Goes(s, "first", "advance")
  /\ next' = [next EXCEPT ![loc[s].first] = loc[s].tmp]
  /\ loc' = [loc EXCEPT ![s].first = NULL, ![s].tmp = NULL]
  /\ UNCHANGED <<status, sorting_count, count, str, owner, asleep, mains, over>>

(* is_end is computed before base moves on, so that it tells whether there *)
(* is a second node, and the pass goes on if there is none.                *)
UntilLast(isEnd) == ~ isEnd
GoesOn(isEnd) == isEnd
Advance(s) ==
  /\ at[s] = "advance"
  /\ Goes(s, "advance", IF GoesOn(Second(s) = NULL) THEN "lock_second" ELSE "unlock_next")
  /\ owner' = [owner EXCEPT ![loc[s].base] = Nobody]
  /\ loc' = [loc EXCEPT ![s].base = First(s)]
  /\ UNCHANGED <<list, asleep, mains, over>>

UnlockNext(s) ==
  /\ at[s] = "unlock_next" /\ Goes(s, "unlock_next", "unlock_base")
  /\ owner' = [owner EXCEPT ![First(s)] = Nobody]
  /\ UNCHANGED <<list, asleep, loc, mains, over>>
UnlockBase(s) ==
  /\ Goes(s, "unlock_base", "pass")
  /\ owner' = [owner EXCEPT ![loc[s].base] = Nobody]
  /\ loc' = [loc EXCEPT ![s].i = @ + 1, ![s].base = Term]
  /\ UNCHANGED <<list, asleep, mains, over>>

FreeAtOnce(n) == "FREE"
StatusWithout(n) == IF n = 0 THEN "FREE" ELSE status
SorterLeaves(s) ==
  /\ Goes(s, "leave", "rest")
  /\ sorting_count' = sorting_count - 1
  /\ status' = StatusWithout(sorting_count')
  /\ asleep' = StillAsleep
  /\ UNCHANGED <<count, next, str, owner, loc, mains, over>>

(* Between two sorts the thread sleeps.                                    *)
Rest(s) ==
  /\ Goes(s, "rest", "begin")
  /\ UNCHANGED <<list, owner, asleep, loc, mains, over>>

SorterStep(s) ==
  \/ SorterEnters(s) \/ SorterWaits(s) \/ Pass(s) \/ EndPasses(s)
  \/ LockTerm(s) \/ LockFirst(s) \/ LockSecond(s)
  \/ Keep(s) \/ ExchangeBase(s) \/ ExchangeSecond(s) \/ ExchangeFirst(s)
  \/ Advance(s) \/ UnlockNext(s) \/ UnlockBase(s) \/ SorterLeaves(s) \/ Rest(s)

-----------------------------------------------------------------------------
SpuriousWakeup(t) ==
  /\ t \in asleep /\ over = "no"
  /\ asleep' = asleep \ {t}
  /\ UNCHANGED <<list, owner, at, loc, mains, over>>

ListNext ==
  \/ ReadLine \/ MainStep
  \/ \E s \in Sorter : SorterStep(s)
  \/ \E t \in Thread : SpuriousWakeup(t)

(* Each thread that can run is scheduled in the end; no mutex is fair, and *)
(* nobody has to type.                                                     *)
ListFairness == WF_listVars(MainStep) /\ \A s \in Sorter : WF_listVars(SorterStep(s))

ListSpec == ListInit /\ [][ListNext]_listVars
FairListSpec == ListSpec /\ ListFairness

-----------------------------------------------------------------------------
Passing == {"pass", "lock_term", "lock_first", "lock_second", "compare", "second",
            "first", "advance", "unlock_next", "unlock_base"}

ListTypeOK ==
  /\ status \in {"FREE", "SORTING", "UPDATING"}
  /\ sorting_count \in 0 .. COUNT_OF_SORTING_THREADS
  /\ count \in 0 .. MaxLines /\ lines \in count .. MaxLines
  /\ next \in [Node \cup {Term} -> Node \cup {NULL}]
  /\ str \in [Node -> Lines \cup {Empty}] /\ line \in Lines \cup {Empty}
  /\ owner \in [Node \cup {Term} -> Sorter \cup {Nobody}]
  /\ at[Main] \in {"read", "enter", "print", "allocate", "link", "leave"}
  /\ at \in [Thread -> Passing \cup {at[Main], "begin", "leave", "rest"}]
  /\ asleep \subseteq Thread
  /\ loc \in [Sorter -> Locals]
  /\ it \in Node \cup {Term} /\ shown \subseteq Node
  /\ over \in {"no", "crashed", "returned"}

(* Nobody sorts while main changes or prints the list, and main lets       *)
(* nobody in: the status and the number of sorting threads, read and       *)
(* written under the mutex, implement the access of ListAccess to a list   *)
(* that is touched without that mutex.                                     *)
Inside ==
  {s \in Sorter : at[s] \in Passing \cup {"leave"}}
    \cup {t \in {Main} : at[t] \in {"print", "allocate", "link", "leave"}}
Access == INSTANCE ListAccess WITH inside <- Inside
RefinesAccess == Access!AccessSpec

(* No wakeup is lost: whoever waits on cond is waiting for a thread that   *)
(* is still to broadcast, main for any other and a sorting thread for main.*)
NoLostWakeup == \A t \in asleep : Inside \cap Access!Conflicting(t) # {}

(* The list from its head on, as far as it has that many nodes.            *)
Chain ==
  LET nth[k \in 0 .. count] ==
        IF k = 0 THEN Term ELSE IF nth[k - 1] = NULL THEN NULL ELSE next[nth[k - 1]]
  IN [k \in 1 .. count |-> nth[k]]

(* Whatever sorting threads exchange nodes in what order, the list holds   *)
(* every line pushed once and ends after the last of them whenever nobody  *)
(* is at it, and main prints every line once.                              *)
ListIntact ==
  /\ status = "FREE" =>
       /\ {Chain[k] : k \in 1 .. count} = 1 .. count
       /\ next[IF count = 0 THEN Term ELSE Chain[count]] = NULL
  /\ at[Main] = "print" =>
       /\ next[it] \notin shown
       /\ next[it] = NULL => shown = 1 .. count

(* A null pointer is followed only by a thread that sorts the empty list,  *)
(* where count - 1 is the greatest size_t.                                 *)
CrashCause == over = "crashed" => count = 0

(* A thread that has sorted leaves the first two lines in order, though    *)
(* others have been exchanging them meanwhile. (The rest is never looked   *)
(* at: each pass compares only the first two.)                             *)
LeftInOrder ==
  \A s \in Sorter : at[s] = "leave" /\ count >= 2 =>
    ~ After(str[Chain[1]], str[Chain[2]])

(* Unless the program has ended, some thread finishes a sort again and     *)
(* again: the mutexes of the nodes, locked hand over hand, never block all *)
(* sorting threads.                                                        *)
SortEnds == over # "no" \/ \E s \in Sorter : at[s] = "rest"
SortersGoOn == []<>SortEnds

=============================================================================
