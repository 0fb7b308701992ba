---------------------------- MODULE MCExercises ----------------------------
(***************************************************************************)
(* The programs of the repository that fill no run of their own: the first *)
(* state chooses one of them, and the others stay as they begin.           *)
(***************************************************************************)
EXTENDS PingPong, SharedList, PiSeries, SequencesExt

CONSTANTS
  IN_BUFFER_SIZE, MAX_SCREEN_LINES,
  MIN_READ_BUFF_SIZE, MaxBytes, Key, Headers, Response, Nothing, Garbage

VARIABLES
  phase, in_buffer, written, cnt_on_screen, pager_end, part, shown_to_user, since, faults,
  locked_count, locked_next, locked_str, sorting, round, pair, exchanged, crashed,
  buff, bucket, latest

Pages == INSTANCE Pager WITH is_end <- pager_end, shown <- shown_to_user
Locked == INSTANCE LockedList
            WITH count <- locked_count, next <- locked_next, str <- locked_str, it <- pair
Stores == INSTANCE Containers

ASSUME ConstantsAssumption ==
  Pages!PagerAssumption /\ Locked!LockedListAssumption /\ Stores!ContainersAssumption

(* The str_comp of my_strcmp.c orders all short strings as a dictionary    *)
(* does; that of the sorting programs is seen in what their sorts leave.   *)
ASSUME StringsCompared ==
  \A s1, s2 \in BoundedSeq(1 .. 2, 3) :
    /\ my_str_comp(s1, s2) = GREATER <=> After(s1, s2)
    /\ my_str_comp(s1, s2) = LESS <=> After(s2, s1)

(* One line is the beginning of another, and comes after it.               *)
SomeLines == {<<1>>, <<1, 2>>}

MCInit ==
  /\ PingPongInit \/ (program \in {"task18", "task9", "28", "task17", "proxy"} /\ NoPingPong)
  /\ ListInit /\ SeriesInit /\ Pages!Init /\ Locked!Init /\ Stores!Init

pages == <<phase, in_buffer, written, cnt_on_screen, pager_end, part, shown_to_user,
           since, faults>>
locked == <<locked_count, locked_next, locked_str, sorting, round, pair, exchanged, crashed>>
stores == <<buff, bucket, latest>>
rest == <<pages, locked, stores>>
exercises == <<listVars, seriesVars, rest>>
vars == <<program, pingPongVars, exercises>>

PingPongRuns == PingPongNext /\ UNCHANGED exercises
ListRuns ==
  program = "task18" /\ UNCHANGED <<program, pingPongVars, seriesVars, rest>>
SeriesRuns ==
  program = "task9" /\ UNCHANGED <<program, pingPongVars, listVars, rest>>
PagesRun ==
  program = "28" /\ UNCHANGED <<program, pingPongVars, listVars, seriesVars,
                                locked, stores>>
LockedRuns ==
  program = "task17" /\ UNCHANGED <<program, pingPongVars, listVars, seriesVars,
                                    pages, stores>>
StoresRun ==
  program = "proxy" /\ UNCHANGED <<program, pingPongVars, listVars, seriesVars,
                                   pages, locked>>

MCNext ==
  \/ PingPongRuns
  \/ ListRuns /\ ListNext
  \/ SeriesRuns /\ SeriesNext
  \/ PagesRun /\ Pages!Next
  \/ LockedRuns /\ Locked!Next
  \/ StoresRun /\ Stores!Next

(* The fairness of each module, of the program that runs.                  *)
MCFairness ==
  /\ PingPongFairness
  /\ WF_vars(ListRuns /\ MainStep)
  /\ \A s \in Sorter : WF_vars(ListRuns /\ SorterStep(s))
  /\ \A w \in Worker : /\ WF_vars(SeriesRuns /\ WorkerStep(w))
                       /\ WF_vars(SeriesRuns /\ Join(w))

FairSpec == MCInit /\ [][MCNext]_vars /\ MCFairness

-----------------------------------------------------------------------------
(* What a sort leaves behind, with a mutex per node (SharedList) and with  *)
(* one mutex (LockedList).                                                 *)
SortsLeave ==
  ListTypeOK /\ LeftInOrder /\ Locked!TypeOK /\ Locked!EndsInOrder

(* As long as nothing fails the pager shows all it gets, page by page      *)
(* (Pager).                                                                *)
PagedFaithfully == Pages!TypeOK /\ Pages!PagedFaithfully

(* The buffers and the map of the proxy give back what was put into them   *)
(* (Containers).                                                           *)
StoredAsGiven == Stores!TypeOK /\ Stores!StoredAsGiven

(* Some thread of task18 finishes a sort again and again unless the        *)
(* program has ended, and an interrupted task9 ends.                       *)
AllGoOn == []<>(program = "task18" => SortEnds) /\ InterruptedEnds

=============================================================================
