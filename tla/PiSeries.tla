------------------------------ MODULE PiSeries ------------------------------
(***************************************************************************)
(* task9.c: each of COUNT_OF_THREADS workers adds up its share of a        *)
(* series, term after term, and looks every STOP_POINTS terms whether      *)
(* SIGINT has raised is_end. Then the workers agree, under a spinlock, on  *)
(* the greatest number of rounds, meet at a barrier, and those behind      *)
(* catch up. Term i of a worker is term i * COUNT_OF_THREADS + rank of the *)
(* series.                                                                 *)
(***************************************************************************)
EXTENDS Naturals

CONSTANTS
  COUNT_OF_THREADS,
  STOP_POINTS,        \* 1000
  MaxRounds           \* bound on the rounds before the signal

ASSUME SeriesAssumption ==
  /\ COUNT_OF_THREADS \in Nat \ {0}
  /\ STOP_POINTS \in Nat \ {0}
  /\ MaxRounds \in Nat

Worker == 0 .. COUNT_OF_THREADS - 1
Rounds == 0 .. MaxRounds + STOP_POINTS

VARIABLES
  doing,      \* what each worker does next
  i,          \* its loop variable
  added,      \* how many times it has added each of its terms
  is_end, mx_iters,
  joined,     \* the workers main has joined
  aborted     \* whether the process has been aborted

seriesVars == <<doing, i, added, is_end, mx_iters, joined, aborted>>

SeriesInit ==
  /\ doing = [w \in Worker |-> "sum"]
  /\ i = [w \in Worker |-> 0]
  /\ added = [w \in Worker |-> [r \in Rounds |-> 0]]
  /\ is_end = 0 /\ mx_iters = 0
  /\ joined = {}
  /\ aborted = FALSE

Proceeds(w, from, to) ==
  doing[w] = from /\ ~ aborted /\ doing' = [doing EXCEPT ![w] = to]

AddTerm(w) == added' = [added EXCEPT ![w][i[w]] = @ + 1]

(* The loop variable of a worker that stops is the term it has just added. *)
Stops(w) == i[w] % STOP_POINTS = 0 /\ is_end = 1
SumRound(w) ==
  /\ is_end = 1 \/ i[w] < MaxRounds
  /\ Proceeds(w, "sum", IF Stops(w) THEN "lock" ELSE "sum")
  /\ AddTerm(w)
  /\ i' = [i EXCEPT ![w] = IF Stops(w) THEN @ ELSE @ + 1]
  /\ UNCHANGED <<is_end, mx_iters, joined, aborted>>

Greatest(a, b) == IF a > b THEN a ELSE b
LastWins(w) == i[w]
RoundsAgreed(w) == Greatest(mx_iters, i[w])
Agree(w) ==
  /\ Proceeds(w, "lock", "barrier")
  /\ mx_iters' = RoundsAgreed(w)
  /\ UNCHANGED <<i, added, is_end, joined, aborted>>

(* Nobody passes the barrier before everybody has come.                    *)
AllThere == \A w \in Worker : doing[w] \notin {"sum", "lock"}
Meet(w) ==
  /\ AllThere
  /\ Proceeds(w, "barrier", "catch up")
  /\ UNCHANGED <<i, added, is_end, mx_iters, joined, aborted>>

CatchUp(w) ==
  /\ i[w] < mx_iters
  /\ Proceeds(w, "catch up", "catch up")
  /\ AddTerm(w)
  /\ i' = [i EXCEPT ![w] = @ + 1]
  /\ UNCHANGED <<is_end, mx_iters, joined, aborted>>
Finish(w) ==
  /\ i[w] >= mx_iters
  /\ Proceeds(w, "catch up", "done")
  /\ UNCHANGED <<i, added, is_end, mx_iters, joined, aborted>>

WorkerStep(w) == SumRound(w) \/ Agree(w) \/ Meet(w) \/ CatchUp(w) \/ Finish(w)

(* main joins the workers in their order.                                  *)
Join(w) ==
  /\ joined = 0 .. w - 1 /\ doing[w] = "done" /\ ~ aborted
  /\ joined' = joined \cup {w}
  /\ UNCHANGED <<doing, i, added, is_end, mx_iters, aborted>>

(* The handler asserts that is_end was 0.                                  *)
Raise == IF is_end = 0 THEN is_end' = 1 /\ UNCHANGED aborted
         ELSE aborted' = TRUE /\ UNCHANGED is_end
Interrupt ==
  /\ joined # Worker /\ ~ aborted
  /\ Raise
  /\ UNCHANGED <<doing, i, added, mx_iters, joined>>

SeriesNext ==
  \/ \E w \in Worker : WorkerStep(w) \/ Join(w)
  \/ Interrupt

(* Every worker and main are scheduled; nobody has to interrupt them.      *)
SeriesFairness ==
  \A w \in Worker : WF_seriesVars(WorkerStep(w)) /\ WF_seriesVars(Join(w))

SeriesSpec == SeriesInit /\ [][SeriesNext]_seriesVars
FairSeriesSpec == SeriesSpec /\ SeriesFairness

-----------------------------------------------------------------------------
SeriesTypeOK ==
  /\ doing \in [Worker -> {"sum", "lock", "barrier", "catch up", "done"}]
  /\ i \in [Worker -> Rounds] /\ mx_iters \in Rounds /\ is_end \in {0, 1}
  /\ added \in [Worker -> [Rounds -> 0 .. 2]]
  /\ joined \subseteq Worker /\ aborted \in BOOLEAN

(* Catching up gives every worker the same number of terms, but not the    *)
(* same terms: the one at which a worker has stopped early is added again, *)
(* and the last one, which the fastest worker has added, is missing. No    *)
(* term is added more than twice.                                          *)
EachOnce(last) == [r \in Rounds |-> IF r <= last THEN 1 ELSE 0]
EarlyStops == {r \in Rounds : r < mx_iters /\ r % STOP_POINTS = 0}
TermsSummed ==
  /\ SeriesTypeOK
  /\ \A w \in Worker : doing[w] = "done" =>
       \/ added[w] = EachOnce(mx_iters)
       \/ \E r \in EarlyStops : added[w] = [EachOnce(mx_iters - 1) EXCEPT ![r] = 2]
  /\ joined = Worker => \E w \in Worker : added[w] = EachOnce(mx_iters)

(* Once interrupted the program ends, if a second SIGINT does not abort it *)
(* before: nobody stays behind at the barrier.                             *)
InterruptedEnds == is_end = 1 ~> joined = Worker \/ aborted

=============================================================================
