-------------------------- MODULE ExercisesProofs --------------------------
(***************************************************************************)
(* Proofs about the programs of MCExercises that have no module of proofs  *)
(* of their own: the sum of task9.c (PiSeries), the pager of http/28.c     *)
(* (Pager), the buffers and the map of the proxy (Containers), the list of *)
(* task17.c (LockedList). The module of proofs of task18.c is              *)
(* SharedListProofs, of the ping-pongs PingPongProofs.                     *)
(***************************************************************************)
EXTENDS MCExercises, SharedListProofs, SequenceTheorems, FiniteSetTheorems,
        WellFoundedInduction, TLAPS

-----------------------------------------------------------------------------
(***************************************************************************)
(* PiSeries: what task9.c has added up when it ends, for any number of     *)
(* workers, any distance of the stop points and any number of rounds       *)
(* before the signal.                                                      *)
(***************************************************************************)
WorkerLabels == {"sum", "lock", "barrier", "catch up", "done"}
Come == {"barrier", "catch up", "done"}    \* to the barrier, or past it
Past == {"catch up", "done"}

(* The types of the variables.                                             *)
SeriesTyped ==
  /\ doing \in [Worker -> WorkerLabels]
  /\ i \in [Worker -> Rounds] /\ mx_iters \in Rounds /\ is_end \in {0, 1}
  /\ added \in [Worker -> [Rounds -> Nat]]
  /\ joined \subseteq Worker /\ aborted \in BOOLEAN

(* The terms a worker has added so far, given where it has stopped.        *)
Before(n) == [r \in Rounds |-> IF r < n THEN 1 ELSE 0]
Again(stop, n) == [r \in Rounds |-> IF r = stop THEN 2 ELSE IF r < n THEN 1 ELSE 0]
StoppedAt(stop, n, terms) ==
  /\ stop % STOP_POINTS = 0
  /\ \/ stop = n /\ terms = EachOnce(n)
     \/ stop < n /\ terms = Again(stop, n)

(* While it sums, a worker passes no stop point after MaxRounds, when the  *)
(* signal has come. Afterwards it is behind the greatest number of rounds, *)
(* and it is done when it has got there.                                   *)
WorkerInv(w) ==
  /\ doing[w] = "sum" =>
       /\ added[w] = Before(i[w])
       /\ \A k \in MaxRounds .. i[w] - 1 : k % STOP_POINTS # 0
  /\ doing[w] \in {"lock", "barrier"} => StoppedAt(i[w], i[w], added[w])
  /\ doing[w] \in Past => \E stop \in Rounds : StoppedAt(stop, i[w], added[w])
  /\ doing[w] \in Come => i[w] <= mx_iters
  /\ doing[w] = "done" => i[w] = mx_iters

(* Nobody is past the barrier before all have come, and of those who have  *)
(* come one has summed the most rounds, and never adds another term.       *)
Leads(w) == doing[w] \in Come /\ i[w] = mx_iters /\ added[w] = EachOnce(mx_iters)
TogetherInv ==
  /\ \A u, w \in Worker : doing[u] \in Past => doing[w] \in Come
  /\ \A u \in Worker : doing[u] \in Come => \E w \in Worker : Leads(w)
  /\ (\A u \in Worker : doing[u] \notin Come) => mx_iters = 0
  /\ \A w \in joined : doing[w] = "done"

SeriesInv == SeriesTyped /\ TogetherInv /\ \A w \in Worker : WorkerInv(w)

-----------------------------------------------------------------------------
(* Among any STOP_POINTS rounds in a row there is a stop point.            *)
LEMMA StopPointAhead ==
  \E k \in MaxRounds .. MaxRounds + STOP_POINTS - 1 : k % STOP_POINTS = 0
<1>1. MaxRounds \in Nat /\ STOP_POINTS \in Nat /\ STOP_POINTS > 0
  BY SeriesAssumption
<1>2. ASSUME NEW m \in Nat, NEW n \in Nat, n > 0
      PROVE  \E k \in m .. m + n - 1 : k % n = 0
  <2>1. m = n * (m \div n) + (m % n) /\ m % n \in 0 .. n - 1 /\ m \div n \in Int
    <3>1. m % n \in 0 .. n - 1
      BY <1>2
    <3>2. m \div n \in Int
      BY <1>2
    <3>3. m = n * (m \div n) + (m % n)
      BY <1>2
    <3>4. QED
      BY <3>1, <3>2, <3>3
  <2>2. CASE m % n = 0
    BY <1>2, <2>2
  <2>3. CASE m % n # 0
    <3>1. PICK k : k = m - (m % n) + n
      OBVIOUS
    <3>2. k \in m .. m + n - 1
      BY <1>2, <2>1, <2>3, <3>1
    <3>3. k = n * (m \div n + 1)
      BY <1>2, <2>1, <3>1
    <3>4. k % n = 0
      BY <1>2, <2>1, <3>2, <3>3
    <3>5. QED
      BY <3>2, <3>4
  <2>4. QED
    BY <2>2, <2>3
<1>3. QED
  BY <1>1, <1>2

LEMMA SeriesBounds ==
  /\ MaxRounds \in Nat /\ STOP_POINTS \in Nat /\ STOP_POINTS > 0
  /\ Rounds \subseteq Nat /\ 0 \in Rounds /\ Rounds = 0 .. MaxRounds + STOP_POINTS
  /\ Worker # {} /\ Worker = 0 .. COUNT_OF_THREADS - 1 /\ 0 \in Worker
  BY SeriesAssumption DEF Rounds, Worker

(* A worker that still sums is not at the end of the rounds.               *)
LEMMA RoundLeft ==
  ASSUME SeriesTyped, NEW w \in Worker, WorkerInv(w), doing[w] = "sum"
  PROVE  i[w] + 1 \in Rounds
<1>1. i[w] \in Nat
  BY SeriesBounds DEF SeriesTyped
<1>2. PICK k \in MaxRounds .. MaxRounds + STOP_POINTS - 1 : k % STOP_POINTS = 0
  BY StopPointAhead
<1>3. k \notin MaxRounds .. i[w] - 1
  BY <1>2 DEF WorkerInv
<1>4. i[w] <= k
  BY <1>1, <1>3, SeriesBounds
<1>5. QED
  BY <1>1, <1>4, SeriesBounds

(* A worker that a step does not touch.                                    *)
LEMMA OtherKept ==
  ASSUME SeriesTyped, SeriesTyped', NEW u \in Worker, WorkerInv(u),
         doing'[u] = doing[u], i'[u] = i[u], added'[u] = added[u],
         mx_iters' >= mx_iters, doing[u] = "done" => mx_iters' = mx_iters
  PROVE  WorkerInv(u)'
<1>1. mx_iters \in Nat /\ mx_iters' \in Nat /\ i[u] \in Nat
  BY SeriesBounds DEF SeriesTyped
<1>2. doing'[u] \in Come => i'[u] <= mx_iters'
  BY <1>1 DEF WorkerInv
<1>3. QED
  BY <1>2 DEF WorkerInv, StoppedAt

(* A step of worker w that changes neither mx_iters nor who is joined.     *)
LEMMA AloneStep ==
  ASSUME SeriesInv, SeriesTyped', NEW w \in Worker, WorkerInv(w)', mx_iters' = mx_iters,
         joined' = joined,
         \A u \in Worker \ {w} : doing'[u] = doing[u] /\ i'[u] = i[u] /\ added'[u] = added[u],
         doing'[w] \in Past => doing'[w] = doing[w] \/ \A u \in Worker : doing[u] \in Come,
         doing[w] \in Come <=> doing'[w] \in Come,
         doing[w] # "done",
         Leads(w) => Leads(w)'
  PROVE  SeriesInv'
<1>1. \A u \in Worker : WorkerInv(u)'
  <2>1. ASSUME NEW u \in Worker, u # w PROVE WorkerInv(u)'
    <3>1. doing'[u] = doing[u] /\ i'[u] = i[u] /\ added'[u] = added[u]
      BY <2>1
    <3>2. mx_iters' >= mx_iters
      BY SeriesBounds DEF SeriesInv, SeriesTyped
    <3>3. QED
      BY <3>1, <3>2, OtherKept DEF SeriesInv
  <2>2. QED
    BY <2>1
<1>2. \A u \in Worker : doing'[u] \in Come <=> doing[u] \in Come
  OBVIOUS
<1>3. \A u \in Worker : Leads(u) => Leads(u)'
  <2>1. ASSUME NEW u \in Worker, u # w PROVE Leads(u) => Leads(u)'
    BY <2>1 DEF Leads, EachOnce
  <2>2. QED
    BY <2>1
<1>4. \A u, v \in Worker : doing'[u] \in Past => doing'[v] \in Come
  BY <1>2 DEF SeriesInv, TogetherInv
<1>5. \A u \in Worker : doing'[u] \in Come => \E v \in Worker : Leads(v)'
  BY <1>2, <1>3 DEF SeriesInv, TogetherInv
<1>6. (\A u \in Worker : doing'[u] \notin Come) => mx_iters' = 0
  BY <1>2 DEF SeriesInv, TogetherInv
<1>7. \A u \in joined' : doing'[u] = "done"
  BY DEF SeriesInv, TogetherInv, SeriesTyped
<1>8. QED
  BY <1>1, <1>4, <1>5, <1>6, <1>7 DEF SeriesInv, TogetherInv

(* What AddTerm does to the terms of a worker.                             *)
LEMMA TermAdded ==
  ASSUME SeriesTyped, NEW w \in Worker, AddTerm(w)
  PROVE  /\ added' \in [Worker -> [Rounds -> Nat]]
         /\ \A u \in Worker \ {w} : added'[u] = added[u]
         /\ added'[w] = [r \in Rounds |-> IF r = i[w] THEN added[w][r] + 1 ELSE added[w][r]]
<1>1. added \in [Worker -> [Rounds -> Nat]] /\ i[w] \in Rounds
  BY DEF SeriesTyped
<1>2. added' = [added EXCEPT ![w] = [added[w] EXCEPT ![i[w]] = @ + 1]]
  BY <1>1 DEF AddTerm
<1>3. [added[w] EXCEPT ![i[w]] = @ + 1]
        = [r \in Rounds |-> IF r = i[w] THEN added[w][r] + 1 ELSE added[w][r]]
  BY <1>1
<1>4. [r \in Rounds |-> IF r = i[w] THEN added[w][r] + 1 ELSE added[w][r]] \in [Rounds -> Nat]
  BY <1>1
<1>5. QED
  BY <1>1, <1>2, <1>3, <1>4

-----------------------------------------------------------------------------
(* task9.c:37-45: terms up to the first stop point after the signal.       *)
LEMMA SumInv ==
  ASSUME SeriesInv, NEW w \in Worker, SumRound(w)
  PROVE  SeriesInv'
<1>1. /\ doing[w] = "sum" /\ AddTerm(w) /\ UNCHANGED <<is_end, mx_iters, joined, aborted>>
      /\ SeriesTyped /\ WorkerInv(w)
  BY DEF SumRound, Proceeds, SeriesInv
<1>2. /\ added' \in [Worker -> [Rounds -> Nat]]
      /\ \A u \in Worker \ {w} : added'[u] = added[u]
      /\ added'[w] = [r \in Rounds |-> IF r = i[w] THEN added[w][r] + 1 ELSE added[w][r]]
  BY <1>1, TermAdded
<1>3. i[w] \in Nat /\ i[w] \in Rounds /\ i[w] + 1 \in Rounds /\ \A r \in Rounds : r \in Nat
  BY <1>1, RoundLeft, SeriesBounds DEF SeriesTyped
<1>4. added[w] = Before(i[w])
  BY <1>1 DEF WorkerInv
<1>5. added'[w] = Before(i[w] + 1) /\ added'[w] = EachOnce(i[w])
  <2>1. ASSUME NEW r \in Rounds
        PROVE  /\ (IF r = i[w] THEN added[w][r] + 1 ELSE added[w][r])
                    = IF r < i[w] + 1 THEN 1 ELSE 0
               /\ (IF r = i[w] THEN added[w][r] + 1 ELSE added[w][r])
                    = IF r <= i[w] THEN 1 ELSE 0
    BY <1>3, <1>4 DEF Before
  <2>2. QED
    BY <1>2, <2>1 DEF Before, EachOnce
<1>6. CASE Stops(w)
  <2>1. doing' = [doing EXCEPT ![w] = "lock"] /\ i' = i
    BY <1>1, <1>6 DEF SumRound, Proceeds, SeriesTyped
  <2>2. SeriesTyped' /\ doing'[w] = "lock"
    BY <1>1, <1>2, <2>1 DEF SeriesTyped, WorkerLabels
  <2>3. WorkerInv(w)'
    BY <1>5, <1>6, <2>1, <2>2 DEF WorkerInv, StoppedAt, Stops, Come, Past, EachOnce
  <2>4. QED
    BY <1>1, <1>2, <2>1, <2>2, <2>3, AloneStep DEF Past, Come, Leads, SeriesTyped
<1>7. CASE ~ Stops(w)
  <2>1. doing' = [doing EXCEPT ![w] = "sum"] /\ i' = [i EXCEPT ![w] = @ + 1]
    BY <1>1, <1>7 DEF SumRound, Proceeds
  <2>2. SeriesTyped' /\ doing'[w] = "sum" /\ i'[w] = i[w] + 1
    BY <1>1, <1>2, <1>3, <2>1 DEF SeriesTyped, WorkerLabels
  <2>3. \A k \in MaxRounds .. i[w] : k % STOP_POINTS # 0
    <3>1. CASE i[w] < MaxRounds
      BY <1>3, <3>1, SeriesBounds
    <3>2. CASE is_end = 1
      <4>1. i[w] % STOP_POINTS # 0
        BY <1>7, <3>2 DEF Stops
      <4>2. \A k \in MaxRounds .. i[w] : k = i[w] \/ k \in MaxRounds .. i[w] - 1
        BY <1>3, SeriesBounds
      <4>3. QED
        BY <1>1, <4>1, <4>2 DEF WorkerInv
    <3>3. QED
      BY <3>1, <3>2 DEF SumRound
  <2>4. i[w] + 1 - 1 = i[w]
    BY <1>3
  <2>5. WorkerInv(w)'
    <3>1. added'[w] = Before(i'[w])
      BY <1>5, <2>2
    <3>2. \A k \in MaxRounds .. i'[w] - 1 : k % STOP_POINTS # 0
      <4>1. i'[w] - 1 = i[w]
        BY <1>3, <2>2
      <4>2. QED
        BY <2>3, <4>1
    <3>3. QED
      BY <2>2, <3>1, <3>2 DEF WorkerInv, Past, Come, Before
  <2>6. QED
    BY <1>1, <1>2, <2>1, <2>2, <2>5, AloneStep DEF Past, Come, Leads, SeriesTyped
<1>8. QED
  BY <1>6, <1>7

(* task9.c:47-49: the greatest of the rounds at which the workers stop.    *)
LEMMA AgreeInv ==
  ASSUME SeriesInv, NEW w \in Worker, Agree(w)
  PROVE  SeriesInv'
<1>1. /\ doing[w] = "lock" /\ doing' = [doing EXCEPT ![w] = "barrier"]
      /\ mx_iters' = Greatest(mx_iters, i[w])
      /\ UNCHANGED <<i, added, is_end, joined, aborted>>
      /\ SeriesTyped /\ WorkerInv(w)
  BY DEF Agree, Proceeds, RoundsAgreed, SeriesInv
<1>2. /\ doing'[w] = "barrier" /\ \A u \in Worker \ {w} : doing'[u] = doing[u]
      /\ mx_iters \in Nat /\ i[w] \in Nat
      /\ mx_iters' >= mx_iters /\ mx_iters' >= i[w] /\ mx_iters' \in {mx_iters, i[w]}
      /\ mx_iters = 0 => mx_iters' = i[w]
  <2>1. mx_iters \in Rounds /\ i[w] \in Rounds
    BY <1>1 DEF SeriesTyped
  <2>2. mx_iters \in Nat /\ i[w] \in Nat
    BY <2>1, SeriesBounds
  <2>3. /\ mx_iters' >= mx_iters /\ mx_iters' >= i[w] /\ mx_iters' \in {mx_iters, i[w]}
        /\ mx_iters = 0 => mx_iters' = i[w]
    BY <1>1, <2>2 DEF Greatest
  <2>4. doing'[w] = "barrier" /\ \A u \in Worker \ {w} : doing'[u] = doing[u]
    BY <1>1 DEF SeriesTyped
  <2>5. QED
    BY <2>2, <2>3, <2>4
<1>3. SeriesTyped'
  <2>1. mx_iters' \in Rounds
    BY <1>1, <1>2 DEF SeriesTyped
  <2>2. doing' \in [Worker -> WorkerLabels]
    BY <1>1 DEF SeriesTyped, WorkerLabels
  <2>3. QED
    BY <1>1, <2>1, <2>2 DEF SeriesTyped
<1>4. \A u \in Worker : doing[u] \notin Past
  BY <1>1 DEF SeriesInv, TogetherInv, Come
<1>5. \A u \in Worker : WorkerInv(u)'
  <2>1. ASSUME NEW u \in Worker, u # w PROVE WorkerInv(u)'
    <3>1. doing[u] # "done"
      BY <1>4 DEF Past
    <3>2. QED
      BY <1>1, <1>2, <1>3, <2>1, <3>1, OtherKept DEF SeriesInv
  <2>2. WorkerInv(w)'
    BY <1>1, <1>2 DEF WorkerInv, StoppedAt, Past, Come
  <2>3. QED
    BY <2>1, <2>2
<1>6. \A u \in Worker : doing'[u] \notin Past
  BY <1>2, <1>4 DEF Past
<1>7. \E v \in Worker : Leads(v)'
  <2>1. CASE mx_iters' = i[w]
    <3>1. added[w] = EachOnce(i[w])
      BY <1>1, <1>2 DEF WorkerInv, StoppedAt
    <3>2. Leads(w)'
      BY <1>1, <1>2, <2>1, <3>1 DEF Leads, Come, EachOnce
    <3>3. QED
      BY <3>2
  <2>2. CASE mx_iters' = mx_iters /\ \E u \in Worker : doing[u] \in Come
    <3>1. PICK v \in Worker : Leads(v)
      BY <2>2 DEF SeriesInv, TogetherInv
    <3>2. v # w
      BY <1>1, <3>1 DEF Leads, Come
    <3>3. Leads(v)'
      BY <1>1, <1>2, <2>2, <3>1, <3>2 DEF Leads, EachOnce
    <3>4. QED
      BY <3>3
  <2>3. (\A u \in Worker : doing[u] \notin Come) => mx_iters' = i[w]
    BY <1>2 DEF SeriesInv, TogetherInv
  <2>4. QED
    BY <1>2, <2>1, <2>2, <2>3
<1>8. \A u \in joined' : doing'[u] = "done"
  BY <1>1, <1>4 DEF SeriesInv, TogetherInv, SeriesTyped, Past
<1>9. doing'[w] \in Come
  BY <1>2 DEF Come
<1>10. QED
  BY <1>3, <1>5, <1>6, <1>7, <1>8, <1>9 DEF SeriesInv, TogetherInv

(* task9.c:51-54: the barrier.                                             *)
LEMMA MeetInv ==
  ASSUME SeriesInv, NEW w \in Worker, Meet(w)
  PROVE  SeriesInv'
<1>1. /\ doing[w] = "barrier" /\ doing' = [doing EXCEPT ![w] = "catch up"] /\ AllThere
      /\ UNCHANGED <<i, added, is_end, mx_iters, joined, aborted>>
      /\ SeriesTyped /\ WorkerInv(w)
  BY DEF Meet, Proceeds, SeriesInv
<1>2. /\ doing'[w] = "catch up" /\ \A u \in Worker \ {w} : doing'[u] = doing[u]
      /\ doing' \in [Worker -> WorkerLabels] /\ i[w] \in Rounds
  BY <1>1 DEF SeriesTyped, WorkerLabels
<1>3. SeriesTyped'
  BY <1>1, <1>2 DEF SeriesTyped
<1>4. WorkerInv(w)'
  <2>1. StoppedAt(i[w], i[w], added[w]) /\ i[w] <= mx_iters
    BY <1>1 DEF WorkerInv, Come
  <2>2. StoppedAt(i[w], i[w], added[w])' /\ i'[w] <= mx_iters'
    BY <1>1, <2>1 DEF StoppedAt, EachOnce, Again
  <2>3. i'[w] \in Rounds
    BY <1>1, <1>2
  <2>4. QED
    BY <1>2, <2>2, <2>3 DEF WorkerInv
<1>5. \A u \in Worker : doing[u] \in Come
  BY <1>1 DEF AllThere, SeriesTyped, WorkerLabels, Come
<1>6. Leads(w) => Leads(w)'
  BY <1>1, <1>2 DEF Leads, Come, EachOnce
<1>7. QED
  BY <1>1, <1>2, <1>3, <1>4, <1>5, <1>6, AloneStep DEF Come

(* task9.c:55-60: a worker that has caught up is done.                     *)
LEMMA FinishInv ==
  ASSUME SeriesInv, NEW w \in Worker, Finish(w)
  PROVE  SeriesInv'
<1>1. /\ doing[w] = "catch up" /\ doing' = [doing EXCEPT ![w] = "done"] /\ i[w] >= mx_iters
      /\ UNCHANGED <<i, added, is_end, mx_iters, joined, aborted>>
      /\ SeriesTyped /\ WorkerInv(w)
  BY DEF Finish, Proceeds, SeriesInv
<1>2. /\ doing'[w] = "done" /\ \A u \in Worker \ {w} : doing'[u] = doing[u]
      /\ doing' \in [Worker -> WorkerLabels]
  BY <1>1 DEF SeriesTyped, WorkerLabels
<1>3. SeriesTyped'
  BY <1>1, <1>2 DEF SeriesTyped
<1>4. i[w] = mx_iters
  <2>1. i[w] \in Nat /\ mx_iters \in Nat
    BY <1>1, SeriesBounds DEF SeriesTyped
  <2>2. QED
    <3>1. i[w] <= mx_iters
      BY <1>1 DEF WorkerInv, Come
    <3>2. i[w] >= mx_iters
      BY <1>1
    <3>3. QED
      BY <2>1, <3>1, <3>2
<1>5. WorkerInv(w)'
  <2>1. i'[w] = mx_iters' /\ i'[w] <= mx_iters'
    BY <1>1, <1>4, SeriesBounds DEF SeriesTyped
  <2>2. PICK stop \in Rounds : StoppedAt(stop, i[w], added[w])
    BY <1>1 DEF WorkerInv, Past
  <2>3. StoppedAt(stop, i[w], added[w])'
    BY <1>1, <2>2 DEF StoppedAt, EachOnce, Again
  <2>4. QED
    BY <1>2, <2>1, <2>3 DEF WorkerInv
<1>6. \A u \in Worker : doing[u] \in Come
  BY <1>1 DEF SeriesInv, TogetherInv, Past
<1>7. Leads(w) => Leads(w)'
  BY <1>1, <1>2 DEF Leads, Come, EachOnce
<1>8. QED
  BY <1>1, <1>2, <1>3, <1>5, <1>6, <1>7, AloneStep DEF Come

(* task9.c:55-57: a worker behind adds the terms it lacks, and the one at  *)
(* which it stopped once more.                                             *)
LEMMA CatchUpInv ==
  ASSUME SeriesInv, NEW w \in Worker, CatchUp(w)
  PROVE  SeriesInv'
<1>1. /\ doing[w] = "catch up" /\ doing' = [doing EXCEPT ![w] = "catch up"] /\ AddTerm(w)
      /\ i[w] < mx_iters /\ i' = [i EXCEPT ![w] = @ + 1]
      /\ UNCHANGED <<is_end, mx_iters, joined, aborted>>
      /\ SeriesTyped /\ WorkerInv(w)
  BY DEF CatchUp, Proceeds, SeriesInv
<1>2. /\ added' \in [Worker -> [Rounds -> Nat]]
      /\ \A u \in Worker \ {w} : added'[u] = added[u]
      /\ added'[w] = [r \in Rounds |-> IF r = i[w] THEN added[w][r] + 1 ELSE added[w][r]]
  BY <1>1, TermAdded
<1>3. /\ i[w] \in Rounds /\ i[w] \in Nat /\ mx_iters \in Rounds /\ mx_iters \in Nat
      /\ i[w] + 1 \in Rounds /\ i[w] + 1 <= mx_iters
  <2>1. i[w] \in Rounds /\ mx_iters \in Rounds
    BY <1>1 DEF SeriesTyped
  <2>2. ASSUME NEW a \in 0 .. MaxRounds + STOP_POINTS, NEW b \in 0 .. MaxRounds + STOP_POINTS,
               a < b
        PROVE  a + 1 \in 0 .. MaxRounds + STOP_POINTS /\ a + 1 <= b /\ a \in Nat /\ b \in Nat
    BY <2>2, SeriesBounds
  <2>3. i[w] < mx_iters
    BY <1>1
  <2>4. QED
    BY <2>1, <2>2, <2>3 DEF Rounds
<1>4. /\ doing' = doing /\ i'[w] = i[w] + 1 /\ i' \in [Worker -> Rounds]
      /\ \A u \in Worker \ {w} : i'[u] = i[u]
  BY <1>1, <1>3 DEF SeriesTyped
<1>5. SeriesTyped'
  BY <1>1, <1>2, <1>4 DEF SeriesTyped
<1>6. PICK stop \in Rounds : StoppedAt(stop, i[w], added[w])
  BY <1>1 DEF WorkerInv, Past
<1>7. StoppedAt(stop, i[w] + 1, added'[w])
  <2>1. stop \in Nat /\ stop <= i[w] /\ stop < i[w] + 1 /\ stop % STOP_POINTS = 0
    BY <1>3, <1>6, SeriesBounds DEF StoppedAt
  <2>2. ASSUME NEW r \in Rounds
        PROVE  (IF r = i[w] THEN added[w][r] + 1 ELSE added[w][r])
                 = IF r = stop THEN 2 ELSE IF r < i[w] + 1 THEN 1 ELSE 0
    <3>1. r \in Nat
      BY SeriesBounds
    <3>2. CASE stop = i[w]
      <4>1. added[w][r] = IF r <= i[w] THEN 1 ELSE 0
        BY <1>3, <1>6, <3>2 DEF StoppedAt, EachOnce
      <4>2. QED
        BY <1>3, <3>1, <3>2, <4>1
    <3>3. CASE stop < i[w]
      <4>1. added[w][r] = IF r = stop THEN 2 ELSE IF r < i[w] THEN 1 ELSE 0
        BY <1>3, <1>6, <2>1, <3>3 DEF StoppedAt, Again
      <4>2. QED
        BY <1>3, <2>1, <3>1, <3>3, <4>1
    <3>4. QED
      BY <1>3, <2>1, <3>2, <3>3
  <2>3. added'[w] = Again(stop, i[w] + 1)
    BY <1>2, <2>2 DEF Again
  <2>4. QED
    BY <2>1, <2>3 DEF StoppedAt
<1>8. WorkerInv(w)'
  <2>1. StoppedAt(stop, i'[w], added'[w])
    BY <1>4, <1>7
  <2>2. i'[w] <= mx_iters' /\ doing'[w] = "catch up"
    BY <1>1, <1>3, <1>4
  <2>3. QED
    BY <2>1, <2>2 DEF WorkerInv, Past, Come, StoppedAt, EachOnce, Again
<1>9. ~ Leads(w)
  <2>1. i[w] # mx_iters
    <3>1. \A a, b \in Nat : a < b => a # b
      OBVIOUS
    <3>2. i[w] < mx_iters /\ i[w] \in Nat /\ mx_iters \in Nat
      BY <1>1, <1>3
    <3>3. QED
      BY <3>1, <3>2
  <2>2. QED
    BY <2>1 DEF Leads
<1>10. QED
  BY <1>1, <1>2, <1>4, <1>5, <1>8, <1>9, AloneStep DEF Come

-----------------------------------------------------------------------------
(* Nobody has added a term.                                                *)
LEMMA SeriesBegins == SeriesInit => SeriesInv
<1> SUFFICES ASSUME SeriesInit PROVE SeriesInv
  OBVIOUS
<1>1. SeriesTyped
  BY SeriesBounds DEF SeriesInit, SeriesTyped, WorkerLabels
<1>2. ASSUME NEW w \in Worker PROVE doing[w] = "sum" /\ added[w] = Before(i[w]) /\ i[w] = 0
  <2>1. [r \in Rounds |-> 0] = Before(0)
    <3>1. ASSUME NEW r \in Rounds PROVE 0 = IF r < 0 THEN 1 ELSE 0
      BY SeriesBounds
    <3>2. QED
      BY <3>1 DEF Before
  <2>2. QED
    BY <2>1 DEF SeriesInit
<1>3. ASSUME NEW w \in Worker PROVE WorkerInv(w)
  <2>1. MaxRounds .. i[w] - 1 = {}
    BY <1>2, SeriesBounds
  <2>2. QED
    BY <1>2, <2>1 DEF WorkerInv, Past, Come
<1>4. TogetherInv
  BY <1>2 DEF SeriesInit, TogetherInv, Past, Come
<1>5. QED
  BY <1>1, <1>3, <1>4 DEF SeriesInv

(* A step of main or of the signal handler, which touch no worker.         *)
LEMMA StillInv ==
  ASSUME SeriesInv, UNCHANGED <<doing, i, added, mx_iters>>, is_end' \in {0, 1},
         aborted' \in BOOLEAN, joined' \subseteq Worker,
         \A w \in joined' : doing[w] = "done"
  PROVE  SeriesInv'
<1>1. SeriesTyped'
  BY DEF SeriesInv, SeriesTyped
<1>2. \A w \in Worker : WorkerInv(w)'
  BY <1>1, SeriesBounds, OtherKept DEF SeriesInv, SeriesTyped
<1>3. TogetherInv'
  BY DEF SeriesInv, TogetherInv, Leads, EachOnce
<1>4. QED
  BY <1>1, <1>2, <1>3 DEF SeriesInv

(* Every step of the workers, of main and of the signal.                   *)
LEMMA SeriesStep ==
  ASSUME SeriesInv, [SeriesNext]_seriesVars
  PROVE  SeriesInv'
<1>1. ASSUME NEW w \in Worker, WorkerStep(w) PROVE SeriesInv'
  BY <1>1, SumInv, AgreeInv, MeetInv, CatchUpInv, FinishInv DEF WorkerStep
<1>2. ASSUME NEW w \in Worker, Join(w) PROVE SeriesInv'
  BY <1>2, StillInv DEF Join, SeriesInv, SeriesTyped, TogetherInv
<1>3. CASE Interrupt
  BY <1>3, StillInv DEF Interrupt, Raise, SeriesInv, SeriesTyped, TogetherInv
<1>4. CASE UNCHANGED seriesVars
  BY <1>4, StillInv DEF seriesVars, SeriesInv, SeriesTyped, TogetherInv
<1>5. QED
  BY <1>1, <1>2, <1>3, <1>4 DEF SeriesNext

(* The invariant the two claims of PiSeries rest on, for any number of     *)
(* workers and any distance of the stop points.                            *)
THEOREM SeriesInductive == SeriesSpec => []SeriesInv
<1>1. SeriesInit => SeriesInv
  BY SeriesBegins
<1>2. SeriesInv /\ [SeriesNext]_seriesVars => SeriesInv'
  BY SeriesStep
<1>3. QED
  BY <1>1, <1>2, PTL DEF SeriesSpec

-----------------------------------------------------------------------------
(* No term is added more than twice.                                       *)
LEMMA TypesKept == SeriesInv => SeriesTypeOK
<1> SUFFICES ASSUME SeriesInv PROVE SeriesTypeOK
  OBVIOUS
<1>1. SeriesTyped
  BY DEF SeriesInv
<1>2. ASSUME NEW w \in Worker PROVE added[w] \in [Rounds -> 0 .. 2]
  <2>1. i[w] \in Nat /\ i[w] \in Rounds
    BY <1>1, SeriesBounds DEF SeriesTyped
  <2>2. \/ added[w] = Before(i[w]) \/ added[w] = EachOnce(i[w])
        \/ \E stop \in Rounds : added[w] = Again(stop, i[w])
    BY <1>1 DEF SeriesInv, WorkerInv, StoppedAt, Past, SeriesTyped, WorkerLabels
  <2>3. Before(i[w]) \in [Rounds -> 0 .. 2] /\ EachOnce(i[w]) \in [Rounds -> 0 .. 2]
    BY DEF Before, EachOnce
  <2>4. \A stop \in Rounds : Again(stop, i[w]) \in [Rounds -> 0 .. 2]
    BY DEF Again
  <2>5. QED
    BY <2>2, <2>3, <2>4
<1>3. added \in [Worker -> [Rounds -> 0 .. 2]]
  BY <1>1, <1>2 DEF SeriesTyped
<1>4. QED
  BY <1>1, <1>3 DEF SeriesTypeOK, SeriesTyped, WorkerLabels

(* Of a worker that is done: all terms once, or the one at which it has    *)
(* stopped twice and the last one not.                                     *)
LEMMA DoneTerms ==
  ASSUME SeriesInv, NEW w \in Worker, doing[w] = "done"
  PROVE  \/ added[w] = EachOnce(mx_iters)
         \/ \E r \in EarlyStops : added[w] = [EachOnce(mx_iters - 1) EXCEPT ![r] = 2]
<1>1. i[w] = mx_iters /\ mx_iters \in Nat /\ mx_iters \in Rounds
  BY SeriesBounds DEF SeriesInv, WorkerInv, SeriesTyped
<1>2. PICK stop \in Rounds : StoppedAt(stop, mx_iters, added[w])
  BY <1>1 DEF SeriesInv, WorkerInv, Past
<1>3. CASE stop = mx_iters
  BY <1>1, <1>2, <1>3 DEF StoppedAt
<1>4. CASE stop # mx_iters
  <2>1. stop < mx_iters /\ stop % STOP_POINTS = 0 /\ added[w] = Again(stop, mx_iters)
    BY <1>2, <1>4 DEF StoppedAt
  <2>2. stop \in EarlyStops
    BY <2>1 DEF EarlyStops
  <2>3. Again(stop, mx_iters) = [EachOnce(mx_iters - 1) EXCEPT ![stop] = 2]
    <3>1. \A r \in Rounds : r < mx_iters <=> r <= mx_iters - 1
      BY <1>1, SeriesBounds
    <3>2. QED
      BY <3>1 DEF Again, EachOnce
  <2>4. QED
    BY <2>1, <2>2, <2>3
<1>5. QED
  BY <1>3, <1>4

(* However many workers task9.c starts, and whenever the signal comes, a   *)
(* worker that is done has added its terms as TermsSummed says, and the    *)
(* fastest one each of them once.                                          *)
THEOREM SummedAsClaimed == SeriesSpec => []TermsSummed
<1>1. ASSUME SeriesInv PROVE TermsSummed
  <2>1. joined = Worker => \E w \in Worker : added[w] = EachOnce(mx_iters)
    <3> SUFFICES ASSUME joined = Worker PROVE \E w \in Worker : added[w] = EachOnce(mx_iters)
      OBVIOUS
    <3>1. \E u \in Worker : doing[u] \in Come
      BY <1>1, SeriesBounds DEF SeriesInv, TogetherInv, Come
    <3>2. QED
      BY <1>1, <3>1 DEF SeriesInv, TogetherInv, Leads
  <2>2. QED
    BY <1>1, <2>1, TypesKept, DoneTerms DEF TermsSummed
<1>2. SeriesInv => TermsSummed
  BY <1>1
<1>3. QED
  BY <1>2, SeriesInductive, PTL

-----------------------------------------------------------------------------
(***************************************************************************)
(* Pager: what the user of http/28.c has been shown, for any size of the   *)
(* buffer and of the screen.                                               *)
(***************************************************************************)
(* Among any natural numbers there is a least one.                         *)
LEMMA LeastNumber ==
  ASSUME NEW T, T \subseteq Nat, T # {}
  PROVE  \E n \in T : \A m \in T : n <= m
<1>1. PICK n \in T : \A m \in T : ~ (<<m, n>> \in OpToRel(<, Nat))
  BY NatLessThanWellFounded, WFMin
<1>2. ASSUME NEW m \in T PROVE n <= m
  <2>1. ~ (m < n)
    BY <1>1 DEF OpToRel
  <2>2. QED
    BY <2>1
<1>3. QED
  BY <1>2

(* The lines that end in a sequence of bytes.                              *)
LinesOf(s) == Pages!count_of_lines(s)
LineEnds(s) == {k \in 1 .. Len(s) : s[k] = Pages!Newline}

(* count_of_lines is how many ends of lines there are.                     *)
LEMMA EndsCounted ==
  ASSUME NEW S, NEW s \in Seq(S)
  PROVE  IsFiniteSet(LineEnds(s)) /\ LinesOf(s) = Cardinality(LineEnds(s)) /\ LinesOf(s) \in Nat
<1>1. IsFiniteSet(LineEnds(s))
  <2>1. IsFiniteSet(1 .. Len(s)) /\ LineEnds(s) \in SUBSET (1 .. Len(s))
    BY FS_Interval DEF LineEnds
  <2>2. QED
    BY <2>1, FS_Subset
<1>2. \A T : Pages!Cardinality(T) = Cardinality(T)
  BY DEF Pages!Cardinality, Cardinality, Pages!IsFiniteSet, IsFiniteSet
<1>3. LineEnds(s) = {k \in DOMAIN s : s[k] = Pages!Newline}
  BY LenProperties DEF LineEnds
<1>4. LinesOf(s) = Cardinality(LineEnds(s))
  BY <1>2, <1>3 DEF LinesOf, Pages!count_of_lines
<1>5. QED
  BY <1>1, <1>4, FS_CardinalityType

(* The lines of what comes first and of what comes after add up.           *)
LEMMA EndsJoined ==
  ASSUME NEW S, NEW s \in Seq(S), NEW t \in Seq(S)
  PROVE  LinesOf(s \o t) = LinesOf(s) + LinesOf(t)
<1> DEFINE later == {k \in Len(s) + 1 .. Len(s) + Len(t) : t[k - Len(s)] = Pages!Newline}
           f == [k \in LineEnds(t) |-> k + Len(s)]
<1>1. Len(s) \in Nat /\ Len(t) \in Nat
  OBVIOUS
<1>2. s \o t \in Seq(S) /\ Len(s \o t) = Len(s) + Len(t)
      /\ \A k \in 1 .. Len(s) + Len(t) :
           (s \o t)[k] = IF k <= Len(s) THEN s[k] ELSE t[k - Len(s)]
  BY ConcatProperties
<1>3. LineEnds(s \o t) = LineEnds(s) \cup later /\ LineEnds(s) \cap later = {}
  <2>1. ASSUME NEW k PROVE k \in LineEnds(s \o t) <=> k \in LineEnds(s) \cup later
    BY <1>1, <1>2 DEF LineEnds
  <2>2. LineEnds(s) \cap later = {}
    BY <1>1 DEF LineEnds
  <2>3. QED
    BY <2>1, <2>2
<1>4. f \in Bijection(LineEnds(t), later)
  <2>1. f \in [LineEnds(t) -> later]
    BY <1>1 DEF LineEnds
  <2>2. ASSUME NEW j \in LineEnds(t), NEW k \in LineEnds(t), f[j] = f[k]
        PROVE  j = k
    BY <1>1, <2>2 DEF LineEnds
  <2>3. ASSUME NEW k \in later
        PROVE  \E j \in LineEnds(t) : f[j] = k
    <3>1. k - Len(s) \in LineEnds(t) /\ f[k - Len(s)] = k
      BY <1>1 DEF LineEnds
    <3>2. QED
      BY <3>1
  <2>4. f \in Injection(LineEnds(t), later)
    BY <2>1, <2>2 DEF Injection, IsInjective
  <2>5. f \in Surjection(LineEnds(t), later)
    BY <2>1, <2>3 DEF Surjection
  <2>6. QED
    BY <2>4, <2>5 DEF Bijection
<1>5. IsFiniteSet(later) /\ Cardinality(later) = Cardinality(LineEnds(t))
  <2>1. IsFiniteSet(LineEnds(t)) /\ ExistsBijection(LineEnds(t), later)
    BY <1>4, EndsCounted DEF ExistsBijection
  <2>2. QED
    BY <2>1, FS_Bijection
<1>6. Cardinality(LineEnds(s) \cup later) = Cardinality(LineEnds(s)) + Cardinality(later)
  <2>1. IsFiniteSet(LineEnds(s)) /\ Cardinality(LineEnds(s)) \in Nat /\ Cardinality(later) \in Nat
    BY <1>5, EndsCounted, FS_CardinalityType
  <2>2. Cardinality(LineEnds(s) \cap later) = 0
    BY <1>3, FS_EmptySet
  <2>3. QED
    <3> HIDE DEF later
    <3>1. Cardinality(LineEnds(s) \cup later)
            = Cardinality(LineEnds(s)) + Cardinality(later) - Cardinality(LineEnds(s) \cap later)
      BY <1>5, <2>1, FS_Union
    <3>2. QED
      BY <2>1, <2>2, <3>1
<1>7. LinesOf(s \o t) = Cardinality(LineEnds(s \o t))
  BY <1>2, EndsCounted
<1>8. LinesOf(s) = Cardinality(LineEnds(s)) /\ LinesOf(t) = Cardinality(LineEnds(t))
  BY EndsCounted
<1>9. QED
  BY <1>3, <1>5, <1>6, <1>7, <1>8

(* A byte ends at most one line.                                           *)
LEMMA FewEnds ==
  /\ LinesOf(<<>>) = 0
  /\ \A x : LinesOf(<<x>>) \in {0, 1}
<1>1. LinesOf(<<>>) = 0
  <2>1. <<>> \in Seq({0}) /\ LineEnds(<<>>) = {}
    BY DEF LineEnds
  <2>2. QED
    BY <2>1, EndsCounted, FS_EmptySet
<1>2. ASSUME NEW x
      PROVE  LinesOf(<<x>>) \in {0, 1}
  <2>1. <<x>> \in Seq({x}) /\ LineEnds(<<x>>) \in {{}, {1}}
    BY DEF LineEnds
  <2>2. LinesOf(<<x>>) = Cardinality(LineEnds(<<x>>))
    BY <2>1, EndsCounted
  <2>3. Cardinality({}) = 0 /\ Cardinality({1}) = 1
    BY FS_EmptySet, FS_Singleton
  <2>4. QED
    BY <2>1, <2>2, <2>3
<1>3. QED
  BY <1>1, <1>2

(* find_ of http/28.c: never more than n lines, and n unless there are     *)
(* fewer.                                                                  *)
LEMMA FoundBytes ==
  ASSUME NEW S, NEW s \in Seq(S), NEW n \in Nat
  PROVE  /\ Pages!find_(s, n) \in 0 .. Len(s)
         /\ LinesOf(SubSeq(s, 1, Pages!find_(s, n))) <= n
         /\ \/ Pages!find_(s, n) = Len(s)
            \/ LinesOf(SubSeq(s, 1, Pages!find_(s, n))) = n
<1> DEFINE till(k) == LinesOf(SubSeq(s, 1, k))
           good == {k \in 0 .. Len(s) : k = Len(s) \/ till(k) = n}
           find == Pages!find_(s, n)
<1>1. Len(s) \in Nat
  OBVIOUS
<1>2. PICK first \in good : \A k \in good : first <= k
  <2>1. good \subseteq Nat /\ good # {}
    BY <1>1
  <2>2. QED
    BY <2>1, LeastNumber
<1>3. /\ find \in 0 .. Len(s)
      /\ find = Len(s) \/ till(find) = n
      /\ \A j \in 0 .. find - 1 : till(j) # n
  <2>1. /\ first \in 0 .. Len(s)
        /\ first = Len(s) \/ till(first) = n
        /\ \A j \in 0 .. first - 1 : till(j) # n
    BY <1>1, <1>2
  <2>2. QED
    BY <2>1 DEF Pages!find_, LinesOf
<1>4. \A j \in 0 .. Len(s) : SubSeq(s, 1, j) \in Seq(S) /\ till(j) \in Nat
  <2> TAKE j \in 0 .. Len(s)
  <2>1. SubSeq(s, 1, j) \in Seq(S)
    BY <1>1, SubSeqProperties, ElementOfSeq
  <2>2. QED
    BY <2>1, EndsCounted
<1>5. ASSUME NEW j \in 1 .. Len(s)
      PROVE  till(j) <= till(j - 1) + 1
  <2>1. SubSeq(s, 1, j) = SubSeq(s, 1, j - 1) \o <<s[j]>>
    BY <1>1, SubSeqRecursiveSecond
  <2>2. SubSeq(s, 1, j - 1) \in Seq(S) /\ <<s[j]>> \in Seq(S) /\ till(j - 1) \in Nat
    BY <1>1, <1>4, ElementOfSeq
  <2>3. till(j) = till(j - 1) + LinesOf(<<s[j]>>)
    BY <2>1, <2>2, EndsJoined
  <2>4. LinesOf(<<s[j]>>) \in {0, 1}
    BY FewEnds
  <2>5. QED
    BY <2>2, <2>3, <2>4
<1>6. till(0) = 0
  <2>1. SubSeq(s, 1, 0) = <<>>
    BY SubSeqEmpty
  <2>2. QED
    BY <2>1, FewEnds
<1> HIDE DEF find, till
<1>7. till(find) <= n
  <2> DEFINE beyond == {j \in 0 .. find : till(j) > n}
  <2>1. SUFFICES ASSUME till(find) > n
                 PROVE  FALSE
    <3>1. till(find) \in Nat
      BY <1>3, <1>4
    <3>2. QED
      BY <2>1, <3>1
  <2>2. PICK j \in beyond : \A k \in beyond : j <= k
    <3>1. find \in beyond /\ beyond \subseteq Nat
      BY <1>1, <1>3, <2>1
    <3>2. QED
      BY <3>1, LeastNumber
  <2>3. j # 0 /\ j \in 0 .. find /\ till(j) > n
    BY <1>6, <2>2
  <2>4. j \in 1 .. Len(s) /\ j - 1 \in 0 .. find - 1 /\ j - 1 \in 0 .. Len(s)
    BY <1>1, <1>3, <2>3
  <2>5. j - 1 \notin beyond
    BY <1>1, <2>2, <2>4
  <2>6. till(j - 1) \in Nat /\ till(j - 1) # n
    BY <1>3, <1>4, <2>4
  <2>7. till(j - 1) < n
    BY <1>3, <2>4, <2>5, <2>6
  <2>8. till(j) \in Nat /\ till(j) <= till(j - 1) + 1
    BY <1>4, <1>5, <2>4
  <2>9. QED
    BY <2>3, <2>6, <2>7, <2>8
<1>8. QED
  BY <1>3, <1>7 DEF find, till

(* The part of which nothing is left: NoPart of Pager.                     *)
NoBytes == [size |-> 0, limit |-> 0, w |-> 0, lines |-> 0]

(* What is so whatever goes wrong: nothing shown gets lost, and no more is *)
(* shown than fits into the buffer.                                        *)
PagesTyped ==
  /\ phase \in {"poll", "write", "done", "overrun"} /\ pager_end \in {0, 1}
  /\ in_buffer \in Seq(Pages!Char) /\ Len(in_buffer) <= IN_BUFFER_SIZE
  /\ written \in Nat /\ cnt_on_screen \in Nat
  /\ part \in [size : Nat, limit : Nat, w : Nat, lines : Nat]
  /\ shown_to_user \in Seq(Pages!Char) /\ Len(shown_to_user) = written + part.w
  /\ written + part.w <= IN_BUFFER_SIZE
  /\ part.w > 0 => phase # "poll" /\ written + part.w <= Len(in_buffer)
  /\ since \in 0 .. Len(shown_to_user)

(* What has been shown since the last key.                                 *)
OnScreen == SubSeq(shown_to_user, since + 1, Len(shown_to_user))
(* As long as nothing has gone wrong, what has been shown is the beginning *)
(* of what has been received; the lines of the screen are the ones         *)
(* counted; and a write_ has written nothing yet or all it is going to.    *)
PagesInStep ==
  /\ phase # "overrun"
  /\ written + part.w <= Len(in_buffer)
  /\ shown_to_user = SubSeq(in_buffer, 1, written + part.w)
  /\ cnt_on_screen + part.lines = LinesOf(OnScreen)
  /\ LinesOf(OnScreen) <= MAX_SCREEN_LINES
  /\ phase = "write" =>
       /\ part.size = Len(in_buffer) - written
       /\ part.limit = MAX_SCREEN_LINES - cnt_on_screen
       /\ part.lines = LinesOf(SubSeq(Pages!Pending, 1, part.w))
       /\ part.w = 0 \/ ~ Pages!HasMore
  /\ phase # "write" => part = NoBytes
  /\ phase = "done" => written = Len(in_buffer)
PagesInv == PagesTyped /\ (faults = {} => PagesInStep)

(* What PagerAssumption says of the constants.                             *)
LEMMA PagerBounds ==
  /\ IN_BUFFER_SIZE \in Nat /\ MAX_SCREEN_LINES \in Nat /\ MAX_SCREEN_LINES > 0
  /\ SizeRange \in Nat /\ SizeRange > IN_BUFFER_SIZE + MAX_SCREEN_LINES
  BY ConstantsAssumption DEF Pages!PagerAssumption

(* A size_t holds the numbers that the program means to put into one.      *)
LEMMA SizeKept ==
  /\ \A n \in Int : Pages!Unsigned(n) \in Nat
  /\ \A n \in 0 .. IN_BUFFER_SIZE + MAX_SCREEN_LINES : Pages!Unsigned(n) = n
<1>1. SizeRange \in Nat /\ SizeRange > 0
  BY PagerBounds
<1>2. \A n \in Int : n % SizeRange \in 0 .. SizeRange - 1
  BY <1>1
<1>3. \A n \in Int : 0 <= n /\ n < SizeRange => n % SizeRange = n
  BY <1>1
<1>4. QED
  BY <1>1, <1>2, <1>3, PagerBounds DEF Pages!Unsigned

(* Nothing received, nothing shown.                                        *)
LEMMA PagesInit == Pages!Init => PagesInv
<1> SUFFICES ASSUME Pages!Init PROVE PagesInv
  OBVIOUS
<1>1. PagesTyped
  BY PagerBounds DEF PagesTyped, Pages!Init, Pages!NoPart
<1>2. OnScreen = <<>> /\ SubSeq(in_buffer, 1, 0) = <<>>
  BY SubSeqEmpty DEF OnScreen, Pages!Init
<1>3. LinesOf(OnScreen) = 0
  BY <1>2, FewEnds
<1>4. PagesInStep
  BY <1>2, <1>3, PagerBounds DEF PagesInStep, Pages!Init, Pages!NoPart, NoBytes
<1>5. QED
  BY <1>1, <1>4 DEF PagesInv

(* A part of a text is a text.                                             *)
LEMMA PartOf ==
  ASSUME NEW S, NEW s \in Seq(S), NEW m \in Nat \ {0}, NEW n \in Int, n <= Len(s)
  PROVE  /\ SubSeq(s, m, n) \in Seq(S)
         /\ Len(SubSeq(s, m, n)) = IF m <= n THEN n - m + 1 ELSE 0
         /\ LinesOf(SubSeq(s, m, n)) \in Nat
<1>1. \A k \in m .. n : s[k] \in S
  BY ElementOfSeq
<1>2. SubSeq(s, m, n) \in Seq(S) /\ Len(SubSeq(s, m, n)) = IF m <= n THEN n - m + 1 ELSE 0
  BY <1>1, SubSeqProperties
<1>3. QED
  BY <1>2, EndsCounted

(* What is left to write: nothing once more was counted than received.     *)
LEMMA PendingBytes ==
  ASSUME PagesTyped
  PROVE  /\ Pages!Pending \in Seq(Pages!Char)
         /\ Len(Pages!Pending) = IF written <= Len(in_buffer) THEN Len(in_buffer) - written ELSE 0
<1>1. written \in Nat /\ in_buffer \in Seq(Pages!Char) /\ Len(in_buffer) \in Nat
  BY DEF PagesTyped
<1>2. QED
  BY <1>1, PartOf DEF Pages!Pending

-----------------------------------------------------------------------------
(* http/28.c:98-104: the bytes that come in follow those there are.        *)
LEMMA Received ==
  ASSUME PagesTyped, Pages!FromSocket
  PROVE  /\ in_buffer' \in Seq(Pages!Char) /\ Len(in_buffer') <= IN_BUFFER_SIZE
         /\ pager_end' \in {0, 1}
         /\ faults' = {} =>
              \E bytes \in Seq(Pages!Char) : in_buffer' = in_buffer \o bytes /\ faults = {}
<1>1. in_buffer \in Seq(Pages!Char) /\ Len(in_buffer) \in Nat
  BY DEF PagesTyped
<1>2. CASE Pages!ReadBytes
  <2>1. PICK bytes \in Pages!BoundedSeq(Pages!Char, Pages!Room) : in_buffer' = in_buffer \o bytes
    BY <1>2 DEF Pages!ReadBytes
  <2>2. PICK n \in 0 .. Pages!Room : bytes \in [1 .. n -> Pages!Char]
    BY <2>1 DEF Pages!BoundedSeq, Pages!SeqOf
  <2>3. n \in Nat /\ n <= IN_BUFFER_SIZE - Len(in_buffer)
    BY <1>1, <2>2, PagerBounds DEF Pages!Room
  <2>4. bytes \in Seq(Pages!Char) /\ Len(bytes) = n
    BY <2>2, <2>3
  <2>5. in_buffer' \in Seq(Pages!Char) /\ Len(in_buffer') = Len(in_buffer) + n
    BY <1>1, <2>1, <2>4, ConcatProperties
  <2>6. pager_end' = pager_end /\ faults' = faults
    BY <1>2 DEF Pages!ReadBytes
  <2>7. Len(in_buffer') <= IN_BUFFER_SIZE
    BY <1>1, <2>3, <2>5, PagerBounds
  <2>8. QED
    BY <2>1, <2>4, <2>5, <2>6, <2>7 DEF PagesTyped
<1>3. CASE Pages!ReadEnd
  <2>1. in_buffer' = in_buffer /\ faults' = faults /\ pager_end' = 1
    BY <1>3 DEF Pages!ReadEnd
  <2>2. in_buffer = in_buffer \o <<>> /\ <<>> \in Seq(Pages!Char)
    BY <1>1, ConcatEmptySeq
  <2>3. QED
    BY <2>1, <2>2 DEF PagesTyped
<1>4. CASE Pages!ReadFails
  <2>1. in_buffer' = SubSeq(in_buffer, 1, Len(in_buffer) - 1) /\ pager_end' = pager_end
        /\ faults' # {}
    BY <1>4 DEF Pages!ReadFails, Pages!Front
  <2>2. Len(in_buffer) - 1 \in Int /\ Len(in_buffer) - 1 <= Len(in_buffer)
    BY <1>1
  <2>3. in_buffer' \in Seq(Pages!Char) /\ Len(in_buffer') <= Len(in_buffer)
    BY <1>1, <2>1, <2>2, PartOf
  <2>4. Len(in_buffer') \in Nat
    BY <2>3
  <2>5. QED
    BY <1>1, <2>1, <2>3, <2>4, PagerBounds DEF PagesTyped
<1>5. QED
  BY <1>2, <1>3, <1>4 DEF Pages!FromSocket

(* http/28.c:106-110: a key begins a new screen.                           *)
LEMMA Screen ==
  ASSUME PagesTyped, Pages!SameScreen \/ Pages!NewScreen, shown_to_user' = shown_to_user
  PROVE  /\ cnt_on_screen' \in Nat /\ since' \in 0 .. Len(shown_to_user')
         /\ \/ cnt_on_screen' = cnt_on_screen /\ OnScreen' = OnScreen
            \/ cnt_on_screen' = 0 /\ OnScreen' = <<>>
<1>1. Len(shown_to_user) \in Nat
  BY DEF PagesTyped
<1>2. CASE Pages!SameScreen
  BY <1>2 DEF Pages!SameScreen, PagesTyped, OnScreen
<1>3. CASE Pages!NewScreen
  <2>1. cnt_on_screen' = 0 /\ since' = Len(shown_to_user)
    BY <1>3 DEF Pages!NewScreen
  <2>2. SubSeq(shown_to_user, Len(shown_to_user) + 1, Len(shown_to_user)) = <<>>
    BY <1>1, SubSeqEmpty
  <2>3. QED
    BY <1>1, <2>1, <2>2 DEF OnScreen
<1>4. QED
  BY <1>2, <1>3

(* http/28.c:91-117: write_ is entered with all that is pending and with   *)
(* the lines that are left.                                                *)
LEMMA RoundInv ==
  ASSUME PagesInv, Pages!Round
  PROVE  PagesInv'
<1>1. PagesTyped /\ phase = "poll" /\ Len(in_buffer) \in Nat
  BY DEF PagesInv, PagesTyped, Pages!Round, Pages!FromSocket
<1>2. /\ in_buffer' \in Seq(Pages!Char) /\ Len(in_buffer') <= IN_BUFFER_SIZE
      /\ pager_end' \in {0, 1}
      /\ faults' = {} =>
           \E bytes \in Seq(Pages!Char) : in_buffer' = in_buffer \o bytes /\ faults = {}
  <2>1. CASE Pages!FromSocket
    BY <1>1, <2>1, Received
  <2>2. CASE Pages!NoRead
    <3>1. in_buffer = in_buffer \o <<>> /\ <<>> \in Seq(Pages!Char)
      BY <1>1, ConcatEmptySeq DEF PagesTyped
    <3>2. QED
      BY <1>1, <2>2, <3>1 DEF Pages!NoRead, PagesTyped
  <2>3. QED
    BY <2>1, <2>2 DEF Pages!Round
<1>3. /\ phase' = "write" /\ written' = written /\ shown_to_user' = shown_to_user
      /\ part' = [NoBytes EXCEPT !.size = Pages!Unsigned(Len(in_buffer') - written),
                                 !.limit = Pages!Unsigned(MAX_SCREEN_LINES - cnt_on_screen')]
  BY DEF Pages!Round, Pages!BeginWrite, Pages!NoPart, NoBytes
<1>4. /\ cnt_on_screen' \in Nat /\ since' \in 0 .. Len(shown_to_user')
      /\ \/ cnt_on_screen' = cnt_on_screen /\ OnScreen' = OnScreen
         \/ cnt_on_screen' = 0 /\ OnScreen' = <<>>
  BY <1>1, <1>3, Screen DEF Pages!Round
<1>5. Len(in_buffer') \in Nat /\ written \in Nat /\ part.w = 0
      /\ Len(shown_to_user) = written + part.w /\ written + part.w <= IN_BUFFER_SIZE
  <2>1. part.w \in Nat
    BY <1>1 DEF PagesTyped
  <2>2. QED
    BY <1>1, <1>2, <2>1 DEF PagesTyped
<1>6. PICK size, limit : size = Len(in_buffer') - written
                         /\ limit = MAX_SCREEN_LINES - cnt_on_screen'
  OBVIOUS
<1>7. size \in Int /\ limit \in Int
  BY <1>4, <1>5, <1>6, PagerBounds
<1>8. /\ part' \in [size : Nat, limit : Nat, w : Nat, lines : Nat]
      /\ part'.w = 0 /\ part'.lines = 0
      /\ part'.size = Pages!Unsigned(size) /\ part'.limit = Pages!Unsigned(limit)
  BY <1>3, <1>6, <1>7, SizeKept DEF NoBytes
<1>9. PagesTyped'
  BY <1>1, <1>2, <1>3, <1>4, <1>5, <1>8 DEF PagesTyped
<1>10. ASSUME faults' = {}
       PROVE  PagesInStep'
  <2>1. PICK bytes \in Seq(Pages!Char) : in_buffer' = in_buffer \o bytes /\ faults = {}
    BY <1>2, <1>10
  <2>2. PagesInStep
    BY <2>1 DEF PagesInv
  <2>3. /\ written <= Len(in_buffer) /\ shown_to_user = SubSeq(in_buffer, 1, written)
        /\ part = NoBytes /\ cnt_on_screen = LinesOf(OnScreen)
        /\ LinesOf(OnScreen) <= MAX_SCREEN_LINES
    BY <1>1, <1>5, <2>2 DEF PagesInStep, NoBytes, PagesTyped
  <2>4. Len(in_buffer') = Len(in_buffer) + Len(bytes) /\ Len(bytes) \in Nat
    BY <1>1, <2>1, ConcatProperties DEF PagesTyped
  <2>5. SubSeq(in_buffer', 1, written) = SubSeq(in_buffer, 1, written)
    <3>1. CASE written = 0
      BY <3>1, SubSeqEmpty
    <3>2. CASE written # 0
      BY <1>1, <1>5, <2>1, <2>3, <3>2, SubSeqOfConcat1 DEF PagesTyped
    <3>3. QED
      BY <3>1, <3>2
  <2>6. cnt_on_screen' = LinesOf(OnScreen') /\ LinesOf(OnScreen') <= MAX_SCREEN_LINES
    BY <1>4, <2>3, FewEnds, PagerBounds
  <2>7. size \in 0 .. IN_BUFFER_SIZE /\ limit \in 0 .. MAX_SCREEN_LINES
    BY <1>1, <1>2, <1>4, <1>5, <1>6, <2>3, <2>4, <2>6, PagerBounds
  <2>8. part'.size = size /\ part'.limit = limit
    BY <1>8, <2>7, SizeKept, PagerBounds
  <2>9. SubSeq(Pages!Pending', 1, 0) = <<>>
    BY SubSeqEmpty
  <2>10. part'.lines = LinesOf(SubSeq(Pages!Pending', 1, part'.w))
    BY <1>8, <2>9, FewEnds
  <2>11. written' + part'.w <= Len(in_buffer') /\ written' + part'.w = written
         /\ cnt_on_screen' + part'.lines = cnt_on_screen'
    BY <1>1, <1>3, <1>4, <1>5, <1>8, <2>3, <2>4
  <2>12. LinesOf(OnScreen)' = LinesOf(OnScreen')
         /\ LinesOf(SubSeq(Pages!Pending, 1, part.w))' = LinesOf(SubSeq(Pages!Pending', 1, part'.w))
    BY DEF LinesOf
  <2>13. QED
    BY <1>3, <1>6, <1>8, <2>3, <2>5, <2>6, <2>8, <2>10, <2>11, <2>12 DEF PagesInStep
<1>11. QED
  BY <1>9, <1>10 DEF PagesInv

(* A turn of the loop of write_ that writes.                               *)
LEMMA WriteInv ==
  ASSUME PagesInv, Pages!Write
  PROVE  PagesInv'
<1>1. PagesTyped /\ phase = "write" /\ Pages!HasMore
  BY DEF PagesInv, Pages!Write
<1>2. UNCHANGED <<phase, in_buffer, written, cnt_on_screen, pager_end, since>>
  BY DEF Pages!Write
<1>3. PICK pending, more : pending = Pages!Pending /\ more = Pages!ToWrite
  OBVIOUS
<1>4. PICK size, limit, w, seen \in Nat :
        part = [size |-> size, limit |-> limit, w |-> w, lines |-> seen]
  BY <1>1 DEF PagesTyped
<1>5. /\ part \in [size : Nat, limit : Nat, w : Nat, lines : Nat]
      /\ part.size = size /\ part.limit = limit /\ part.w = w /\ part.lines = seen
      /\ written \in Nat /\ Len(in_buffer) \in Nat
  BY <1>1, <1>4 DEF PagesTyped
<1>6. /\ pending \in Seq(Pages!Char) /\ Len(pending) \in Nat
      /\ Len(pending) = IF written <= Len(in_buffer) THEN Len(in_buffer) - written ELSE 0
  BY <1>1, <1>3, PendingBytes, <1>5
<1>7. w < size /\ seen < limit /\ limit - seen \in Nat
  BY <1>1, <1>5 DEF Pages!HasMore
<1>8. /\ more \in 0 .. Len(pending) /\ LinesOf(SubSeq(pending, 1, more)) <= limit - seen
      /\ \/ more = Len(pending)
         \/ LinesOf(SubSeq(pending, 1, more)) = limit - seen
  <2>1. more = Pages!find_(pending, limit - seen)
    BY <1>3, <1>5 DEF Pages!ToWrite
  <2>2. QED
    BY <1>6, <1>7, <2>1, FoundBytes
<1>9. size <= Len(pending) /\ w + more <= size /\ more \in Nat
  <2>1. ~ (size > Len(pending)) /\ ~ (w + more > size)
    BY <1>3, <1>5 DEF Pages!Write, Pages!Beyond
  <2>2. QED
    BY <1>5, <1>6, <1>8, <2>1
<1>10. PICK cnt, bytes :
         /\ cnt \in 1 .. more
         /\ bytes = SubSeq(pending, w + 1, w + cnt)
         /\ shown_to_user' = shown_to_user \o bytes
         /\ part' = [part EXCEPT !.w = w + cnt, !.lines = seen + LinesOf(bytes)]
         /\ faults' = {} => cnt = more /\ faults = {}
  <2>1. PICK cnt \in 1 .. more :
          /\ shown_to_user' = shown_to_user \o SubSeq(pending, w + 1, w + cnt)
          /\ part' = [part EXCEPT !.w = w + cnt,
                                  !.lines = seen + LinesOf(SubSeq(pending, w + 1, w + cnt))]
          /\ faults' = IF cnt < more THEN faults \cup {"short write"} ELSE faults
    BY <1>3, <1>5 DEF Pages!Write, LinesOf
  <2>2. faults' = {} => cnt = more /\ faults = {}
    <3>1. cnt \in Nat /\ (~ (cnt < more) => cnt = more)
      BY <1>9
    <3>2. "short write" \in faults \cup {"short write"}
      OBVIOUS
    <3>3. QED
      BY <2>1, <3>1, <3>2
  <2>3. QED
    BY <2>1, <2>2
<1>11. cnt \in Nat /\ cnt > 0 /\ cnt <= more /\ w + cnt <= Len(pending)
  <2>1. cnt \in 1 .. more
    BY <1>10
  <2>2. Len(pending) \in Nat
    BY <1>6
  <2>3. QED
    BY <1>9, <2>1, <2>2
<1>12. bytes \in Seq(Pages!Char) /\ Len(bytes) = cnt /\ LinesOf(bytes) \in Nat
  <2>1. /\ w + 1 \in Nat \ {0} /\ w + cnt \in Int /\ w + 1 <= w + cnt
        /\ w + cnt - (w + 1) + 1 = cnt
    BY <1>5, <1>11
  <2>2. bytes = SubSeq(pending, w + 1, w + cnt)
    BY <1>10
  <2>3. QED
    BY <1>6, <1>11, <2>1, <2>2, PartOf
<1>13. /\ part' \in [size : Nat, limit : Nat, w : Nat, lines : Nat]
       /\ part'.w = w + cnt /\ part'.lines = seen + LinesOf(bytes)
       /\ part'.size = size /\ part'.limit = limit
  <2>1. w + cnt \in Nat /\ seen + LinesOf(bytes) \in Nat
    BY <1>5, <1>11, <1>12
  <2>2. QED
    BY <1>5, <1>10, <2>1
<1>14. PICK old, new : old = shown_to_user /\ new = shown_to_user'
  OBVIOUS
<1>15. /\ old \in Seq(Pages!Char) /\ Len(old) \in Nat
       /\ Len(old) = written + w /\ since \in 0 .. Len(old)
  BY <1>1, <1>5, <1>14 DEF PagesTyped
<1>16. /\ new = old \o bytes /\ new \in Seq(Pages!Char)
       /\ Len(new) = Len(old) + cnt /\ Len(new) = written + (w + cnt)
  <2>1. new = old \o bytes
    BY <1>10, <1>14
  <2>2. new \in Seq(Pages!Char) /\ Len(new) = Len(old) + Len(bytes)
    BY <1>12, <1>15, <2>1, ConcatProperties
  <2>3. QED
    BY <1>5, <1>11, <1>12, <1>15, <2>1, <2>2
<1>17. written + (w + cnt) <= Len(in_buffer) /\ Len(in_buffer) <= IN_BUFFER_SIZE
       /\ written + (w + cnt) <= IN_BUFFER_SIZE
  <2>1. Len(in_buffer) <= IN_BUFFER_SIZE
    BY <1>1 DEF PagesTyped
  <2>2. QED
    BY <1>5, <1>6, <1>11, <2>1, PagerBounds
<1>18. PagesTyped'
  <2>1. since \in 0 .. Len(new)
    BY <1>5, <1>11, <1>15, <1>16
  <2>2. QED
    BY <1>1, <1>2, <1>13, <1>14, <1>16, <1>17, <2>1 DEF PagesTyped
<1>19. ASSUME faults' = {}
       PROVE  PagesInStep'
  <2>1. PagesInStep /\ cnt = more
    BY <1>10, <1>19 DEF PagesInv
  <2>2. /\ w = 0 /\ size = Len(in_buffer) - written
        /\ limit = MAX_SCREEN_LINES - cnt_on_screen
        /\ seen = LinesOf(SubSeq(pending, 1, 0))
        /\ written <= Len(in_buffer) /\ old = SubSeq(in_buffer, 1, written)
        /\ cnt_on_screen + seen = LinesOf(OnScreen)
        /\ LinesOf(OnScreen) <= MAX_SCREEN_LINES
    <3>1. part.w = 0
      BY <1>1, <2>1 DEF PagesInStep
    <3>2. written + w = written
      BY <1>5, <3>1
    <3>3. QED
      BY <1>1, <1>3, <1>5, <1>14, <2>1, <3>1, <3>2 DEF PagesInStep
  <2>3. seen = 0
    <3>1. SubSeq(pending, 1, 0) = <<>>
      BY SubSeqEmpty
    <3>2. QED
      BY <2>2, <3>1, FewEnds
  <2>4. bytes = SubSeq(pending, 1, cnt) /\ part'.w = cnt
    BY <1>10, <1>11, <1>13, <2>2
  <2>5. cnt \in 1 .. Len(pending) /\ Len(pending) = Len(in_buffer) - written
        /\ size = Len(pending)
    BY <1>5, <1>6, <1>11, <2>2
  <2>6. bytes = SubSeq(in_buffer, written + 1, written + cnt)
    <3>1. in_buffer \in Seq(Pages!Char)
      BY <1>1 DEF PagesTyped
    <3>2. /\ written + 1 \in 1 .. Len(in_buffer) /\ Len(in_buffer) \in 1 .. Len(in_buffer)
          /\ 1 \in 1 .. Len(in_buffer) - (written + 1) + 1
          /\ cnt \in 1 .. Len(in_buffer) - (written + 1) + 1
          /\ (written + 1) + 1 - 1 = written + 1 /\ (written + 1) + cnt - 1 = written + cnt
      BY <1>5, <1>11, <2>5
    <3>3. SubSeq(SubSeq(in_buffer, written + 1, Len(in_buffer)), 1, cnt)
            = SubSeq(in_buffer, (written + 1) + 1 - 1, (written + 1) + cnt - 1)
      BY <3>1, <3>2, SubSeqOfSubSeq
    <3>4. QED
      BY <1>3, <2>4, <3>2, <3>3 DEF Pages!Pending
  <2>7. new = SubSeq(in_buffer, 1, written + cnt)
    <3>1. in_buffer \in Seq(Pages!Char)
      BY <1>1 DEF PagesTyped
    <3>2. /\ 1 \in 1 .. Len(in_buffer) + 1 /\ written \in 1 - 1 .. Len(in_buffer)
          /\ written + cnt \in written .. Len(in_buffer)
      BY <1>5, <1>11, <2>5
    <3>3. SubSeq(in_buffer, 1, written) \o SubSeq(in_buffer, written + 1, written + cnt)
            = SubSeq(in_buffer, 1, written + cnt)
      BY <3>1, <3>2, ConcatAdjacentSubSeq
    <3>4. QED
      BY <1>16, <2>2, <2>6, <3>3
  <2>8. OnScreen' = OnScreen \o bytes /\ OnScreen \in Seq(Pages!Char)
    <3>1. SubSeq(new, since + 1, Len(old)) = SubSeq(old, since + 1, Len(old))
      <4>1. CASE since = Len(old)
        <5>1. Len(old) < since + 1
          BY <1>15, <4>1
        <5>2. QED
          BY <1>15, <5>1, SubSeqEmpty
      <4>2. CASE since < Len(old)
        <5>1. since + 1 \in 1 .. Len(old) /\ Len(old) \in 1 .. Len(old)
          BY <1>15, <4>2
        <5>2. QED
          BY <1>12, <1>15, <1>16, <5>1, SubSeqOfConcat1
      <4>3. QED
        BY <1>15, <4>1, <4>2
    <3>2. SubSeq(new, Len(old) + 1, Len(new)) = bytes
      <4>1. /\ Len(old) + 1 \in Len(old) + 1 .. Len(old) + Len(bytes)
            /\ Len(new) \in Len(old) + 1 .. Len(old) + Len(bytes)
            /\ Len(old) + 1 - Len(old) = 1 /\ Len(new) - Len(old) = Len(bytes)
        BY <1>11, <1>12, <1>15, <1>16
      <4>2. SubSeq(old \o bytes, Len(old) + 1, Len(new))
              = SubSeq(bytes, Len(old) + 1 - Len(old), Len(new) - Len(old))
        <5>1. old \in Seq(Pages!Char) /\ bytes \in Seq(Pages!Char)
          BY <1>12, <1>15
        <5>2. QED
          BY <4>1, <5>1, SubSeqOfConcat2
      <4>3. QED
        BY <1>12, <1>16, <4>1, <4>2, SubSeqFull
    <3>3. SubSeq(new, since + 1, Len(old)) \o SubSeq(new, Len(old) + 1, Len(new))
            = SubSeq(new, since + 1, Len(new))
      <4>1. PICK m, k, n : m = since + 1 /\ k = Len(old) /\ n = Len(new)
        OBVIOUS
      <4>2. m \in 1 .. Len(new) + 1 /\ k \in m - 1 .. Len(new) /\ n \in k .. Len(new)
        BY <1>11, <1>15, <1>16, <4>1
      <4>3. new \in Seq(Pages!Char)
        BY <1>16
      <4>4. SubSeq(new, m, k) \o SubSeq(new, k + 1, n) = SubSeq(new, m, n)
        BY <4>2, <4>3, ConcatAdjacentSubSeq
      <4>5. QED
        BY <4>1, <4>4
    <3>4. OnScreen' = SubSeq(new, since + 1, Len(new))
          /\ OnScreen = SubSeq(old, since + 1, Len(old))
      BY <1>2, <1>14 DEF OnScreen
    <3>5. since + 1 \in Nat \ {0} /\ Len(old) \in Int /\ Len(old) <= Len(old)
      BY <1>15
    <3>6. OnScreen \in Seq(Pages!Char)
      BY <1>15, <3>4, <3>5, PartOf
    <3>7. QED
      BY <3>1, <3>2, <3>3, <3>4, <3>6
  <2>9. LinesOf(OnScreen') = LinesOf(OnScreen) + LinesOf(bytes)
        /\ LinesOf(OnScreen) \in Nat
    BY <1>12, <2>8, EndsJoined, EndsCounted
  <2>10. part'.lines = LinesOf(bytes) /\ LinesOf(bytes) <= limit
         /\ \/ cnt = Len(pending)
            \/ LinesOf(bytes) = limit
    <3>1. limit - seen = limit /\ seen + LinesOf(bytes) = LinesOf(bytes)
      BY <1>5, <1>12, <2>3
    <3>2. QED
      BY <1>8, <1>13, <2>1, <2>4, <3>1
  <2>11. cnt_on_screen + part'.lines = LinesOf(OnScreen')
         /\ LinesOf(OnScreen') <= MAX_SCREEN_LINES
    <3>1. cnt_on_screen \in Nat
      BY <1>1 DEF PagesTyped
    <3>2. QED
      BY <1>12, <2>2, <2>3, <2>9, <2>10, <3>1, PagerBounds
  <2>12. Pages!Pending' = pending
    BY <1>2, <1>3 DEF Pages!Pending
  <2>13. LinesOf(SubSeq(Pages!Pending', 1, part'.w)) = LinesOf(bytes)
    BY <2>4, <2>12
  <2>14. ~ Pages!HasMore'
    <3>1. ~ (part'.w < part'.size /\ part'.lines < part'.limit)
      BY <1>5, <1>11, <1>12, <1>13, <2>4, <2>5, <2>10
    <3>2. QED
      BY <3>1 DEF Pages!HasMore
  <2>15. LinesOf(OnScreen)' = LinesOf(OnScreen')
         /\ LinesOf(SubSeq(Pages!Pending, 1, part.w))' = LinesOf(SubSeq(Pages!Pending', 1, part'.w))
    BY DEF LinesOf
  <2>16. written + part'.w <= Len(in_buffer) /\ written + part'.w = written + cnt
    BY <1>13, <1>17, <2>4
  <2>17. QED
    BY <1>1, <1>2, <1>5, <1>13, <1>14, <2>2, <2>7, <2>10, <2>11, <2>13, <2>14, <2>15, <2>16
    DEF PagesInStep
<1>20. QED
  BY <1>18, <1>19 DEF PagesInv

(* Only after a short write does a turn reach beyond its buffer.           *)
LEMMA OverrunInv ==
  ASSUME PagesInv, Pages!Overrun
  PROVE  PagesInv'
<1>1. PagesTyped /\ phase = "write" /\ Pages!HasMore /\ Pages!Beyond /\ phase' = "overrun"
  BY DEF PagesInv, Pages!Overrun
<1>2. UNCHANGED <<in_buffer, written, cnt_on_screen, pager_end, part, shown_to_user, since, faults>>
  BY DEF Pages!Overrun
<1>3. PagesTyped'
  BY <1>1, <1>2 DEF PagesTyped
<1>4. faults # {}
  <2>1. SUFFICES ASSUME PagesInStep PROVE FALSE
    BY DEF PagesInv
  <2>2. PICK pending : pending = Pages!Pending
    OBVIOUS
  <2>3. part.w = 0 /\ part.size = Len(in_buffer) - written /\ written <= Len(in_buffer)
    <3>1. part.w \in Nat /\ written \in Nat
      BY <1>1 DEF PagesTyped
    <3>2. QED
      BY <1>1, <2>1, <3>1 DEF PagesInStep
  <2>4. /\ pending \in Seq(Pages!Char) /\ Len(pending) \in Nat /\ Len(pending) = part.size
    BY <1>1, <2>2, <2>3, PendingBytes
  <2>5. part.limit - part.lines \in Nat
    BY <1>1 DEF Pages!HasMore, PagesTyped
  <2>6. Pages!ToWrite \in 0 .. Len(pending)
    BY <2>2, <2>4, <2>5, FoundBytes DEF Pages!ToWrite
  <2>7. ~ Pages!Beyond
    BY <2>2, <2>3, <2>4, <2>6 DEF Pages!Beyond
  <2>8. QED
    BY <1>1, <2>7
<1>5. QED
  BY <1>2, <1>3, <1>4 DEF PagesInv

(* write_ returns, and its lines are counted.                              *)
LEMMA EndWriteInv ==
  ASSUME PagesInv, Pages!EndWrite
  PROVE  PagesInv'
<1>1. PagesTyped /\ phase = "write" /\ phase' = "poll" /\ part' = NoBytes
      /\ written' = written + part.w /\ cnt_on_screen' = cnt_on_screen + Pages!LinesWritten
      /\ UNCHANGED <<in_buffer, pager_end, shown_to_user, since, faults>>
  BY DEF PagesInv, Pages!EndWrite, NoBytes, Pages!NoPart
<1>2. /\ part.w \in Nat /\ written \in Nat /\ cnt_on_screen \in Nat
      /\ Len(in_buffer) \in Nat /\ Len(shown_to_user) = written + part.w
      /\ written + part.w <= IN_BUFFER_SIZE
      /\ part.w > 0 => written + part.w <= Len(in_buffer)
  BY <1>1 DEF PagesTyped
<1>3. part'.w = 0 /\ part'.lines = 0 /\ part' \in [size : Nat, limit : Nat, w : Nat, lines : Nat]
  BY <1>1 DEF NoBytes
<1>4. Pages!LinesWritten = LinesOf(SubSeq(Pages!Pending, 1, part.w)) /\ Pages!LinesWritten \in Nat
  <2>1. PICK pending : pending = Pages!Pending
    OBVIOUS
  <2>2. /\ pending \in Seq(Pages!Char) /\ Len(pending) \in Nat
        /\ Len(pending) = IF written <= Len(in_buffer) THEN Len(in_buffer) - written ELSE 0
    BY <1>1, <2>1, PendingBytes
  <2>3. part.w <= Len(pending)
    BY <1>2, <2>2
  <2>4. LinesOf(SubSeq(pending, 1, part.w)) \in Nat
    BY <1>2, <2>2, <2>3, PartOf
  <2>5. QED
    BY <2>1, <2>4 DEF Pages!LinesWritten, LinesOf
<1>5. written' \in Nat /\ cnt_on_screen' \in Nat /\ written' + part'.w = written + part.w
  BY <1>1, <1>2, <1>3, <1>4
<1>6. PagesTyped'
  BY <1>1, <1>2, <1>3, <1>5 DEF PagesTyped
<1>7. ASSUME faults' = {}
      PROVE  PagesInStep'
  <2>1. PagesInStep
    BY <1>1, <1>7 DEF PagesInv
  <2>2. part.lines = Pages!LinesWritten
    BY <1>1, <1>4, <2>1 DEF PagesInStep
  <2>3. cnt_on_screen' + part'.lines = cnt_on_screen + part.lines
    BY <1>1, <1>2, <1>3, <1>4, <2>2
  <2>4. OnScreen' = OnScreen /\ LinesOf(OnScreen)' = LinesOf(OnScreen')
    BY <1>1 DEF OnScreen, LinesOf
  <2>5. QED
    BY <1>1, <1>5, <2>1, <2>3, <2>4 DEF PagesInStep
<1>8. QED
  BY <1>6, <1>7 DEF PagesInv

(* The main loop ends, or its first read fails.                            *)
LEMMA MainLoopEndsInv ==
  ASSUME PagesInv, Pages!End \/ Pages!ReadFailsFirst
  PROVE  PagesInv'
<1>1. /\ PagesTyped /\ phase = "poll" /\ phase' \in {"done", "overrun"}
      /\ UNCHANGED <<in_buffer, written, cnt_on_screen, pager_end, part, shown_to_user, since>>
      /\ faults' = {} => /\ faults = {} /\ phase' = "done"
                         /\ written = Len(in_buffer)
  BY DEF PagesInv, Pages!End, Pages!ReadFailsFirst, Pages!Continues
<1>2. PagesTyped'
  BY <1>1 DEF PagesTyped
<1>3. ASSUME faults' = {}
      PROVE  PagesInStep'
  <2>1. PagesInStep
    BY <1>1, <1>3 DEF PagesInv
  <2>2. OnScreen' = OnScreen /\ LinesOf(OnScreen)' = LinesOf(OnScreen')
    BY <1>1 DEF OnScreen, LinesOf
  <2>3. QED
    BY <1>1, <1>3, <2>1, <2>2 DEF PagesInStep
<1>4. QED
  BY <1>2, <1>3 DEF PagesInv

(* The other programs of MCExercises leave the variables alone.            *)
LEMMA PagesStep ==
  ASSUME PagesInv, Pages!Next \/ UNCHANGED pages
  PROVE  PagesInv'
<1>1. CASE UNCHANGED pages
  <2>1. UNCHANGED <<phase, in_buffer, written, cnt_on_screen, pager_end, part, shown_to_user,
                    since, faults>>
    BY <1>1 DEF pages
  <2>2. PagesTyped' = PagesTyped
    BY <2>1 DEF PagesTyped
  <2>3. PagesInStep' = PagesInStep
    BY <2>1 DEF PagesInStep, OnScreen, LinesOf, Pages!Pending, Pages!HasMore
  <2>4. QED
    BY <2>1, <2>2, <2>3 DEF PagesInv
<1>2. CASE Pages!Next
  BY <1>2, RoundInv, WriteInv, OverrunInv, EndWriteInv, MainLoopEndsInv DEF Pages!Next
<1>3. QED
  BY <1>1, <1>2

(* What the invariant says of the terminal.                                *)
LEMMA PagesShown == PagesInv => PagedFaithfully
<1> SUFFICES ASSUME PagesInv PROVE PagedFaithfully
  OBVIOUS
<1>1. PagesTyped /\ Len(in_buffer) \in Nat /\ written \in Nat /\ part.w \in Nat
  BY DEF PagesInv, PagesTyped
<1>2. Pages!TypeOK
  <2>1. in_buffer \in Pages!BoundedSeq(Pages!Char, IN_BUFFER_SIZE)
    <3>1. in_buffer \in [1 .. Len(in_buffer) -> Pages!Char]
         /\ Len(in_buffer) \in 0 .. IN_BUFFER_SIZE
      BY <1>1, PagerBounds DEF PagesTyped
    <3>2. QED
      BY <3>1 DEF Pages!BoundedSeq, Pages!SeqOf
  <2>2. written \in 0 .. IN_BUFFER_SIZE /\ Len(shown_to_user) <= IN_BUFFER_SIZE
    BY <1>1, PagerBounds DEF PagesTyped
  <2>3. QED
    BY <1>1, <2>1, <2>2 DEF Pages!TypeOK, PagesTyped
<1>3. ASSUME faults = {}
      PROVE  /\ phase # "overrun"
             /\ Pages!IsPrefix(shown_to_user, in_buffer)
             /\ Pages!count_of_lines(SubSeq(shown_to_user, since + 1, Len(shown_to_user)))
                  <= MAX_SCREEN_LINES
             /\ phase = "done" => shown_to_user = in_buffer
  <2>1. PagesInStep
    BY <1>3 DEF PagesInv
  <2>2. PICK n \in Nat : n = written + part.w
    BY <1>1
  <2>3. n <= Len(in_buffer) /\ shown_to_user = SubSeq(in_buffer, 1, n) /\ Len(shown_to_user) = n
    BY <1>1, <2>1, <2>2 DEF PagesInStep, PagesTyped
  <2>4. shown_to_user \in Seq(Pages!Char) /\ in_buffer \in Seq(Pages!Char)
    BY <1>1 DEF PagesTyped
  <2>5. Pages!IsPrefix(shown_to_user, in_buffer)
    BY <2>3, <2>4, SubSeqFull DEF Pages!IsPrefix
  <2>6. ASSUME phase = "done" PROVE shown_to_user = in_buffer
    <3>1. n = Len(in_buffer)
      BY <1>1, <2>1, <2>2, <2>6 DEF PagesInStep, NoBytes
    <3>2. QED
      BY <2>3, <2>4, <3>1, SubSeqFull
  <2>7. Pages!count_of_lines(SubSeq(shown_to_user, since + 1, Len(shown_to_user)))
          <= MAX_SCREEN_LINES
    BY <2>1 DEF PagesInStep, OnScreen, LinesOf
  <2>8. QED
    BY <2>1, <2>5, <2>6, <2>7 DEF PagesInStep
<1>4. QED
  BY <1>2, <1>3 DEF PagedFaithfully, Pages!PagedFaithfully

(* The program of http/28.c, of any buffer and any screen: as long as no   *)
(* read fails and no write is short, the terminal has what was received,   *)
(* in order and once, no more lines of it than fit on the screen since the *)
(* last key, and all of it when the program ends.                          *)
THEOREM ShownPageByPage == FairSpec => []PagedFaithfully
<1>1. MCInit => PagesInv
  BY PagesInit DEF MCInit
<1>2. PagesInv /\ [MCNext]_vars => PagesInv'
  <2>1. ASSUME [MCNext]_vars PROVE Pages!Next \/ UNCHANGED pages
    BY <2>1 DEF MCNext, PingPongRuns, ListRuns, SeriesRuns, PagesRun, LockedRuns, StoresRun,
                vars, exercises, rest
  <2>2. QED
    BY <2>1, PagesStep
<1>3. QED
  BY <1>1, <1>2, PagesShown, PTL DEF FairSpec

-----------------------------------------------------------------------------
(***************************************************************************)
(* Containers: what the buffers and the map give back, for any number and  *)
(* kind of requests, responses and bytes.                                  *)
(***************************************************************************)
(* The capacities a vector that grows goes through, each twice the last    *)
(* one and one more: Alloc2 chooses such a function, so there has to be    *)
(* one.                                                                    *)
Capacities(f, c, n) == f = [k \in 0 .. n |-> IF k = 0 THEN c ELSE Stores!Doubled(f[k - 1])]

(* There is such a function of any length.                                 *)
LEMMA CapacitiesExist ==
  ASSUME NEW c \in Nat, NEW n \in Nat
  PROVE  \E f : Capacities(f, c, n)
<1> DEFINE missing == {m \in Nat : ~ \E f : Capacities(f, c, m)}
<1>1. SUFFICES ASSUME missing # {}
               PROVE  FALSE
  OBVIOUS
<1>2. PICK m \in missing : \A k \in missing : m <= k
  <2>1. missing \subseteq Nat
    OBVIOUS
  <2>2. QED
    BY <1>1, <2>1, LeastNumber
<1>3. CASE m = 0
  <2> DEFINE g == [k \in 0 .. m |-> c]
  <2>1. Capacities(g, c, m)
    BY <1>3 DEF Capacities
  <2>2. QED
    BY <1>2, <2>1
<1>4. CASE m # 0
  <2>1. m \in Nat /\ m > 0 /\ m - 1 \in Nat /\ m - 1 \notin missing
    BY <1>2, <1>4
  <2>2. PICK f : Capacities(f, c, m - 1)
    BY <2>1
  <2> DEFINE g == [k \in 0 .. m |-> IF k = m THEN Stores!Doubled(f[m - 1]) ELSE f[k]]
  <2>3. \A k \in 0 .. m : g[k] = IF k = 0 THEN c ELSE Stores!Doubled(g[k - 1])
    <3> TAKE k \in 0 .. m
    <3>1. CASE k = m
      <4>1. g[k - 1] = f[m - 1]
        BY <2>1, <3>1
      <4>2. QED
        BY <2>1, <3>1, <4>1
    <3>2. CASE k # m
      <4>1. k \in 0 .. m - 1 /\ g[k] = f[k] /\ (k # 0 => k - 1 \in 0 .. m /\ k - 1 # m)
        BY <2>1, <3>2
      <4>2. f[k] = IF k = 0 THEN c ELSE Stores!Doubled(f[k - 1])
        BY <2>2, <4>1 DEF Capacities
      <4>3. k # 0 => g[k - 1] = f[k - 1]
        BY <4>1
      <4>4. QED
        BY <4>1, <4>2, <4>3
    <3>3. QED
      BY <3>1, <3>2
  <2>4. Capacities(g, c, m)
    <3> HIDE DEF g
    <3>1. g = [k \in 0 .. m |-> g[k]]
      BY DEF g
    <3>2. QED
      BY <2>3, <3>1 DEF Capacities
  <2>5. QED
    BY <1>2, <2>4
<1>5. QED
  BY <1>3, <1>4

(* A capacity is greater than the one before.                              *)
LEMMA CapacitiesGrow ==
  ASSUME NEW c \in Nat, NEW n \in Nat, NEW f, Capacities(f, c, n), NEW k \in 0 .. n
  PROVE  f[k] \in Nat /\ f[k] >= c + k
<1> DEFINE small == {m \in 0 .. n : ~ (f[m] \in Nat /\ f[m] >= c + m)}
<1>1. SUFFICES ASSUME small # {}
               PROVE  FALSE
  OBVIOUS
<1>2. PICK m \in small : \A j \in small : m <= j
  <2>1. small \subseteq Nat
    OBVIOUS
  <2>2. QED
    BY <1>1, <2>1, LeastNumber
<1>3. m # 0
  <2>1. f[0] = c
    BY DEF Capacities
  <2>2. QED
    BY <1>2, <2>1
<1>4. m \in 0 .. n /\ m - 1 \in 0 .. n /\ m - 1 \notin small
  BY <1>2, <1>3
<1>5. f[m - 1] \in Nat /\ f[m - 1] >= c + (m - 1)
  BY <1>4
<1>6. f[m] = f[m - 1] * 2 + 1
  BY <1>3, <1>4 DEF Capacities, Stores!Doubled
<1>7. f[m] \in Nat /\ f[m] >= c + m
  BY <1>4, <1>5, <1>6
<1>8. QED
  BY <1>2, <1>7

(* A vector of these cells, with no more elements than it has cells.       *)
IsVector(v, Cell) ==
  /\ v = [ptr |-> v.ptr, cnt |-> v.cnt, capacity |-> v.capacity]
  /\ v.cnt \in Nat /\ v.capacity \in Nat /\ v.cnt <= v.capacity
  /\ v.ptr \in [1 .. v.capacity -> Cell]

(* cvector_impl.h:29-37: the cells a vector has stay as they are.          *)
LEMMA ResizedCells ==
  ASSUME NEW Cell, Garbage \in Cell, NEW v, IsVector(v, Cell), NEW c \in Nat, c >= v.capacity
  PROVE  LET r == Stores!Resized(v, c)
         IN /\ IsVector(r, Cell) /\ r.cnt = v.cnt /\ r.capacity = c
            /\ \A k \in 1 .. v.capacity : r.ptr[k] = v.ptr[k]
<1>1. PICK ptr, cnt, capacity :
        /\ v = [ptr |-> ptr, cnt |-> cnt, capacity |-> capacity]
        /\ cnt \in Nat /\ capacity \in Nat /\ cnt <= capacity
        /\ ptr \in [1 .. capacity -> Cell]
  BY DEF IsVector
<1> DEFINE cells == [k \in 1 .. c |-> IF k <= capacity THEN ptr[k] ELSE Garbage]
<1>2. Stores!Resized(v, c) = [ptr |-> cells, cnt |-> cnt, capacity |-> c]
  BY <1>1 DEF Stores!Resized
<1>3. cells \in [1 .. c -> Cell]
  <2>1. \A k \in 1 .. c : k <= capacity => k \in 1 .. capacity
    BY <1>1
  <2>2. QED
    BY <1>1, <2>1
<1>4. \A k \in 1 .. capacity : cells[k] = ptr[k]
  <2>1. \A k \in 1 .. capacity : k \in 1 .. c /\ k <= capacity
    BY <1>1
  <2>2. QED
    BY <2>1
<1>5. cnt <= c
  BY <1>1
<1> HIDE DEF cells
<1>6. PICK r : r = [ptr |-> cells, cnt |-> cnt, capacity |-> c]
  OBVIOUS
<1>7. r.ptr = cells /\ r.cnt = cnt /\ r.capacity = c
      /\ v.ptr = ptr /\ v.cnt = cnt /\ v.capacity = capacity
  BY <1>1, <1>6
<1>8. IsVector(r, Cell)
  BY <1>1, <1>3, <1>5, <1>6, <1>7 DEF IsVector
<1>9. QED
  BY <1>2, <1>4, <1>6, <1>7, <1>8

(* alloc2 makes room for n more elements, however often it has to double.  *)
LEMMA EnoughRoom ==
  ASSUME NEW Cell, Garbage \in Cell, NEW v, IsVector(v, Cell), NEW n \in Nat
  PROVE  LET r == Stores!Alloc2(v, n)
         IN /\ IsVector(r, Cell) /\ r.cnt = v.cnt /\ v.cnt + n <= r.capacity
            /\ \A k \in 1 .. v.cnt : r.ptr[k] = v.ptr[k]
<1> DEFINE after == CHOOSE f : Capacities(f, v.capacity, n)
           good == {k \in 0 .. n : after[k] - v.cnt >= n}
           enough == CHOOSE k \in 0 .. n : /\ after[k] - v.cnt >= n
                                           /\ \A j \in 0 .. k - 1 : after[j] - v.cnt < n
<1>1. v.capacity \in Nat /\ v.cnt \in Nat /\ v.cnt <= v.capacity
  BY DEF IsVector
<1>2. Stores!Alloc2(v, n) = Stores!Resized(v, after[enough])
  BY DEF Stores!Alloc2, Capacities
<1>3. Capacities(after, v.capacity, n)
  BY <1>1, CapacitiesExist
<1> HIDE DEF after
<1>4. \A k \in 0 .. n : after[k] \in Nat /\ after[k] >= v.capacity + k
  BY <1>1, <1>3, CapacitiesGrow
<1>5. PICK first \in good : \A k \in good : first <= k
  <2>1. n \in good
    <3>1. after[n] \in Nat /\ after[n] >= v.capacity + n
      BY <1>4
    <3>2. QED
      BY <1>1, <3>1
  <2>2. good \subseteq Nat
    OBVIOUS
  <2>3. QED
    BY <2>1, <2>2, LeastNumber
<1>6. enough \in 0 .. n /\ after[enough] - v.cnt >= n
  <2>1. \A j \in 0 .. first - 1 : after[j] - v.cnt < n
    <3> TAKE j \in 0 .. first - 1
    <3>1. j \in 0 .. n /\ j \notin good
      BY <1>5
    <3>2. after[j] \in Nat
      BY <1>4, <3>1
    <3>3. QED
      BY <1>1, <3>1, <3>2
  <2>2. QED
    BY <1>5, <2>1
<1> HIDE DEF enough
<1>7. PICK c : c = after[enough]
  OBVIOUS
<1>8. c \in Nat /\ c >= v.capacity /\ v.cnt + n <= c
  <2>1. c \in Nat /\ c >= v.capacity + enough /\ enough \in Nat /\ c - v.cnt >= n
    BY <1>4, <1>6, <1>7
  <2>2. QED
    BY <1>1, <2>1
<1>9. LET r == Stores!Resized(v, c)
      IN /\ IsVector(r, Cell) /\ r.cnt = v.cnt /\ r.capacity = c
         /\ \A k \in 1 .. v.capacity : r.ptr[k] = v.ptr[k]
  BY <1>8, ResizedCells
<1>10. \A k \in 1 .. v.cnt : k \in 1 .. v.capacity
  BY <1>1
<1>11. QED
  BY <1>2, <1>7, <1>8, <1>9, <1>10

(* A write to a cell that is allocated.                                    *)
LEMMA AssignedCell ==
  ASSUME NEW Cell, NEW v, IsVector(v, Cell), NEW k \in 1 .. v.capacity, NEW el \in Cell
  PROVE  LET a == Stores!Assign(v, k, el)
         IN /\ IsVector(a, Cell) /\ a.cnt = v.cnt /\ a.capacity = v.capacity
            /\ a.ptr[k] = el /\ \A j \in 1 .. v.capacity \ {k} : a.ptr[j] = v.ptr[j]
<1>1. PICK ptr, cnt, capacity :
        /\ v = [ptr |-> ptr, cnt |-> cnt, capacity |-> capacity]
        /\ cnt \in Nat /\ capacity \in Nat /\ cnt <= capacity
        /\ ptr \in [1 .. capacity -> Cell]
  BY DEF IsVector
<1> DEFINE cells == [j \in 1 .. capacity |-> IF j = k THEN el ELSE ptr[j]]
<1>2. DOMAIN ptr \cup {k} = 1 .. capacity
  BY <1>1
<1>3. Stores!Assign(v, k, el) = [ptr |-> cells, cnt |-> cnt, capacity |-> capacity]
  <2>1. \A x : [v EXCEPT !.ptr = x] = [ptr |-> x, cnt |-> cnt, capacity |-> capacity]
    BY <1>1
  <2>2. [j \in DOMAIN v.ptr \cup {k} |-> IF j = k THEN el ELSE v.ptr[j]] = cells
    BY <1>1, <1>2
  <2>3. Stores!Assign(v, k, el) = [v EXCEPT !.ptr = cells]
    BY <2>2 DEF Stores!Assign
  <2>4. QED
    BY <2>1, <2>3
<1>4. k \in 1 .. capacity
  BY <1>1
<1>5. cells \in [1 .. capacity -> Cell]
  BY <1>1
<1>6. cells[k] = el /\ \A j \in 1 .. capacity \ {k} : cells[j] = ptr[j]
  BY <1>4
<1> HIDE DEF cells
<1>7. PICK a : a = [ptr |-> cells, cnt |-> cnt, capacity |-> capacity]
  OBVIOUS
<1>8. a.ptr = cells /\ a.cnt = cnt /\ a.capacity = capacity
      /\ v.ptr = ptr /\ v.cnt = cnt /\ v.capacity = capacity
  BY <1>1, <1>7
<1>9. IsVector(a, Cell)
  BY <1>1, <1>5, <1>7, <1>8 DEF IsVector
<1>10. QED
  BY <1>3, <1>6, <1>7, <1>8, <1>9

(* A buffer holds the bytes of its stream in order, and a zero after them. *)
ByteCell == Nat \cup {Garbage}
BuffInv ==
  /\ IsVector(buff, ByteCell) /\ buff.cnt <= MaxBytes
  /\ \A k \in 1 .. buff.cnt : buff.ptr[k] = k
  /\ buff.cnt > 0 => buff.cnt < buff.capacity /\ buff.ptr[buff.cnt + 1] = Stores!Nul

(* A map holds one pair for each key with a response, and no other pair;   *)
(* in given is the response of each key.                                   *)
PairCell == Stores!Pair \cup {Garbage}
HasKey(v, k, key) == v.ptr[k].request.key = key
Holds(v, given) ==
  /\ IsVector(v, PairCell)
  /\ \A k \in 1 .. v.cnt : v.ptr[k] \in Stores!Pair
  /\ \A j, k \in 1 .. v.cnt : HasKey(v, j, v.ptr[k].request.key) => j = k
  /\ given \in [Key -> Response \cup {Nothing}]
  /\ \A key \in Key :
       \/ \E k \in 1 .. v.cnt : HasKey(v, k, key) /\ given[key] = v.ptr[k].response
       \/ (\A k \in 1 .. v.cnt : ~ HasKey(v, k, key)) /\ given[key] = Nothing
StoresInv == BuffInv /\ Holds(Stores!Bucket, latest)

(* cvector_impl.h: a vector without cells.                                 *)
LEMMA EmptyVector ==
  ASSUME NEW Cell
  PROVE  IsVector(Stores!NewVector, Cell) /\ Stores!NewVector.cnt = 0
         /\ Stores!NewVector.capacity = 0
<1>1. PICK ptr : ptr = <<>>
  OBVIOUS
<1>2. ptr \in [1 .. 0 -> Cell]
  BY <1>1
<1>3. Stores!NewVector = [ptr |-> ptr, cnt |-> 0, capacity |-> 0]
  BY <1>1 DEF Stores!NewVector
<1>4. QED
  BY <1>2, <1>3 DEF IsVector

(* forced_alloc makes room for one more element.                           *)
LEMMA OneMore ==
  ASSUME NEW Cell, Garbage \in Cell, NEW v, IsVector(v, Cell)
  PROVE  LET r == Stores!ForcedAlloc(v)
         IN /\ IsVector(r, Cell) /\ r.cnt = v.cnt /\ v.cnt + 1 <= r.capacity
            /\ \A k \in 1 .. v.cnt : r.ptr[k] = v.ptr[k]
<1>1. v.cnt \in Nat /\ v.capacity \in Nat /\ v.cnt <= v.capacity
  BY DEF IsVector
<1>2. PICK c : c = v.capacity * 2 + 1
  OBVIOUS
<1>3. c \in Nat /\ c >= v.capacity /\ v.cnt + 1 <= c
  BY <1>1, <1>2
<1>4. Stores!ForcedAlloc(v) = Stores!Resized(v, c)
  BY <1>2 DEF Stores!ForcedAlloc, Stores!Doubled
<1>5. LET r == Stores!Resized(v, c)
      IN /\ IsVector(r, Cell) /\ r.cnt = v.cnt /\ r.capacity = c
         /\ \A k \in 1 .. v.capacity : r.ptr[k] = v.ptr[k]
  BY <1>3, ResizedCells
<1>6. \A k \in 1 .. v.cnt : k \in 1 .. v.capacity
  BY <1>1
<1>7. QED
  BY <1>3, <1>4, <1>5, <1>6

(* push_back puts an element after those there are.                        *)
LEMMA Pushed ==
  ASSUME NEW Cell, Garbage \in Cell, NEW v, IsVector(v, Cell), NEW el \in Cell
  PROVE  LET r == Stores!PushBack(v, el)
         IN /\ IsVector(r, Cell) /\ r.cnt = v.cnt + 1 /\ r.ptr[v.cnt + 1] = el
            /\ \A k \in 1 .. v.cnt : r.ptr[k] = v.ptr[k]
<1>1. v.cnt \in Nat /\ v.capacity \in Nat /\ v.cnt <= v.capacity
  BY DEF IsVector
<1>2. PICK room : room = Stores!Alloc(v)
  OBVIOUS
<1>3. /\ IsVector(room, Cell) /\ room.cnt = v.cnt /\ v.cnt + 1 <= room.capacity
      /\ \A k \in 1 .. v.cnt : room.ptr[k] = v.ptr[k]
  <2>1. CASE v.cnt = v.capacity
    <3>1. room = Stores!ForcedAlloc(v)
      BY <1>2, <2>1 DEF Stores!Alloc
    <3>2. QED
      BY <3>1, OneMore
  <2>2. CASE v.cnt # v.capacity
    <3>1. room = v /\ v.cnt + 1 <= v.capacity
      BY <1>1, <1>2, <2>2 DEF Stores!Alloc
    <3>2. QED
      BY <3>1
  <2>3. QED
    BY <2>1, <2>2
<1>4. room.capacity \in Nat /\ v.cnt + 1 \in 1 .. room.capacity
  BY <1>1, <1>3 DEF IsVector
<1>5. PICK a : a = Stores!Assign(room, v.cnt + 1, el)
  OBVIOUS
<1>6. /\ IsVector(a, Cell) /\ a.cnt = room.cnt /\ a.capacity = room.capacity
      /\ a.ptr[v.cnt + 1] = el
      /\ \A j \in 1 .. room.capacity \ {v.cnt + 1} : a.ptr[j] = room.ptr[j]
  BY <1>3, <1>4, <1>5, AssignedCell
<1>7. PICK ptr, cnt, capacity :
        /\ a = [ptr |-> ptr, cnt |-> cnt, capacity |-> capacity]
        /\ ptr \in [1 .. capacity -> Cell]
  BY <1>6 DEF IsVector
<1>8. ptr = a.ptr /\ cnt = v.cnt /\ capacity = room.capacity
  BY <1>3, <1>6, <1>7
<1>9. PICK r : r = [ptr |-> ptr, cnt |-> cnt + 1, capacity |-> capacity]
  OBVIOUS
<1>10. Stores!PushBack(v, el) = r
  <2>1. Stores!PushBack(v, el) = [a EXCEPT !.cnt = cnt + 1]
    BY <1>2, <1>3, <1>5, <1>6, <1>8 DEF Stores!PushBack
  <2>2. QED
    BY <1>7, <1>9, <2>1
<1>11. r.ptr = ptr /\ r.cnt = cnt + 1 /\ r.capacity = capacity
  BY <1>9
<1>12. IsVector(r, Cell) /\ r.cnt = v.cnt + 1
  <2>1. cnt + 1 \in Nat /\ capacity \in Nat /\ cnt + 1 <= capacity
    BY <1>1, <1>3, <1>4, <1>8
  <2>2. QED
    BY <1>7, <1>8, <1>9, <1>11, <2>1 DEF IsVector
<1>13. \A k \in 1 .. v.cnt : r.ptr[k] = v.ptr[k]
  <2> TAKE k \in 1 .. v.cnt
  <2>1. k \in 1 .. room.capacity \ {v.cnt + 1}
    BY <1>1, <1>3, <1>4
  <2>2. QED
    BY <1>3, <1>6, <1>8, <1>11, <2>1
<1>14. QED
  BY <1>6, <1>8, <1>10, <1>11, <1>12, <1>13

(* What ContainersAssumption says of the constants.                        *)
LEMMA StoresBounds ==
  /\ MIN_READ_BUFF_SIZE \in Nat /\ MIN_READ_BUFF_SIZE > 0 /\ MaxBytes \in Nat
  /\ Nothing \notin Response
  /\ Nothing \notin [ptr : Seq(PairCell), cnt : Nat, capacity : Nat]
  BY ConstantsAssumption DEF Stores!ContainersAssumption, PairCell

(* NULL is not a vector that holds pairs.                                  *)
LEMMA NoVector == ~ IsVector(Nothing, PairCell)
<1>1. SUFFICES ASSUME IsVector(Nothing, PairCell)
               PROVE  Nothing \in [ptr : Seq(PairCell), cnt : Nat, capacity : Nat]
  BY StoresBounds
<1>2. PICK ptr, cnt, capacity :
        /\ cnt \in Nat /\ capacity \in Nat
        /\ Nothing = [ptr |-> ptr, cnt |-> cnt, capacity |-> capacity]
        /\ ptr \in [1 .. capacity -> PairCell]
  BY <1>1 DEF IsVector
<1>3. ptr \in Seq(PairCell)
  BY <1>2
<1>4. QED
  BY <1>2, <1>3

(* A bucket that is a vector is not the one that is not there yet.         *)
LEMMA BucketIs ==
  ASSUME NEW v, IsVector(v, PairCell), bucket' = v
  PROVE  Stores!Bucket' = v
<1>1. v # Nothing
  BY NoVector
<1>2. QED
  BY <1>1 DEF Stores!Bucket

-----------------------------------------------------------------------------
(* Nothing read, nothing cached.                                           *)
LEMMA StoresInit == Stores!Init => StoresInv
<1> SUFFICES ASSUME Stores!Init PROVE StoresInv
  OBVIOUS
<1>1. BuffInv
  <2>1. IsVector(buff, ByteCell) /\ buff.cnt = 0
    <3>1. IsVector(Stores!NewVector, ByteCell) /\ Stores!NewVector.cnt = 0 /\ Garbage \in ByteCell
      BY EmptyVector DEF ByteCell
    <3>2. QED
      BY <3>1, OneMore DEF Stores!Init
  <2>2. QED
    BY <2>1, StoresBounds DEF BuffInv
<1>2. Holds(Stores!Bucket, latest)
  <2>1. Stores!Bucket = Stores!NewVector /\ latest = [key \in Key |-> Nothing]
    BY DEF Stores!Init, Stores!Bucket
  <2>2. IsVector(Stores!NewVector, PairCell) /\ Stores!NewVector.cnt = 0
    BY EmptyVector
  <2>3. PICK v : v = Stores!NewVector
    OBVIOUS
  <2>4. Holds(v, latest)
    BY <2>1, <2>2, <2>3 DEF Holds
  <2>5. QED
    BY <2>1, <2>3, <2>4
<1>3. QED
  BY <1>1, <1>2 DEF StoresInv

(* read_to_vchar: the cells of the bytes and of the zero are there.        *)
LEMMA ReadInv ==
  ASSUME BuffInv, Stores!ReadToVchar
  PROVE  BuffInv'
<1>1. PICK n \in 1 .. MIN_READ_BUFF_SIZE :
        LET filled == Stores!Filled(Stores!Alloc2(buff, Stores!Reserve), n)
        IN /\ filled.cnt <= MaxBytes
           /\ buff' = Stores!Assign(filled, filled.cnt + 1, Stores!Nul)
  BY DEF Stores!ReadToVchar
<1>2. PICK room, filled : room = Stores!Alloc2(buff, Stores!Reserve)
                          /\ filled = Stores!Filled(room, n)
  OBVIOUS
<1>3. /\ IsVector(buff, ByteCell) /\ buff.cnt \in Nat /\ Garbage \in ByteCell
      /\ Stores!Reserve \in Nat /\ Stores!Reserve = MIN_READ_BUFF_SIZE + 1
      /\ \A k \in 1 .. buff.cnt : buff.ptr[k] = k
  BY StoresBounds DEF BuffInv, IsVector, Stores!Reserve, ByteCell
<1>4. /\ IsVector(room, ByteCell) /\ room.cnt = buff.cnt
      /\ buff.cnt + Stores!Reserve <= room.capacity
      /\ \A k \in 1 .. buff.cnt : room.ptr[k] = buff.ptr[k]
  BY <1>2, <1>3, EnoughRoom
<1>5. PICK ptr, cnt, capacity :
        /\ room = [ptr |-> ptr, cnt |-> cnt, capacity |-> capacity]
        /\ cnt \in Nat /\ capacity \in Nat /\ ptr \in [1 .. capacity -> ByteCell]
  BY <1>4 DEF IsVector
<1>6. /\ ptr = room.ptr /\ cnt = buff.cnt /\ capacity = room.capacity
      /\ n \in Nat /\ n > 0 /\ cnt + n + 1 <= capacity
  <2>1. ptr = room.ptr /\ cnt = buff.cnt /\ capacity = room.capacity
    BY <1>4, <1>5
  <2>2. n \in Nat /\ n > 0 /\ n <= MIN_READ_BUFF_SIZE
    BY <1>1, StoresBounds
  <2>3. QED
    BY <1>3, <1>4, <1>5, <2>1, <2>2, StoresBounds
<1> DEFINE cells == [k \in 1 .. capacity |-> IF k \in cnt + 1 .. cnt + n THEN k ELSE ptr[k]]
<1>7. filled = [ptr |-> cells, cnt |-> cnt + n, capacity |-> capacity]
  <2>1. DOMAIN room.ptr = 1 .. capacity
    BY <1>5, <1>6
  <2>2. QED
    BY <1>2, <1>5, <2>1 DEF Stores!Filled
<1>8. cells \in [1 .. capacity -> ByteCell]
  BY <1>5 DEF ByteCell
<1>9. \A k \in 1 .. cnt + n : cells[k] = k
  <2> TAKE k \in 1 .. cnt + n
  <2>1. k \in 1 .. capacity
    BY <1>5, <1>6
  <2>2. k \in 1 .. cnt \/ k \in cnt + 1 .. cnt + n
    BY <1>5, <1>6
  <2>3. k \in 1 .. cnt => ptr[k] = k
    BY <1>3, <1>4, <1>6
  <2>4. QED
    BY <2>1, <2>2, <2>3
<1> HIDE DEF cells
<1>10. /\ filled.ptr = cells /\ filled.cnt = cnt + n /\ filled.capacity = capacity
       /\ IsVector(filled, ByteCell)
  <2>1. filled.ptr = cells /\ filled.cnt = cnt + n /\ filled.capacity = capacity
    BY <1>7
  <2>2. cnt + n \in Nat /\ cnt + n <= capacity
    BY <1>5, <1>6
  <2>3. QED
    BY <1>5, <1>7, <1>8, <2>1, <2>2 DEF IsVector
<1>11. buff' = Stores!Assign(filled, cnt + n + 1, Stores!Nul) /\ cnt + n <= MaxBytes
  BY <1>1, <1>2, <1>10
<1>12. PICK place : place = cnt + n + 1
  OBVIOUS
<1>13. place \in 1 .. filled.capacity /\ Stores!Nul \in ByteCell
  BY <1>5, <1>6, <1>10, <1>12 DEF Stores!Nul, ByteCell
<1>14. /\ IsVector(buff', ByteCell) /\ buff'.cnt = filled.cnt /\ buff'.capacity = filled.capacity
       /\ buff'.ptr[place] = Stores!Nul
       /\ \A j \in 1 .. filled.capacity \ {place} : buff'.ptr[j] = filled.ptr[j]
  BY <1>10, <1>11, <1>12, <1>13, AssignedCell
<1>15. \A k \in 1 .. cnt + n : buff'.ptr[k] = k
  <2> TAKE k \in 1 .. cnt + n
  <2>1. k \in 1 .. filled.capacity \ {place}
    BY <1>5, <1>6, <1>10, <1>12
  <2>2. QED
    BY <1>9, <1>10, <1>14, <2>1
<1>16. buff'.cnt = cnt + n /\ buff'.cnt < buff'.capacity /\ buff'.cnt + 1 = place
  BY <1>5, <1>6, <1>10, <1>12, <1>14
<1>17. QED
  BY <1>11, <1>14, <1>15, <1>16 DEF BuffInv

(* A pair put in the place of the one with its key, or after all of them   *)
(* if there is none, and nothing else changed.                             *)
LEMMA PutInv ==
  ASSUME NEW v, NEW given, Holds(v, given),
         NEW request \in [key : Key, headers : Headers], NEW response \in Response,
         NEW r, NEW el, el = [request |-> request, response |-> response],
         IsVector(r, PairCell), NEW place \in 1 .. r.cnt,
         \/ r.cnt = v.cnt /\ HasKey(v, place, request.key)
         \/ /\ r.cnt = v.cnt + 1 /\ place = v.cnt + 1
            /\ \A k \in 1 .. v.cnt : ~ HasKey(v, k, request.key),
         r.ptr[place] = el, \A k \in 1 .. v.cnt \ {place} : r.ptr[k] = v.ptr[k]
  PROVE  Holds(r, [given EXCEPT ![request.key] = response])
<1>1. v.cnt \in Nat /\ r.cnt \in Nat /\ el \in Stores!Pair /\ request.key \in Key
      /\ el.request = request /\ el.response = response
  BY DEF Holds, IsVector, Stores!Pair
<1>2. \A k \in 1 .. r.cnt \ {place} : k \in 1 .. v.cnt /\ r.ptr[k] = v.ptr[k]
  BY <1>1
<1>3. \A k \in 1 .. r.cnt : r.ptr[k] \in Stores!Pair
  BY <1>1, <1>2 DEF Holds
<1>4. \A k \in 1 .. r.cnt \ {place} : ~ HasKey(r, k, request.key)
  <2> TAKE k \in 1 .. r.cnt \ {place}
  <2>1. k \in 1 .. v.cnt /\ r.ptr[k] = v.ptr[k] /\ k # place
    BY <1>2
  <2>2. CASE r.cnt = v.cnt /\ HasKey(v, place, request.key)
    BY <2>1, <2>2 DEF Holds, HasKey
  <2>3. CASE \A j \in 1 .. v.cnt : ~ HasKey(v, j, request.key)
    BY <2>1, <2>3 DEF HasKey
  <2>4. QED
    BY <2>2, <2>3
<1>5. \A key \in Key : HasKey(r, place, key) <=> key = request.key
  BY <1>1 DEF HasKey
<1>6. \A j, k \in 1 .. r.cnt : HasKey(r, j, r.ptr[k].request.key) => j = k
  <2> TAKE j, k \in 1 .. r.cnt
  <2>1. SUFFICES ASSUME HasKey(r, j, r.ptr[k].request.key), j # k
                 PROVE  FALSE
    OBVIOUS
  <2>2. r.ptr[place].request.key = request.key
    BY <1>1
  <2>3. j # place
    BY <1>4, <2>1, <2>2 DEF HasKey
  <2>4. k # place
    BY <1>4, <2>1, <2>2, <2>3
  <2>5. j \in 1 .. v.cnt /\ k \in 1 .. v.cnt /\ r.ptr[j] = v.ptr[j] /\ r.ptr[k] = v.ptr[k]
    BY <1>2, <2>3, <2>4
  <2>6. QED
    BY <2>1, <2>5 DEF Holds, HasKey
<1>7. PICK now : now = [given EXCEPT ![request.key] = response]
  OBVIOUS
<1>8. now \in [Key -> Response \cup {Nothing}] /\ now[request.key] = response
      /\ \A key \in Key \ {request.key} : now[key] = given[key]
  BY <1>1, <1>7 DEF Holds
<1>9. ASSUME NEW key \in Key
      PROVE  \/ \E k \in 1 .. r.cnt : HasKey(r, k, key) /\ now[key] = r.ptr[k].response
             \/ (\A k \in 1 .. r.cnt : ~ HasKey(r, k, key)) /\ now[key] = Nothing
  <2>1. CASE key = request.key
    <3>1. HasKey(r, place, key) /\ now[key] = r.ptr[place].response
      BY <1>1, <1>5, <1>8, <2>1
    <3>2. QED
      BY <3>1
  <2>2. CASE key # request.key
    <3>1. now[key] = given[key] /\ ~ HasKey(r, place, key)
      BY <1>5, <1>8, <2>2
    <3>2. CASE \E k \in 1 .. v.cnt : HasKey(v, k, key) /\ given[key] = v.ptr[k].response
      <4>1. PICK k \in 1 .. v.cnt : HasKey(v, k, key) /\ given[key] = v.ptr[k].response
        BY <3>2
      <4>2. k # place
        BY <1>1, <2>2, <4>1 DEF HasKey
      <4>3. k \in 1 .. r.cnt /\ r.ptr[k] = v.ptr[k]
        BY <1>1, <4>1, <4>2
      <4>4. QED
        BY <3>1, <4>1, <4>3 DEF HasKey
    <3>3. CASE (\A k \in 1 .. v.cnt : ~ HasKey(v, k, key)) /\ given[key] = Nothing
      <4>1. \A k \in 1 .. r.cnt : ~ HasKey(r, k, key)
        BY <1>2, <3>1, <3>3 DEF HasKey
      <4>2. QED
        BY <3>1, <3>3, <4>1
    <3>4. QED
      BY <3>2, <3>3 DEF Holds
  <2>3. QED
    BY <2>1, <2>2
<1>10. QED
  BY <1>3, <1>6, <1>7, <1>8, <1>9 DEF Holds

(* hash_map_put of a response, at either of the two places.                *)
LEMMA CacheInv ==
  ASSUME Holds(Stores!Bucket, latest), Stores!Cache
  PROVE  Holds(Stores!Bucket', latest')
<1>1. PICK request \in [key : Key, headers : Headers], response \in Response :
        /\ bucket' = Stores!hash_map_put(request, response)
        /\ latest' = [latest EXCEPT ![request.key] = response]
  BY DEF Stores!Cache
<1>2. PICK v, el : v = Stores!Bucket /\ el = [request |-> request, response |-> response]
  OBVIOUS
<1>3. Holds(v, latest) /\ IsVector(v, PairCell) /\ v.cnt \in Nat /\ v.capacity \in Nat
      /\ v.cnt <= v.capacity
  BY <1>2 DEF Holds, IsVector
<1>4. el \in PairCell /\ Garbage \in PairCell
  BY <1>2 DEF PairCell, Stores!Pair
<1>5. Stores!Places(request) = {k \in 1 .. v.cnt : HasKey(v, k, request.key)}
  BY <1>2 DEF Stores!Places, Stores!request_equals, HasKey
<1>6. CASE Stores!Places(request) = {}
  <2>1. bucket' = Stores!PushBack(v, el)
    BY <1>1, <1>2, <1>6 DEF Stores!hash_map_put
  <2>2. PICK r : r = bucket'
    OBVIOUS
  <2>3. /\ IsVector(r, PairCell) /\ r.cnt = v.cnt + 1 /\ r.ptr[v.cnt + 1] = el
        /\ \A k \in 1 .. v.cnt : r.ptr[k] = v.ptr[k]
    BY <1>3, <1>4, <2>1, <2>2, Pushed
  <2>4. PICK place : place = v.cnt + 1
    OBVIOUS
  <2>5. place \in 1 .. r.cnt /\ \A k \in 1 .. v.cnt : ~ HasKey(v, k, request.key)
    BY <1>3, <1>5, <1>6, <2>3, <2>4
  <2>6. \A k \in 1 .. v.cnt \ {place} : r.ptr[k] = v.ptr[k]
    BY <2>3
  <2>7. Holds(r, [latest EXCEPT ![request.key] = response])
    <3>1. Holds(v, latest) /\ IsVector(r, PairCell) /\ r.ptr[place] = el
          /\ r.cnt = v.cnt + 1 /\ place = v.cnt + 1
      BY <1>3, <2>3, <2>4
    <3>2. el = [request |-> request, response |-> response]
      BY <1>2
    <3>3. QED
      BY <2>5, <2>6, <3>1, <3>2, PutInv
  <2>8. QED
    BY <1>1, <2>2, <2>3, <2>7, BucketIs
<1>7. CASE Stores!Places(request) # {}
  <2>1. PICK place : place = Stores!FirstPlace(request)
    OBVIOUS
  <2>2. place \in 1 .. v.cnt /\ HasKey(v, place, request.key)
    <3>1. \E k \in Stores!Places(request) : \A j \in Stores!Places(request) : k <= j
      <4>1. Stores!Places(request) \subseteq Nat
        BY <1>5
      <4>2. QED
        BY <1>7, <4>1, LeastNumber
    <3>2. place \in Stores!Places(request)
      BY <2>1, <3>1 DEF Stores!FirstPlace
    <3>3. QED
      BY <1>5, <3>2
  <2>3. bucket' = Stores!Assign(v, place, el)
    BY <1>1, <1>2, <1>7, <2>1 DEF Stores!hash_map_put, Stores!Replaced
  <2>4. PICK r : r = bucket'
    OBVIOUS
  <2>5. place \in 1 .. v.capacity
    BY <1>3, <2>2
  <2>6. /\ IsVector(r, PairCell) /\ r.cnt = v.cnt /\ r.ptr[place] = el
        /\ \A k \in 1 .. v.capacity \ {place} : r.ptr[k] = v.ptr[k]
    <3>1. LET a == Stores!Assign(v, place, el)
          IN /\ IsVector(a, PairCell) /\ a.cnt = v.cnt /\ a.capacity = v.capacity
             /\ a.ptr[place] = el /\ \A k \in 1 .. v.capacity \ {place} : a.ptr[k] = v.ptr[k]
      BY <1>3, <1>4, <2>5, AssignedCell
    <3>2. QED
      BY <2>3, <2>4, <3>1
  <2>7. place \in 1 .. r.cnt /\ \A k \in 1 .. v.cnt \ {place} : r.ptr[k] = v.ptr[k]
    BY <1>3, <2>2, <2>6
  <2>8. Holds(r, [latest EXCEPT ![request.key] = response])
    <3>1. Holds(v, latest) /\ IsVector(r, PairCell) /\ r.ptr[place] = el /\ r.cnt = v.cnt
      BY <1>3, <2>6
    <3>2. el = [request |-> request, response |-> response]
      BY <1>2
    <3>3. QED
      BY <2>2, <2>7, <3>1, <3>2, PutInv
  <2>9. QED
    BY <1>1, <2>4, <2>6, <2>8, BucketIs
<1>8. QED
  BY <1>6, <1>7

(* The other programs of MCExercises leave the variables alone.            *)
LEMMA StoresStep ==
  ASSUME StoresInv, Stores!Next \/ UNCHANGED stores
  PROVE  StoresInv'
<1>1. BuffInv'
  <2>1. CASE UNCHANGED buff
    BY <2>1 DEF StoresInv, BuffInv
  <2>2. CASE Stores!ReadToVchar
    BY <2>2, ReadInv DEF StoresInv
  <2>3. QED
    BY <2>1, <2>2 DEF Stores!Next, Stores!Cache, stores
<1>2. Holds(Stores!Bucket', latest')
  <2>1. CASE UNCHANGED <<bucket, latest>>
    <3>1. Stores!Bucket' = Stores!Bucket /\ latest' = latest
      BY <2>1 DEF Stores!Bucket
    <3>2. QED
      BY <3>1 DEF StoresInv
  <2>2. CASE Stores!Cache
    BY <2>2, CacheInv DEF StoresInv
  <2>3. QED
    BY <2>1, <2>2 DEF Stores!Next, Stores!ReadToVchar, stores
<1>3. Holds(Stores!Bucket, latest)' <=> Holds(Stores!Bucket', latest')
  BY DEF Holds, HasKey, IsVector
<1>4. QED
  BY <1>1, <1>2, <1>3 DEF StoresInv

(* What the invariant says of what is looked up: the first pair with the   *)
(* key is the only one.                                                    *)
LEMMA StoresGive == StoresInv => StoredAsGiven
<1> SUFFICES ASSUME StoresInv PROVE StoredAsGiven
  OBVIOUS
<1>1. PICK v : v = Stores!Bucket
  OBVIOUS
<1>2. Holds(v, latest) /\ IsVector(v, PairCell) /\ IsVector(buff, ByteCell) /\ BuffInv
  BY <1>1 DEF StoresInv, Holds, BuffInv
<1>3. Stores!TypeOK
  BY <1>2, StoresBounds DEF Stores!TypeOK, Holds, BuffInv, IsVector
<1>4. Stores!InItsCells(buff) /\ Stores!InItsCells(v)
  BY <1>2 DEF Stores!InItsCells, Stores!Cells, IsVector
<1>5. Stores!Contents(buff) = [k \in 1 .. buff.cnt |-> k]
  <2>1. buff.cnt \in Nat /\ \A k \in 1 .. buff.cnt : buff.ptr[k] = k
    BY <1>2 DEF BuffInv, IsVector
  <2>2. PICK s, n : s = SubSeq(buff.ptr, 1, n) /\ n = buff.cnt /\ n \in Nat
    BY <2>1
  <2>3. s \in Seq(Nat) /\ Len(s) = n /\ \A k \in 1 .. n : s[k] = buff.ptr[k]
    <3>1. \A k \in 1 .. n : buff.ptr[k] \in Nat
      BY <2>1, <2>2
    <3>2. /\ s \in Seq(Nat) /\ Len(s) = IF 1 <= n THEN n - 1 + 1 ELSE 0
          /\ \A k \in 1 .. n - 1 + 1 : s[k] = buff.ptr[1 + k - 1]
      BY <2>2, <3>1, SubSeqProperties
    <3>3. \A k \in 1 .. n : k \in 1 .. n - 1 + 1 /\ 1 + k - 1 = k
      BY <2>2
    <3>4. Len(s) = n
      BY <2>2, <3>2
    <3>5. QED
      BY <3>2, <3>3, <3>4
  <2>4. \A k \in 1 .. n : s[k] = k
    BY <2>1, <2>2, <2>3
  <2>5. s = [k \in 1 .. n |-> k]
    BY <2>3, <2>4
  <2>6. QED
    BY <2>2, <2>5 DEF Stores!Contents
<1>6. buff.cnt > 0 => buff.ptr[buff.cnt + 1] = Stores!Nul
  BY <1>2 DEF BuffInv
<1>7. ASSUME NEW request \in [key : Key, headers : Headers]
      PROVE  Stores!hash_map_get(request) = latest[request.key]
  <2>1. Stores!Places(request) = {k \in 1 .. v.cnt : HasKey(v, k, request.key)}
    BY <1>1 DEF Stores!Places, Stores!request_equals, HasKey
  <2>2. request.key \in Key
    OBVIOUS
  <2>3. CASE Stores!Places(request) = {}
    <3>1. \A k \in 1 .. v.cnt : ~ HasKey(v, k, request.key)
      BY <2>1, <2>3
    <3>2. QED
      BY <1>2, <2>2, <2>3, <3>1 DEF Stores!hash_map_get, Holds
  <2>4. CASE Stores!Places(request) # {}
    <3>1. PICK place : place = Stores!FirstPlace(request)
      OBVIOUS
    <3>2. place \in 1 .. v.cnt /\ HasKey(v, place, request.key)
      <4>1. Stores!Places(request) \subseteq Nat
        BY <2>1
      <4>2. \E k \in Stores!Places(request) : \A j \in Stores!Places(request) : k <= j
        BY <2>4, <4>1, LeastNumber
      <4>3. place \in Stores!Places(request)
        BY <3>1, <4>2 DEF Stores!FirstPlace
      <4>4. QED
        BY <2>1, <4>3
    <3>3. PICK k \in 1 .. v.cnt : HasKey(v, k, request.key)
                                  /\ latest[request.key] = v.ptr[k].response
      BY <1>2, <2>2, <3>2 DEF Holds
    <3>4. k = place
      BY <1>2, <3>2, <3>3 DEF Holds, HasKey
    <3>5. QED
      BY <1>1, <2>4, <3>1, <3>3, <3>4 DEF Stores!hash_map_get
  <2>5. QED
    BY <2>3, <2>4
<1>8. \A j, k \in 1 .. v.cnt :
        Stores!request_equals(v.ptr[j].request, v.ptr[k].request) => j = k
  BY <1>2 DEF Holds, HasKey, Stores!request_equals
<1>9. QED
  BY <1>1, <1>3, <1>4, <1>5, <1>6, <1>7, <1>8 DEF StoredAsGiven, Stores!StoredAsGiven

(* The buffers and the map of the proxy (cvector_impl.h, hash_map.c), for  *)
(* any stream of bytes read in parts of any size and any requests and      *)
(* responses: a buffer holds the bytes read, then a zero; the map gives    *)
(* the response put last for a request and has no second pair for it; and  *)
(* no write is outside the cells.                                          *)
THEOREM GivenBack == FairSpec => []StoredAsGiven
<1>1. MCInit => StoresInv
  BY StoresInit DEF MCInit
<1>2. StoresInv /\ [MCNext]_vars => StoresInv'
  <2>1. ASSUME [MCNext]_vars PROVE Stores!Next \/ UNCHANGED stores
    BY <2>1 DEF MCNext, PingPongRuns, ListRuns, SeriesRuns, PagesRun, LockedRuns, StoresRun,
                vars, exercises, rest
  <2>2. QED
    BY <2>1, StoresStep
<1>3. QED
  BY <1>1, <1>2, StoresGive, PTL DEF FairSpec

-----------------------------------------------------------------------------
(***************************************************************************)
(* LockedList: what the sort of task17.c leaves, for any number of lines.  *)
(***************************************************************************)
(* The types that LockedList claims, with the set of nodes spelled out.    *)
LockedTyped ==
  /\ locked_count \in 0 .. MaxLines /\ round \in 0 .. locked_count
  /\ locked_next \in [0 .. MaxLines -> 1 .. MaxLines + 1]
  /\ locked_str \in [1 .. MaxLines -> Lines \cup {<<>>}]
  /\ pair \in 0 .. MaxLines
  /\ sorting \in BOOLEAN /\ exchanged \in BOOLEAN /\ crashed \in BOOLEAN

(* The list as main has pushed it: from the newest node to the first one.  *)
Straight ==
  /\ locked_next[0] = IF locked_count = 0 THEN MaxLines + 1 ELSE locked_count
  /\ \A n \in 1 .. locked_count :
       /\ locked_next[n] = IF n = 1 THEN MaxLines + 1 ELSE n - 1
       /\ locked_str[n] \in Lines

(* What an exchange leaves: the next of the node the sort is at leads      *)
(* through two others back to it.                                          *)
Ring ==
  \E a, b, c \in 1 .. MaxLines :
    /\ a # b /\ b # c /\ c # a
    /\ pair = a /\ locked_next[a] = b /\ locked_next[b] = c /\ locked_next[c] = a

(* How many nodes the sort has behind it, and which pairs it leaves in     *)
(* order there: the first with the second, the third with the fourth.      *)
Behind(n) == IF n = 0 THEN 0 ELSE locked_count + 1 - n
PairInOrder(k) == ~ After(locked_str[locked_count + 1 - k], locked_str[locked_count - k])
OddInOrder(m) == \A k \in 1 .. m - 1 : k % 2 = 1 => PairInOrder(k)

(* Up to its first exchange a sort finds the list as it was pushed, and    *)
(* its first round shows all pairs that it compares to be in order. From   *)
(* then on it goes round in a ring of three nodes, in the round in which   *)
(* it was, or it has crashed: its pointer is never null again.             *)
LockedInv ==
  /\ LockedTyped
  /\ ~ exchanged => Straight /\ ~ crashed
  /\ exchanged => sorting /\ round < locked_count /\ (crashed \/ Ring)
  /\ sorting /\ ~ exchanged =>
       /\ pair \in 0 .. locked_count /\ Behind(pair) % 2 = 0
       /\ OddInOrder(Behind(pair))
       /\ round > 0 => OddInOrder(locked_count)

(* What LockedListAssumption says of the constants.                        *)
LEMMA LockedBounds ==
  /\ MaxLines \in Nat /\ Lines \subseteq Text
  /\ Locked!Term = 0 /\ Locked!NULL = MaxLines + 1 /\ Locked!Node = 1 .. MaxLines
  BY ConstantsAssumption
  DEF Locked!LockedListAssumption, Text, Locked!Term, Locked!NULL, Locked!Node

(* The str_comp of task17.c is that of task18.c, line by line.             *)
LEMMA LockedCompared ==
  ASSUME NEW s1 \in Text, NEW s2 \in Text
  PROVE  Locked!str_comp(s1, s2) = Locked!GREATER <=> After(s1, s2)
<1>1. Locked!str_comp(s1, s2) = str_comp(s1, s2) /\ Locked!GREATER = GREATER
  BY DEF Locked!str_comp, str_comp, Locked!ByBytes, ByBytes, Locked!WhileBoth, WhileBoth,
         Locked!Least, Least, Locked!Differ, Differ, Locked!Byte, Byte,
         Locked!GREATER, GREATER, Locked!LESS, LESS, Locked!EQ, EQ
<1>2. QED
  BY <1>1, ComparedAsInDictionary

(* An empty list.                                                          *)
LEMMA LockedInit == Locked!Init => LockedInv
<1> SUFFICES ASSUME Locked!Init PROVE LockedInv
  OBVIOUS
<1>1. MaxLines \in Nat /\ 0 .. MaxLines = 1 .. MaxLines \cup {0}
  BY LockedBounds
<1>2. LockedTyped
  <2>1. locked_next = [n \in 0 .. MaxLines |-> MaxLines + 1]
    BY <1>1, LockedBounds DEF Locked!Init
  <2>2. locked_next \in [0 .. MaxLines -> 1 .. MaxLines + 1]
    BY <1>1, <2>1
  <2>3. locked_str \in [1 .. MaxLines -> Lines \cup {<<>>}]
    BY LockedBounds DEF Locked!Init
  <2>4. locked_count \in 0 .. MaxLines /\ round \in 0 .. locked_count /\ pair \in 0 .. MaxLines
    BY <1>1, LockedBounds DEF Locked!Init
  <2>5. QED
    BY <2>2, <2>3, <2>4 DEF Locked!Init, LockedTyped
<1>3. Straight
  BY <1>1, LockedBounds DEF Locked!Init, Straight
<1>4. QED
  BY <1>2, <1>3 DEF LockedInv, Locked!Init

(* push_front of task17.c: a node in front of those there are.             *)
LEMMA PushInv ==
  ASSUME LockedInv, Locked!Push
  PROVE  LockedInv'
<1>1. /\ LockedTyped /\ Straight /\ MaxLines \in Nat /\ locked_count \in Nat
      /\ ~ sorting /\ ~ crashed /\ locked_count < MaxLines /\ ~ exchanged
  BY LockedBounds DEF LockedInv, LockedTyped, Locked!Push
<1>2. PICK front, line_ : front = locked_count + 1 /\ line_ \in Lines
                          /\ locked_str' = [locked_str EXCEPT ![front] = line_]
  BY DEF Locked!Push, Locked!PushAtFront
<1>3. front \in 1 .. MaxLines
  BY <1>1, <1>2
<1>4. /\ locked_next' = [locked_next EXCEPT ![front] = locked_next[0], ![0] = front]
      /\ locked_count' = front
      /\ UNCHANGED <<sorting, round, pair, exchanged, crashed>>
  BY <1>2, LockedBounds DEF Locked!Push, Locked!PushAtFront
<1>5. locked_next' \in [0 .. MaxLines -> 1 .. MaxLines + 1]
      /\ locked_next'[0] = front /\ locked_next'[front] = locked_next[0]
      /\ \A n \in 1 .. locked_count : locked_next'[n] = locked_next[n]
  <2>1. locked_next[0] \in 1 .. MaxLines + 1 /\ front \in 0 .. MaxLines /\ front # 0
        /\ front \in 1 .. MaxLines + 1
        /\ \A n \in 1 .. locked_count : n \in 0 .. MaxLines /\ n # front /\ n # 0
    BY <1>1, <1>2, <1>3 DEF LockedTyped
  <2>2. locked_next \in [0 .. MaxLines -> 1 .. MaxLines + 1]
    BY <1>1 DEF LockedTyped
  <2>3. PICK pushed : pushed = [locked_next EXCEPT ![front] = locked_next[0]]
    OBVIOUS
  <2>4. locked_next' = [pushed EXCEPT ![0] = front]
    BY <1>4, <2>3
  <2>5. /\ pushed \in [0 .. MaxLines -> 1 .. MaxLines + 1] /\ pushed[front] = locked_next[0]
        /\ \A n \in 1 .. locked_count : pushed[n] = locked_next[n]
    BY <2>1, <2>2, <2>3
  <2>6. 0 \in 0 .. MaxLines
    BY <1>1
  <2>7. QED
    BY <2>1, <2>4, <2>5, <2>6
<1>6. locked_str' \in [1 .. MaxLines -> Lines \cup {<<>>}] /\ locked_str'[front] \in Lines
      /\ \A n \in 1 .. locked_count : locked_str'[n] = locked_str[n]
  <2>1. \A n \in 1 .. locked_count : n \in 1 .. MaxLines /\ n # front
    BY <1>1, <1>2
  <2>2. QED
    BY <1>1, <1>2, <1>3, <2>1 DEF LockedTyped
<1>7. LockedTyped'
  <2>1. front \in 0 .. MaxLines /\ 0 .. locked_count \subseteq 0 .. front
    BY <1>1, <1>2, <1>3
  <2>2. QED
    BY <1>1, <1>4, <1>5, <1>6, <2>1 DEF LockedTyped
<1>8. Straight'
  <2>1. locked_next'[0] = IF front = 0 THEN MaxLines + 1 ELSE front
    BY <1>3, <1>5
  <2>2. ASSUME NEW n \in 1 .. front
        PROVE  /\ locked_next'[n] = IF n = 1 THEN MaxLines + 1 ELSE n - 1
               /\ locked_str'[n] \in Lines
    <3>1. CASE n = front
      <4>1. locked_next[0] = IF n = 1 THEN MaxLines + 1 ELSE n - 1
        BY <1>1, <1>2, <3>1 DEF Straight
      <4>2. QED
        BY <1>5, <1>6, <3>1, <4>1
    <3>2. CASE n # front
      <4>1. n \in 1 .. locked_count
        BY <1>1, <1>2, <3>2
      <4>2. QED
        BY <1>1, <1>5, <1>6, <4>1 DEF Straight
    <3>3. QED
      BY <3>1, <3>2
  <2>3. QED
    BY <1>4, <2>1, <2>2 DEF Straight
<1>9. QED
  BY <1>1, <1>4, <1>7, <1>8 DEF LockedInv

(* A sort begins at the sentinel.                                          *)
LEMMA BeginInv ==
  ASSUME LockedInv, Locked!BeginSort
  PROVE  LockedInv'
<1>1. /\ LockedTyped /\ Straight /\ locked_count \in Nat /\ MaxLines \in Nat
      /\ ~ exchanged /\ ~ crashed
      /\ sorting' = TRUE /\ round' = 0 /\ pair' = 0
      /\ UNCHANGED <<locked_count, locked_next, locked_str, exchanged, crashed>>
  BY LockedBounds DEF LockedInv, LockedTyped, Locked!BeginSort
<1>2. LockedTyped' /\ Straight'
  BY <1>1 DEF LockedTyped, Straight
<1>3. Behind(pair)' = 0 /\ 0 % 2 = 0 /\ OddInOrder(Behind(pair))'
  BY <1>1 DEF Behind, OddInOrder
<1>4. QED
  BY <1>1, <1>2, <1>3 DEF LockedInv

(* A pair while nothing has been exchanged.                                *)
LEMMA StraightPair ==
  ASSUME LockedInv, sorting, ~ exchanged, Locked!HasPair
  PROVE  /\ Behind(pair) \in Nat /\ Behind(pair) + 2 <= locked_count
         /\ pair \in 0 .. MaxLines
         /\ Locked!First = locked_count - Behind(pair)
         /\ Locked!Second = locked_count - Behind(pair) - 1
         /\ locked_next[Locked!Second] = IF Locked!Second = 1 THEN MaxLines + 1
                                         ELSE Locked!Second - 1
         /\ locked_str[Locked!First] \in Text /\ locked_str[Locked!Second] \in Text
<1>1. /\ LockedTyped /\ Straight /\ locked_count \in Nat /\ MaxLines \in Nat
      /\ pair \in 0 .. locked_count /\ pair \in 0 .. MaxLines /\ locked_count <= MaxLines
  BY LockedBounds DEF LockedInv, LockedTyped
<1>2. PICK first, second : first = locked_next[pair] /\ second = locked_next[first]
  OBVIOUS
<1>3. Locked!First = first /\ Locked!Second = second
      /\ first # MaxLines + 1 /\ second # MaxLines + 1
  BY <1>2, LockedBounds DEF Locked!First, Locked!Second, Locked!HasPair
<1>4. first \in 1 .. locked_count /\ first = locked_count - Behind(pair)
  <2>1. CASE pair = 0
    BY <1>1, <1>2, <1>3, <2>1 DEF Straight, Behind
  <2>2. CASE pair # 0
    <3>1. pair \in 1 .. locked_count /\ Behind(pair) = locked_count + 1 - pair
      BY <1>1, <2>2 DEF Behind
    <3>2. first = pair - 1 /\ pair # 1
      BY <1>1, <1>2, <1>3, <3>1 DEF Straight
    <3>3. QED
      BY <1>1, <3>1, <3>2
  <2>3. QED
    BY <2>1, <2>2
<1>5. second = first - 1 /\ second \in 1 .. locked_count
  <2>1. second = first - 1 /\ first # 1
    BY <1>1, <1>2, <1>3, <1>4 DEF Straight
  <2>2. QED
    BY <1>1, <1>4, <2>1
<1>6. locked_str[first] \in Text /\ locked_str[second] \in Text
  BY <1>1, <1>4, <1>5, LockedBounds DEF Straight
<1>7. locked_next[second] = IF second = 1 THEN MaxLines + 1 ELSE second - 1
  BY <1>1, <1>5 DEF Straight
<1>8. Behind(pair) \in Nat
  BY <1>1 DEF Behind
<1>9. Behind(pair) + 2 <= locked_count /\ second = locked_count - Behind(pair) - 1
  BY <1>1, <1>4, <1>5, <1>8
<1>10. QED
  BY <1>1, <1>3, <1>4, <1>6, <1>7, <1>8, <1>9

(* The sort always finds a pair in a ring.                                 *)
LEMMA RingPair ==
  ASSUME LockedTyped, Ring
  PROVE  \E a, b, c \in 1 .. MaxLines :
           /\ a # b /\ b # c /\ c # a
           /\ pair = a /\ locked_next[a] = b /\ locked_next[b] = c /\ locked_next[c] = a
           /\ Locked!First = b /\ Locked!Second = c /\ Locked!HasPair
<1>1. PICK a, b, c \in 1 .. MaxLines :
        /\ a # b /\ b # c /\ c # a
        /\ pair = a /\ locked_next[a] = b /\ locked_next[b] = c /\ locked_next[c] = a
  BY DEF Ring
<1>2. Locked!First = b /\ Locked!Second = c
  BY <1>1 DEF Locked!First, Locked!Second
<1>3. b # MaxLines + 1 /\ c # MaxLines + 1
  BY <1>1, LockedBounds
<1>4. QED
  BY <1>1, <1>2, <1>3, LockedBounds DEF Locked!HasPair

(* A pair in order is stepped over: two nodes in a straight list, two      *)
(* thirds of the way round in a ring.                                      *)
LEMMA KeepInv ==
  ASSUME LockedInv, Locked!KeepPair
  PROVE  LockedInv'
<1>1. /\ LockedTyped /\ sorting /\ ~ crashed /\ Locked!HasPair /\ ~ Locked!OutOfOrder
      /\ pair' = Locked!Second
      /\ UNCHANGED <<locked_count, locked_next, locked_str, sorting, round, exchanged, crashed>>
  BY DEF LockedInv, Locked!KeepPair
<1>2. CASE exchanged
  <2>1. PICK a, b, c \in 1 .. MaxLines :
          /\ a # b /\ b # c /\ c # a
          /\ pair = a /\ locked_next[a] = b /\ locked_next[b] = c /\ locked_next[c] = a
          /\ Locked!First = b /\ Locked!Second = c /\ Locked!HasPair
    BY <1>1, <1>2, RingPair DEF LockedInv
  <2>2. Ring'
    BY <1>1, <2>1 DEF Ring
  <2>3. LockedTyped'
    BY <1>1, <2>1, LockedBounds DEF LockedTyped
  <2>4. QED
    BY <1>1, <1>2, <2>2, <2>3 DEF LockedInv
<1>3. CASE ~ exchanged
  <2>1. PICK n, first, second : n = Behind(pair) /\ first = Locked!First /\ second = Locked!Second
    OBVIOUS
  <2>2. /\ n \in Nat /\ n + 2 <= locked_count /\ locked_count \in Nat /\ MaxLines \in Nat
        /\ locked_count <= MaxLines
        /\ first = locked_count - n /\ second = locked_count - n - 1
        /\ locked_str[first] \in Text /\ locked_str[second] \in Text
    BY <1>1, <1>3, <2>1, StraightPair, LockedBounds DEF LockedTyped
  <2>3. second \in 1 .. MaxLines /\ second \in 0 .. locked_count /\ Behind(second) = n + 2
    BY <2>2 DEF Behind
  <2>4. ~ After(locked_str[first], locked_str[second])
    BY <1>1, <2>1, <2>2, LockedCompared DEF Locked!OutOfOrder
  <2>5. n % 2 = 0 /\ OddInOrder(n)
    BY <1>1, <1>3, <2>1 DEF LockedInv
  <2>6. PairInOrder(n + 1)
    <3>1. locked_count + 1 - (n + 1) = first /\ locked_count - (n + 1) = second
      BY <2>2
    <3>2. QED
      BY <2>4, <3>1 DEF PairInOrder
  <2>7. OddInOrder(n + 2) /\ (n + 2) % 2 = 0 /\ n + 2 \in 0 .. locked_count
    <3>1. ASSUME NEW k \in 1 .. n + 2 - 1, k % 2 = 1
          PROVE  PairInOrder(k)
      <4>1. k \in 1 .. n - 1 \/ k = n \/ k = n + 1
        BY <2>2
      <4>2. k # n
        BY <2>5, <3>1
      <4>3. QED
        BY <2>5, <2>6, <3>1, <4>1, <4>2 DEF OddInOrder
    <3>2. (n + 2) % 2 = 0
      BY <2>2, <2>5
    <3>3. QED
      BY <2>2, <3>1, <3>2 DEF OddInOrder
  <2>8. LockedTyped' /\ Straight'
    BY <1>1, <1>3, <2>1, <2>3, LockedBounds DEF LockedTyped, Straight, LockedInv
  <2>9. Behind(pair)' = n + 2
    BY <1>1, <2>1, <2>3 DEF Behind
  <2>10. OddInOrder(Behind(pair))' /\ (OddInOrder(locked_count)' <=> OddInOrder(locked_count))
    <3>1. \A k : PairInOrder(k)' <=> PairInOrder(k)
      BY <1>1 DEF PairInOrder
    <3>2. locked_count' = locked_count
      BY <1>1
    <3>3. QED
      BY <2>7, <2>9, <3>1, <3>2 DEF OddInOrder
  <2>11. round' > 0 => OddInOrder(locked_count)'
    BY <1>1, <1>3, <2>10 DEF LockedInv
  <2>12. pair' \in 0 .. locked_count' /\ Behind(pair)' % 2 = 0
    BY <1>1, <2>1, <2>3, <2>7, <2>9
  <2>13. QED
    BY <1>1, <1>3, <2>8, <2>10, <2>11, <2>12 DEF LockedInv
<1>4. QED
  BY <1>2, <1>3

(* task17.c:93-106: the first exchange makes the ring, or follows a null   *)
(* pointer if the two nodes were the last; the next ones lead round the    *)
(* same three nodes.                                                       *)
LEMMA ExchangeInv ==
  ASSUME LockedInv, Locked!ExchangePair
  PROVE  LockedInv'
<1>1. /\ LockedTyped /\ sorting /\ ~ crashed /\ Locked!HasPair /\ round < locked_count
      /\ exchanged' = TRUE
      /\ UNCHANGED <<locked_count, locked_str, sorting, round>>
  BY DEF LockedInv, Locked!ExchangePair
<1>2. /\ MaxLines \in Nat /\ locked_next \in [0 .. MaxLines -> 1 .. MaxLines + 1]
      /\ pair \in 0 .. MaxLines /\ locked_count \in 0 .. MaxLines
  BY <1>1, LockedBounds DEF LockedTyped
<1>3. PICK first, second, moved :
        /\ first = Locked!First /\ second = Locked!Second
        /\ moved = [locked_next EXCEPT ![pair] = second] /\ moved = Locked!Moved
  BY DEF Locked!Moved
<1>4. /\ first = locked_next[pair] /\ second = locked_next[first]
      /\ IF moved[moved[pair]] = MaxLines + 1
         THEN crashed' = TRUE /\ locked_next' = moved /\ pair' = pair
         ELSE /\ locked_next' = [moved EXCEPT ![moved[moved[pair]]] = first]
              /\ pair' = locked_next'[locked_next'[pair]]
              /\ crashed' = crashed
  BY <1>3, LockedBounds
  DEF Locked!ExchangePair, Locked!First, Locked!Second, Locked!WithThird
<1>5. CASE exchanged
  <2>1. PICK a, b, c \in 1 .. MaxLines :
          /\ a # b /\ b # c /\ c # a
          /\ pair = a /\ locked_next[a] = b /\ locked_next[b] = c /\ locked_next[c] = a
          /\ first = b /\ second = c
    BY <1>1, <1>3, <1>5, RingPair DEF LockedInv
  <2>2. a \in 0 .. MaxLines /\ b \in 0 .. MaxLines /\ c \in 0 .. MaxLines
        /\ a # MaxLines + 1 /\ \A n \in 1 .. MaxLines : n \in 1 .. MaxLines + 1
    BY <1>2, <2>1
  <2>3. moved[a] = c /\ moved[c] = a /\ moved[b] = c
        /\ moved \in [0 .. MaxLines -> 1 .. MaxLines + 1]
    BY <1>2, <1>3, <2>1, <2>2
  <2>4. /\ locked_next' = [moved EXCEPT ![a] = b] /\ crashed' = crashed
        /\ pair' = locked_next'[locked_next'[a]]
    BY <1>4, <2>1, <2>2, <2>3
  <2>5. /\ locked_next'[a] = b /\ locked_next'[b] = c /\ locked_next'[c] = a
        /\ locked_next' \in [0 .. MaxLines -> 1 .. MaxLines + 1]
    BY <2>1, <2>2, <2>3, <2>4
  <2>6. pair' = c
    BY <2>4, <2>5
  <2>7. Ring'
    BY <2>1, <2>5, <2>6 DEF Ring
  <2>8. LockedTyped'
    BY <1>1, <2>1, <2>2, <2>4, <2>5, <2>6 DEF LockedTyped
  <2>9. QED
    BY <1>1, <2>7, <2>8 DEF LockedInv
<1>6. CASE ~ exchanged
  <2>1. PICK n : n = Behind(pair)
    OBVIOUS
  <2>2. /\ n \in Nat /\ n + 2 <= locked_count
        /\ first = locked_count - n /\ second = locked_count - n - 1
        /\ locked_next[second] = IF second = 1 THEN MaxLines + 1 ELSE second - 1
    BY <1>1, <1>3, <1>6, <2>1, StraightPair
  <2>3. /\ first \in 1 .. MaxLines /\ second \in 1 .. MaxLines /\ second = first - 1
        /\ pair = 0 \/ pair = first + 1
    BY <1>2, <2>1, <2>2 DEF Behind
  <2>4. /\ pair # first /\ pair # second /\ first # second
        /\ second \in 1 .. MaxLines + 1 /\ second \in 0 .. MaxLines /\ first \in 0 .. MaxLines
        /\ first \in 1 .. MaxLines + 1
    BY <1>2, <2>3
  <2>5. moved[pair] = second /\ moved[second] = locked_next[second] /\ moved[first] = second
        /\ moved \in [0 .. MaxLines -> 1 .. MaxLines + 1]
    BY <1>2, <1>3, <1>4, <2>4
  <2>6. CASE second = 1
    <3>1. crashed' = TRUE /\ locked_next' = moved /\ pair' = pair
      BY <1>4, <2>2, <2>5, <2>6
    <3>2. LockedTyped'
      BY <1>1, <2>5, <3>1 DEF LockedTyped
    <3>3. QED
      BY <1>1, <3>1, <3>2 DEF LockedInv
  <2>7. CASE second # 1
    <3>1. PICK third : third = second - 1
      OBVIOUS
    <3>2. third \in 1 .. MaxLines /\ third \in 0 .. MaxLines /\ third # MaxLines + 1
          /\ third # pair /\ third # first /\ third # second /\ third \in 1 .. MaxLines + 1
      BY <1>2, <2>3, <2>7, <3>1
    <3>3. moved[second] = third
      BY <2>2, <2>5, <2>7, <3>1
    <3>4. /\ locked_next' = [moved EXCEPT ![third] = first] /\ crashed' = crashed
          /\ pair' = locked_next'[locked_next'[pair]]
      BY <1>4, <2>5, <3>2, <3>3
    <3>5. /\ locked_next'[pair] = second /\ locked_next'[second] = third
          /\ locked_next'[third] = first /\ locked_next'[first] = second
          /\ locked_next' \in [0 .. MaxLines -> 1 .. MaxLines + 1]
      BY <1>2, <2>4, <2>5, <3>2, <3>3, <3>4
    <3>6. pair' = third
      BY <3>4, <3>5
    <3>7. Ring'
      BY <2>3, <2>4, <3>2, <3>5, <3>6 DEF Ring
    <3>8. LockedTyped'
      BY <1>1, <3>2, <3>4, <3>5, <3>6 DEF LockedTyped
    <3>9. QED
      BY <1>1, <3>7, <3>8 DEF LockedInv
  <2>8. QED
    BY <2>6, <2>7
<1>7. QED
  BY <1>5, <1>6

(* No ring ends a round: when there is no further pair, all were in order. *)
LEMMA EndRoundInv ==
  ASSUME LockedInv, Locked!EndRound
  PROVE  LockedInv'
<1>1. /\ LockedTyped /\ sorting /\ ~ crashed /\ ~ Locked!HasPair /\ round < locked_count
      /\ round' = round + 1 /\ pair' = 0
      /\ UNCHANGED <<locked_count, locked_next, locked_str, sorting, exchanged, crashed>>
  BY LockedBounds DEF LockedInv, Locked!EndRound
<1>2. ~ exchanged
  BY <1>1, RingPair DEF LockedInv
<1>3. /\ Straight /\ locked_count \in Nat /\ locked_count > 0 /\ MaxLines \in Nat
      /\ locked_count <= MaxLines /\ pair \in 0 .. locked_count /\ round \in Nat
  BY <1>1, <1>2, LockedBounds DEF LockedInv, LockedTyped
<1>4. PICK n : n = Behind(pair)
  OBVIOUS
<1>5. n \in 0 .. locked_count /\ n % 2 = 0 /\ OddInOrder(n)
  <2>1. n % 2 = 0 /\ OddInOrder(n)
    BY <1>1, <1>2, <1>4 DEF LockedInv
  <2>2. n \in 0 .. locked_count
    BY <1>3, <1>4 DEF Behind
  <2>3. QED
    BY <2>1, <2>2
<1>6. n >= locked_count - 1
  <2>1. SUFFICES ASSUME n + 2 <= locked_count
                 PROVE  Locked!HasPair
    BY <1>1, <1>3, <1>5
  <2>2. PICK first : first = locked_count - n
    OBVIOUS
  <2>3. locked_next[pair] = first
    <3>1. CASE pair = 0
      BY <1>3, <1>4, <2>2, <3>1 DEF Straight, Behind
    <3>2. CASE pair # 0
      <4>1. n = locked_count + 1 - pair
        BY <1>4, <3>2 DEF Behind
      <4>2. pair \in 1 .. locked_count /\ pair # 1 /\ first = pair - 1
        BY <1>3, <1>5, <2>1, <2>2, <3>2, <4>1
      <4>3. QED
        BY <1>3, <4>2 DEF Straight
    <3>3. QED
      BY <3>1, <3>2
  <2>4. first \in 1 .. locked_count /\ first # 1
    BY <1>3, <1>5, <2>1, <2>2
  <2>5. locked_next[first] = first - 1
    BY <1>3, <2>4 DEF Straight
  <2>6. first # MaxLines + 1 /\ first - 1 # MaxLines + 1
    BY <1>3, <2>4
  <2>7. QED
    BY <2>3, <2>5, <2>6, LockedBounds DEF Locked!HasPair, Locked!First, Locked!Second
<1>7. OddInOrder(locked_count)
  <2>1. ASSUME NEW k \in 1 .. locked_count - 1, k % 2 = 1
        PROVE  PairInOrder(k)
    <3>1. k # n
      BY <1>5, <2>1
    <3>2. k \in 1 .. n - 1
      BY <1>3, <1>5, <1>6, <3>1
    <3>3. QED
      BY <1>5, <2>1, <3>2 DEF OddInOrder
  <2>2. QED
    BY <2>1 DEF OddInOrder
<1>8. LockedTyped' /\ Straight'
  BY <1>1, <1>3, LockedBounds DEF LockedTyped, Straight
<1>9. Behind(pair)' = 0 /\ 0 % 2 = 0 /\ OddInOrder(Behind(pair))'
  BY <1>1 DEF Behind, OddInOrder
<1>10. OddInOrder(locked_count)'
  BY <1>1, <1>7 DEF OddInOrder, PairInOrder
<1>11. QED
  BY <1>1, <1>2, <1>3, <1>8, <1>9, <1>10 DEF LockedInv

(* A sort ends only after all of its rounds, so without an exchange.       *)
LEMMA EndSortInv ==
  ASSUME LockedInv, Locked!EndSort
  PROVE  LockedInv'
<1>1. /\ LockedTyped /\ sorting' = FALSE /\ round = locked_count /\ locked_count \in Nat
      /\ UNCHANGED <<locked_count, locked_next, locked_str, round, pair, exchanged, crashed>>
  BY LockedBounds DEF LockedInv, LockedTyped, Locked!EndSort
<1>2. ~ exchanged
  BY <1>1 DEF LockedInv
<1>3. LockedTyped' /\ Straight' /\ ~ crashed
  BY <1>1, <1>2 DEF LockedTyped, Straight, LockedInv
<1>4. QED
  BY <1>1, <1>2, <1>3 DEF LockedInv

(* The other programs of MCExercises leave the variables alone.            *)
LEMMA LockedStep ==
  ASSUME LockedInv, Locked!Next \/ UNCHANGED locked
  PROVE  LockedInv'
<1>1. CASE UNCHANGED locked
  <2>1. LockedTyped' = LockedTyped /\ Straight' = Straight /\ Ring' = Ring
        /\ Behind(pair)' = Behind(pair)
        /\ OddInOrder(Behind(pair))' = OddInOrder(Behind(pair))
        /\ OddInOrder(locked_count)' = OddInOrder(locked_count)
    BY <1>1 DEF locked, LockedTyped, Straight, Ring, Behind, OddInOrder, PairInOrder
  <2>2. QED
    BY <1>1, <2>1 DEF locked, LockedInv
<1>2. CASE Locked!Next
  BY <1>2, PushInv, BeginInv, KeepInv, ExchangeInv, EndRoundInv, EndSortInv DEF Locked!Next
<1>3. QED
  BY <1>1, <1>2

(* The places of the lines in a list as it was pushed.                     *)
LEMMA NthLine ==
  ASSUME LockedTyped, Straight
  PROVE  \A k \in 1 .. locked_count : Locked!Nth[k] = locked_count + 1 - k
<1>1. locked_count \in Nat /\ MaxLines \in Nat /\ locked_count <= MaxLines
  BY LockedBounds DEF LockedTyped
<1> DEFINE walk(f) == f = [k \in 0 .. locked_count |->
                             IF k = 0 THEN 0
                             ELSE IF f[k - 1] = MaxLines + 1 THEN MaxLines + 1
                             ELSE locked_next[f[k - 1]]]
           places == [k \in 0 .. locked_count |-> IF k = 0 THEN 0 ELSE locked_count + 1 - k]
           nth == CHOOSE f : walk(f)
<1>2. Locked!Nth = nth
  BY LockedBounds DEF Locked!Nth
<1>3. walk(places)
  <2>1. ASSUME NEW k \in 0 .. locked_count
        PROVE  places[k] = IF k = 0 THEN 0
                           ELSE IF places[k - 1] = MaxLines + 1 THEN MaxLines + 1
                           ELSE locked_next[places[k - 1]]
    <3>1. CASE k = 0
      BY <3>1
    <3>2. CASE k = 1
      <4>1. places[0] = 0 /\ places[1] = locked_count /\ locked_count > 0
        BY <1>1, <3>2
      <4>2. QED
        BY <1>1, <3>2, <4>1 DEF Straight
    <3>3. CASE k > 1
      <4>1. PICK n : n = locked_count + 1 - (k - 1)
        OBVIOUS
      <4>2. n \in 1 .. locked_count /\ n # 1 /\ places[k - 1] = n /\ places[k] = n - 1
        BY <1>1, <3>3, <4>1
      <4>3. locked_next[n] = n - 1 /\ n # MaxLines + 1
        BY <1>1, <4>2 DEF Straight
      <4>4. QED
        BY <3>3, <4>2, <4>3
    <3>4. QED
      BY <1>1, <3>1, <3>2, <3>3
  <2>2. places = [k \in 0 .. locked_count |-> places[k]]
    OBVIOUS
  <2> HIDE DEF places
  <2>3. QED
    BY <2>1, <2>2
<1> HIDE DEF places
<1>4. walk(nth)
  BY <1>3
<1> HIDE DEF nth
<1>5. \A k \in 0 .. locked_count : nth[k] = places[k]
  <2> DEFINE apart == {k \in 0 .. locked_count : nth[k] # places[k]}
  <2>1. SUFFICES ASSUME apart # {}
                 PROVE  FALSE
    OBVIOUS
  <2>2. PICK k \in apart : \A j \in apart : k <= j
    <3>1. apart \subseteq Nat
      BY <1>1
    <3>2. QED
      BY <2>1, <3>1, LeastNumber
  <2>3. k # 0
    <3>1. nth[0] = 0 /\ places[0] = 0
      BY <1>1, <1>3, <1>4
    <3>2. QED
      BY <2>2, <3>1
  <2>4. k \in 0 .. locked_count /\ k - 1 \in 0 .. locked_count /\ k - 1 \notin apart
    BY <1>1, <2>2, <2>3
  <2>5. nth[k - 1] = places[k - 1]
    BY <2>4
  <2>6. nth[k] = places[k]
    BY <1>3, <1>4, <2>3, <2>4, <2>5
  <2>7. QED
    BY <2>2, <2>6
<1>6. \A k \in 1 .. locked_count : k \in 0 .. locked_count /\ places[k] = locked_count + 1 - k
  BY <1>1 DEF places
<1>7. QED
  BY <1>2, <1>5, <1>6

(* What the invariant says of the lines a sort leaves.                     *)
LEMMA LockedLeave == LockedInv => Locked!TypeOK /\ Locked!EndsInOrder
<1> SUFFICES ASSUME LockedInv PROVE Locked!TypeOK /\ Locked!EndsInOrder
  OBVIOUS
<1>1. LockedTyped /\ locked_count \in Nat /\ MaxLines \in Nat
  BY LockedBounds DEF LockedInv, LockedTyped
<1>2. Locked!TypeOK
  <2>1. 0 .. MaxLines = 1 .. MaxLines \cup {0}
        /\ 1 .. MaxLines + 1 = 1 .. MaxLines \cup {MaxLines + 1}
    BY <1>1
  <2>2. QED
    BY <1>1, <2>1, LockedBounds DEF LockedTyped, Locked!TypeOK
<1>3. ASSUME ~ sorting
      PROVE  ~ exchanged /\ Locked!KeepsLines
  <2>1. ~ exchanged /\ Straight
    BY <1>3 DEF LockedInv
  <2>2. \A k \in 1 .. locked_count : Locked!Nth[k] = locked_count + 1 - k
    BY <1>1, <2>1, NthLine
  <2>3. {Locked!Nth[k] : k \in 1 .. locked_count} = 1 .. locked_count
    <3>1. ASSUME NEW n \in 1 .. locked_count
          PROVE  \E k \in 1 .. locked_count : n = Locked!Nth[k]
      <4>1. locked_count + 1 - n \in 1 .. locked_count
            /\ n = locked_count + 1 - (locked_count + 1 - n)
        BY <1>1
      <4>2. QED
        BY <2>2, <4>1
    <3>2. ASSUME NEW k \in 1 .. locked_count
          PROVE  Locked!Nth[k] \in 1 .. locked_count
      BY <1>1, <2>2
    <3>3. QED
      BY <3>1, <3>2
  <2>4. QED
    BY <2>1, <2>3 DEF Locked!KeepsLines
<1>4. ASSUME sorting, 0 < locked_count, round = locked_count,
             NEW k \in 1 .. locked_count - 1, k % 2 = 1
      PROVE  ~ Locked!After(locked_str[Locked!Nth[k]], locked_str[Locked!Nth[k + 1]])
  <2>1. ~ exchanged /\ Straight /\ round > 0
    BY <1>1, <1>4 DEF LockedInv
  <2>2. PairInOrder(k)
    BY <1>4, <2>1 DEF LockedInv, OddInOrder
  <2>3. k \in 1 .. locked_count /\ k + 1 \in 1 .. locked_count
        /\ locked_count + 1 - (k + 1) = locked_count - k
    BY <1>1
  <2>4. Locked!Nth[k] = locked_count + 1 - k /\ Locked!Nth[k + 1] = locked_count - k
    BY <1>1, <2>1, <2>3, NthLine
  <2>5. \A s1, s2 : Locked!After(s1, s2) <=> After(s1, s2)
    BY DEF Locked!After, After
  <2>6. QED
    BY <2>2, <2>4, <2>5 DEF PairInOrder
<1>5. QED
  BY <1>2, <1>3, <1>4 DEF Locked!EndsInOrder

(* What the sorts leave, for any number of lines and of threads: the list  *)
(* of task17.c holds all lines, and at the end of a sort its first line is *)
(* in order with its second, its third with its fourth and so on; and a    *)
(* thread of task18.c that leaves has put the first two lines in order.    *)
THEOREM LeftAsClaimed == FairSpec => []SortsLeave
<1>1. MCInit => LockedInv /\ IInv /\ DataInv /\ OrderInv
  BY LockedInit, InitInv, InitData, InitOrder DEF MCInit
<1>2. LockedInv /\ IInv /\ DataInv /\ OrderInv /\ [MCNext]_vars
        => (LockedInv /\ IInv /\ DataInv /\ OrderInv)'
  <2> SUFFICES ASSUME LockedInv, IInv, DataInv, OrderInv, [MCNext]_vars
               PROVE  (LockedInv /\ IInv /\ DataInv /\ OrderInv)'
    OBVIOUS
  <2>1. Locked!Next \/ UNCHANGED locked
    BY DEF MCNext, PingPongRuns, ListRuns, SeriesRuns, PagesRun, LockedRuns, StoresRun,
           vars, exercises, rest
  <2>2. [ListNext]_listVars
    BY DEF MCNext, PingPongRuns, ListRuns, SeriesRuns, PagesRun, LockedRuns, StoresRun,
           vars, exercises, rest
  <2>3. QED
    BY <2>1, <2>2, LockedStep, StepInv, StepData, StepOrder
<1>3. LockedInv /\ IInv /\ DataInv /\ OrderInv => SortsLeave
  BY LockedLeave, ListLeaves DEF SortsLeave
<1>4. QED
  BY <1>1, <1>2, <1>3, PTL DEF FairSpec

=============================================================================
