----------------------------- MODULE OneMonitor -----------------------------
(***************************************************************************)
(* task12_.c: both threads and main wait on one condition for the          *)
(* monitor's value to become theirs; whoever is woken for another's value  *)
(* passes the signal on. Everything happens with the one mutex held, so    *)
(* the steps are the sections from one pthread_cond_wait to the next.      *)
(***************************************************************************)
EXTENDS Naturals

CONSTANT Loops      \* COUNT_OF_LOOPS (10)

Main == 0               \* each thread's number is the value it waits for
Player == {1, 2}
Thread == Player \cup {Main}
NoValue == 3            \* -1
Other(t) == 3 - t

VARIABLES
  pc,        \* where each thread is
  waiting,   \* who is blocked in pthread_cond_wait
  value,     \* the monitor's value
  printed    \* messages printed so far

vars == <<pc, waiting, value, printed>>

Init ==
  /\ pc = [t \in Thread |-> IF t = Main THEN "start" ELSE "not_created"]
  /\ waiting = {}
  /\ value = NoValue
  /\ printed = [t \in Player |-> 0]

Goto(t, label) == pc' = [pc EXCEPT ![t] = label]

(* The possible sets of waiters after pthread_cond_signal. *)
Signalled == IF waiting = {} THEN {{}} ELSE {waiting \ {t} : t \in waiting}

(* What monitor_wait does of a signal for another's value. *)
SignalKept == {waiting}
PassedOn == Signalled

InWait(t) == pc[t] \in {"in_wait", "in_wait_1", "in_wait_2"}
Woken(t) == InWait(t) /\ t \notin waiting

HasValue(t) == value = t

PassOn(t) ==
  /\ Woken(t) /\ ~ HasValue(t)
  /\ \E rest \in PassedOn : waiting' = rest \cup {t}
  /\ UNCHANGED <<pc, value, printed>>

(* main creates the threads one by one and waits for each to arrive. *)
MainStarts ==
  /\ pc[Main] = "start"
  /\ waiting' = waiting \cup {Main}
  /\ pc' = [pc EXCEPT ![Main] = "in_wait_1", ![1] = "start"]
  /\ UNCHANGED <<value, printed>>

MainGoesOn ==
  /\ pc[Main] = "in_wait_1" /\ Woken(Main) /\ HasValue(Main)
  /\ value' = NoValue
  /\ waiting' = waiting \cup {Main}
  /\ pc' = [pc EXCEPT ![Main] = "in_wait_2", ![2] = "start"]
  /\ UNCHANGED printed

MainSignals ==
  /\ pc[Main] = "in_wait_2" /\ Woken(Main) /\ HasValue(Main)
  /\ value' = 1
  /\ waiting' \in Signalled
  /\ Goto(Main, "join")
  /\ UNCHANGED printed

MainJoins ==
  /\ pc[Main] = "join"
  /\ \A t \in Player : pc[t] = "done"
  /\ Goto(Main, "done")
  /\ UNCHANGED <<waiting, value, printed>>

(* A player reports to main and waits. *)
Start(t) ==
  /\ pc[t] = "start"
  /\ value' = Main
  /\ \E rest \in Signalled : waiting' = rest \cup {t}
  /\ Goto(t, "in_wait")
  /\ UNCHANGED printed

(* It prints, hands over and waits again, or ends. *)
Play(t) ==
  /\ pc[t] = "in_wait" /\ Woken(t) /\ HasValue(t)
  /\ printed' = [printed EXCEPT ![t] = @ + 1]
  /\ value' = Other(t)
  /\ \E rest \in Signalled :
       IF printed'[t] < Loops
       THEN waiting' = rest \cup {t} /\ UNCHANGED pc
       ELSE waiting' = rest /\ Goto(t, "done")

Step(t) ==
  \/ t = Main /\ (MainStarts \/ MainGoesOn \/ MainSignals \/ MainJoins)
  \/ t \in Player /\ (Start(t) \/ Play(t))
  \/ PassOn(t)

SpuriousWakeup(t) ==
  /\ t \in waiting
  /\ waiting' = waiting \ {t}
  /\ UNCHANGED <<pc, value, printed>>

Finished == pc[Main] = "done" /\ UNCHANGED vars

Next == (\E t \in Thread : Step(t) \/ SpuriousWakeup(t)) \/ Finished

Spec == Init /\ [][Next]_vars

(* Each thread that can run is scheduled in the end, and a waiter that     *)
(* could be chosen for signals for ever is chosen: the C library wakes     *)
(* those that wait already before those that come later.                   *)
Signals(t) == (\E u \in Thread : Step(u)) /\ t \in waiting /\ t \notin waiting'

FairSpec ==
  Spec /\ \A t \in Thread : WF_vars(Step(t)) /\ SF_vars(Signals(t))

-----------------------------------------------------------------------------
TypeOK ==
  /\ pc \in [Thread -> {"not_created", "start", "in_wait", "in_wait_1", "in_wait_2",
                        "join", "done"}]
  /\ waiting \subseteq {t \in Thread : InWait(t)}
  /\ value \in Thread \cup {NoValue}
  /\ printed \in [Player -> 0 .. Loops]

(* A value is never left with everybody asleep: if its addressee is still  *)
(* blocked, somebody else is awake and will pass the signal on.            *)
SignalUnderWay == value \in waiting => \E t \in Thread : Woken(t)

(* The players print in turn, the first one beginning.                     *)
Turns == INSTANCE Alternation
RefinesAlternation == Turns!AlternationSpec

(* Both players print all their messages and the program ends.             *)
Ends == pc[Main] = "done"
AllFinish == <>[]Ends

=============================================================================
