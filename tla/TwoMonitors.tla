---------------------------- MODULE TwoMonitors ----------------------------
(***************************************************************************)
(* task12.c: two threads, each with a monitor (a mutex, a condition and a  *)
(* flag) on which the other one wakes it up. main holds both mutexes when  *)
(* it starts the threads, waits on each monitor until its thread waits     *)
(* there too, and then wakes the first. Each thread keeps its own mutex    *)
(* locked except while it waits. The steps are the sections between two    *)
(* calls that can block, since a flag is used with its mutex held only.    *)
(***************************************************************************)
EXTENDS Naturals

CONSTANT Loops      \* COUNT_OF_LOOPS (10)

Main == 0
Player == {1, 2}
Thread == Player \cup {Main}
Other(t) == 3 - t
Nobody == 3

VARIABLES
  pc,        \* where each thread is
  mutex,     \* who has locked each monitor
  waiting,   \* who is blocked in pthread_cond_wait on each monitor
  flag,      \* the flag of each monitor
  printed    \* messages printed so far

vars == <<pc, mutex, waiting, flag, printed>>

(* main has locked both monitors and created both threads. *)
Init ==
  /\ pc = [t \in Thread |-> IF t = Main THEN "wait_1" ELSE "start"]
  /\ mutex = [k \in Player |-> Main]
  /\ waiting = [k \in Player |-> {}]
  /\ flag = [k \in Player |-> 0]
  /\ printed = [t \in Player |-> 0]

Goto(t, label) == pc' = [pc EXCEPT ![t] = label]

(* The possible sets of waiters after pthread_cond_signal. *)
SignalLost(k) == {waiting[k]}
Signal(k) ==
  IF waiting[k] = {} THEN {{}} ELSE {waiting[k] \ {t} : t \in waiting[k]}

(* The condition at the end of monitor_wait's loop, for a woken thread. *)
WokenByAnything(k) == TRUE
FlagRaised(k) == flag[k] = 1

(* t enters pthread_cond_wait on k with its mutex held. *)
BeginWait(t, k) ==
  /\ waiting' = [waiting EXCEPT ![k] = @ \cup {t}]
  /\ mutex' = [mutex EXCEPT ![k] = Nobody]

(* t, woken, gets the mutex of k back; without a flag it waits again. *)
Woken(t, k) == t \notin waiting[k] /\ mutex[k] = Nobody
WaitAgain(t, k) ==
  /\ Woken(t, k) /\ ~ FlagRaised(k)
  /\ BeginWait(t, k)
  /\ UNCHANGED <<pc, flag, printed>>
EndWait(t, k) ==
  /\ Woken(t, k) /\ FlagRaised(k)
  /\ flag' = [flag EXCEPT ![k] = 0]
  /\ mutex' = [mutex EXCEPT ![k] = t]
  /\ UNCHANGED waiting

-----------------------------------------------------------------------------
(* main: monitor_wait on each monitor, then the first signal, both unlocks *)
(* and the joins.                                                          *)
MainBegins(k, label, next) ==
  /\ pc[Main] = label
  /\ BeginWait(Main, k) /\ Goto(Main, next)
  /\ UNCHANGED <<flag, printed>>

MainWoken(k, label, next) ==
  /\ pc[Main] = label
  /\ \/ WaitAgain(Main, k)
     \/ EndWait(Main, k) /\ Goto(Main, next) /\ UNCHANGED printed

MainSignals ==
  /\ pc[Main] = "signal"
  /\ flag' = [flag EXCEPT ![1] = 1]
  /\ \E rest \in Signal(1) : waiting' = [waiting EXCEPT ![1] = rest]
  /\ mutex' = [k \in Player |-> Nobody]
  /\ Goto(Main, "join")
  /\ UNCHANGED printed

MainJoins ==
  /\ pc[Main] = "join"
  /\ \A t \in Player : pc[t] = "done"
  /\ Goto(Main, "done")
  /\ UNCHANGED <<mutex, waiting, flag, printed>>

MainStep ==
  \/ MainBegins(1, "wait_1", "in_wait_1") \/ MainWoken(1, "in_wait_1", "wait_2")
  \/ MainBegins(2, "wait_2", "in_wait_2") \/ MainWoken(2, "in_wait_2", "signal")
  \/ MainSignals \/ MainJoins

(* A player locks its own monitor, signals there and waits there.          *)
Start(t) ==
  /\ pc[t] = "start" /\ mutex[t] = Nobody
  /\ flag' = [flag EXCEPT ![t] = 1]
  /\ \E rest \in Signal(t) : waiting' = [waiting EXCEPT ![t] = rest \cup {t}]
  /\ Goto(t, "in_wait")
  /\ UNCHANGED <<mutex, printed>>

(* The message is printed with the own mutex locked. *)
PlayerWoken(t) ==
  /\ pc[t] = "in_wait"
  /\ \/ WaitAgain(t, t)
     \/ /\ EndWait(t, t)
        /\ printed' = [printed EXCEPT ![t] = @ + 1]
        /\ Goto(t, "signal_other")

SignalOther(t) ==
  /\ pc[t] = "signal_other" /\ mutex[Other(t)] = Nobody
  /\ flag' = [flag EXCEPT ![Other(t)] = 1]
  /\ \E rest \in Signal(Other(t)) : waiting' = [waiting EXCEPT ![Other(t)] = rest]
  /\ Goto(t, IF printed[t] < Loops THEN "wait" ELSE "unlock")
  /\ UNCHANGED <<mutex, printed>>

PlayerWaits(t) ==
  /\ pc[t] = "wait"
  /\ BeginWait(t, t) /\ Goto(t, "in_wait")
  /\ UNCHANGED <<flag, printed>>

Unlock(t) ==
  /\ pc[t] = "unlock"
  /\ mutex' = [mutex EXCEPT ![t] = Nobody]
  /\ Goto(t, "done")
  /\ UNCHANGED <<waiting, flag, printed>>

PlayerStep(t) ==
  Start(t) \/ PlayerWoken(t) \/ SignalOther(t) \/ PlayerWaits(t) \/ Unlock(t)

Step(t) == IF t = Main THEN MainStep ELSE PlayerStep(t)

SpuriousWakeup(t, k) ==
  /\ t \in waiting[k]
  /\ waiting' = [waiting EXCEPT ![k] = @ \ {t}]
  /\ UNCHANGED <<pc, mutex, flag, printed>>

Finished == pc[Main] = "done" /\ UNCHANGED vars

Next ==
  \/ \E t \in Thread : Step(t) \/ \E k \in Player : SpuriousWakeup(t, k)
  \/ Finished

Spec == Init /\ [][Next]_vars
FairSpec == Spec /\ \A t \in Thread : WF_vars(Step(t))

-----------------------------------------------------------------------------
TypeOK ==
  /\ pc \in [Thread -> {"wait_1", "in_wait_1", "wait_2", "in_wait_2", "signal",
                        "join", "start", "in_wait", "signal_other", "wait",
                        "unlock", "done"}]
  /\ mutex \in [Player -> Thread \cup {Nobody}]
  /\ waiting \in [Player -> SUBSET Thread]
  /\ flag \in [Player -> {0, 1}]
  /\ printed \in [Player -> 0 .. Loops]

(* A player woken without a signal while main still waits for it takes the *)
(* flag it has raised for main, prints, and waits with its own mutex for   *)
(* the other's, which main has; main, woken, waits for the player's.       *)
FlagStolen ==
  \E t \in Player :
    /\ pc[t] = "signal_other" /\ printed[t] = 1 /\ mutex[t] = t
    /\ mutex[Other(t)] = Main
    /\ pc[Main] = IF t = 1 THEN "in_wait_1" ELSE "in_wait_2"

(* But for that message, the players print in turn, the first one          *)
(* beginning, although a monitor's flag can be raised before or after its  *)
(* owner waits.                                                            *)
InTurn == IF FlagStolen THEN [t \in Player |-> 0] ELSE printed
Turns == INSTANCE Alternation WITH printed <- InTurn
RefinesAlternation == Turns!AlternationSpec

(* The program stops for ever in this way only.                            *)
MainWaitsOn(k) == pc[Main] = IF k = 1 THEN "in_wait_1" ELSE "in_wait_2"
Blocked(t) ==
  \/ pc[t] = "done"
  \/ pc[t] = "start" /\ mutex[t] # Nobody
  \/ pc[t] = "in_wait" /\ ~ Woken(t, t)
  \/ pc[t] = "signal_other" /\ mutex[Other(t)] # Nobody
  \/ t = Main /\ \E k \in Player : MainWaitsOn(k) /\ ~ Woken(Main, k)
  \/ pc[t] = "join" /\ \E u \in Player : pc[u] # "done"
Stuck == pc[Main] # "done" /\ \A t \in Thread : Blocked(t)
StuckCause == Stuck => FlagStolen

(* Otherwise both players print all their messages and the program ends.   *)
Ends == pc[Main] = "done" \/ FlagStolen
AllFinish == <>[]Ends

=============================================================================
