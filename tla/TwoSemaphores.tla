--------------------------- MODULE TwoSemaphores ---------------------------
(***************************************************************************)
(* task14.c: two threads, each waiting on its own semaphore and posting    *)
(* the other's. task16/task16a.c: the same with two processes and named    *)
(* semaphores, which outlive a run that is killed and are opened as they   *)
(* are found by the next. Player 1 of task16a.c is the parent, player 2    *)
(* the child, which removes the names when it has finished.                *)
(***************************************************************************)
EXTENDS Naturals

CONSTANTS
  Loops,      \* COUNT_OF_LOOPS
  MaxKills    \* bound on the runs that are killed

Player == {1, 2}
Other(t) == 3 - t
InitiallyOne(t) == 1
Initially(t) == IF t = 1 THEN 1 ELSE 0

VARIABLES
  named,     \* whether this is task16a.c, with processes and named semaphores
  pc,        \* the next call of each player
  exists,    \* which semaphores have been opened or still have a name
  sem,       \* their values
  printed,   \* messages printed in this run
  found,     \* the values with which this run started
  kills      \* runs killed so far

vars == <<named, pc, exists, sem, printed, found, kills>>

Init ==
  /\ named \in BOOLEAN
  /\ pc = [t \in Player |-> IF t = 1 THEN "open_1" ELSE "not_created"]
  /\ exists = {}
  /\ sem = [t \in Player |-> Initially(t)]
  /\ printed = [t \in Player |-> 0]
  /\ found = sem
  /\ kills = 0

Goto(t, label) == pc' = [pc EXCEPT ![t] = label]

(* sem_init, or sem_open with O_CREAT alone: the initial value counts only *)
(* if the name does not exist.                                             *)
ValueOpened(k) == IF k \in exists THEN sem[k] ELSE Initially(k)

Open(k, label, next) ==
  /\ pc[1] = label
  /\ exists' = exists \cup {k}
  /\ sem' = [sem EXCEPT ![k] = ValueOpened(k)]
  /\ found' = [found EXCEPT ![k] = sem'[k]]
  /\ pc' = IF k = 1 THEN [pc EXCEPT ![1] = next]
           ELSE [t \in Player |-> next]
  /\ UNCHANGED <<named, printed, kills>>

(* Both players exist once both semaphores do. *)
Opens == Open(1, "open_1", "open_2") \/ Open(2, "open_2", "wait")

(* The message is printed between the two calls. *)
PassesAnyhow(t) == TRUE
CountsDown(t) == sem[t] > 0
WaitAndPrint(t) ==
  /\ pc[t] = "wait" /\ CountsDown(t)
  /\ sem' = [sem EXCEPT ![t] = @ - 1]
  /\ printed' = [printed EXCEPT ![t] = @ + 1]
  /\ Goto(t, "post")
  /\ UNCHANGED <<named, exists, found, kills>>

Mine(t) == t
Posted(t) == Other(t)
Post(t) ==
  /\ pc[t] = "post"
  /\ sem' = [sem EXCEPT ![Posted(t)] = @ + 1]
  /\ Goto(t, IF printed[t] < Loops THEN "wait"
             ELSE IF named /\ t = 2 THEN "unlink_1" ELSE "done")
  /\ UNCHANGED <<named, exists, printed, found, kills>>

Unlink(k, label, next) ==
  /\ pc[2] = label
  /\ exists' = exists \ {k}
  /\ Goto(2, next)
  /\ UNCHANGED <<named, sem, printed, found, kills>>

ChildUnlinks == Unlink(1, "unlink_1", "unlink_2") \/ Unlink(2, "unlink_2", "done")

(* Both processes are killed, from the terminal, and the program is        *)
(* started again.                                                          *)
KillAndRestart ==
  /\ named /\ kills < MaxKills
  /\ kills' = kills + 1
  /\ pc' = [t \in Player |-> IF t = 1 THEN "open_1" ELSE "not_created"]
  /\ printed' = [t \in Player |-> 0]
  /\ UNCHANGED <<named, exists, sem, found>>

Finished == (\A t \in Player : pc[t] = "done") /\ UNCHANGED vars

Step(t) ==
  WaitAndPrint(t) \/ Post(t) \/ (t = 1 /\ Opens) \/ (t = 2 /\ ChildUnlinks)

Next == (\E t \in Player : Step(t)) \/ KillAndRestart \/ Finished

Spec == Init /\ [][Next]_vars
FairSpec == Spec /\ \A t \in Player : WF_vars(Step(t))

-----------------------------------------------------------------------------
(* With the threads' semaphores the players print in turn, the first one   *)
(* beginning.                                                              *)
InTurn == IF named THEN [t \in Player |-> 0] ELSE printed
Turns == INSTANCE Alternation WITH printed <- InTurn
RefinesAlternation == Turns!AlternationSpec

(* Both players print all their messages and end, the processes unless     *)
(* they found both semaphores at 0.                                        *)
FoundNoToken == named /\ found = [t \in Player |-> 0]
Ends == (\A t \in Player : pc[t] = "done") \/ FoundNoToken
AllFinish == <>[]Ends

Running == pc[2] # "not_created"

(* There is one token, on a semaphore or with the player that is between   *)
(* its two calls, so that never both print: killing a run does not make    *)
(* another token. Only a second kill can, between the child's two unlinks  *)
(* in a run that the child began, since then one old semaphore is found    *)
(* with the token and the other is created with a new one.                 *)
Tokens == sem[1] + sem[2] + (IF pc[1] = "post" THEN 1 ELSE 0)
                          + (IF pc[2] = "post" THEN 1 ELSE 0)
OneToken == Running /\ kills <= 1 => Tokens <= 1

(* A run blocks for ever only if the run before it was killed with the     *)
(* token in a player's hand, so that both semaphores were found at 0.      *)
Blocked(t) == pc[t] = "done" \/ (pc[t] = "wait" /\ ~ CountsDown(t))
Stuck ==
  /\ Running /\ \E t \in Player : pc[t] # "done"
  /\ \A t \in Player : Blocked(t)
StuckCause == Stuck => FoundNoToken

(* Killed or not before, a run with one token goes on in the order of the  *)
(* semaphores it found, which may be the child's turn first.               *)
OrderAsFound ==
  Running /\ found[1] + found[2] = 1 =>
    LET first == IF found[1] = 1 THEN 1 ELSE 2
    IN printed[first] \in {printed[Other(first)], printed[Other(first)] + 1}

=============================================================================
