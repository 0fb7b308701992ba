------------------------------ MODULE PingPong ------------------------------
(***************************************************************************)
(* The repository does the same exercise four times: two threads or        *)
(* processes print in turn, with four means of synchronisation. This       *)
(* module puts their modules side by side: program says which of them, or  *)
(* of other programs, runs.                                                *)
(***************************************************************************)
EXTENDS Alternation

CONSTANT MaxKills

VARIABLES
  program,                           \* the program that runs
  pc,                                \* (printed is declared in Alternation)
  mutex, waiting, flag, value,       \* of the programs with monitors
  named, exists, sem, found, kills   \* of the programs with semaphores

Two == INSTANCE TwoMonitors
One == INSTANCE OneMonitor
Sem == INSTANCE TwoSemaphores

monitors == <<mutex, flag>>
semaphores == <<named, exists, sem, found, kills>>
pingPongVars == <<pc, waiting, value, printed, monitors, semaphores>>

(* What a program does not have. *)
Absent == "absent"
NoMonitors == mutex = Absent /\ flag = Absent
NoSemaphores ==
  /\ named = Absent /\ exists = Absent /\ sem = Absent /\ found = Absent
  /\ kills = Absent
NoPingPong ==
  /\ pc = Absent /\ waiting = Absent /\ value = Absent /\ AlternationInit
  /\ NoMonitors /\ NoSemaphores

PingPongInit ==
  \/ program = "task12" /\ Two!Init /\ value = Absent /\ NoSemaphores
  \/ program = "task12_" /\ One!Init /\ NoMonitors /\ NoSemaphores
  \/ program = "task14, task16a" /\ Sem!Init
       /\ NoMonitors /\ waiting = Absent /\ value = Absent

TwoRuns == program = "task12" /\ UNCHANGED <<program, value, semaphores>>
OneRuns == program = "task12_" /\ UNCHANGED <<program, monitors, semaphores>>
SemRuns == program = "task14, task16a" /\ UNCHANGED <<program, monitors, waiting, value>>

PingPongNext ==
  (TwoRuns /\ Two!Next) \/ (OneRuns /\ One!Next) \/ (SemRuns /\ Sem!Next)

(* The fairness of each module.                                            *)
PingPongFairness ==
  /\ \A t \in Two!Thread : WF_pingPongVars(TwoRuns /\ Two!Step(t))
  /\ \A t \in One!Thread : /\ WF_pingPongVars(OneRuns /\ One!Step(t))
                           /\ SF_pingPongVars(OneRuns /\ One!Signals(t))
  /\ \A t \in Player : WF_pingPongVars(SemRuns /\ Sem!Step(t))

-----------------------------------------------------------------------------
(* Every value of the monitor of task12_.c has somebody to bring it to its *)
(* addressee (OneMonitor).                                                 *)
SignalUnderWay == program = "task12_" => One!SignalUnderWay

(* What task12.c (TwoMonitors), task14.c and task16a.c (TwoSemaphores) can *)
(* block for ever on, and nothing else.                                    *)
StuckCause ==
  /\ program = "task12" => Two!StuckCause
  /\ program = "task14, task16a" => Sem!StuckCause

(* Semaphores that outlive a killed run give no second token, and the      *)
(* order is that of the semaphores found (TwoSemaphores).                  *)
OneToken == program = "task14, task16a" => Sem!OneToken
OrderAsFound == program = "task14, task16a" => Sem!OrderAsFound

(* Every program implements the alternation of the players.                *)
InTurn ==
  CASE program = "task12" -> Two!InTurn
    [] program = "task14, task16a" -> Sem!InTurn
    [] OTHER -> printed
Turns == INSTANCE Alternation WITH printed <- InTurn
RefinesAlternation == Turns!AlternationSpec

(* Every program ends, but for the blocked states of StuckCause.           *)
Ends ==
  CASE program = "task12" -> Two!Ends
    [] program = "task12_" -> One!Ends
    [] program = "task14, task16a" -> Sem!Ends
    [] OTHER -> TRUE
AllFinish == <>[]Ends

=============================================================================
