-------------------------- MODULE ProducerConsumer --------------------------
(***************************************************************************)
(* The program task25_26/task.c: COUNT_OF_PRODUCERS and COUNT_OF_CONSUMERS *)
(* threads that call put and take through the wrappers mymsgput and        *)
(* mymsgget. The wrappers hand what the library returned to the macro CEM, *)
(* which ends the process on anything but 0.                               *)
(***************************************************************************)
EXTENDS BlockingQueue

CONSTANT NoExit               \* the process has not exited

VARIABLE exit_status          \* the argument of exit, or NoExit

pcVars == <<vars, exit_status>>

PCInit == Init /\ exit_status = NoExit

(* CEM takes any return value but 0 for a failure (common.h:4).            *)
CallFailedOnlyIfNegative(code) == code = 2
CallFailed(code) == code # 0

(* Thread t is back in mymsgput or mymsgget with the library's result.     *)
CheckReturn(t) ==
  /\ pc[t] = "returned"
  /\ IF CallFailed(ret[t])
     THEN exit_status' = 1 /\ UNCHANGED vars
     ELSE Continue(t) /\ UNCHANGED exit_status

(* Everything a thread does inside the library.                            *)
LibraryStep(t) ==
  \/ PutWaits(t) \/ PutStores(t)
  \/ TakeWaits(t) \/ TakeLoads(t)
  \/ Unlock(t)

(* What one thread does. main only joins the threads, and the process has  *)
(* exited before it could join the first (AlwaysExits), so that main never *)
(* gets to mymsgdestroy.                                                   *)
PCStep(t) ==
  \/ LibraryStep(t) /\ UNCHANGED exit_status
  \/ CheckReturn(t)

(* No thread makes another step once exit has been called.                 *)
PCNext ==
  /\ exit_status = NoExit
  /\ \E t \in Threads :
       \/ PCStep(t)
       \/ SpuriousWakeup(t) /\ UNCHANGED exit_status

PCSpec == PCInit /\ [][PCNext]_pcVars
PCFairSpec == PCSpec /\ \A t \in Threads : WF_pcVars(exit_status = NoExit /\ PCStep(t))

-----------------------------------------------------------------------------
(* The program never exits with an error: the wrappers treat a non-zero    *)
(* result of put and take as a failure (task.c:46 and task.c:55), and      *)
(* nothing fails here.                                                     *)
NoErrorExit == exit_status # 1

(* What the program does instead. Since the first thread to look at a      *)
(* result ends the process, no thread ever gets to a second call, so that  *)
(* with a capacity of at least the number of producers nobody ever waits   *)
(* for a free cell; and the process does not hang either: it always exits. *)
AtMostOneCallEach ==
  /\ \A t \in Producers \cup Consumers : left[t] = Loops
  /\ Capacity >= Cardinality(Producers) => \A p \in Producers : pc[p] # "wait"

AlwaysExits == <>(exit_status = 1)

=============================================================================
