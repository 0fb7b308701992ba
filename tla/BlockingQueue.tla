--------------------------- MODULE BlockingQueue ---------------------------
(***************************************************************************)
(* The bounded blocking queue of task25_26/task26: a ring buffer guarded   *)
(* by one mutex and two condition variables, used by producer and consumer *)
(* threads that each make a fixed number of calls, by threads that call    *)
(* drop, and by a main thread that destroys the queue once it has joined   *)
(* all the others.                                                         *)
(*                                                                         *)
(* A step is what one thread does between taking the mutex and giving it   *)
(* up (or, for a call that stores or takes a message, up to its unlock).   *)
(* is_dropped is read wherever the code reads it, but no line of the code  *)
(* assigns it after init, and is_destroyed is set only once every other    *)
(* thread has been joined; so the returns they guard cannot be taken and   *)
(* are modelled as the guard Admitted, which no reachable state falsifies. *)
(* The "== -1" checks on pthread calls are left out: those calls report    *)
(* errors as positive numbers.                                             *)
(***************************************************************************)
EXTENDS Naturals, FiniteSets, Sequences

CONSTANTS
  Producers, Consumers, Droppers,  \* the threads, by what they call
  Capacity,                        \* bq->capacity
  Loops,                           \* calls each producer and consumer makes
  MaxSpurious,                     \* bound on spurious wakeups in a behaviour
  NoThread,                        \* "the mutex is free"
  NoMessage                        \* an unwritten cell or receive buffer

ASSUME QueueAssumption ==
  /\ Capacity \in Nat \ {0}
  /\ Loops \in Nat \ {0}
  /\ MaxSpurious \in Nat
  /\ IsFiniteSet(Producers) /\ IsFiniteSet(Consumers)
  /\ Producers \cap Consumers = {}
  /\ Droppers \cap (Producers \cup Consumers) = {}
  /\ NoThread \notin Producers \cup Consumers \cup Droppers
  /\ NoMessage \notin Producers
  /\ \A d1, d2 \in Droppers : d1 = d2   \* a second drop would free items twice

Threads == Producers \cup Consumers \cup Droppers

(* A producer always puts its own text (task.c:83), so a message is the    *)
(* thread that sent it.                                                    *)
Messages == Producers

Slots == 0 .. Capacity - 1

VARIABLES
  items, count, take_index, put_index, \* the ring buffer
  is_dropped, is_destroyed,            \* the flags, as numbers
  items_freed,                         \* drop has called free(bq->items)
  mutex,                               \* the thread that holds bq->mutex
  not_full, not_empty,                 \* threads blocked on each condition
  pc,                                  \* where each thread is
  ret,                                 \* what its last call returned
  buf,                                 \* the message a consumer took last
  left,                                \* calls each thread has yet to finish
  spurious                             \* spurious wakeups so far

ringVars == <<items, count, take_index, put_index>>
flagVars == <<is_dropped, is_destroyed, items_freed>>
condVars == <<not_full, not_empty>>
clientVars == <<ret, buf, left, spurious>>
vars == <<ringVars, flagVars, mutex, condVars, pc, clientVars>>

Init ==
  /\ items = [s \in Slots |-> NoMessage]
  /\ count = 0 /\ take_index = 0 /\ put_index = 0
  /\ is_dropped = 0 /\ is_destroyed = 0 /\ items_freed = FALSE
  /\ mutex = NoThread
  /\ not_full = {} /\ not_empty = {}
  /\ pc = [t \in Threads |-> "lock"]
  /\ ret = [t \in Threads |-> 0]
  /\ buf = [c \in Consumers |-> NoMessage]
  /\ left = [t \in Threads |-> IF t \in Droppers THEN 1 ELSE Loops]
  /\ spurious = 0

-----------------------------------------------------------------------------
(* The next slot of the ring: the "if (++index == capacity) index = 0" of  *)
(* put and take.                                                           *)
NextIndexNeverWraps(i) == i + 1
NextIndex(i) == IF i + 1 = Capacity THEN 0 ELSE i + 1

(* pthread_cond_signal: one blocked thread, if there is one, may proceed.  *)
SignalForgotten(cond, cond2) == cond2 = cond
Signal(cond, cond2) ==
  \/ cond = {} /\ cond2 = cond
  \/ \E t \in cond : cond2 = cond \ {t}

(* A thread that was blocked and has been woken, but does not yet hold the *)
(* mutex again.                                                            *)
Woken(t) == pc[t] = "wait" /\ t \notin not_full \cup not_empty

(* Thread t can get the mutex now, to enter its call or to come back from  *)
(* a wait, and passes the is_dropped and is_destroyed checks made there.   *)
Admitted(t) ==
  /\ mutex = NoThread
  /\ is_dropped = 0
  /\ \/ pc[t] = "lock" /\ is_destroyed = 0
     \/ Woken(t)

(* The loop condition "test" of a call, evaluated on entry and again after *)
(* every wakeup.                                                           *)
MustWaitOnce(t, test) == test /\ pc[t] = "lock"
MustWait(t, test) == test

PutWaits(t) ==
  /\ t \in Producers
  /\ Admitted(t)
  /\ MustWait(t, count = Capacity)
  /\ not_full' = not_full \cup {t}
  /\ pc' = [pc EXCEPT ![t] = "wait"]
  /\ UNCHANGED <<ringVars, flagVars, mutex, not_empty, clientVars>>

PutStores(t) ==
  /\ t \in Producers
  /\ Admitted(t)
  /\ ~ MustWait(t, count = Capacity)
  /\ items' = [items EXCEPT ![put_index] = t]
  /\ put_index' = NextIndex(put_index)
  /\ count' = count + 1
  /\ Signal(not_empty, not_empty')
  /\ mutex' = t
  /\ ret' = [ret EXCEPT ![t] = 1]
  /\ pc' = [pc EXCEPT ![t] = "unlock"]
  /\ UNCHANGED <<take_index, flagVars, not_full, buf, left, spurious>>

(* What a take can read: the cell at take_index, or anything at all when   *)
(* drop has freed the cells.                                               *)
Loadable ==
  IF items_freed THEN Messages \cup {NoMessage} ELSE {items[take_index]}

TakeWaits(t) ==
  /\ t \in Consumers
  /\ Admitted(t)
  /\ MustWait(t, count = 0)
  /\ not_empty' = not_empty \cup {t}
  /\ pc' = [pc EXCEPT ![t] = "wait"]
  /\ UNCHANGED <<ringVars, flagVars, mutex, not_full, clientVars>>

TakeLoads(t) ==
  /\ t \in Consumers
  /\ Admitted(t)
  /\ ~ MustWait(t, count = 0)
  /\ \E m \in Loadable : buf' = [buf EXCEPT ![t] = m]
  /\ take_index' = NextIndex(take_index)
  /\ count' = count - 1
  /\ Signal(not_full, not_full')
  /\ mutex' = t
  /\ ret' = [ret EXCEPT ![t] = 1]
  /\ pc' = [pc EXCEPT ![t] = "unlock"]
  /\ UNCHANGED <<items, put_index, flagVars, not_empty, left, spurious>>

(* drop wakes every blocked thread and frees the ring, but leaves          *)
(* is_dropped as it was.                                                   *)
Drop(t) ==
  /\ t \in Droppers
  /\ Admitted(t)
  /\ not_full' = {} /\ not_empty' = {}
  /\ items_freed' = TRUE
  /\ mutex' = t
  /\ ret' = [ret EXCEPT ![t] = 0]
  /\ pc' = [pc EXCEPT ![t] = "unlock"]
  /\ UNCHANGED <<ringVars, is_dropped, is_destroyed, buf, left, spurious>>

Unlock(t) ==
  /\ pc[t] = "unlock"
  /\ mutex' = NoThread
  /\ pc' = [pc EXCEPT ![t] = "returned"]
  /\ UNCHANGED <<ringVars, flagVars, condVars, clientVars>>

(* The calling thread's loop: make the next call, or finish.               *)
Continue(t) ==
  /\ pc[t] = "returned"
  /\ left' = [left EXCEPT ![t] = @ - 1]
  /\ pc' = [pc EXCEPT ![t] = IF left[t] = 1 THEN "done" ELSE "lock"]
  /\ UNCHANGED <<ringVars, flagVars, mutex, condVars, ret, buf, spurious>>

(* POSIX lets pthread_cond_wait return although nobody signalled.          *)
SpuriousWakeup(t) ==
  /\ t \in not_full \cup not_empty
  /\ spurious < MaxSpurious
  /\ spurious' = spurious + 1
  /\ not_full' = not_full \ {t}
  /\ not_empty' = not_empty \ {t}
  /\ UNCHANGED <<ringVars, flagVars, mutex, pc, ret, buf, left>>

(* main joins every thread and destroys the queue. It holds the mutex only *)
(* inside this step.                                                       *)
Destroy ==
  /\ \A t \in Threads : pc[t] = "done"
  /\ mutex = NoThread
  /\ is_destroyed = 0
  /\ is_destroyed' = 1
  /\ UNCHANGED <<ringVars, is_dropped, items_freed, mutex, condVars, pc, clientVars>>

(* What one thread does on its own account. *)
Step(t) ==
  \/ PutWaits(t) \/ PutStores(t)
  \/ TakeWaits(t) \/ TakeLoads(t)
  \/ Drop(t)
  \/ Unlock(t)
  \/ Continue(t)

(* The program has exited: nothing is left to do.                          *)
Finished == is_destroyed = 1 /\ UNCHANGED vars

Next ==
  \/ \E t \in Threads : Step(t) \/ SpuriousWakeup(t)
  \/ Destroy
  \/ Finished

Spec == Init /\ [][Next]_vars

(* Every thread that can run does run; nothing is assumed about who wins a *)
(* contended mutex, and nothing forces a spurious wakeup.                  *)
Fairness ==
  /\ \A t \in Threads : WF_vars(Step(t))
  /\ WF_vars(Destroy)

FairSpec == Spec /\ Fairness

-----------------------------------------------------------------------------
TypeOK ==
  /\ items \in [Slots -> Messages \cup {NoMessage}]
  /\ count \in 0 .. Capacity
  /\ take_index \in Slots /\ put_index \in Slots
  /\ is_dropped = 0 /\ is_destroyed \in {0, 1} /\ items_freed \in BOOLEAN
  /\ mutex \in Threads \cup {NoThread}
  /\ not_full \subseteq Producers /\ not_empty \subseteq Consumers
  /\ pc \in [Threads -> {"lock", "wait", "unlock", "returned", "done"}]
  /\ ret \in [Threads -> {0, 1}]
  /\ buf \in [Consumers -> Messages \cup {NoMessage}]
  /\ left \in [Threads -> 0 .. Loops]
  /\ spurious \in 0 .. MaxSpurious

WokenProducers == {t \in Producers : Woken(t)}
WokenConsumers == {t \in Consumers : Woken(t)}

(* No wakeup is lost. While a consumer is still blocked, every message in  *)
(* the queue has a consumer already woken to come for it, and while a      *)
(* producer is blocked every free cell has a woken producer: one signal    *)
(* per put and per take is enough (blockingqueue_implementation.h:31 and   *)
(* the matching signal in put), although a running thread may overtake a   *)
(* woken one and send it back to wait.                                     *)
NoLostWakeup ==
  /\ not_empty # {} => count <= Cardinality(WokenConsumers)
  /\ not_full # {} => Capacity - count <= Cardinality(WokenProducers)

(* The mutex is held by the thread that is about to release it, and by     *)
(* nobody else.                                                            *)
HolderInv == \A t \in Threads : pc[t] = "unlock" <=> mutex = t

(* Only producers and consumers that are inside pthread_cond_wait are      *)
(* blocked, and a thread that is not done has a call to finish.            *)
WaiterInv ==
  /\ \A t \in not_full \cup not_empty : pc[t] = "wait"
  /\ \A t \in Threads : pc[t] # "done" => left[t] # 0

(* The cell that lies k cells after cell i.                                *)
CellAfter(i, k) == IF i + k < Capacity THEN i + k ELSE i + k - Capacity

(* put_index is determined by the other two counters.                      *)
RingInv == put_index = CellAfter(take_index, count)

(* The inductive invariant of the queue. *)
IInv == TypeOK /\ HolderInv /\ WaiterInv /\ RingInv /\ NoLostWakeup

(* The messages in the ring, oldest first.                                 *)
Contents == [i \in 1 .. count |-> items[CellAfter(take_index, i - 1)]]

Fifo == INSTANCE BoundedFifo
  WITH Receivers <- Consumers, queue <- Contents, dropped <- items_freed

(* The ring buffer with its three counters behaves as a bounded first-in   *)
(* first-out queue, whatever the interleaving of puts, takes and wakeups,  *)
(* until somebody drops it.                                                *)
RefinesFifo == Fifo!FifoSpec

(* With as many takes as puts, every thread finishes its loop, main joins  *)
(* them all and the queue is destroyed: nobody sleeps through the message  *)
(* or the free cell meant for it.                                          *)
AllFinish == <>(is_destroyed = 1)

(* A dropped queue serves no more calls: the checks of is_dropped on entry *)
(* and after every wait (blockingqueue_implementation.h:8, 19, 49, 61) are *)
(* there so that nobody touches the ring once drop has freed it.           *)
DroppedQueueRefuses == [][items_freed => UNCHANGED ringVars]_vars

=============================================================================
