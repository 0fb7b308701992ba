---------------------------- MODULE BoundedFifo ----------------------------
(***************************************************************************)
(* What the blocking queue of task25_26 promises its clients, with neither *)
(* threads, mutex nor ring buffer: messages leave in the order they came,  *)
(* each exactly once, and never more than Capacity of them are held. Once  *)
(* it has been dropped, nothing is promised any more.                      *)
(***************************************************************************)
EXTENDS Naturals, Sequences

CONSTANTS
  Messages,   \* what a client can put
  Receivers,  \* who can take
  Capacity,   \* how many messages the queue holds
  NoMessage   \* content of a receiver's buffer before its first take

VARIABLES
  queue,      \* the messages held, oldest first
  buf,        \* the message each receiver took last
  dropped     \* whether the queue has been dropped

fifoVars == <<queue, buf, dropped>>

FifoInit ==
  /\ queue = <<>>
  /\ buf = [r \in Receivers |-> NoMessage]
  /\ dropped = FALSE

FifoPut(m) ==
  /\ Len(queue) < Capacity
  /\ queue' = Append(queue, m)
  /\ UNCHANGED buf

FifoTake(r) ==
  /\ queue # <<>>
  /\ queue' = Tail(queue)
  /\ buf' = [buf EXCEPT ![r] = Head(queue)]

FifoDrop == dropped' = TRUE /\ UNCHANGED <<queue, buf>>

AfterDrop == dropped /\ UNCHANGED dropped

FifoNext ==
  \/ /\ ~ dropped /\ UNCHANGED dropped
     /\ \/ \E m \in Messages : FifoPut(m)
        \/ \E r \in Receivers : FifoTake(r)
  \/ FifoDrop
  \/ AfterDrop

FifoSpec == FifoInit /\ [][FifoNext]_fifoVars

=============================================================================
