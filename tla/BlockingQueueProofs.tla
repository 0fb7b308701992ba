------------------------ MODULE BlockingQueueProofs ------------------------
(***************************************************************************)
(* The blocking queue is type correct, loses no wakeup and implements the  *)
(* bounded FIFO, for any number of threads and calls and any capacity; and *)
(* the program task.c, which only calls it, never makes a second call.     *)
(***************************************************************************)
EXTENDS ProducerConsumer, FiniteSetTheorems, SequenceTheorems, TLAPS

(* The number of woken threads, as the set of them grows or shrinks. *)
LEMMA CardinalityOfSubset ==
  ASSUME NEW A, NEW B, IsFiniteSet(B), A \subseteq B
  PROVE  /\ IsFiniteSet(A)
         /\ Cardinality(A) \in Nat /\ Cardinality(B) \in Nat
         /\ Cardinality(A) <= Cardinality(B)
BY FS_Subset, FS_CardinalityType

LEMMA CardinalityGains ==
  ASSUME NEW A, NEW B, IsFiniteSet(B), A \subseteq B, NEW x \in B, x \notin A
  PROVE  Cardinality(A) + 1 <= Cardinality(B)
<1>1. IsFiniteSet(A)
  BY CardinalityOfSubset
<1>2. /\ IsFiniteSet(A \cup {x})
      /\ Cardinality(A \cup {x}) = Cardinality(A) + 1
  BY <1>1, FS_AddElement
<1>3. Cardinality(A \cup {x}) <= Cardinality(B)
  BY CardinalityOfSubset
<1> QED
  BY <1>2, <1>3

LEMMA CardinalityLosesOne ==
  ASSUME NEW A, NEW B, NEW x, IsFiniteSet(A), IsFiniteSet(B), A \ {x} \subseteq B
  PROVE  Cardinality(A) <= Cardinality(B) + 1
<1>1. /\ Cardinality(A \ {x}) = IF x \in A THEN Cardinality(A) - 1 ELSE Cardinality(A)
      /\ Cardinality(A) \in Nat
  BY FS_RemoveElement, FS_CardinalityType
<1>2. Cardinality(A \ {x}) <= Cardinality(B) /\ Cardinality(B) \in Nat
  BY CardinalityOfSubset
<1> QED
  BY <1>1, <1>2

-----------------------------------------------------------------------------
LEMMA InitEstablishesInv == Init => IInv
<1> SUFFICES ASSUME Init PROVE IInv
  OBVIOUS
<1>1. TypeOK
  <2>1. left \in [Threads -> 0 .. Loops]
    BY QueueAssumption DEF Init
  <2>2. items \in [Slots -> Messages \cup {NoMessage}]
    BY DEF Init
  <2>3. take_index \in Slots /\ put_index \in Slots /\ count \in 0 .. Capacity
    BY QueueAssumption DEF Init, Slots
  <2>4. /\ pc \in [Threads -> {"lock", "wait", "unlock", "returned", "done"}]
        /\ ret \in [Threads -> {0, 1}]
        /\ buf \in [Consumers -> Messages \cup {NoMessage}]
    BY DEF Init
  <2>5. spurious \in 0 .. MaxSpurious
    BY QueueAssumption DEF Init
  <2> QED
    BY <2>1, <2>2, <2>3, <2>4, <2>5 DEF Init, TypeOK
<1>2. HolderInv /\ WaiterInv
  BY QueueAssumption DEF Init, HolderInv, WaiterInv, Threads
<1>3. RingInv
  BY QueueAssumption DEF Init, RingInv, CellAfter
<1>4. NoLostWakeup
  BY DEF Init, NoLostWakeup
<1> QED
  BY <1>1, <1>2, <1>3, <1>4 DEF IInv

(* Every step keeps the variables in their types, in particular both       *)
(* indexes inside the ring and count between 0 and Capacity.               *)
LEMMA TypeStep == IInv /\ [Next]_vars => TypeOK'
<1> SUFFICES ASSUME IInv, [Next]_vars PROVE TypeOK'
  OBVIOUS
<1> USE QueueAssumption DEF IInv, TypeOK
<1>1. ASSUME NEW t \in Threads, PutWaits(t) PROVE TypeOK'
  BY <1>1 DEF PutWaits, ringVars, flagVars, clientVars
<1>2. ASSUME NEW t \in Threads, PutStores(t) PROVE TypeOK'
  BY <1>2 DEF PutStores, MustWait, NextIndex, Signal, Slots, Messages, flagVars
<1>3. ASSUME NEW t \in Threads, TakeWaits(t) PROVE TypeOK'
  BY <1>3 DEF TakeWaits, ringVars, flagVars, clientVars
<1>4. ASSUME NEW t \in Threads, TakeLoads(t) PROVE TypeOK'
  <2>1. Loadable \subseteq Messages \cup {NoMessage}
    BY DEF Loadable
  <2> QED
    BY <1>4, <2>1 DEF TakeLoads, MustWait, NextIndex, Signal, Slots, flagVars
<1>5. ASSUME NEW t \in Threads, Drop(t) PROVE TypeOK'
  BY <1>5 DEF Drop, ringVars
<1>6. ASSUME NEW t \in Threads, Unlock(t) PROVE TypeOK'
  BY <1>6 DEF Unlock, ringVars, flagVars, condVars, clientVars
<1>7. ASSUME NEW t \in Threads, Continue(t) PROVE TypeOK'
  BY <1>7 DEF Continue, WaiterInv, ringVars, flagVars, condVars
<1>8. ASSUME NEW t \in Threads, SpuriousWakeup(t) PROVE TypeOK'
  BY <1>8 DEF SpuriousWakeup, ringVars, flagVars
<1>9. ASSUME Destroy PROVE TypeOK'
  BY <1>9 DEF Destroy, ringVars, condVars, clientVars
<1>10. ASSUME UNCHANGED vars PROVE TypeOK'
  BY <1>10 DEF vars, ringVars, flagVars, condVars, clientVars
<1> QED
  BY <1>1, <1>2, <1>3, <1>4, <1>5, <1>6, <1>7, <1>8, <1>9, <1>10
     DEF Next, Step, Finished

(* Every step keeps the mutex with the thread that is about to release it. *)
LEMMA HolderStep == IInv /\ [Next]_vars => HolderInv'
<1> SUFFICES ASSUME IInv, [Next]_vars PROVE HolderInv'
  OBVIOUS
<1> USE QueueAssumption DEF IInv, TypeOK, HolderInv, Admitted, Woken
<1>1. ASSUME NEW t \in Threads, PutWaits(t) \/ TakeWaits(t) PROVE HolderInv'
  BY <1>1 DEF PutWaits, TakeWaits
<1>2. ASSUME NEW t \in Threads, PutStores(t) \/ TakeLoads(t) \/ Drop(t)
      PROVE  HolderInv'
  BY <1>2 DEF PutStores, TakeLoads, Drop, Threads
<1>3. ASSUME NEW t \in Threads, Unlock(t) PROVE HolderInv'
  BY <1>3 DEF Unlock, Threads
<1>4. ASSUME NEW t \in Threads, Continue(t) PROVE HolderInv'
  BY <1>4 DEF Continue
<1>5. ASSUME NEW t \in Threads, SpuriousWakeup(t) PROVE HolderInv'
  BY <1>5 DEF SpuriousWakeup
<1>6. ASSUME Destroy \/ UNCHANGED vars PROVE HolderInv'
  BY <1>6 DEF Destroy, vars
<1> QED
  BY <1>1, <1>2, <1>3, <1>4, <1>5, <1>6 DEF Next, Step, Finished

(* Every step leaves on the conditions only threads that wait.             *)
LEMMA WaiterStep == IInv /\ [Next]_vars => WaiterInv'
<1> SUFFICES ASSUME IInv, [Next]_vars PROVE WaiterInv'
  OBVIOUS
<1> USE QueueAssumption DEF IInv, TypeOK, WaiterInv, Admitted, Woken, Threads
<1>1. ASSUME NEW t \in Threads, PutWaits(t) \/ TakeWaits(t) PROVE WaiterInv'
  BY <1>1 DEF PutWaits, TakeWaits, clientVars
<1>2. ASSUME NEW t \in Threads, PutStores(t) PROVE WaiterInv'
  BY <1>2 DEF PutStores, Signal
<1>3. ASSUME NEW t \in Threads, TakeLoads(t) PROVE WaiterInv'
  BY <1>3 DEF TakeLoads, Signal
<1>4. ASSUME NEW t \in Threads, Drop(t) PROVE WaiterInv'
  BY <1>4 DEF Drop
<1>5. ASSUME NEW t \in Threads, Unlock(t) PROVE WaiterInv'
  BY <1>5 DEF Unlock, condVars, clientVars
<1>6. ASSUME NEW t \in Threads, Continue(t) PROVE WaiterInv'
  BY <1>6 DEF Continue, condVars
<1>7. ASSUME NEW t \in Threads, SpuriousWakeup(t) PROVE WaiterInv'
  BY <1>7 DEF SpuriousWakeup
<1>8. ASSUME Destroy \/ UNCHANGED vars PROVE WaiterInv'
  BY <1>8 DEF Destroy, vars, condVars, clientVars
<1> QED
  BY <1>1, <1>2, <1>3, <1>4, <1>5, <1>6, <1>7, <1>8 DEF Next, Step, Finished

(* put_index runs count cells ahead of take_index.                         *)
LEMMA RingStep == IInv /\ [Next]_vars => RingInv'
<1> SUFFICES ASSUME IInv, [Next]_vars PROVE RingInv'
  OBVIOUS
<1> USE QueueAssumption DEF IInv, TypeOK, RingInv, CellAfter, NextIndex, MustWait, Slots
<1>1. ASSUME NEW t \in Threads, PutStores(t) PROVE RingInv'
  BY <1>1 DEF PutStores
<1>2. ASSUME NEW t \in Threads, TakeLoads(t) PROVE RingInv'
  BY <1>2 DEF TakeLoads
<1>3. ASSUME UNCHANGED ringVars PROVE RingInv'
  BY <1>3 DEF ringVars
<1> QED
  BY <1>1, <1>2, <1>3 DEF Next, Step, Finished, PutWaits, TakeWaits, Drop,
     Unlock, Continue, SpuriousWakeup, Destroy, vars

(* A step that leaves the count, the conditions and the woken threads as   *)
(* they are loses no wakeup.                                               *)
LEMMA WakeupStutter ==
  ASSUME NoLostWakeup,
         UNCHANGED <<count, not_full, not_empty, WokenProducers, WokenConsumers>>
  PROVE  NoLostWakeup'
BY DEF NoLostWakeup

(* Every put that leaves consumers blocked has woken one more of them, and *)
(* the same for takes and producers.                                       *)
LEMMA WakeupStep == IInv /\ [Next]_vars => NoLostWakeup'
<1> SUFFICES ASSUME IInv, [Next]_vars PROVE NoLostWakeup'
  OBVIOUS
<1> USE QueueAssumption
<1>T. TypeOK /\ TypeOK' /\ WaiterInv /\ NoLostWakeup
  BY TypeStep DEF IInv
<1>F. /\ IsFiniteSet(WokenProducers) /\ IsFiniteSet(WokenProducers')
      /\ IsFiniteSet(WokenConsumers) /\ IsFiniteSet(WokenConsumers')
      /\ Cardinality(WokenProducers) \in Nat /\ Cardinality(WokenProducers') \in Nat
      /\ Cardinality(WokenConsumers) \in Nat /\ Cardinality(WokenConsumers') \in Nat
  <2>1. /\ WokenProducers \subseteq Producers /\ WokenProducers' \subseteq Producers
        /\ WokenConsumers \subseteq Consumers /\ WokenConsumers' \subseteq Consumers
    BY DEF WokenProducers, WokenConsumers
  <2> QED
    BY <2>1, CardinalityOfSubset
<1>1. ASSUME NEW t \in Threads, PutWaits(t) PROVE NoLostWakeup'
  <2>1. WokenConsumers' = WokenConsumers
    BY <1>1, <1>T DEF PutWaits, WokenConsumers, Woken, TypeOK
  <2>2. count' = Capacity /\ not_empty' = not_empty
    BY <1>1 DEF PutWaits, MustWait, ringVars
  <2> QED
    BY <1>T, <1>F, <2>1, <2>2, <1>1
       DEF NoLostWakeup, TypeOK, PutWaits, MustWait, ringVars
<1>2. ASSUME NEW t \in Threads, TakeWaits(t) PROVE NoLostWakeup'
  <2>1. WokenProducers' = WokenProducers
    BY <1>2, <1>T DEF TakeWaits, WokenProducers, Woken, TypeOK
  <2>2. count' = 0 /\ count = 0 /\ not_full' = not_full
    BY <1>2 DEF TakeWaits, MustWait, ringVars
  <2> QED
    BY <1>T, <1>F, <2>1, <2>2 DEF NoLostWakeup, TypeOK
<1>3. ASSUME NEW t \in Threads, PutStores(t) PROVE NoLostWakeup'
  <2>1. /\ count' = count + 1 /\ count < Capacity /\ not_full' = not_full
        /\ Signal(not_empty, not_empty') /\ t \in Producers
    BY <1>3, <1>T DEF PutStores, MustWait, TypeOK
  <2>2. WokenProducers \ {t} \subseteq WokenProducers'
    BY <1>3, <1>T, <2>1 DEF PutStores, WokenProducers, Woken, TypeOK, Signal
  <2>3. Cardinality(WokenProducers) <= Cardinality(WokenProducers') + 1
    BY <2>2, <1>F, CardinalityLosesOne
  <2>4. ASSUME not_empty' # {}
        PROVE  Cardinality(WokenConsumers) + 1 <= Cardinality(WokenConsumers')
    <3>1. PICK c \in not_empty : not_empty' = not_empty \ {c}
      BY <2>1, <2>4 DEF Signal
    <3>2. c \in Consumers /\ pc[c] = "wait" /\ c # t
      BY <1>T, <2>1, <3>1 DEF TypeOK, WaiterInv
    <3>3. pc'[c] = "wait" /\ c \notin not_full' \cup not_empty'
      BY <1>3, <1>T, <2>1, <3>1, <3>2 DEF PutStores, TypeOK
    <3>4. c \in WokenConsumers' /\ c \notin WokenConsumers
      BY <3>1, <3>2, <3>3 DEF WokenConsumers, Woken
    <3>5. WokenConsumers \subseteq WokenConsumers'
      BY <1>3, <1>T, <2>1, <3>1 DEF PutStores, WokenConsumers, Woken, TypeOK
    <3> QED
      BY <3>4, <3>5, <1>F, CardinalityGains
  <2>5. not_empty' # {} => not_empty # {}
    BY <2>1 DEF Signal
  <2> QED
    BY <1>T, <1>F, <2>1, <2>3, <2>4, <2>5 DEF NoLostWakeup, TypeOK
<1>4. ASSUME NEW t \in Threads, TakeLoads(t) PROVE NoLostWakeup'
  <2>1. /\ count' = count - 1 /\ count > 0 /\ not_empty' = not_empty
        /\ Signal(not_full, not_full') /\ t \in Consumers
    BY <1>4, <1>T DEF TakeLoads, MustWait, TypeOK
  <2>2. WokenConsumers \ {t} \subseteq WokenConsumers'
    BY <1>4, <1>T, <2>1 DEF TakeLoads, WokenConsumers, Woken, TypeOK, Signal
  <2>3. Cardinality(WokenConsumers) <= Cardinality(WokenConsumers') + 1
    BY <2>2, <1>F, CardinalityLosesOne
  <2>4. ASSUME not_full' # {}
        PROVE  Cardinality(WokenProducers) + 1 <= Cardinality(WokenProducers')
    <3>1. PICK p \in not_full : not_full' = not_full \ {p}
      BY <2>1, <2>4 DEF Signal
    <3>2. p \in Producers /\ pc[p] = "wait" /\ p # t
      BY <1>T, <2>1, <3>1 DEF TypeOK, WaiterInv
    <3>3. pc'[p] = "wait" /\ p \notin not_full' \cup not_empty'
      BY <1>4, <1>T, <2>1, <3>1, <3>2 DEF TakeLoads, TypeOK
    <3>4. p \in WokenProducers' /\ p \notin WokenProducers
      BY <3>1, <3>2, <3>3 DEF WokenProducers, Woken
    <3>5. WokenProducers \subseteq WokenProducers'
      BY <1>4, <1>T, <2>1, <3>1 DEF TakeLoads, WokenProducers, Woken, TypeOK
    <3> QED
      BY <3>4, <3>5, <1>F, CardinalityGains
  <2>5. not_full' # {} => not_full # {}
    BY <2>1 DEF Signal
  <2> QED
    BY <1>T, <1>F, <2>1, <2>3, <2>4, <2>5 DEF NoLostWakeup, TypeOK
<1>5. ASSUME NEW t \in Threads, Drop(t) PROVE NoLostWakeup'
  BY <1>5 DEF Drop, NoLostWakeup
<1>6. ASSUME NEW t \in Threads, Unlock(t) \/ Continue(t) PROVE NoLostWakeup'
  <2>1. /\ UNCHANGED <<count, not_full, not_empty>>
        /\ pc[t] \in {"unlock", "returned"} /\ pc'[t] \in {"returned", "lock", "done"}
        /\ \A u \in Threads \ {t} : pc'[u] = pc[u]
    BY <1>6, <1>T DEF Unlock, Continue, TypeOK, ringVars, condVars
  <2>2. \A u \in Threads : Woken(u)' <=> Woken(u)
    BY <2>1 DEF Woken
  <2>3. UNCHANGED <<WokenProducers, WokenConsumers>>
    BY <2>2 DEF WokenProducers, WokenConsumers, Threads
  <2> QED
    BY <1>T, <2>1, <2>3, WakeupStutter
<1>7. ASSUME NEW t \in Threads, SpuriousWakeup(t) PROVE NoLostWakeup'
  <2>1. /\ UNCHANGED <<count, pc>>
        /\ not_full' = not_full \ {t} /\ not_empty' = not_empty \ {t}
    BY <1>7 DEF SpuriousWakeup, ringVars
  <2>2. WokenProducers \subseteq WokenProducers' /\ WokenConsumers \subseteq WokenConsumers'
    BY <2>1 DEF WokenProducers, WokenConsumers, Woken
  <2>3. /\ Cardinality(WokenProducers) <= Cardinality(WokenProducers')
        /\ Cardinality(WokenConsumers) <= Cardinality(WokenConsumers')
    BY <2>2, <1>F, CardinalityOfSubset
  <2>4. (not_full' # {} => not_full # {}) /\ (not_empty' # {} => not_empty # {})
    BY <2>1
  <2> QED
    BY <1>T, <1>F, <2>1, <2>3, <2>4 DEF NoLostWakeup, TypeOK
<1>8. ASSUME Destroy \/ UNCHANGED vars PROVE NoLostWakeup'
  <2>1. UNCHANGED <<count, not_full, not_empty, pc>>
    BY <1>8 DEF Destroy, vars, ringVars, condVars
  <2>2. UNCHANGED <<WokenProducers, WokenConsumers>>
    BY <2>1 DEF WokenProducers, WokenConsumers, Woken
  <2> QED
    BY <1>T, <2>1, <2>2, WakeupStutter
<1> QED
  BY <1>1, <1>2, <1>3, <1>4, <1>5, <1>6, <1>7, <1>8 DEF Next, Step, Finished

(* The invariant all properties of the queue are proved from.              *)
THEOREM InductiveInvariant == Spec => []IInv
<1>1. IInv /\ [Next]_vars => IInv'
  BY TypeStep, HolderStep, WaiterStep, RingStep, WakeupStep DEF IInv
<1> QED
  BY <1>1, InitEstablishesInv, PTL DEF Spec

(* In every behaviour of the queue the variables keep their types.         *)
THEOREM TypeCorrect == Spec => []TypeOK
<1>1. IInv => TypeOK
  BY DEF IInv
<1> QED
  BY <1>1, InductiveInvariant, PTL

(* No wakeup is ever lost, however many threads there are, whatever the    *)
(* capacity and however often a wait returns without a signal.             *)
THEOREM NoWakeupIsLost == Spec => []NoLostWakeup
<1>1. IInv => NoLostWakeup
  BY DEF IInv
<1> QED
  BY <1>1, InductiveInvariant, PTL
-----------------------------------------------------------------------------
(* The sequence of the messages in the ring: its length, and that it only  *)
(* depends on the cells in use.                                            *)
LEMMA ContentsIsSequence ==
  ASSUME TypeOK
  PROVE  /\ Contents \in Seq(Messages \cup {NoMessage})
         /\ Len(Contents) = count
         /\ \A i \in 1 .. count : Contents[i] = items[CellAfter(take_index, i - 1)]
<1>1. \A i \in 1 .. count : CellAfter(take_index, i - 1) \in Slots
  BY QueueAssumption DEF TypeOK, CellAfter, Slots
<1>2. Contents \in [1 .. count -> Messages \cup {NoMessage}]
  BY <1>1 DEF Contents, TypeOK
<1>3. count \in Nat
  BY QueueAssumption DEF TypeOK
<1> QED
  BY <1>2, <1>3 DEF Contents

(* A put appends its message to the contents.                              *)
LEMMA PutAppends ==
  ASSUME IInv, NEW t \in Threads, PutStores(t), TypeOK'
  PROVE  /\ count < Capacity
         /\ Contents' = Append(Contents, t)
<1> USE QueueAssumption
<1>1. /\ count \in Nat /\ count < Capacity /\ count' = count + 1
      /\ take_index' = take_index
      /\ items' = [items EXCEPT ![CellAfter(take_index, count)] = t]
      /\ TypeOK
  BY DEF IInv, TypeOK, RingInv, PutStores, MustWait
<1>2. \A i \in 1 .. count :
        /\ CellAfter(take_index, i - 1) \in Slots
        /\ CellAfter(take_index, i - 1) # CellAfter(take_index, count)
  BY <1>1 DEF TypeOK, CellAfter, Slots
<1>3. CellAfter(take_index, count) \in Slots
  BY <1>1 DEF TypeOK, CellAfter, Slots
<1>4. \A i \in 1 .. count : Contents'[i] = Contents[i]
  BY <1>1, <1>2 DEF Contents, TypeOK, CellAfter
<1>5. Contents'[count + 1] = t
  BY <1>1, <1>3 DEF Contents, TypeOK, CellAfter
<1>6. Contents \in Seq(Messages \cup {NoMessage}) /\ Len(Contents) = count
  BY <1>1, ContentsIsSequence
<1>7. Contents' = [i \in 1 .. count + 1 |-> Contents'[i]]
  BY <1>1 DEF Contents
<1>8. t \in Messages \cup {NoMessage}
  BY DEF PutStores, Messages
<1>9. /\ Append(Contents, t) \in Seq(Messages \cup {NoMessage})
      /\ Len(Append(Contents, t)) = count + 1
      /\ \A i \in 1 .. count : Append(Contents, t)[i] = Contents[i]
      /\ Append(Contents, t)[count + 1] = t
  BY <1>6, <1>8, AppendProperties
<1>10. Contents' \in [1 .. count + 1 -> Messages \cup {NoMessage}]
  <2>1. \A i \in 1 .. count + 1 : Contents'[i] \in Messages \cup {NoMessage}
    BY <1>1, <1>4, <1>5, <1>6, <1>8, ElementOfSeq
  <2> QED
    BY <2>1, <1>7
<1>11. Contents' \in Seq(Messages \cup {NoMessage}) /\ Len(Contents') = count + 1
  BY <1>1, <1>10
<1>12. \A i \in 1 .. count + 1 : Contents'[i] = Append(Contents, t)[i]
  BY <1>1, <1>4, <1>5, <1>9
<1> QED
  BY <1>1, <1>9, <1>11, <1>12, SeqEqual

(* A take removes the first of the contents.                               *)
LEMMA TakeRemovesHead ==
  ASSUME IInv, NEW t \in Threads, TakeLoads(t), TypeOK', ~ items_freed
  PROVE  /\ Contents # <<>>
         /\ Contents' = Tail(Contents)
         /\ buf' = [buf EXCEPT ![t] = Head(Contents)]
<1> USE QueueAssumption
<1>1. /\ count \in Nat /\ count > 0 /\ count' = count - 1
      /\ take_index' = NextIndex(take_index)
      /\ items' = items
      /\ buf' = [buf EXCEPT ![t] = items[take_index]]
      /\ TypeOK
  BY DEF IInv, TypeOK, TakeLoads, MustWait, Loadable
<1>2. /\ Contents \in Seq(Messages \cup {NoMessage}) /\ Len(Contents) = count
      /\ \A i \in 1 .. count : Contents[i] = items[CellAfter(take_index, i - 1)]
  BY <1>1, ContentsIsSequence
<1>3. Contents # <<>> /\ Head(Contents) = items[take_index]
  BY <1>1, <1>2 DEF CellAfter, TypeOK, Slots
<1>4. \A i \in 1 .. count - 1 :
        CellAfter(NextIndex(take_index), i - 1) = CellAfter(take_index, i)
  BY <1>1 DEF CellAfter, NextIndex, TypeOK, Slots
<1>5. Contents' = [i \in 1 .. count - 1 |-> items[CellAfter(NextIndex(take_index), i - 1)]]
  BY <1>1 DEF Contents, CellAfter
<1>6. /\ Tail(Contents) \in Seq(Messages \cup {NoMessage})
      /\ Len(Tail(Contents)) = count - 1
      /\ \A i \in 1 .. count - 1 : Tail(Contents)[i] = Contents[i + 1]
  BY <1>1, <1>2, <1>3, HeadTailProperties
<1>7. \A i \in 1 .. count - 1 :
        Contents[i + 1] = items[CellAfter(take_index, i)]
  BY <1>1, <1>2
<1>8. \A i \in 1 .. count - 1 : Contents'[i] = Tail(Contents)[i]
  BY <1>4, <1>5, <1>6, <1>7
<1>9. Contents' \in Seq(Messages \cup {NoMessage}) /\ Len(Contents') = count - 1
  <2>1. \A i \in 1 .. count - 1 : Contents'[i] \in Messages \cup {NoMessage}
    BY <1>1, <1>6, <1>8, ElementOfSeq
  <2>2. Contents' \in [1 .. count - 1 -> Messages \cup {NoMessage}]
    BY <2>1, <1>5
  <2> QED
    BY <2>2, <1>1
<1> QED
  BY <1>1, <1>3, <1>6, <1>8, <1>9, SeqEqual

(* Every step of the queue is a put, a take, the drop or a stutter of the  *)
(* FIFO, or comes after the drop.                                          *)
LEMMA StepRefinesFifo ==
  ASSUME IInv, IInv', [Next]_vars
  PROVE  [Fifo!FifoNext]_(Fifo!fifoVars)
<1> USE DEF Fifo!FifoNext, Fifo!FifoPut, Fifo!FifoTake, Fifo!FifoDrop, Fifo!AfterDrop,
            Fifo!fifoVars
<1>1. TypeOK /\ TypeOK' /\ Len(Contents) = count
  BY ContentsIsSequence DEF IInv
<1>2. ASSUME NEW t \in Threads, PutStores(t) PROVE Fifo!FifoNext
  <2>1. t \in Messages /\ UNCHANGED <<buf, items_freed>>
    BY <1>2 DEF PutStores, Messages, flagVars
  <2>2. CASE items_freed
    BY <2>1, <2>2
  <2>3. CASE ~ items_freed
    BY <1>1, <1>2, <2>1, <2>3, PutAppends
  <2> QED
    BY <2>2, <2>3
<1>3. ASSUME NEW t \in Threads, TakeLoads(t) PROVE Fifo!FifoNext
  <2>1. t \in Consumers /\ UNCHANGED items_freed
    BY <1>3 DEF TakeLoads, flagVars
  <2>2. CASE items_freed
    BY <2>1, <2>2
  <2>3. CASE ~ items_freed
    BY <1>1, <1>3, <2>1, <2>3, TakeRemovesHead
  <2> QED
    BY <2>2, <2>3
<1>4. ASSUME UNCHANGED <<ringVars, buf>> PROVE UNCHANGED <<Contents, buf>>
  BY <1>4 DEF ringVars, Contents, CellAfter
<1>5. ASSUME NEW t \in Threads, Drop(t) PROVE Fifo!FifoNext
  BY <1>4, <1>5 DEF Drop
<1> QED
  BY <1>2, <1>3, <1>4, <1>5 DEF Next, Step, Finished, PutWaits, TakeWaits, flagVars,
     Unlock, Continue, SpuriousWakeup, Destroy, vars, clientVars

(* Until somebody drops it, the queue is a bounded first-in first-out      *)
(* queue, for any number of producers and consumers and any capacity.      *)
THEOREM QueueIsFifo == Spec => RefinesFifo
<1>1. Init => Fifo!FifoInit
  BY DEF Init, Fifo!FifoInit, Contents
<1>2. IInv /\ IInv' /\ [Next]_vars => [Fifo!FifoNext]_(Fifo!fifoVars)
  BY StepRefinesFifo
<1> QED
  BY <1>1, <1>2, InductiveInvariant, PTL DEF Spec, RefinesFifo, Fifo!FifoSpec

-----------------------------------------------------------------------------
(* What the threads of task.c do is what the library allows its callers.   *)
THEOREM ProgramCallsLibrary == PCSpec => Spec
<1>1. PCInit => Init
  BY DEF PCInit
<1>2. [PCNext]_pcVars => [Next]_vars
  <2>1. ASSUME NEW t \in Threads, CheckReturn(t) PROVE Continue(t) \/ UNCHANGED vars
    BY <2>1 DEF CheckReturn
  <2>2. ASSUME NEW t \in Threads, LibraryStep(t) PROVE Step(t)
    BY <2>2 DEF LibraryStep, Step
  <2>3. QED
    BY <2>1, <2>2 DEF PCNext, PCStep, Next, Step, pcVars
<1>3. QED
  BY <1>1, <1>2, PTL DEF PCSpec, Spec

(* Whoever is through with its first call has got a 1, and every message   *)
(* in the queue is that of a producer that is through.                     *)
Callers == Producers \cup Consumers
Stored == {p \in Producers : pc[p] \in {"unlock", "returned"}}
CallsInv ==
  /\ \A t \in Callers : /\ left[t] = Loops /\ pc[t] # "done"
                        /\ pc[t] \in {"unlock", "returned"} => ret[t] = 1
  /\ \A d \in Droppers : pc[d] = "lock"
  /\ count <= Cardinality(Stored)
  /\ Capacity >= Cardinality(Producers) => \A p \in Producers : pc[p] # "wait"

LEMMA StoredFinite ==
  /\ IsFiniteSet(Stored) /\ Cardinality(Stored) \in Nat
  /\ IsFiniteSet(Producers) /\ Cardinality(Producers) \in Nat
  /\ \A p \in Producers : p \notin Stored => Cardinality(Stored) + 1 <= Cardinality(Producers)
<1>1. IsFiniteSet(Producers) /\ Stored \subseteq Producers
  BY QueueAssumption DEF Stored
<1>2. \A p \in Producers : p \notin Stored => Cardinality(Stored) + 1 <= Cardinality(Producers)
  BY <1>1, CardinalityGains
<1>3. QED
  BY <1>1, <1>2, CardinalityOfSubset

(* A step of thread t that changes no result but its own.                  *)
LEMMA CallsKept ==
  ASSUME TypeOK, CallsInv, NEW t \in Callers, NEW to \in {"wait", "unlock", "returned"},
         pc' = [pc EXCEPT ![t] = to], left' = left, count' \in Nat,
         \/ ret' = [ret EXCEPT ![t] = 1]
         \/ ret' = ret /\ (to \in {"unlock", "returned"} => ret[t] = 1),
         count' <= Cardinality(Stored'),
         to = "wait" /\ t \in Producers => ~ (Capacity >= Cardinality(Producers))
  PROVE  CallsInv'
<1>1. t \in Threads /\ Callers \subseteq Threads /\ t \notin Droppers
  BY QueueAssumption DEF Callers, Threads
<1>2. pc \in [Threads -> {"lock", "wait", "unlock", "returned", "done"}] /\ ret \in [Threads -> {0, 1}]
  BY DEF TypeOK
<1>3. ASSUME NEW u \in Callers
      PROVE  /\ left'[u] = Loops /\ pc'[u] # "done"
             /\ pc'[u] \in {"unlock", "returned"} => ret'[u] = 1
  BY <1>1, <1>2 DEF CallsInv
<1>4. \A d \in Droppers : pc'[d] = "lock"
  BY <1>1, <1>2, QueueAssumption DEF CallsInv, Threads
<1>5. Capacity >= Cardinality(Producers) => \A p \in Producers : pc'[p] # "wait"
  BY <1>1, <1>2 DEF CallsInv, Threads
<1>6. QED
  BY <1>3, <1>4, <1>5 DEF CallsInv

LEMMA CallsStep ==
  ASSUME TypeOK, TypeOK', CallsInv, [PCNext]_pcVars
  PROVE  CallsInv'
<1>1. /\ count \in Nat /\ count' \in Nat /\ count <= Capacity /\ Capacity \in Nat
      /\ pc \in [Threads -> {"lock", "wait", "unlock", "returned", "done"}]
      /\ \A t \in Callers : t \in Threads /\ t \notin Droppers
  BY QueueAssumption DEF TypeOK, Callers, Threads
<1>2. ASSUME NEW t \in Threads, NEW to, pc' = [pc EXCEPT ![t] = to]
      PROVE  /\ to \in {"unlock", "returned"} /\ t \in Producers => Stored' = Stored \cup {t}
             /\ to \notin {"unlock", "returned"} /\ pc[t] \notin {"unlock", "returned"}
                  => Stored' = Stored
             /\ t \notin Producers => Stored' = Stored
  BY <1>1, <1>2 DEF Stored, Threads
<1>3. ASSUME NEW t \in Threads, PutWaits(t) PROVE CallsInv'
  <2>1. /\ t \in Callers /\ t \in Producers /\ pc[t] \in {"lock", "wait"} /\ count = Capacity
        /\ pc' = [pc EXCEPT ![t] = "wait"] /\ UNCHANGED <<count, left, ret>>
    BY <1>3 DEF PutWaits, Admitted, Woken, MustWait, ringVars, clientVars, Callers
  <2>2. Stored' = Stored /\ t \notin Stored
    BY <1>2, <2>1 DEF Stored
  <2>3. ~ (Capacity >= Cardinality(Producers))
    BY <1>1, <2>1, <2>2, StoredFinite DEF CallsInv
  <2>4. count' <= Cardinality(Stored')
    BY <2>1, <2>2 DEF CallsInv
  <2>5. QED
    BY <1>1, <2>1, <2>3, <2>4, CallsKept
<1>4. ASSUME NEW t \in Threads, TakeWaits(t) PROVE CallsInv'
  <2>1. /\ t \in Callers /\ t \notin Producers /\ pc' = [pc EXCEPT ![t] = "wait"]
        /\ UNCHANGED <<count, left, ret>>
    BY <1>4, QueueAssumption DEF TakeWaits, ringVars, clientVars, Callers
  <2>2. count' <= Cardinality(Stored')
    BY <1>2, <2>1 DEF CallsInv
  <2>3. QED
    BY <1>1, <2>1, <2>2, CallsKept
<1>5. ASSUME NEW t \in Threads, PutStores(t) PROVE CallsInv'
  <2>1. /\ t \in Callers /\ t \in Producers /\ pc[t] \in {"lock", "wait"}
        /\ pc' = [pc EXCEPT ![t] = "unlock"] /\ ret' = [ret EXCEPT ![t] = 1]
        /\ left' = left /\ count' = count + 1
    BY <1>5 DEF PutStores, Admitted, Woken, Callers
  <2>2. Stored' = Stored \cup {t} /\ t \notin Stored
    BY <1>2, <2>1 DEF Stored
  <2>3. Cardinality(Stored') = Cardinality(Stored) + 1
    BY <2>2, StoredFinite, FS_AddElement
  <2>4. count' <= Cardinality(Stored')
    BY <1>1, <2>1, <2>3, StoredFinite DEF CallsInv
  <2>5. QED
    BY <1>1, <2>1, <2>4, CallsKept
<1>6. ASSUME NEW t \in Threads, TakeLoads(t) PROVE CallsInv'
  <2>1. /\ t \in Callers /\ t \notin Producers /\ pc' = [pc EXCEPT ![t] = "unlock"]
        /\ ret' = [ret EXCEPT ![t] = 1] /\ left' = left /\ count' = count - 1
    BY <1>6, QueueAssumption DEF TakeLoads, Callers
  <2>2. Stored' = Stored
    BY <1>2, <2>1
  <2>3. count' <= Cardinality(Stored')
    BY <1>1, <2>1, <2>2, StoredFinite DEF CallsInv
  <2>4. QED
    BY <1>1, <2>1, <2>3, CallsKept
<1>7. ASSUME NEW t \in Threads, Unlock(t) PROVE CallsInv'
  <2>1. /\ pc[t] = "unlock" /\ pc' = [pc EXCEPT ![t] = "returned"]
        /\ UNCHANGED <<count, left, ret>>
    BY <1>7 DEF Unlock, ringVars, clientVars
  <2>2. t \in Callers /\ ret[t] = 1
    BY <2>1 DEF CallsInv, Callers, Threads
  <2>3. Stored' = Stored
    BY <1>1, <2>1 DEF Stored, Threads
  <2>4. count' <= Cardinality(Stored')
    BY <2>1, <2>3 DEF CallsInv
  <2>5. QED
    BY <1>1, <2>1, <2>2, <2>4, CallsKept
<1>8. ASSUME NEW t \in Threads, CheckReturn(t) PROVE UNCHANGED vars
  <2>1. pc[t] = "returned"
    BY <1>8 DEF CheckReturn
  <2>2. t \in Callers /\ ret[t] = 1
    BY <2>1 DEF CallsInv, Callers, Threads
  <2>3. QED
    BY <1>8, <2>2 DEF CheckReturn, CallFailed
<1>9. ASSUME UNCHANGED <<pc, left, ret, count>> PROVE CallsInv'
  BY <1>9 DEF CallsInv, Stored
<1>10. QED
  BY <1>3, <1>4, <1>5, <1>6, <1>7, <1>8, <1>9
  DEF PCNext, PCStep, LibraryStep, SpuriousWakeup, ringVars, clientVars, vars, pcVars

LEMMA InitCalls == PCInit => CallsInv
<1> SUFFICES ASSUME PCInit PROVE CallsInv
  OBVIOUS
<1>1. \A t \in Threads : pc[t] = "lock"
  BY DEF PCInit, Init
<1>2. \A t \in Callers : t \in Threads /\ t \notin Droppers /\ left[t] = Loops
  BY QueueAssumption DEF PCInit, Init, Callers, Threads
<1>3. count <= Cardinality(Stored)
  BY StoredFinite DEF PCInit, Init
<1>4. QED
  BY <1>1, <1>2, <1>3 DEF CallsInv, Callers, Threads

(* No thread of task.c gets to a second call, and with a capacity of at    *)
(* least the number of producers none of them ever waits: for any number   *)
(* of threads, because the first to look at a result ends the process.     *)
THEOREM NoSecondCall == PCSpec => []AtMostOneCallEach
<1>1. PCInit => CallsInv
  BY InitCalls
<1>2. TypeOK /\ TypeOK' /\ CallsInv /\ [PCNext]_pcVars => CallsInv'
  BY CallsStep
<1>3. CallsInv => AtMostOneCallEach
  BY DEF CallsInv, AtMostOneCallEach, Callers
<1>4. QED
  BY <1>1, <1>2, <1>3, ProgramCallsLibrary, TypeCorrect, PTL DEF PCSpec

=============================================================================
