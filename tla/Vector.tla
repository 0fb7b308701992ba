------------------------------- MODULE Vector -------------------------------
(***************************************************************************)
(* cvector_impl.h, the operations that the proxy calls: an array that      *)
(* grows. ptr holds the cells that are allocated, as many as capacity      *)
(* says; a write to a cell that is not allocated would make it longer.     *)
(***************************************************************************)
EXTENDS Integers, Sequences

CONSTANT Garbage      \* what is in a cell that has not been written

Cells(v) == 1 .. v.capacity

Assign(v, k, el) ==
  [v EXCEPT !.ptr = [j \in DOMAIN v.ptr \cup {k} |->
                       IF j = k THEN el ELSE v.ptr[j]]]

NewVector == [ptr |-> <<>>, cnt |-> 0, capacity |-> 0]

Doubled(capacity) == capacity * 2 + 1
Resized(v, capacity) ==
  [ptr |-> [j \in 1 .. capacity |-> IF j <= v.capacity THEN v.ptr[j] ELSE Garbage],
   cnt |-> v.cnt, capacity |-> capacity]

ForcedAlloc(v) == Resized(v, Doubled(v.capacity))

Alloc(v) == IF v.cnt = v.capacity THEN ForcedAlloc(v) ELSE v

(* Doubled again and again until there is room for n more. *)
Alloc2(v, n) ==
  LET after[k \in 0 .. n] == IF k = 0 THEN v.capacity ELSE Doubled(after[k - 1])
      enough == CHOOSE k \in 0 .. n : /\ after[k] - v.cnt >= n
                                      /\ \A j \in 0 .. k - 1 : after[j] - v.cnt < n
  IN Resized(v, after[enough])

PushBack(v, el) ==
  LET room == Alloc(v) IN [Assign(room, room.cnt + 1, el) EXCEPT !.cnt = @ + 1]

Contents(v) == SubSeq(v.ptr, 1, v.cnt)

(* Nothing was ever written to a cell that is not allocated.               *)
InItsCells(v) == DOMAIN v.ptr = Cells(v) /\ v.cnt <= v.capacity

=============================================================================
