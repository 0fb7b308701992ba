---------------------------- MODULE MCLockedList ----------------------------
(***************************************************************************)
(* The list of task17.c with lines of two kinds.                           *)
(***************************************************************************)
EXTENDS LockedList

SomeLines == {<<1>>, <<1, 2>>}

=============================================================================
