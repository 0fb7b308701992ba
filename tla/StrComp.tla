------------------------------ MODULE StrComp ------------------------------
(***************************************************************************)
(* str_comp of tasks17_20/task17.c, task18.c and cmp_test/src/my_strcmp.c. *)
(* A string is the sequence of its bytes, without the final zero. The two  *)
(* versions differ in the condition of the loop: the first goes on while   *)
(* neither string has ended, the second until both have.                   *)
(***************************************************************************)
EXTENDS Integers, Sequences

LESS == -1
EQ == 0
GREATER == 1

Byte(s, i) == IF i <= Len(s) THEN s[i] ELSE 0

(* A loop ends at the first index at which it is left or not entered: at a *)
(* difference, or where one of the strings, or both, have ended.           *)
Least(indexes) == CHOOSE i \in indexes : \A j \in indexes : i <= j
Differ(s1, s2) == {i \in 1 .. Len(s1) + 1 : Byte(s1, i) # Byte(s2, i)}
WhileBoth(s1, s2) ==
  Least(Differ(s1, s2) \cup {i \in 1 .. Len(s1) + 1 : Byte(s1, i) = 0 \/ Byte(s2, i) = 0})
WhileEither(s1, s2) ==
  Least(Differ(s1, s2) \cup {i \in 1 .. Len(s1) + 1 : Byte(s1, i) = 0 /\ Byte(s2, i) = 0})

(* Inside the loop as after it, the greater byte decides.                  *)
ByBytes(s1, s2, i) ==
  CASE Byte(s1, i) > Byte(s2, i) -> GREATER
    [] Byte(s1, i) < Byte(s2, i) -> LESS
    [] OTHER -> EQ

ByCommonPart(s1, s2) ==
  LET i == WhileBoth(s1, s2)
  IN IF i > Len(s1) \/ i > Len(s2) THEN EQ ELSE ByBytes(s1, s2, i)
str_comp(s1, s2) == ByBytes(s1, s2, WhileBoth(s1, s2))
my_str_comp(s1, s2) == ByBytes(s1, s2, WhileEither(s1, s2))

-----------------------------------------------------------------------------
(* What is meant: a string comes after another in the order of a           *)
(* dictionary.                                                             *)
After(s1, s2) ==
  \/ Len(s1) > Len(s2) /\ s2 = SubSeq(s1, 1, Len(s2))
  \/ \E i \in 1 .. Len(s1) :
       /\ i <= Len(s2) /\ s1[i] > s2[i]
       /\ SubSeq(s1, 1, i - 1) = SubSeq(s2, 1, i - 1)

=============================================================================
