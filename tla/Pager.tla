------------------------------- MODULE Pager -------------------------------
(***************************************************************************)
(* http/28.c: a client that shows a response page by page. A round of its  *)
(* loop polls the terminal and the socket, reads what has come into        *)
(* in_buffer, starts a new screen if a key was pressed, and writes what    *)
(* has not been written yet, as far as the screen has room.                *)
(***************************************************************************)
EXTENDS Integers, SequencesExt, FiniteSets

CONSTANTS
  IN_BUFFER_SIZE,      \* 1000000
  MAX_SCREEN_LINES,    \* 20
  SizeRange       \* the values of a size_t (2^64)

PagerAssumption ==
  /\ IN_BUFFER_SIZE \in Nat
  /\ MAX_SCREEN_LINES \in Nat \ {0}
  /\ SizeRange \in Nat /\ SizeRange > IN_BUFFER_SIZE + MAX_SCREEN_LINES

Newline == "newline"
Char == {Newline, "other"}    \* all that the program tells apart

VARIABLES
  phase,                   \* "poll", "write", "done" or "overrun"
  in_buffer,               \* the bytes received
  written, cnt_on_screen, is_end,
  part,                    \* of write_: what it is given and how far it is
  shown, since,            \* all the terminal got, and how much before the
                           \* last key
  faults                   \* what has gone wrong

vars == <<phase, in_buffer, written, cnt_on_screen, is_end, part, shown, since, faults>>

NoPart == [size |-> 0, limit |-> 0, w |-> 0, lines |-> 0]

Init ==
  /\ phase = "poll"
  /\ in_buffer = <<>> /\ written = 0 /\ cnt_on_screen = 0 /\ is_end = 0
  /\ part = NoPart
  /\ shown = <<>> /\ since = 0
  /\ faults = {}

Unsigned(n) == n % SizeRange

count_of_lines(bytes) == Cardinality({k \in DOMAIN bytes : bytes[k] = Newline})

(* How many bytes reach to the end of line n, or the end of all. *)
find_(bytes, n) ==
  CHOOSE k \in 0 .. Len(bytes) :
    /\ k = Len(bytes) \/ count_of_lines(SubSeq(bytes, 1, k)) = n
    /\ \A j \in 0 .. k - 1 : count_of_lines(SubSeq(bytes, 1, j)) # n

Pending == SubSeq(in_buffer, written + 1, Len(in_buffer))

-----------------------------------------------------------------------------
(* What poll may find ready and what a read of the socket may give: some   *)
(* bytes, 0 at the end of the stream or of the buffer, or -1, which is     *)
(* added to received like any other count.                                 *)
Room == IN_BUFFER_SIZE - Len(in_buffer)
ReadBytes ==
  /\ is_end = 0
  /\ \E bytes \in BoundedSeq(Char, Room) \ {<<>>} : in_buffer' = in_buffer \o bytes
  /\ UNCHANGED <<is_end, faults>>
ReadEnd == is_end' = 1 /\ UNCHANGED <<in_buffer, faults>>
ReadFails ==
  /\ in_buffer # <<>>
  /\ in_buffer' = Front(in_buffer)
  /\ faults' = faults \cup {"read failed"}
  /\ UNCHANGED is_end
NoRead == UNCHANGED <<in_buffer, is_end, faults>>

SameScreen == UNCHANGED <<cnt_on_screen, since>>
NewScreen == cnt_on_screen' = 0 /\ since' = Len(shown)

Continues == is_end = 0 \/ written # Len(in_buffer)

BeginWrite ==
  /\ phase' = "write"
  /\ part' = [NoPart EXCEPT !.size = Unsigned(Len(in_buffer') - written),
                            !.limit = Unsigned(MAX_SCREEN_LINES - cnt_on_screen')]
  /\ UNCHANGED <<written, shown>>

FromSocket == phase = "poll" /\ Continues /\ (ReadBytes \/ ReadEnd \/ ReadFails)
Round ==
  \/ FromSocket /\ (SameScreen \/ NewScreen) /\ BeginWrite
  \/ phase = "poll" /\ Continues /\ NoRead /\ NewScreen /\ BeginWrite

(* A failed read before any other: received becomes the greatest number.   *)
ReadFailsFirst ==
  /\ phase = "poll" /\ in_buffer = <<>> /\ is_end = 0
  /\ phase' = "overrun" /\ faults' = faults \cup {"read failed"}
  /\ UNCHANGED <<in_buffer, written, cnt_on_screen, is_end, part, shown, since>>

-----------------------------------------------------------------------------
(* A turn of the loop of write_. How much to write is looked for from the  *)
(* beginning of its buffer in every turn, though only the first writes     *)
(* from there: after a short write it may reach beyond what there is.      *)
HasMore == part.w < part.size /\ part.lines < part.limit
AllOfIt == part.size
ToWrite == find_(Pending, part.limit - part.lines)
Beyond == part.size > Len(Pending) \/ part.w + ToWrite > part.size

Write ==
  /\ phase = "write" /\ HasMore /\ ~ Beyond
  /\ \E cnt \in 1 .. ToWrite :
       LET bytes == SubSeq(Pending, part.w + 1, part.w + cnt)
       IN /\ shown' = shown \o bytes
          /\ part' = [part EXCEPT !.w = @ + cnt, !.lines = @ + count_of_lines(bytes)]
          /\ faults' = IF cnt < ToWrite THEN faults \cup {"short write"} ELSE faults
  /\ UNCHANGED <<phase, in_buffer, written, cnt_on_screen, is_end, since>>

(* Bytes that were never received are written, and counted.                *)
Overrun ==
  /\ phase = "write" /\ HasMore /\ Beyond
  /\ phase' = "overrun"
  /\ UNCHANGED <<in_buffer, written, cnt_on_screen, is_end, part, shown, since, faults>>

LinesWritten == count_of_lines(SubSeq(Pending, 1, part.w))
EndWrite ==
  /\ phase = "write" /\ ~ HasMore
  /\ phase' = "poll"
  /\ cnt_on_screen' = cnt_on_screen + LinesWritten
  /\ written' = written + part.w
  /\ part' = NoPart
  /\ UNCHANGED <<in_buffer, is_end, shown, since, faults>>

End ==
  /\ phase = "poll" /\ ~ Continues
  /\ phase' = "done"
  /\ UNCHANGED <<in_buffer, written, cnt_on_screen, is_end, part, shown, since, faults>>

Next == Round \/ ReadFailsFirst \/ Write \/ Overrun \/ EndWrite \/ End

Spec == Init /\ [][Next]_vars

-----------------------------------------------------------------------------
TypeOK ==
  /\ phase \in {"poll", "write", "done", "overrun"}
  /\ in_buffer \in BoundedSeq(Char, IN_BUFFER_SIZE)
  /\ written \in 0 .. IN_BUFFER_SIZE /\ is_end \in {0, 1}
  /\ Len(shown) <= IN_BUFFER_SIZE /\ since \in 0 .. Len(shown)

(* As long as every write writes all it is given and no read fails, the    *)
(* terminal gets what was received, once and in order, never more lines    *)
(* than fit on the screen without a key in between, and all of it before   *)
(* the program ends.                                                       *)
PagedFaithfully ==
  faults = {} =>
    /\ phase # "overrun"
    /\ IsPrefix(shown, in_buffer)
    /\ count_of_lines(SubSeq(shown, since + 1, Len(shown))) <= MAX_SCREEN_LINES
    /\ phase = "done" => shown = in_buffer

=============================================================================
