------------------------- MODULE ConnectionHandlerProofs -------------------------
(***************************************************************************)
(* What the connection handler keeps, for every pair of streams, every way *)
(* of cutting them up and every failure ConnectionHandler allows: the      *)
(* types of the context, the forwarding, the destructions, that every call *)
(* of handle is a step of the lifecycle the main loop counts on, and that  *)
(* the end of the response is found however it was cut up.                 *)
(*                                                                         *)
(* The parser comes first: its two loops are recursive functions over the  *)
(* positions of a buffer, so each proof about them shows that the function *)
(* exists and then, by a least counterexample, where it can lead. Then     *)
(* what a buffer holds of a stream, the inductive invariant, one lemma per *)
(* parsing step and per action, and the theorems. Last the end of the      *)
(* response: that both loops may stop for want of data and be resumed, and *)
(* a second invariant that compares where the code stands in what has come *)
(* with the response read in one piece.                                    *)
(***************************************************************************)
EXTENDS ConnectionHandler, SequenceTheorems, WellFoundedInduction, TLAPS

Text == Seq(STRING)

-----------------------------------------------------------------------------
(* The parser.                                                             *)

(* What the streams and the buffers are. *)
LEMMA TextFacts ==
  ASSUME NEW buf \in Text
  PROVE  /\ Len(buf) \in Nat /\ DOMAIN buf = 1 .. Len(buf)
         /\ \A k \in 1 .. Len(buf) : buf[k] \in STRING
  BY DEF Text

(* strstr finds the first place at which the pattern stands.               *)
StandsAt(buf, pattern, k) == SubSeq(buf, k, k + Len(pattern) - 1) = pattern
LEMMA StrstrFindsFirst ==
  ASSUME NEW buf \in Text, NEW pos \in Nat, NEW pattern, Len(pattern) \in Nat
  PROVE  LET last == Len(buf) - Len(pattern) + 1
             found == Strstr(buf, pos, pattern)
         IN \/ found = 0 /\ \A k \in pos + 1 .. last : ~ StandsAt(buf, pattern, k)
            \/ /\ found \in pos + 1 .. last /\ StandsAt(buf, pattern, found)
               /\ \A k \in pos + 1 .. last : StandsAt(buf, pattern, k) => found <= k
<1> DEFINE last == Len(buf) - Len(pattern) + 1
           starts == {k \in pos + 1 .. last : StandsAt(buf, pattern, k)}
<1>1. Strstr(buf, pos, pattern) = IF starts = {} THEN 0 ELSE Min(starts)
  BY DEF Strstr, StandsAt
<1>2. Len(buf) \in Nat /\ Len(pattern) \in Nat
  BY DEF Text
<1>3. last \in Int /\ starts \subseteq Nat
  BY <1>2
<1>4. ASSUME starts # {} PROVE Min(starts) \in starts /\ \A k \in starts : Min(starts) <= k
  <2> HIDE DEF starts
  <2>1. PICK x \in starts : \A y \in starts : ~ (<<y, x>> \in OpToRel(<, Nat))
    BY <1>3, <1>4, NatLessThanWellFounded, WFMin
  <2>2. ASSUME NEW y \in starts PROVE x <= y
    <3>1. ~ (y < x)
      BY <1>3, <2>1 DEF OpToRel
    <3>2. QED
      BY <1>3, <3>1
  <2>3. QED
    BY <2>2 DEF Min
<1>5. QED
  BY <1>1, <1>4

(* A line ends just before position pos.                                   *)
LineEnd(buf, pos) == pos \in 2 .. Len(buf) /\ buf[pos - 1] = "CR" /\ buf[pos] = "LF"

LEMMA FindsLineEnd ==
  ASSUME NEW buf \in Text, NEW pos \in 0 .. Len(buf)
  PROVE  LET crlf == Strstr(buf, pos, CrLf)
         IN crlf = 0 \/ (crlf \in pos + 1 .. Len(buf) - 1 /\ LineEnd(buf, crlf + 1))
<1> DEFINE crlf == Strstr(buf, pos, CrLf)
<1>1. Len(CrLf) = 2 /\ Len(CrLf) \in Nat /\ CrLf[1] = "CR" /\ CrLf[2] = "LF"
  BY DEF CrLf
<1>2. pos \in Nat /\ Len(buf) \in Nat
  BY DEF Text
<1>3. \/ crlf = 0
      \/ /\ crlf \in pos + 1 .. Len(buf) - 2 + 1
         /\ SubSeq(buf, crlf, crlf + 2 - 1) = CrLf
  <2>1. \/ crlf = 0
        \/ crlf \in pos + 1 .. Len(buf) - Len(CrLf) + 1 /\ StandsAt(buf, CrLf, crlf)
    BY <1>1, <1>2, StrstrFindsFirst
  <2>2. QED
    BY <1>1, <2>1 DEF StandsAt
<1>4. ASSUME crlf # 0
      PROVE  crlf \in pos + 1 .. Len(buf) - 1 /\ LineEnd(buf, crlf + 1)
  <2> HIDE DEF crlf
  <2>1. crlf \in pos + 1 .. Len(buf) - 1 /\ SubSeq(buf, crlf, crlf + 1) = CrLf
    BY <1>2, <1>3, <1>4
  <2>2. SubSeq(buf, crlf, crlf + 1)[1] = buf[crlf] /\ SubSeq(buf, crlf, crlf + 1)[2] = buf[crlf + 1]
    <3>1. crlf \in Int /\ crlf + 1 \in Int /\ \A k \in crlf .. crlf + 1 : buf[k] \in STRING
      BY <1>2, <2>1, TextFacts
    <3>2. \A k \in 1 .. crlf + 1 - crlf + 1 : SubSeq(buf, crlf, crlf + 1)[k] = buf[crlf + k - 1]
      BY <3>1, SubSeqProperties
    <3>3. 1 \in 1 .. crlf + 1 - crlf + 1 /\ 2 \in 1 .. crlf + 1 - crlf + 1
          /\ crlf + 1 - 1 = crlf /\ crlf + 2 - 1 = crlf + 1
      BY <3>1
    <3>4. QED
      BY <3>2, <3>3
  <2>3. QED
    BY <1>1, <1>2, <2>1, <2>2 DEF LineEnd
<1>5. QED
  BY <1>4

(* A parsed line lies in the buffer, and reading goes on behind it.        *)
GoesOn(buf, pos, next) == next \in pos + 2 .. Len(buf) /\ LineEnd(buf, next)
LEMMA LinesParsed ==
  ASSUME NEW buf \in Text, NEW pos \in 0 .. Len(buf),
         NEW line \in {ParseReqType(buf, pos), ParseResponseCode(buf, pos)}
  PROVE  \/ line.status \in {"NO_END_OF_LINE", "PARSING_ERROR"} /\ line.next = pos
         \/ line.status = "OK" /\ GoesOn(buf, pos, line.next)
<1> DEFINE crlf == Strstr(buf, pos, CrLf)
<1>1. crlf # 0 => GoesOn(buf, pos, crlf + 1)
  <2>1. crlf # 0 => crlf \in pos + 1 .. Len(buf) - 1 /\ LineEnd(buf, crlf + 1)
    BY FindsLineEnd
  <2>2. pos \in Nat /\ Len(buf) \in Nat
    BY TextFacts
  <2> HIDE DEF crlf
  <2>3. QED
    BY <2>1, <2>2 DEF GoesOn
<1>2. CASE line = ParseReqType(buf, pos)
  BY <1>1, <1>2 DEF ParseReqType, NoLine, BadLine
<1>3. CASE line = ParseResponseCode(buf, pos)
  BY <1>1, <1>3 DEF ParseResponseCode, NoLine, BadLine
<1>4. QED
  BY <1>2, <1>3

LEMMA HeaderParsed ==
  ASSUME NEW buf \in Text, NEW pos \in 0 .. Len(buf),
         NEW line, line = ParseNextHeader(buf, pos)
  PROVE  \/ line.status \in {"NO_END_OF_LINE", "PARSING_ERROR"} /\ line.next = pos
         \/ line.status = "OK" /\ GoesOn(buf, pos, line.next)
         \/ line.status = "END_OF_HEADER" /\ line.next = pos + 2 /\ GoesOn(buf, pos, pos + 2)
<1> DEFINE crlf == Strstr(buf, pos, CrLf)
<1>1. crlf # 0 => GoesOn(buf, pos, crlf + 1)
  <2>1. crlf # 0 => crlf \in pos + 1 .. Len(buf) - 1 /\ LineEnd(buf, crlf + 1)
    BY FindsLineEnd
  <2>2. pos \in Nat /\ Len(buf) \in Nat
    BY TextFacts
  <2> HIDE DEF crlf
  <2>3. QED
    BY <2>1, <2>2 DEF GoesOn
<1>2. crlf = pos + 1 => crlf + 1 = pos + 2
  BY TextFacts
<1>3. CASE crlf = 0
  BY <1>3 DEF ParseNextHeader, NoLine
<1>4. CASE crlf # 0 /\ crlf = pos + 1
  BY <1>1, <1>2, <1>4 DEF ParseNextHeader
<1>5. CASE crlf # 0 /\ crlf # pos + 1
  BY <1>1, <1>5 DEF ParseNextHeader, BadLine
<1>6. QED
  BY <1>3, <1>4, <1>5

(* Reading the lines of a header one by one, where f gives the result of   *)
(* reading from a later position.                                          *)
HeadersFrom(buf, f, pos) ==
  LET line == ParseNextHeader(buf, pos)
  IN IF line.status # "OK"
     THEN [status |-> line.status, next |-> line.next, headers |-> <<>>]
     ELSE LET rest == f[line.next]
          IN [rest EXCEPT !.headers = <<line.header>> \o @]

(* The result of reading from a position rests on later positions only. *)
LEMMA OnlyLaterRead ==
  ASSUME NEW buf \in Text, NEW pos \in 0 .. Len(buf), NEW f, NEW g,
         \A later \in pos + 1 .. Len(buf) : f[later] = g[later]
  PROVE  HeadersFrom(buf, f, pos) = HeadersFrom(buf, g, pos)
<1>1. PICK line : line = ParseNextHeader(buf, pos)
  OBVIOUS
<1>2. CASE line.status = "OK"
  <2>1. line.next \in pos + 2 .. Len(buf)
    BY <1>1, <1>2, HeaderParsed DEF GoesOn
  <2>2. line.next \in pos + 1 .. Len(buf)
    BY <2>1, TextFacts
  <2>3. f[line.next] = g[line.next]
    BY <2>2
  <2>4. QED
    BY <1>1, <1>2, <2>3 DEF HeadersFrom
<1>3. CASE line.status # "OK"
  BY <1>1, <1>3 DEF HeadersFrom
<1>4. QED
  BY <1>2, <1>3

(* So the results can be found from the end of the buffer backwards.       *)
ReadsFrom(buf, f, start) == f = [pos \in start .. Len(buf) |-> HeadersFrom(buf, f, pos)]
LEMMA HeadersExist ==
  ASSUME NEW buf \in Text
  PROVE  \E f : ReadsFrom(buf, f, 0)
<1>1. Len(buf) \in Nat
  BY TextFacts
<1> DEFINE Missing == {k \in 0 .. Len(buf) + 1 : ~ \E f : ReadsFrom(buf, f, Len(buf) + 1 - k)}
<1>2. SUFFICES ASSUME Missing # {} PROVE FALSE
  <2>1. Len(buf) + 1 \notin Missing
    OBVIOUS
  <2>2. QED
    BY <1>1, <2>1
<1>3. PICK k \in Missing : \A j \in Missing : ~ (<<j, k>> \in OpToRel(<, Nat))
  <2>1. Missing \subseteq Nat
    BY <1>1
  <2> HIDE DEF Missing
  <2>2. QED
    BY <1>2, <2>1, NatLessThanWellFounded, WFMin
<1>4. PICK first : first = Len(buf) + 1 - k
  OBVIOUS
<1>5. k \in Nat /\ k <= Len(buf) + 1 /\ first \in 0 .. Len(buf) + 1 /\ ~ \E f : ReadsFrom(buf, f, first)
  BY <1>1, <1>4
<1>6. k # 0
  <2> SUFFICES ASSUME k = 0 PROVE FALSE
    OBVIOUS
  <2>1. first .. Len(buf) = {}
    BY <1>1, <1>4
  <2>2. PICK f : f = [pos \in {} |-> 0]
    OBVIOUS
  <2>3. f = [pos \in {} |-> HeadersFrom(buf, f, pos)]
    BY <2>2
  <2>4. QED
    BY <1>5, <2>1, <2>3 DEF ReadsFrom
<1>7. PICK g : ReadsFrom(buf, g, first + 1)
  <2>1. k - 1 \in 0 .. Len(buf) + 1 /\ k - 1 \in Nat /\ k - 1 < k /\ Len(buf) + 1 - (k - 1) = first + 1
    BY <1>1, <1>4, <1>5, <1>6
  <2>2. k - 1 \notin Missing
    <3> HIDE DEF Missing
    <3> QED
      BY <1>3, <1>5, <2>1 DEF OpToRel
  <2>3. QED
    BY <2>1, <2>2
<1>8. PICK f : f = [pos \in first .. Len(buf) |->
                     IF pos = first THEN HeadersFrom(buf, g, pos) ELSE g[pos]]
  OBVIOUS
<1>9. first \in 0 .. Len(buf)
  BY <1>1, <1>4, <1>5, <1>6
<1>10. ASSUME NEW pos \in first .. Len(buf) PROVE f[pos] = HeadersFrom(buf, f, pos)
  <2>1. pos \in 0 .. Len(buf)
    BY <1>1, <1>9
  <2>2. ASSUME NEW later \in pos + 1 .. Len(buf) PROVE f[later] = g[later]
    <3>1. later \in first .. Len(buf) /\ later # first
      BY <1>1, <1>9
    <3>2. QED
      BY <1>8, <3>1
  <2>3. HeadersFrom(buf, f, pos) = HeadersFrom(buf, g, pos)
    BY <2>1, <2>2, OnlyLaterRead
  <2>4. f[pos] = HeadersFrom(buf, g, pos)
    <3>1. CASE pos = first
      BY <1>8, <3>1
    <3>2. CASE pos # first
      <4>1. pos \in first + 1 .. Len(buf)
        BY <1>1, <1>9, <3>2
      <4>2. g[pos] = HeadersFrom(buf, g, pos)
        BY <1>7, <4>1 DEF ReadsFrom
      <4>3. QED
        BY <1>8, <3>2, <4>2
    <3>3. QED
      BY <3>1, <3>2
  <2>5. QED
    BY <2>3, <2>4
<1>11. ReadsFrom(buf, f, first)
  BY <1>8, <1>10 DEF ReadsFrom
<1>12. QED
  BY <1>5, <1>11

(* What parse_next_header returns last: it has not gone back, it stands    *)
(* behind a line if it began behind one, and before an empty line that     *)
(* ends the head it stood behind a line too.                               *)
HeadRead(buf, start, read) ==
  /\ DOMAIN read = {"status", "next", "headers"}
  /\ read.status \in {"NO_END_OF_LINE", "PARSING_ERROR", "END_OF_HEADER"}
  /\ read.next \in start .. Len(buf)
  /\ LineEnd(buf, start) => LineEnd(buf, read.next)
  /\ read.status = "END_OF_HEADER" =>
       /\ LineEnd(buf, read.next) /\ read.next - 2 >= start
       /\ LineEnd(buf, start) => LineEnd(buf, read.next - 2)

LEMMA HeadReads ==
  ASSUME NEW buf \in Text, NEW start \in 0 .. Len(buf)
  PROVE  HeadRead(buf, start, ParseHeaders(buf, start))
<1> DEFINE Defines(f) ==
      f = [pos \in 0 .. Len(buf) |->
             LET line == ParseNextHeader(buf, pos)
             IN IF line.status # "OK"
                THEN [status |-> line.status, next |-> line.next, headers |-> <<>>]
                ELSE LET rest == f[line.next]
                     IN [rest EXCEPT !.headers = <<line.header>> \o @]]
<1>1. PICK from : from = CHOOSE f : Defines(f)
  OBVIOUS
<1>2. ParseHeaders(buf, start) = from[start]
  BY <1>1 DEF ParseHeaders
<1>3. ReadsFrom(buf, from, 0)
  <2>1. PICK f : ReadsFrom(buf, f, 0)
    BY HeadersExist
  <2>2. Defines(f)
    BY <2>1 DEF ReadsFrom, HeadersFrom
  <2>3. Defines(from)
    BY <1>1, <2>2
  <2>4. QED
    BY <2>3 DEF ReadsFrom, HeadersFrom
<1> HIDE DEF Defines
<1>4. Len(buf) \in Nat
  BY TextFacts
<1> DEFINE Wrong == {k \in 0 .. Len(buf) : ~ HeadRead(buf, Len(buf) - k, from[Len(buf) - k])}
<1>5. Wrong = {}
  <2> SUFFICES ASSUME Wrong # {} PROVE FALSE
    OBVIOUS
  <2>1. PICK k \in Wrong : \A j \in Wrong : ~ (<<j, k>> \in OpToRel(<, Nat))
    <3>1. Wrong \subseteq Nat
      BY <1>4
    <3> HIDE DEF Wrong
    <3>2. QED
      BY <3>1, NatLessThanWellFounded, WFMin
  <2>2. PICK pos : pos = Len(buf) - k
    OBVIOUS
  <2>3. k \in Nat /\ pos \in 0 .. Len(buf) /\ ~ HeadRead(buf, pos, from[pos])
    BY <1>4, <2>2
  <2>4. PICK line : line = ParseNextHeader(buf, pos)
    OBVIOUS
  <2>5. from[pos] = HeadersFrom(buf, from, pos)
    BY <1>3, <2>3 DEF ReadsFrom
  <2>6. CASE line.status = "OK"
    <3>1. PICK later : later = line.next
      OBVIOUS
    <3>2. later \in pos + 2 .. Len(buf) /\ LineEnd(buf, later)
      BY <2>3, <2>4, <2>6, <3>1, HeaderParsed DEF GoesOn
    <3>3. Len(buf) - later \in 0 .. Len(buf) /\ Len(buf) - later \in Nat
          /\ Len(buf) - later < k /\ Len(buf) - (Len(buf) - later) = later
      BY <1>4, <2>2, <2>3, <3>2
    <3>4. Len(buf) - later \notin Wrong
      <4> HIDE DEF Wrong
      <4> QED
        BY <2>1, <2>3, <3>3 DEF OpToRel
    <3>5. HeadRead(buf, later, from[later])
      BY <3>3, <3>4
    <3>6. from[pos] = [from[later] EXCEPT !.headers = <<line.header>> \o @]
      BY <2>4, <2>5, <2>6, <3>1 DEF HeadersFrom
    <3>7. /\ DOMAIN from[pos] = {"status", "next", "headers"}
          /\ from[pos].status = from[later].status /\ from[pos].next = from[later].next
      BY <3>5, <3>6 DEF HeadRead
    <3>8. HeadRead(buf, pos, from[pos])
      BY <1>4, <2>3, <3>2, <3>5, <3>7 DEF HeadRead
    <3>9. QED
      BY <2>3, <3>8
  <2>7. CASE line.status # "OK"
    <3>1. from[pos] = [status |-> line.status, next |-> line.next, headers |-> <<>>]
      BY <2>4, <2>5, <2>7 DEF HeadersFrom
    <3>2. \/ line.status \in {"NO_END_OF_LINE", "PARSING_ERROR"} /\ line.next = pos
          \/ /\ line.status = "END_OF_HEADER" /\ line.next = pos + 2
             /\ pos + 2 \in pos + 2 .. Len(buf) /\ LineEnd(buf, pos + 2)
      BY <2>3, <2>4, <2>7, HeaderParsed DEF GoesOn
    <3>3. pos + 2 - 2 = pos /\ pos + 2 - 2 >= pos /\ pos \in pos .. Len(buf)
      BY <2>3, <1>4
    <3>4. HeadRead(buf, pos, from[pos])
      BY <1>4, <2>3, <3>1, <3>2, <3>3 DEF HeadRead
    <3>5. QED
      BY <2>3, <3>4
  <2>8. QED
    BY <2>6, <2>7
<1>6. Len(buf) - start \in 0 .. Len(buf) /\ Len(buf) - (Len(buf) - start) = start
  BY <1>4
<1>7. HeadRead(buf, start, from[start])
  BY <1>5, <1>6
<1>8. QED
  BY <1>2, <1>7

(* A number read is at least -1, so that a chunk is never of a negative    *)
(* size.                                                                   *)
LEMMA NumberRead == \A text : Strtol(text) \in -1 .. 3
<1> SUFFICES ASSUME NEW text PROVE Strtol(text) \in -1 .. 3
  OBVIOUS
<1>1. \A n \in DOMAIN Numerals : Numerals[n] \in -1 .. 3
  BY DEF Numerals
<1>2. QED
  BY <1>1 DEF Strtol

(* One turn of the loop over the chunks, where f gives the result of going *)
(* on from another position.                                               *)
LineAt(buf, s) == Strstr(buf, s.sppos, CrLf)
SizeRead(buf, s) ==
  [sppos |-> LineAt(buf, s) + 1, chunk_read |-> 0,
   chunk_size |-> Strtol(Between(buf, s.sppos, LineAt(buf, s))) + 2]
DataPassed(buf, s) ==
  [s EXCEPT !.sppos = @ + Passable(buf, s), !.chunk_read = @ + Passable(buf, s)]
ChunkPassed(s) == [s EXCEPT !.chunk_size = -1, !.chunk_read = 0]
StopsIn(s) == s.chunk_read # s.chunk_size \/ LastChunkPassed(s)
ChunksFrom(buf, f, s) ==
  CASE s.chunk_size = -1 /\ LineAt(buf, s) = 0 -> s
    [] s.chunk_size = -1 /\ LineAt(buf, s) # 0 -> f[SizeRead(buf, s)]
    [] OTHER ->
         IF StopsIn(DataPassed(buf, s)) THEN DataPassed(buf, s)
         ELSE f[ChunkPassed(DataPassed(buf, s))]

(* How many more turns the loop can take at most.                          *)
TurnsLeft(buf, s) ==
  IF s.sppos > Len(buf) THEN 0
  ELSE 2 * (Len(buf) - s.sppos) + (IF s.chunk_size = -1 THEN 0 ELSE 1)
Inside(buf, s) == s \in ChunkPositions /\ s.sppos <= Len(buf)
Nearer(buf, s, t) ==
  Inside(buf, t) /\ s.sppos <= t.sppos /\ TurnsLeft(buf, t) < TurnsLeft(buf, s)

LEMMA TurnsCounted ==
  ASSUME NEW buf \in Text, NEW s \in ChunkPositions
  PROVE  TurnsLeft(buf, s) \in 0 .. 2 * Len(buf) + 1
<1>1. Len(buf) \in Nat /\ s.sppos \in Nat
  BY TextFacts DEF ChunkPositions
<1>2. CASE s.sppos > Len(buf)
  BY <1>1, <1>2 DEF TurnsLeft
<1>3. CASE s.sppos <= Len(buf)
  <2>1. Len(buf) - s.sppos \in 0 .. Len(buf)
    BY <1>1, <1>3
  <2>2. \A n \in Nat : \A m \in 0 .. n :
         2 * m \in 0 .. 2 * n + 1 /\ 2 * m + 1 \in 0 .. 2 * n + 1
    OBVIOUS
  <2>3. QED
    BY <1>1, <1>3, <2>1, <2>2 DEF TurnsLeft
<1>4. QED
  BY <1>1, <1>2, <1>3

(* The lesser of two numbers. *)
LEMMA LesserOfTwo ==
  ASSUME NEW a \in Int, NEW b \in Int
  PROVE  Min({a, b}) = IF a <= b THEN a ELSE b
<1>1. PICK m : m = IF a <= b THEN a ELSE b
  OBVIOUS
<1>2. m \in {a, b} /\ \A y \in {a, b} : m <= y
  BY <1>1
<1>3. \A x \in {a, b} : (\A y \in {a, b} : x <= y) => x = m
  BY <1>1
<1>4. QED
  BY <1>1, <1>2, <1>3 DEF Min

(* A changed record of positions keeps its type. *)
LEMMA PositionsMoved ==
  ASSUME NEW s \in [sppos : Nat, chunk_size : Int, chunk_read : Int],
         NEW n \in Nat, NEW size \in Int, NEW read \in Int
  PROVE  /\ [s EXCEPT !.sppos = n, !.chunk_read = read]
               \in [sppos : Nat, chunk_size : Int, chunk_read : Int]
         /\ [s EXCEPT !.chunk_size = size, !.chunk_read = read]
               \in [sppos : Nat, chunk_size : Int, chunk_read : Int]
  OBVIOUS

(* Behind a size line the loop has fewer turns left, and is inside still. *)
LEMMA SizeReadIsNearer ==
  ASSUME NEW buf \in Text, NEW s \in ChunkPositions, s.chunk_size = -1, LineAt(buf, s) # 0
  PROVE  Nearer(buf, s, SizeRead(buf, s))
<1>1. Len(buf) \in Nat /\ s.sppos \in Nat
  BY TextFacts DEF ChunkPositions
<1>2. PICK crlf : crlf = LineAt(buf, s)
  OBVIOUS
<1>3. crlf \in s.sppos + 1 .. Len(buf) - Len(CrLf) + 1
  <2>1. Len(CrLf) \in Nat
    BY DEF CrLf
  <2>2. QED
    BY <1>1, <1>2, <2>1, StrstrFindsFirst DEF LineAt
<1>4. crlf \in s.sppos + 1 .. Len(buf) - 1 /\ s.sppos <= Len(buf)
  <2>1. Len(CrLf) = 2
    BY DEF CrLf
  <2>2. QED
    BY <1>1, <1>3, <2>1
<1>5. PICK t : t = SizeRead(buf, s)
  OBVIOUS
<1>6. PICK n \in -1 .. 3 : n = Strtol(Between(buf, s.sppos, crlf))
  BY NumberRead
<1>7. t = [sppos |-> crlf + 1, chunk_read |-> 0, chunk_size |-> n + 2]
  BY <1>2, <1>5, <1>6 DEF SizeRead
<1>8. /\ crlf + 1 \in Nat /\ crlf + 1 <= Len(buf) /\ s.sppos <= crlf + 1
      /\ n + 2 \in Int /\ 0 \in 0 .. n + 2 /\ n + 2 # -1
  BY <1>1, <1>4
<1>9. t \in [sppos : Nat, chunk_size : Int, chunk_read : Int]
  BY <1>7, <1>8
<1>10. Inside(buf, t)
  BY <1>7, <1>8, <1>9 DEF Inside, ChunkPositions
<1>11. TurnsLeft(buf, t) = 2 * (Len(buf) - (crlf + 1)) + 1
  BY <1>1, <1>4, <1>7, <1>8 DEF TurnsLeft
<1>12. TurnsLeft(buf, s) = 2 * (Len(buf) - s.sppos)
  BY <1>1, <1>4 DEF TurnsLeft
<1>13. 2 * (Len(buf) - (crlf + 1)) + 1 < 2 * (Len(buf) - s.sppos)
  BY <1>1, <1>4
<1>14. QED
  BY <1>5, <1>7, <1>8, <1>10, <1>11, <1>12, <1>13 DEF Nearer

(* The data passed lie inside, and behind the whole of them fewer are left. *)
LEMMA DataIsPassed ==
  ASSUME NEW buf \in Text, NEW s \in ChunkPositions, s.chunk_size # -1
  PROVE  /\ Inside(buf, s) => /\ Inside(buf, DataPassed(buf, s))
                              /\ s.sppos <= DataPassed(buf, s).sppos
         /\ ~ StopsIn(DataPassed(buf, s)) => Nearer(buf, s, ChunkPassed(DataPassed(buf, s)))
<1>1. /\ Len(buf) \in Nat /\ s.sppos \in Nat /\ s.chunk_size \in Int /\ s.chunk_read \in Int
      /\ s.chunk_read \in 0 .. s.chunk_size
      /\ s \in [sppos : Nat, chunk_size : Int, chunk_read : Int]
  BY TextFacts DEF ChunkPositions
<1>2. PICK a : a = s.chunk_size - s.chunk_read
  OBVIOUS
<1>3. PICK b : b = Len(buf) - s.sppos
  OBVIOUS
<1>4. PICK n : n = Passable(buf, s)
  OBVIOUS
<1>5. a \in Nat /\ b \in Int /\ n = IF a <= b THEN a ELSE b
  <2>1. a \in Int /\ b \in Int /\ a \in Nat
    BY <1>1, <1>2, <1>3
  <2>2. QED
    BY <1>2, <1>3, <1>4, <2>1, LesserOfTwo DEF Passable
<1>6. PICK t : t = DataPassed(buf, s)
  OBVIOUS
<1>7. t = [s EXCEPT !.sppos = s.sppos + n, !.chunk_read = s.chunk_read + n]
  BY <1>4, <1>6 DEF DataPassed
<1>8. /\ t.sppos = s.sppos + n /\ t.chunk_size = s.chunk_size
      /\ t.chunk_read = s.chunk_read + n
  BY <1>1, <1>7
<1>9. CASE s.sppos <= Len(buf)
  <2>1. b \in Nat /\ n \in Nat /\ n <= a /\ n <= b
    BY <1>1, <1>3, <1>5, <1>9
  <2>2. /\ s.sppos + n \in Nat /\ s.sppos + n <= Len(buf) /\ s.sppos <= s.sppos + n
        /\ s.chunk_read + n \in 0 .. s.chunk_size
    BY <1>1, <1>2, <1>3, <2>1
  <2>3. t \in [sppos : Nat, chunk_size : Int, chunk_read : Int]
    <3>1. s.chunk_read + n \in Int
      BY <2>2
    <3>2. QED
      BY <1>1, <1>7, <2>2, <3>1, PositionsMoved
  <2>4. Inside(buf, t) /\ s.sppos <= t.sppos
    BY <1>8, <2>2, <2>3 DEF Inside, ChunkPositions
  <2>5. PICK u : u = ChunkPassed(t)
    OBVIOUS
  <2>6. u \in [sppos : Nat, chunk_size : Int, chunk_read : Int]
        /\ u.sppos = t.sppos /\ u.chunk_size = -1
    <3>1. -1 \in Int /\ 0 \in Int
      OBVIOUS
    <3>2. u \in [sppos : Nat, chunk_size : Int, chunk_read : Int]
      BY <2>3, <2>5, <3>1, PositionsMoved DEF ChunkPassed
    <3>3. u.sppos = t.sppos /\ u.chunk_size = -1
      BY <2>3, <2>5 DEF ChunkPassed
    <3>4. QED
      BY <3>2, <3>3
  <2>7. Inside(buf, u)
    BY <1>8, <2>2, <2>6 DEF Inside, ChunkPositions
  <2>8. TurnsLeft(buf, u) = 2 * (Len(buf) - (s.sppos + n))
    BY <1>1, <1>8, <2>2, <2>6 DEF TurnsLeft
  <2>9. TurnsLeft(buf, s) = 2 * (Len(buf) - s.sppos) + 1
    BY <1>1, <1>9 DEF TurnsLeft
  <2>10. 2 * (Len(buf) - (s.sppos + n)) < 2 * (Len(buf) - s.sppos) + 1
    BY <1>1, <2>1, <2>2
  <2>11. QED
    BY <1>6, <1>8, <2>2, <2>4, <2>5, <2>6, <2>7, <2>8, <2>9, <2>10 DEF Nearer
<1>10. CASE s.sppos > Len(buf)
  <2>1. b < 0 /\ n = b
    BY <1>1, <1>3, <1>5, <1>10
  <2>2. t.chunk_read # t.chunk_size
    <3>1. s.chunk_read + n < s.chunk_size
      BY <1>1, <1>5, <2>1
    <3>2. s.chunk_read + n \in Int
      BY <1>1, <1>5
    <3>3. QED
      BY <1>1, <1>8, <3>1, <3>2
  <2>3. ~ Inside(buf, s)
    BY <1>1, <1>10 DEF Inside
  <2>4. QED
    BY <1>6, <2>2, <2>3 DEF StopsIn
<1>11. QED
  BY <1>1, <1>9, <1>10

(* As for the headers, the results exist, found from the nearest positions *)
(* on, and the scan stays inside the buffer.                               *)
LEMMA OnlyNearerScanned ==
  ASSUME NEW buf \in Text, NEW s \in ChunkPositions, NEW f, NEW g,
         \A t \in ChunkPositions : TurnsLeft(buf, t) < TurnsLeft(buf, s) => f[t] = g[t]
  PROVE  ChunksFrom(buf, f, s) = ChunksFrom(buf, g, s)
<1>1. CASE s.chunk_size = -1 /\ LineAt(buf, s) = 0
  BY <1>1 DEF ChunksFrom
<1>2. CASE s.chunk_size = -1 /\ LineAt(buf, s) # 0
  <2>1. Nearer(buf, s, SizeRead(buf, s))
    BY <1>2, SizeReadIsNearer
  <2>2. f[SizeRead(buf, s)] = g[SizeRead(buf, s)]
    BY <2>1 DEF Nearer, Inside
  <2>3. QED
    BY <1>2, <2>2 DEF ChunksFrom
<1>3. CASE s.chunk_size # -1 /\ StopsIn(DataPassed(buf, s))
  BY <1>3 DEF ChunksFrom
<1>4. CASE s.chunk_size # -1 /\ ~ StopsIn(DataPassed(buf, s))
  <2>1. Nearer(buf, s, ChunkPassed(DataPassed(buf, s)))
    BY <1>4, DataIsPassed
  <2>2. f[ChunkPassed(DataPassed(buf, s))] = g[ChunkPassed(DataPassed(buf, s))]
    BY <2>1 DEF Nearer, Inside
  <2>3. QED
    BY <1>4, <2>2 DEF ChunksFrom
<1>5. QED
  BY <1>1, <1>2, <1>3, <1>4

Within(buf, k) == {s \in ChunkPositions : TurnsLeft(buf, s) < k}
ScansWithin(buf, f, k) == f = [s \in Within(buf, k) |-> ChunksFrom(buf, f, s)]
LEMMA ScansExist ==
  ASSUME NEW buf \in Text
  PROVE  \E f : f = [s \in ChunkPositions |-> ChunksFrom(buf, f, s)]
<1>1. Len(buf) \in Nat /\ 2 * Len(buf) + 2 \in Nat
  BY TextFacts
<1> DEFINE Missing == {k \in 0 .. 2 * Len(buf) + 2 : ~ \E f : ScansWithin(buf, f, k)}
<1>2. SUFFICES ASSUME Missing # {} PROVE FALSE
  <2>1. 2 * Len(buf) + 2 \notin Missing
    OBVIOUS
  <2>2. PICK f : ScansWithin(buf, f, 2 * Len(buf) + 2)
    BY <1>1, <2>1
  <2>3. Within(buf, 2 * Len(buf) + 2) = ChunkPositions
    <3>1. \A s \in ChunkPositions : TurnsLeft(buf, s) < 2 * Len(buf) + 2
      BY <1>1, TurnsCounted
    <3>2. QED
      BY <3>1 DEF Within
  <2>4. QED
    BY <2>2, <2>3 DEF ScansWithin
<1>3. PICK k \in Missing : \A j \in Missing : ~ (<<j, k>> \in OpToRel(<, Nat))
  <2>1. Missing \subseteq Nat
    BY <1>1
  <2> HIDE DEF Missing
  <2>2. QED
    BY <1>2, <2>1, NatLessThanWellFounded, WFMin
<1>4. k \in Nat /\ k <= 2 * Len(buf) + 2 /\ ~ \E f : ScansWithin(buf, f, k)
  BY <1>1
<1>5. k # 0
  <2> SUFFICES ASSUME k = 0 PROVE FALSE
    OBVIOUS
  <2>1. Within(buf, k) = {}
    <3>1. \A s \in ChunkPositions : ~ (TurnsLeft(buf, s) < 0)
      BY <1>1, TurnsCounted
    <3>2. QED
      BY <3>1 DEF Within
  <2>2. PICK f : f = [s \in {} |-> 0]
    OBVIOUS
  <2>3. f = [s \in {} |-> ChunksFrom(buf, f, s)]
    BY <2>2
  <2>4. QED
    BY <1>4, <2>1, <2>3 DEF ScansWithin
<1>6. PICK g : ScansWithin(buf, g, k - 1)
  <2>1. k - 1 \in 0 .. 2 * Len(buf) + 2 /\ k - 1 \in Nat /\ k - 1 < k
    BY <1>1, <1>4, <1>5
  <2>2. k - 1 \notin Missing
    <3> HIDE DEF Missing
    <3> QED
      BY <1>3, <1>4, <2>1 DEF OpToRel
  <2>3. QED
    BY <2>1, <2>2
<1>7. PICK f : f = [s \in Within(buf, k) |-> ChunksFrom(buf, g, s)]
  OBVIOUS
<1>8. ASSUME NEW s \in Within(buf, k - 1) PROVE g[s] = ChunksFrom(buf, g, s)
  BY <1>6 DEF ScansWithin
<1>9. ASSUME NEW s \in Within(buf, k) PROVE f[s] = ChunksFrom(buf, f, s)
  <2>1. s \in ChunkPositions /\ TurnsLeft(buf, s) < k /\ TurnsLeft(buf, s) \in Nat
    BY TurnsCounted, <1>1 DEF Within
  <2>2. ASSUME NEW t \in ChunkPositions, TurnsLeft(buf, t) < TurnsLeft(buf, s)
        PROVE  f[t] = g[t]
    <3>1. TurnsLeft(buf, t) \in Nat
      BY <1>1, TurnsCounted
    <3>2. TurnsLeft(buf, t) < k - 1 /\ TurnsLeft(buf, t) < k
      BY <1>4, <2>1, <2>2, <3>1
    <3>3. t \in Within(buf, k - 1) /\ t \in Within(buf, k)
      BY <3>2 DEF Within
    <3>4. QED
      BY <1>7, <1>8, <3>3
  <2>3. ChunksFrom(buf, f, s) = ChunksFrom(buf, g, s)
    BY <2>1, <2>2, OnlyNearerScanned
  <2>4. QED
    BY <1>7, <2>3
<1>10. ScansWithin(buf, f, k)
  BY <1>7, <1>9 DEF ScansWithin
<1>11. QED
  BY <1>4, <1>10

LEMMA ScanStaysInside ==
  ASSUME NEW buf \in Text, NEW start, Inside(buf, start)
  PROVE  /\ Inside(buf, ScanChunks(buf, start))
         /\ start.sppos <= ScanChunks(buf, start).sppos
<1> DEFINE Defines(f) ==
      f = [s \in ChunkPositions |->
             LET crlf == Strstr(buf, s.sppos, CrLf)
                 passed == Passable(buf, s)
                 s1 == [s EXCEPT !.sppos = @ + passed, !.chunk_read = @ + passed]
             IN CASE s.chunk_size = -1 /\ crlf = 0 -> s
                  [] s.chunk_size = -1 /\ crlf # 0 ->
                       f[[sppos |-> crlf + 1, chunk_read |-> 0,
                          chunk_size |-> Strtol(Between(buf, s.sppos, crlf)) + 2]]
                  [] OTHER ->
                       IF s1.chunk_read # s1.chunk_size \/ LastChunkPassed(s1) THEN s1
                       ELSE f[[s1 EXCEPT !.chunk_size = -1, !.chunk_read = 0]]]
<1>1. PICK from : from = CHOOSE f : Defines(f)
  OBVIOUS
<1>2. ScanChunks(buf, start) = from[start]
  BY <1>1 DEF ScanChunks
<1>3. \A f : Defines(f) <=> f = [s \in ChunkPositions |-> ChunksFrom(buf, f, s)]
  BY DEF ChunksFrom, LineAt, SizeRead, DataPassed, ChunkPassed, StopsIn
<1>4. from = [s \in ChunkPositions |-> ChunksFrom(buf, from, s)]
  <2> HIDE DEF Defines
  <2>1. PICK f : Defines(f)
    BY <1>3, ScansExist
  <2>2. QED
    BY <1>1, <1>3, <2>1
<1> HIDE DEF Defines
<1> DEFINE Bounded(s) == Inside(buf, from[s]) /\ s.sppos <= from[s].sppos
           Wrong == {k \in Nat : \E s : Inside(buf, s) /\ TurnsLeft(buf, s) = k /\ ~ Bounded(s)}
<1>5. \A s : Inside(buf, s) => s \in ChunkPositions /\ s.sppos \in Nat /\ TurnsLeft(buf, s) \in Nat
  <2>1. Len(buf) \in Nat
    BY TextFacts
  <2>2. \A s \in ChunkPositions : TurnsLeft(buf, s) \in Nat
    BY <2>1, TurnsCounted
  <2>3. QED
    BY <2>2 DEF Inside, ChunkPositions
<1>6. Wrong = {}
  <2> SUFFICES ASSUME Wrong # {} PROVE FALSE
    OBVIOUS
  <2>1. PICK k \in Wrong : \A j \in Wrong : ~ (<<j, k>> \in OpToRel(<, Nat))
    <3>1. Wrong \subseteq Nat
      OBVIOUS
    <3> HIDE DEF Wrong
    <3>2. QED
      BY <3>1, NatLessThanWellFounded, WFMin
  <2>2. PICK s : Inside(buf, s) /\ TurnsLeft(buf, s) = k /\ ~ Bounded(s)
    OBVIOUS
  <2>3. ASSUME NEW t, Nearer(buf, s, t) PROVE Bounded(t)
    <3>1. Inside(buf, t) /\ TurnsLeft(buf, t) \in Nat /\ TurnsLeft(buf, t) < k /\ k \in Nat
      BY <1>5, <2>2, <2>3 DEF Nearer
    <3>2. TurnsLeft(buf, t) \notin Wrong
      <4> HIDE DEF Wrong
      <4> QED
        BY <2>1, <3>1 DEF OpToRel
    <3> HIDE DEF Bounded
    <3>3. QED
      BY <3>1, <3>2
  <2>4. ASSUME NEW t, Nearer(buf, s, t), from[s] = from[t] PROVE FALSE
    <3>1. Inside(buf, from[t]) /\ t.sppos <= from[t].sppos
      BY <2>3, <2>4
    <3>2. s.sppos \in Nat /\ t.sppos \in Nat /\ from[t].sppos \in Nat /\ s.sppos <= t.sppos
      BY <1>5, <2>2, <2>4, <3>1 DEF Nearer
    <3>3. s.sppos <= from[t].sppos
      BY <3>1, <3>2
    <3>4. QED
      BY <2>2, <2>4, <3>1, <3>3
  <2>5. s \in ChunkPositions /\ s.sppos \in Nat /\ from[s] = ChunksFrom(buf, from, s)
    BY <1>4, <1>5, <2>2
  <2>6. CASE s.chunk_size = -1 /\ LineAt(buf, s) = 0
    BY <2>2, <2>5, <2>6 DEF ChunksFrom
  <2>7. CASE s.chunk_size = -1 /\ LineAt(buf, s) # 0
    BY <2>4, <2>5, <2>7, SizeReadIsNearer DEF ChunksFrom
  <2>8. CASE s.chunk_size # -1 /\ StopsIn(DataPassed(buf, s))
    BY <2>2, <2>5, <2>8, DataIsPassed DEF ChunksFrom
  <2>9. CASE s.chunk_size # -1 /\ ~ StopsIn(DataPassed(buf, s))
    BY <2>4, <2>5, <2>9, DataIsPassed DEF ChunksFrom
  <2>10. QED
    BY <2>6, <2>7, <2>8, <2>9
<1>7. Bounded(start)
  BY <1>5, <1>6
<1>8. QED
  BY <1>2, <1>7

-----------------------------------------------------------------------------
(* Streams and what has come of them.                                      *)
Begins(s, t) == Len(s) <= Len(t) /\ \A k \in 1 .. Len(s) : s[k] = t[k]

(* IsPrefix, token by token. *)
LEMMA PrefixByToken ==
  ASSUME NEW s \in Text, NEW t \in Text
  PROVE  IsPrefix(s, t) <=> Begins(s, t)
<1>1. Len(s) \in Nat /\ Len(t) \in Nat
  BY TextFacts
<1>2. SUFFICES ASSUME Len(s) <= Len(t)
               PROVE  SubSeq(s, 1, Len(s)) = SubSeq(t, 1, Len(s)) <=> Begins(s, t)
  BY DEF IsPrefix, Begins
<1>3. PICK u : u = SubSeq(t, 1, Len(s))
  OBVIOUS
<1>4. u \in Text /\ Len(u) = Len(s) /\ \A k \in 1 .. Len(s) : u[k] = t[k]
  <2>1. \A k \in 1 .. Len(s) : t[k] \in STRING /\ 1 + k - 1 = k
    BY <1>1, <1>2, TextFacts
  <2>2. 1 \in Int /\ Len(s) \in Int /\ Len(s) - 1 + 1 = Len(s) /\ (~ (1 <= Len(s)) => Len(s) = 0)
    BY <1>1
  <2>3. /\ u \in Seq(STRING) /\ Len(u) = IF 1 <= Len(s) THEN Len(s) - 1 + 1 ELSE 0
        /\ \A k \in 1 .. Len(s) - 1 + 1 : u[k] = t[1 + k - 1]
    BY <1>3, <2>1, <2>2, SubSeqProperties
  <2>4. QED
    BY <2>1, <2>2, <2>3 DEF Text
<1>5. SubSeq(s, 1, Len(s)) = s
  BY SubSeqFull DEF Text
<1>6. s = u <=> \A k \in 1 .. Len(s) : s[k] = t[k]
  BY <1>4, SeqEqual DEF Text
<1>7. QED
  BY <1>2, <1>3, <1>5, <1>6 DEF Begins

(* What has been written when nothing has. *)
LEMMA NothingBegins ==
  /\ <<>> \in Text /\ Len(<<>>) = 0
  /\ \A t \in Text : Begins(<<>>, t) /\ (Len(t) = 0 <=> t = <<>>)
<1>1. <<>> \in Text /\ Len(<<>>) = 0
  BY EmptySeq DEF Text
<1>2. ASSUME NEW t \in Text PROVE Begins(<<>>, t) /\ (Len(t) = 0 <=> t = <<>>)
  <2>1. Len(t) \in Nat /\ (t # <<>> => Len(t) \in Nat \ {0})
    BY EmptySeq DEF Text
  <2>2. QED
    BY <1>1, <2>1 DEF Begins
<1>3. QED
  BY <1>1, <1>2

(* A beginning of a beginning. *)
LEMMA BeginsTransitive ==
  ASSUME NEW s \in Text, NEW t \in Text, NEW u \in Text, Begins(s, t), Begins(t, u)
  PROVE  Begins(s, u)
<1>1. Len(s) \in Nat /\ Len(t) \in Nat /\ Len(u) \in Nat
  BY TextFacts
<1>2. QED
  BY <1>1 DEF Begins

(* A beginning that is as long as the whole. *)
LEMMA AllOfIt ==
  ASSUME NEW s \in Text, NEW t \in Text, Begins(s, t), Len(s) = Len(t)
  PROVE  s = t
  BY SeqEqual DEF Begins, Text

(* The next n tokens of a stream t are added to s, what has come before.   *)
Followed(s, t, n) == s \o SubSeq(t, Len(s) + 1, Len(s) + n)
LEMMA NextTokens ==
  ASSUME NEW s \in Text, NEW t \in Text, Begins(s, t),
         NEW n \in Nat, n <= Len(t) - Len(s)
  PROVE  /\ Followed(s, t, n) \in Text /\ Len(Followed(s, t, n)) = Len(s) + n
         /\ Begins(Followed(s, t, n), t) /\ Begins(s, Followed(s, t, n))
<1> DEFINE u == Followed(s, t, n)
<1>1. Len(s) \in Nat /\ Len(t) \in Nat /\ Len(s) + n <= Len(t)
  BY TextFacts
<1>2. PICK v : v = SubSeq(t, Len(s) + 1, Len(s) + n)
  OBVIOUS
<1>3. /\ v \in Seq(STRING) /\ Len(v) = n
      /\ \A k \in 1 .. n : v[k] = t[Len(s) + k]
  <2>1. Len(s) + 1 \in Int /\ Len(s) + n \in Int
        /\ \A k \in Len(s) + 1 .. Len(s) + n : t[k] \in STRING
    BY <1>1, TextFacts
  <2>2. /\ v \in Seq(STRING)
        /\ Len(v) = IF Len(s) + 1 <= Len(s) + n THEN Len(s) + n - (Len(s) + 1) + 1 ELSE 0
        /\ \A k \in 1 .. Len(s) + n - (Len(s) + 1) + 1 : v[k] = t[Len(s) + 1 + k - 1]
    BY <1>2, <2>1, SubSeqProperties
  <2>3. /\ Len(s) + n - (Len(s) + 1) + 1 = n
        /\ (~ (Len(s) + 1 <= Len(s) + n) => n = 0)
        /\ \A k \in 1 .. n : Len(s) + 1 + k - 1 = Len(s) + k
    BY <1>1
  <2>4. QED
    BY <2>2, <2>3
<1>4. /\ u \in Text /\ Len(u) = Len(s) + n
      /\ \A k \in 1 .. Len(s) + n : u[k] = IF k <= Len(s) THEN s[k] ELSE v[k - Len(s)]
  <2>1. s \in Seq(STRING)
    BY DEF Text
  <2>2. u = s \o v
    BY <1>2 DEF Followed
  <2> HIDE DEF u
  <2>3. QED
    BY <1>3, <2>1, <2>2, ConcatProperties DEF Text
<1> HIDE DEF u
<1>5. ASSUME NEW k \in 1 .. Len(s) + n PROVE u[k] = t[k]
  <2>1. CASE k <= Len(s)
    BY <1>1, <1>4, <2>1 DEF Begins
  <2>2. CASE ~ (k <= Len(s))
    <3>1. k - Len(s) \in 1 .. n /\ Len(s) + (k - Len(s)) = k
      BY <1>1, <2>2
    <3>2. QED
      BY <1>3, <1>4, <2>2, <3>1
  <2>3. QED
    BY <2>1, <2>2
<1>6. \A k \in 1 .. Len(s) : k \in 1 .. Len(s) + n /\ k <= Len(s)
  BY <1>1
<1>7. Len(s) <= Len(s) + n
  BY <1>1
<1>8. QED
  BY <1>1, <1>4, <1>5, <1>6, <1>7 DEF Begins, u

(* A line end stays where it is while more is read. *)
LEMMA LineEndStays ==
  ASSUME NEW s \in Text, NEW t \in Text, Begins(s, t), NEW pos, LineEnd(s, pos)
  PROVE  LineEnd(t, pos)
<1>1. Len(s) \in Nat /\ Len(t) \in Nat
  BY TextFacts
<1>2. QED
  BY <1>1 DEF Begins, LineEnd

(* How long the head of the request is; it has come when an empty line has *)
(* been found behind a line.                                               *)
HeadLength == Strstr(request, 0, CrLf \o CrLf) + 3
LEMMA HeadLengthNat ==
  ASSUME request \in Text
  PROVE  HeadLength \in Nat
<1>1. PICK pattern : pattern = CrLf \o CrLf
  OBVIOUS
<1>2. Len(pattern) \in Nat
  BY <1>1 DEF CrLf
<1>3. Strstr(request, 0, pattern) \in Nat
  <2>1. Len(request) \in Nat
    BY TextFacts
  <2>2. QED
    BY <1>2, <2>1, StrstrFindsFirst
<1>4. QED
  BY <1>1, <1>3 DEF HeadLength

LEMMA HeadHasCome ==
  ASSUME request \in Text, NEW buf \in Text, Begins(buf, request), NEW pos,
         LineEnd(buf, pos), LineEnd(buf, pos - 2)
  PROVE  HeadLength <= Len(buf)
<1>1. PICK pattern : pattern = CrLf \o CrLf
  OBVIOUS
<1>2. /\ Len(pattern) = 4 /\ Len(pattern) \in Nat /\ pattern \in Seq({"CR", "LF"})
      /\ pattern[1] = "CR" /\ pattern[2] = "LF" /\ pattern[3] = "CR" /\ pattern[4] = "LF"
  <2>1. PICK s : s = CrLf
    OBVIOUS
  <2>2. Len(s) = 2 /\ s[1] = "CR" /\ s[2] = "LF"
    BY <2>1 DEF CrLf
  <2>3. s \in Seq({"CR", "LF"})
    <3>1. s = Append(Append(<<>>, "CR"), "LF")
      BY <2>1 DEF CrLf
    <3>2. <<>> \in Seq({"CR", "LF"}) /\ "CR" \in {"CR", "LF"} /\ "LF" \in {"CR", "LF"}
      BY EmptySeq
    <3>3. Append(<<>>, "CR") \in Seq({"CR", "LF"})
      BY <3>2, AppendProperties
    <3>4. QED
      BY <3>1, <3>2, <3>3, AppendProperties
  <2>4. pattern = s \o s
    BY <1>1, <2>1
  <2>5. /\ pattern \in Seq({"CR", "LF"}) /\ Len(pattern) = 4
        /\ \A k \in 1 .. 4 : pattern[k] = IF k <= 2 THEN s[k] ELSE s[k - 2]
    <3>1. /\ s \o s \in Seq({"CR", "LF"}) /\ Len(s \o s) = Len(s) + Len(s)
          /\ \A k \in 1 .. Len(s) + Len(s) :
               (s \o s)[k] = IF k <= Len(s) THEN s[k] ELSE s[k - Len(s)]
      BY <2>3, ConcatProperties
    <3>2. Len(s) + Len(s) = 4
      BY <2>2
    <3>3. QED
      BY <2>2, <2>4, <3>1, <3>2
  <2>6. QED
    BY <2>2, <2>5
<1>3. LineEnd(request, pos) /\ LineEnd(request, pos - 2)
  BY LineEndStays
<1>4. Len(request) \in Nat /\ Len(buf) \in Nat /\ pos \in 4 .. Len(request) /\ pos <= Len(buf)
  BY <1>3, TextFacts DEF LineEnd
<1>5. PICK at : at = pos - 3
  OBVIOUS
<1>6. /\ at \in 0 + 1 .. Len(request) - 4 + 1 /\ at + 3 = pos /\ at \in Nat
      /\ request[at] = "CR" /\ request[at + 1] = "LF"
      /\ request[at + 2] = "CR" /\ request[at + 3] = "LF"
  BY <1>3, <1>4, <1>5 DEF LineEnd
<1>7. StandsAt(request, pattern, at)
  <2>1. PICK u : u = SubSeq(request, at, at + 4 - 1)
    OBVIOUS
  <2>2. /\ Len(u) = 4 /\ u[1] = request[at] /\ u[2] = request[at + 1]
        /\ u[3] = request[at + 2] /\ u[4] = request[at + 3] /\ u \in Seq({"CR", "LF"})
    <3>1. at \in Int /\ at + 4 - 1 \in Int /\ at <= at + 4 - 1
          /\ \A k \in at .. at + 4 - 1 : request[k] \in {"CR", "LF"}
      BY <1>6
    <3>2. /\ u \in Seq({"CR", "LF"}) /\ Len(u) = at + 4 - 1 - at + 1
          /\ \A k \in 1 .. at + 4 - 1 - at + 1 : u[k] = request[at + k - 1]
      BY <2>1, <3>1, SubSeqProperties
    <3>3. at + 4 - 1 - at + 1 = 4 /\ at + 1 - 1 = at /\ at + 2 - 1 = at + 1
          /\ at + 3 - 1 = at + 2 /\ at + 4 - 1 = at + 3
      BY <3>1
    <3>4. QED
      BY <3>2, <3>3
  <2>3. u = pattern
    <3>1. Len(u) = Len(pattern) /\ \A k \in 1 .. Len(u) : u[k] = pattern[k]
      BY <1>2, <1>6, <2>2
    <3>2. QED
      BY <1>2, <2>2, <3>1, SeqEqual
  <2>4. QED
    BY <1>2, <2>1, <2>3 DEF StandsAt
<1>8. PICK found : found = Strstr(request, 0, pattern)
  OBVIOUS
<1>9. found \in Nat /\ found <= at
  <2>1. 0 \in Nat
    OBVIOUS
  <2>2. \/ found = 0 /\ \A k \in 0 + 1 .. Len(request) - Len(pattern) + 1 :
                          ~ StandsAt(request, pattern, k)
        \/ /\ found \in 0 + 1 .. Len(request) - Len(pattern) + 1
           /\ \A k \in 0 + 1 .. Len(request) - Len(pattern) + 1 :
                StandsAt(request, pattern, k) => found <= k
    BY <1>2, <1>8, <2>1, StrstrFindsFirst
  <2>3. QED
    BY <1>2, <1>4, <1>6, <1>7, <2>2
<1>10. HeadLength = found + 3
  BY <1>1, <1>8 DEF HeadLength
<1>11. QED
  BY <1>4, <1>6, <1>9, <1>10

-----------------------------------------------------------------------------
(* The inductive invariant. *)
Reading(c) == c.handling_step \in {"PARSING_REQ_TYPE", "PARSING_REQ_HEADERS"}
Sending(c) == c.handling_step \in {"PARSING_RESP_BODY", "SENDING_RESP"}

(* The buffers hold what has been read and the positions are inside them.  *)
Buffers(c) ==
  /\ c.cbuff \in Text /\ Begins(c.cbuff, request) /\ c.cppos \in 0 .. Len(c.cbuff)
  /\ c.sbuff \in Text /\ Begins(c.sbuff, response) /\ c.sppos \in 0 .. Len(c.sbuff)
  /\ ~ Reading(c) => HeadLength <= Len(c.cbuff)
  /\ c.handling_step = "PARSING_REQ_HEADERS" => LineEnd(c.cbuff, c.cppos)
  /\ c.handling_step = "PARSING_RESP_BODY" =>
       [sppos |-> c.sppos, chunk_size |-> c.chunk_size, chunk_read |-> c.chunk_read]
         \in ChunkPositions

(* What a step finds of the connection and polls, and what sended counts.  *)
Polls(c, state, client, server) ==
  /\ c.connection_state = state /\ c.client_events = client /\ c.server_events = server
  /\ c.server_fd = IF state = "NOT_CONNECTED" THEN -1 ELSE 1
Connecting(c) ==
  /\ c.handling_step \in {"PARSING_REQ_TYPE", "PARSING_REQ_HEADERS", "CONNECT_STEP"}
  /\ \/ Reading(c) /\ Polls(c, "NOT_CONNECTED", {"POLLIN"}, {})
     \/ ~ Reading(c) /\ Polls(c, "CONNECTED", {"POLLIN"}, {})
     \/ ~ Reading(c) /\ Polls(c, "AWAIT_CONNECTION", {}, {"POLLOUT"})
  /\ c.sended = 0 /\ c.sbuff = <<>> /\ c.resp_headers = <<>> /\ c.cached = <<>>
Requesting(c) ==
  /\ c.handling_step = "SENDING_REQ" /\ Polls(c, "CONNECTED", {}, {"POLLOUT"})
  /\ c.sended \in 0 .. Len(c.cbuff)
  /\ c.sbuff = <<>> /\ c.resp_headers = <<>> /\ c.cached = <<>>
Awaiting(c) ==
  /\ c.handling_step \in {"PARSING_RESP_CODE", "PARSING_RESP_HEADERS"}
  /\ Polls(c, "CONNECTED", {}, {"POLLIN"})
  /\ c.sended = Len(c.cbuff) /\ c.cached = <<>>
Receiving(c) ==
  /\ c.handling_step = "PARSING_RESP_BODY" /\ Polls(c, "CONNECTED", {"POLLOUT"}, {"POLLIN"})
  /\ c.sended \in 0 .. Len(c.sbuff) /\ c.cached = <<>>
Answering(c) ==
  /\ c.handling_step = "SENDING_RESP" /\ Polls(c, "CONNECTED", {"POLLOUT"}, {})
  /\ c.sended \in 0 .. Len(c.sbuff) /\ c.cached = c.sbuff
Live(c) ==
  /\ DOMAIN c = DOMAIN FreshContext /\ c.destroyed = 0 /\ Buffers(c)
  /\ Connecting(c) \/ Requesting(c) \/ Awaiting(c) \/ Receiving(c) \/ Answering(c)

(* What has been written to the two sockets by then. *)
Written ==
  /\ ~ (Sending(ctx)) => toClient = <<>>
  /\ Connecting(ctx) => toServer = <<>>
  /\ Requesting(ctx) => Len(toServer) = ctx.sended /\ Begins(toServer, ctx.cbuff)
  /\ ~ (Connecting(ctx) \/ Requesting(ctx)) => toServer = ctx.cbuff
  /\ Sending(ctx) => Len(toClient) = ctx.sended /\ Begins(toClient, ctx.sbuff)

(* A context that has ended. *)
Gone ==
  /\ DOMAIN ctx = DOMAIN FreshContext /\ ctx.handling_step \in Ended
  /\ ctx.connection_state \in {"NOT_CONNECTED", "AWAIT_CONNECTION", "CONNECTED"}
  /\ ctx.client_events \in {{}, {"POLLIN"}, {"POLLOUT"}}
  /\ ctx.server_events \in {{}, {"POLLIN"}, {"POLLOUT"}}
  /\ ctx.server_fd \in {-1, 1}
  /\ \/ ctx.destroyed = 1 /\ (ctx.handling_step = "HANDLED" => toClient = ctx.cached)
     \/ ctx.destroyed = 2 /\ toClient = <<>> /\ ctx.cached # <<>>

IInv ==
  /\ peers \in Peers
  /\ toServer \in Text /\ Begins(toServer, request)
  /\ toClient \in Text /\ Begins(toClient, response)
  /\ \/ Live(ctx) /\ Written
     \/ Gone

-----------------------------------------------------------------------------
(* What the steps of handle make of a live context.                        *)
Fields ==
  {"handling_step", "connection_state", "client_events", "server_events", "server_fd",
   "type", "req_headers", "resp_headers", "content_length", "cbuff", "cppos", "sbuff",
   "sppos", "sended", "read_", "chunk_size", "chunk_read", "destroyed", "cached"}
LEMMA FieldsOfContext == DOMAIN FreshContext = Fields
  BY DEF FreshContext, Fields

Dropped(c, d) ==
  /\ DOMAIN d = Fields /\ d.handling_step = "HANDLED_EXCEPTIONALLY" /\ d.destroyed = 1
  /\ d.connection_state = c.connection_state
  /\ d.client_events = c.client_events /\ d.server_events = c.server_events
  /\ d.server_fd \in {c.server_fd, 1} /\ d.cached = c.cached /\ d.sended = c.sended
  /\ d.sbuff = <<>>

(* destroy_context, on a context that has not been destroyed. *)
LEMMA Destroys ==
  ASSUME NEW c, DOMAIN c = Fields, c.destroyed = 0
  PROVE  Dropped(c, Destroy(c))
  BY DEF Dropped, Destroy, Fields

LEMMA RequestRead ==
  ASSUME request \in Text, NEW c, Live(c), Reading(c),
         NEW n \in 1 .. Len(request) - Len(c.cbuff), NEW d, d = ReadFromClient(c, n)
  PROVE  Live(d) /\ d.handling_step = c.handling_step
<1>1. DOMAIN c = Fields /\ Buffers(c) /\ Connecting(c) /\ c.destroyed = 0
  BY FieldsOfContext DEF Live, Reading, Requesting, Awaiting, Receiving, Answering
<1>2. PICK more : more = Followed(c.cbuff, request, n)
  OBVIOUS
<1>3. more \in Text /\ Begins(more, request) /\ Begins(c.cbuff, more)
      /\ Len(more) = Len(c.cbuff) + n
  <2>1. n \in Nat /\ n <= Len(request) - Len(c.cbuff)
    BY <1>1, TextFacts DEF Buffers
  <2>2. c.cbuff \in Text /\ Begins(c.cbuff, request)
    BY <1>1 DEF Buffers
  <2>3. QED
    BY <1>2, <2>1, <2>2, NextTokens
<1>4. d = [c EXCEPT !.cbuff = more]
  BY <1>1, <1>2 DEF ReadFromClient, Followed, Fields
<1>5. DOMAIN d = Fields /\ d.cbuff = more /\ \A f \in Fields \ {"cbuff"} : d[f] = c[f]
  BY <1>1, <1>4 DEF Fields
<1>6. /\ d.handling_step = c.handling_step /\ d.connection_state = c.connection_state
      /\ d.client_events = c.client_events /\ d.server_events = c.server_events
      /\ d.server_fd = c.server_fd /\ d.cppos = c.cppos /\ d.sbuff = c.sbuff
      /\ d.sppos = c.sppos /\ d.sended = c.sended /\ d.destroyed = c.destroyed
      /\ d.cached = c.cached /\ d.resp_headers = c.resp_headers
      /\ d.chunk_size = c.chunk_size /\ d.chunk_read = c.chunk_read
  BY <1>5 DEF Fields
<1>7. Connecting(d)
  BY <1>1, <1>6 DEF Connecting, Reading, Polls
<1>8. d.cppos \in 0 .. Len(more)
  <2>1. Len(c.cbuff) \in Nat /\ n \in Nat
    BY <1>1, TextFacts DEF Buffers
  <2>2. QED
    BY <1>1, <1>3, <1>6, <2>1 DEF Buffers
<1>9. d.handling_step = "PARSING_REQ_HEADERS" => LineEnd(more, d.cppos)
  BY <1>1, <1>3, <1>6, LineEndStays DEF Buffers
<1>10. Buffers(d)
  BY <1>1, <1>3, <1>5, <1>6, <1>8, <1>9 DEF Buffers, Reading
<1>11. QED
  BY <1>1, <1>5, <1>6, <1>7, <1>10, FieldsOfContext DEF Live

(* A step before the connection leaves these alone. *)
SameBut(fields, c, d) == DOMAIN d = Fields /\ \A f \in Fields \ fields : d[f] = c[f]

(* parsing_req_type. *)
LEMMA ReqTypeParsed ==
  ASSUME request \in Text, NEW c, Live(c), Reading(c), NEW d, d = ParsingReqType(c)
  PROVE  \/ Live(d) /\ Reading(d) /\ d.handling_step \in {c.handling_step, "PARSING_REQ_HEADERS"}
         \/ Dropped(c, d)
<1>1. /\ DOMAIN c = Fields /\ Buffers(c) /\ Connecting(c) /\ c.destroyed = 0
      /\ Polls(c, "NOT_CONNECTED", {"POLLIN"}, {})
  BY FieldsOfContext DEF Live, Reading, Connecting, Requesting, Awaiting, Receiving, Answering
<1>2. PICK line : line = ParseReqType(c.cbuff, c.cppos)
  OBVIOUS
<1>3. \/ line.status \in {"NO_END_OF_LINE", "PARSING_ERROR"}
      \/ /\ line.status = "OK" /\ line.next \in c.cppos + 2 .. Len(c.cbuff)
         /\ LineEnd(c.cbuff, line.next)
  <2>1. c.cbuff \in Text /\ c.cppos \in 0 .. Len(c.cbuff)
    BY <1>1 DEF Buffers
  <2>2. QED
    BY <1>2, <2>1, LinesParsed DEF GoesOn
<1>4. CASE c.handling_step # "PARSING_REQ_TYPE" \/ line.status = "NO_END_OF_LINE"
  <2>1. d = c
    BY <1>2, <1>4 DEF ParsingReqType
  <2>2. QED
    BY <2>1
<1>5. CASE c.handling_step = "PARSING_REQ_TYPE" /\ line.status = "PARSING_ERROR"
  <2>1. d = Destroy(c)
    BY <1>2, <1>5 DEF ParsingReqType
  <2>2. QED
    BY <1>1, <2>1, Destroys
<1>6. CASE c.handling_step = "PARSING_REQ_TYPE" /\ line.status = "OK"
  <2>1. d = [c EXCEPT !.cppos = line.next, !.type = line.type,
                      !.handling_step = "PARSING_REQ_HEADERS"]
    BY <1>2, <1>6 DEF ParsingReqType
  <2>2. /\ SameBut({"cppos", "type", "handling_step"}, c, d)
        /\ d.cppos = line.next /\ d.handling_step = "PARSING_REQ_HEADERS"
    BY <1>1, <2>1 DEF SameBut, Fields
  <2>3. /\ d.connection_state = c.connection_state /\ d.client_events = c.client_events
        /\ d.server_events = c.server_events /\ d.server_fd = c.server_fd
        /\ d.cbuff = c.cbuff /\ d.sbuff = c.sbuff /\ d.sppos = c.sppos
        /\ d.sended = c.sended /\ d.destroyed = c.destroyed
        /\ d.cached = c.cached /\ d.resp_headers = c.resp_headers
    BY <2>2 DEF SameBut, Fields
  <2>4. Connecting(d) /\ Reading(d)
    BY <1>1, <2>2, <2>3 DEF Connecting, Reading, Polls
  <2>5. d.cppos \in 0 .. Len(d.cbuff) /\ LineEnd(d.cbuff, d.cppos)
    <3>1. Len(c.cbuff) \in Nat /\ c.cppos \in Nat
      BY <1>1, TextFacts DEF Buffers
    <3>2. QED
      BY <1>3, <1>6, <2>2, <2>3, <3>1
  <2>6. Buffers(d)
    BY <1>1, <2>2, <2>3, <2>4, <2>5 DEF Buffers
  <2>7. QED
    BY <1>1, <2>2, <2>3, <2>4, <2>6, FieldsOfContext DEF Live, SameBut
<1>7. QED
  BY <1>3, <1>4, <1>5, <1>6

Outcomes == {"no_socket", "connected", "in_progress", "fails"}

(* connect_step, when it has a socket made. *)
LEMMA ConnectionTried ==
  ASSUME request \in Text, NEW c, DOMAIN c = Fields, c.destroyed = 0, Buffers(c),
         c.handling_step = "CONNECT_STEP", Polls(c, "NOT_CONNECTED", {"POLLIN"}, {}),
         c.sended = 0, c.sbuff = <<>>, c.resp_headers = <<>>, c.cached = <<>>,
         NEW outcome \in Outcomes, NEW d, d = ConnectStep(c, outcome)
  PROVE  \/ Live(d) /\ Connecting(d) /\ d.handling_step = "CONNECT_STEP"
         \/ Dropped(c, d)
<1>1. PICK c1 : c1 = [c EXCEPT !.server_fd = 1]
  OBVIOUS
<1>2. SameBut({"server_fd"}, c, c1) /\ c1.server_fd = 1
  BY <1>1 DEF SameBut, Fields
<1>3. /\ DOMAIN c1 = Fields /\ c1.handling_step = c.handling_step
      /\ c1.connection_state = c.connection_state /\ c1.client_events = c.client_events
      /\ c1.server_events = c.server_events /\ c1.cbuff = c.cbuff /\ c1.cppos = c.cppos
      /\ c1.sbuff = c.sbuff /\ c1.sppos = c.sppos
      /\ c1.sended = c.sended /\ c1.destroyed = c.destroyed
      /\ c1.cached = c.cached /\ c1.resp_headers = c.resp_headers
  BY <1>2 DEF SameBut, Fields
<1>4. Dropped(c, Destroy(c1)) /\ Dropped(c, Destroy(c))
  <2>1. Dropped(c1, Destroy(c1)) /\ Dropped(c, Destroy(c))
    BY <1>3, Destroys
  <2>2. QED
    BY <1>2, <1>3, <2>1 DEF Dropped
<1>5. \/ d \in {Destroy(c), Destroy(c1)}
      \/ d = [c1 EXCEPT !.connection_state = "CONNECTED"]
      \/ d = [c1 EXCEPT !.client_events = {}, !.server_events = {"POLLOUT"},
                        !.connection_state = "AWAIT_CONNECTION"]
  <2>1. c.connection_state = "NOT_CONNECTED"
    BY DEF Polls
  <2>2. QED
    BY <1>1, <2>1 DEF ConnectStep, Outcomes
<1>6. ASSUME \/ d = [c1 EXCEPT !.connection_state = "CONNECTED"]
             \/ d = [c1 EXCEPT !.client_events = {}, !.server_events = {"POLLOUT"},
                               !.connection_state = "AWAIT_CONNECTION"]
      PROVE  Live(d) /\ Connecting(d) /\ d.handling_step = "CONNECT_STEP"
  <2>1. SameBut({"client_events", "server_events", "connection_state"}, c1, d)
    BY <1>3, <1>6 DEF SameBut, Fields
  <2>2. /\ DOMAIN d = Fields /\ d.handling_step = "CONNECT_STEP" /\ d.server_fd = 1
        /\ d.cbuff = c.cbuff /\ d.cppos = c.cppos /\ d.sbuff = c.sbuff /\ d.sppos = c.sppos
        /\ d.sended = 0 /\ d.destroyed = 0 /\ d.resp_headers = <<>> /\ d.cached = <<>>
    BY <1>2, <1>3, <2>1 DEF SameBut, Fields
  <2>3. \/ /\ d.connection_state = "CONNECTED"
           /\ d.client_events = {"POLLIN"} /\ d.server_events = {}
        \/ /\ d.connection_state = "AWAIT_CONNECTION"
           /\ d.client_events = {} /\ d.server_events = {"POLLOUT"}
    <3>1. c1.client_events = {"POLLIN"} /\ c1.server_events = {}
      BY <1>3 DEF Polls
    <3>2. CASE d = [c1 EXCEPT !.connection_state = "CONNECTED"]
      BY <1>3, <3>1, <3>2 DEF Fields
    <3>3. CASE d = [c1 EXCEPT !.client_events = {}, !.server_events = {"POLLOUT"},
                              !.connection_state = "AWAIT_CONNECTION"]
      BY <1>3, <3>3 DEF Fields
    <3>4. QED
      BY <1>6, <3>2, <3>3
  <2>4. Connecting(d)
    BY <2>2, <2>3 DEF Connecting, Reading, Polls
  <2>5. Buffers(d)
    BY <2>2 DEF Buffers, Reading
  <2>6. QED
    BY <2>2, <2>4, <2>5, FieldsOfContext DEF Live
<1>7. QED
  BY <1>4, <1>5, <1>6

(* parsing_req_headers, which goes on to connect_step. *)
LEMMA ReqHeadersParsed ==
  ASSUME request \in Text, NEW c, Live(c), Reading(c), NEW outcome \in Outcomes,
         NEW d, d = ParsingReqHeaders(c, outcome)
  PROVE  \/ Live(d) /\ Connecting(d) /\ d.handling_step \in {c.handling_step, "CONNECT_STEP"}
         \/ Dropped(c, d)
<1>1. /\ DOMAIN c = Fields /\ Buffers(c) /\ Connecting(c) /\ c.destroyed = 0
      /\ Polls(c, "NOT_CONNECTED", {"POLLIN"}, {})
  BY FieldsOfContext DEF Live, Reading, Connecting, Requesting, Awaiting, Receiving, Answering
<1>2. CASE c.handling_step # "PARSING_REQ_HEADERS"
  <2>1. d = c
    BY <1>2 DEF ParsingReqHeaders
  <2>2. QED
    BY <1>1, <2>1
<1>3. CASE c.handling_step = "PARSING_REQ_HEADERS"
  <2>1. PICK parsed : parsed = ParseHeaders(c.cbuff, c.cppos)
    OBVIOUS
  <2>2. c.cbuff \in Text /\ c.cppos \in 0 .. Len(c.cbuff) /\ LineEnd(c.cbuff, c.cppos)
        /\ Begins(c.cbuff, request)
    BY <1>1, <1>3 DEF Buffers
  <2>3. HeadRead(c.cbuff, c.cppos, parsed)
    BY <2>1, <2>2, HeadReads
  <2>4. parsed.next \in 0 .. Len(c.cbuff) /\ LineEnd(c.cbuff, parsed.next)
    <3>1. Len(c.cbuff) \in Nat
      BY <2>2, TextFacts
    <3>2. QED
      BY <2>2, <2>3, <3>1 DEF HeadRead
  <2>5. PICK c1 : c1 = [c EXCEPT !.cppos = parsed.next, !.req_headers = @ \o parsed.headers]
    OBVIOUS
  <2>6. SameBut({"cppos", "req_headers"}, c, c1) /\ c1.cppos = parsed.next
    BY <1>1, <2>5 DEF SameBut, Fields
  <2>7. /\ DOMAIN c1 = Fields /\ c1.handling_step = c.handling_step
        /\ c1.connection_state = c.connection_state /\ c1.client_events = c.client_events
        /\ c1.server_events = c.server_events /\ c1.server_fd = c.server_fd
        /\ c1.cbuff = c.cbuff /\ c1.sbuff = c.sbuff /\ c1.sppos = c.sppos
        /\ c1.sended = c.sended /\ c1.destroyed = c.destroyed
        /\ c1.cached = c.cached /\ c1.resp_headers = c.resp_headers
    BY <2>6 DEF SameBut, Fields
  <2>8. CASE parsed.status = "PARSING_ERROR"
    <3>1. d = Destroy(c1)
      BY <1>3, <2>1, <2>5, <2>8 DEF ParsingReqHeaders
    <3>2. Dropped(c1, d)
      BY <1>1, <2>7, <3>1, Destroys
    <3>3. QED
      BY <2>7, <3>2 DEF Dropped
  <2>9. CASE parsed.status = "NO_END_OF_LINE"
    <3>1. d = c1
      BY <1>3, <2>1, <2>5, <2>9 DEF ParsingReqHeaders
    <3>2. Connecting(d) /\ Reading(d)
      BY <1>1, <1>3, <2>7, <3>1 DEF Connecting, Reading, Polls
    <3>3. Buffers(d)
      BY <1>1, <1>3, <2>2, <2>4, <2>6, <2>7, <3>1, <3>2 DEF Buffers
    <3>4. QED
      BY <1>1, <2>7, <3>1, <3>2, <3>3, FieldsOfContext DEF Live
  <2>10. CASE parsed.status = "END_OF_HEADER"
    <3>1. PICK c2 : c2 = [c1 EXCEPT !.handling_step = "CONNECT_STEP"]
      OBVIOUS
    <3>2. d = Destroy(c1) \/ d = ConnectStep(c2, outcome)
      BY <1>3, <2>1, <2>5, <2>10, <3>1 DEF ParsingReqHeaders
    <3>3. CASE d = Destroy(c1)
      <4>1. Dropped(c1, d)
        BY <1>1, <2>7, <3>3, Destroys
      <4>2. QED
        BY <2>7, <4>1 DEF Dropped
    <3>4. CASE d = ConnectStep(c2, outcome)
      <4>1. /\ DOMAIN c2 = Fields /\ c2.handling_step = "CONNECT_STEP"
            /\ c2.connection_state = c.connection_state /\ c2.client_events = c.client_events
            /\ c2.server_events = c.server_events /\ c2.server_fd = c.server_fd
            /\ c2.cbuff = c.cbuff /\ c2.sbuff = c.sbuff /\ c2.sppos = c.sppos
            /\ c2.sended = c.sended /\ c2.destroyed = c.destroyed
            /\ c2.cached = c.cached /\ c2.resp_headers = c.resp_headers
            /\ c2.cppos = parsed.next
        BY <2>6, <2>7, <3>1 DEF Fields
      <4>2. HeadLength <= Len(c.cbuff)
        <5>1. LineEnd(c.cbuff, parsed.next) /\ LineEnd(c.cbuff, parsed.next - 2)
          BY <2>2, <2>3, <2>10 DEF HeadRead
        <5>2. QED
          BY <2>2, <5>1, HeadHasCome
      <4>3. Buffers(c2)
        BY <1>1, <2>2, <2>4, <4>1, <4>2 DEF Buffers
      <4>4. Polls(c2, "NOT_CONNECTED", {"POLLIN"}, {})
        BY <1>1, <4>1 DEF Polls
      <4>5. /\ c2.sended = 0 /\ c2.sbuff = <<>> /\ c2.resp_headers = <<>>
            /\ c2.cached = <<>> /\ c2.destroyed = 0
        BY <1>1, <4>1 DEF Connecting
      <4>6. \/ Live(d) /\ Connecting(d) /\ d.handling_step = "CONNECT_STEP"
            \/ Dropped(c2, d)
        BY <3>4, <4>1, <4>3, <4>4, <4>5, ConnectionTried
      <4>7. Dropped(c2, d) => Dropped(c, d)
        BY <4>1 DEF Dropped
      <4>8. QED
        BY <4>6, <4>7
    <3>5. QED
      BY <3>2, <3>3, <3>4
  <2>11. QED
    BY <2>3, <2>8, <2>9, <2>10 DEF HeadRead
<1>4. QED
  BY <1>2, <1>3

(* All that one read of the client leads to. *)
LEMMA RequestHandled ==
  ASSUME request \in Text, NEW c, Live(c), Reading(c),
         NEW n \in 1 .. Len(request) - Len(c.cbuff), NEW outcome \in Outcomes,
         NEW d, d = HandleRequestData(c, n, outcome)
  PROVE  \/ /\ Live(d) /\ Connecting(d)
            /\ d.handling_step = "PARSING_REQ_TYPE" => c.handling_step = "PARSING_REQ_TYPE"
         \/ Dropped(c, d)
<1>1. PICK c1 : c1 = ReadFromClient(c, n)
  OBVIOUS
<1>2. PICK c2 : c2 = ParsingReqType(c1)
  OBVIOUS
<1>3. d = ParsingReqHeaders(c2, outcome)
  BY <1>1, <1>2 DEF HandleRequestData
<1>4. Live(c1) /\ c1.handling_step = c.handling_step
  BY <1>1, RequestRead
<1>5. Reading(c1)
  BY <1>4 DEF Reading
<1>6. \/ Live(c2) /\ Reading(c2) /\ c2.handling_step \in {c1.handling_step, "PARSING_REQ_HEADERS"}
      \/ Dropped(c1, c2)
  BY <1>2, <1>4, <1>5, ReqTypeParsed
<1>7. \A e : Live(e) /\ Reading(e) => /\ Polls(e, "NOT_CONNECTED", {"POLLIN"}, {})
                                      /\ e.cached = <<>> /\ e.sended = 0
  BY DEF Live, Reading, Connecting, Requesting, Awaiting, Receiving, Answering
<1>8. \A e, g : /\ Live(e) /\ Reading(e)
                /\ Dropped(e, g)
                => Dropped(c, g)
  BY <1>7 DEF Dropped, Polls
<1>9. CASE Dropped(c1, c2)
  <2>1. d = c2
    BY <1>3, <1>9 DEF ParsingReqHeaders, Dropped
  <2>2. QED
    BY <1>4, <1>5, <1>8, <1>9, <2>1
<1>10. CASE Live(c2) /\ Reading(c2) /\ c2.handling_step \in {c1.handling_step, "PARSING_REQ_HEADERS"}
  <2>1. \/ Live(d) /\ Connecting(d) /\ d.handling_step \in {c2.handling_step, "CONNECT_STEP"}
        \/ Dropped(c2, d)
    BY <1>3, <1>10, ReqHeadersParsed
  <2>2. QED
    BY <1>4, <1>8, <1>10, <2>1
<1>11. QED
  BY <1>6, <1>9, <1>10

(* connect_step, when it is called again. *)
LEMMA ConnectionMade ==
  ASSUME NEW c, Live(c), c.handling_step = "CONNECT_STEP", NEW outcome \in {"connected", "fails"},
         NEW d, d = ConnectStep(c, outcome)
  PROVE  \/ /\ Live(d) /\ Requesting(d) /\ d.sended = 0
         \/ /\ c.connection_state = "AWAIT_CONNECTION" /\ outcome = "fails"
            /\ Dropped(c, d)
<1>1. /\ DOMAIN c = Fields /\ Buffers(c) /\ Connecting(c) /\ c.destroyed = 0
      /\ c.server_fd = 1 /\ HeadLength <= Len(c.cbuff)
      /\ \/ Polls(c, "CONNECTED", {"POLLIN"}, {})
         \/ Polls(c, "AWAIT_CONNECTION", {}, {"POLLOUT"})
  BY FieldsOfContext
  DEF Live, Reading, Connecting, Requesting, Awaiting, Receiving, Answering, Buffers, Polls
<1>2. PICK c1 : c1 = StartSending(c)
  OBVIOUS
<1>3. /\ SameBut({"client_events", "server_events", "sended", "handling_step"}, c, c1)
      /\ c1.handling_step = "SENDING_REQ" /\ c1.sended = 0
      /\ c1.client_events = {} /\ c1.server_events = {"POLLOUT"}
  BY <1>1, <1>2 DEF StartSending, SameBut, Fields
<1>4. /\ DOMAIN c1 = Fields /\ c1.connection_state = c.connection_state
      /\ c1.server_fd = c.server_fd /\ c1.cbuff = c.cbuff /\ c1.cppos = c.cppos
      /\ c1.sbuff = c.sbuff /\ c1.sppos = c.sppos
      /\ c1.destroyed = c.destroyed /\ c1.cached = c.cached /\ c1.resp_headers = c.resp_headers
  BY <1>3 DEF SameBut, Fields
<1>5. \/ c.connection_state = "CONNECTED" /\ d = c1
      \/ /\ c.connection_state = "AWAIT_CONNECTION" /\ outcome = "fails" /\ d = Destroy(c1)
      \/ /\ c.connection_state = "AWAIT_CONNECTION"
         /\ d = [c1 EXCEPT !.connection_state = "CONNECTED"]
  BY <1>1, <1>2 DEF ConnectStep, Polls
<1>6. ASSUME \/ c.connection_state = "CONNECTED" /\ d = c1
             \/ d = [c1 EXCEPT !.connection_state = "CONNECTED"]
      PROVE  Live(d) /\ Requesting(d) /\ d.sended = 0
  <2>1. /\ DOMAIN d = Fields /\ d.connection_state = "CONNECTED"
        /\ d.handling_step = "SENDING_REQ" /\ d.sended = 0 /\ d.server_fd = 1
        /\ d.client_events = {} /\ d.server_events = {"POLLOUT"}
        /\ d.cbuff = c.cbuff /\ d.cppos = c.cppos /\ d.sbuff = c.sbuff /\ d.sppos = c.sppos
        /\ d.destroyed = c.destroyed /\ d.cached = c.cached /\ d.resp_headers = c.resp_headers
    BY <1>1, <1>3, <1>4, <1>6 DEF Fields
  <2>2. 0 \in 0 .. Len(c.cbuff)
    BY <1>1, TextFacts DEF Buffers
  <2>3. Requesting(d)
    BY <1>1, <2>1, <2>2 DEF Requesting, Connecting, Polls
  <2>4. Buffers(d)
    BY <1>1, <2>1 DEF Buffers, Reading
  <2>5. QED
    BY <1>1, <2>1, <2>3, <2>4, FieldsOfContext DEF Live
<1>7. CASE c.connection_state = "AWAIT_CONNECTION" /\ outcome = "fails" /\ d = Destroy(c1)
  <2>1. Dropped(c1, d)
    BY <1>1, <1>4, <1>7, Destroys
  <2>2. c.client_events = {} /\ c.server_events = {"POLLOUT"} /\ c.sended = 0
    BY <1>1, <1>7 DEF Polls, Connecting
  <2>3. QED
    BY <1>3, <1>4, <1>7, <2>1, <2>2 DEF Dropped
<1>8. QED
  BY <1>5, <1>6, <1>7

(* Writing to the server. *)
Wrote(c, n) ==
  IF c.sended + n = Len(c.cbuff)
  THEN [c EXCEPT !.sended = @ + n, !.client_events = {}, !.server_events = {"POLLIN"},
                 !.handling_step = "PARSING_RESP_CODE"]
  ELSE [c EXCEPT !.sended = @ + n]
LEMMA RequestWritten ==
  ASSUME NEW c, Live(c), Requesting(c), NEW n \in 1 .. Len(c.cbuff) - c.sended,
         NEW d, d = Wrote(c, n)
  PROVE  /\ Live(d) /\ d.cbuff = c.cbuff /\ d.sended = c.sended + n
         /\ d.sbuff = <<>> /\ d.resp_headers = <<>>
         /\ Requesting(d) \/ (Awaiting(d) /\ d.handling_step = "PARSING_RESP_CODE")
<1>1. /\ DOMAIN c = Fields /\ Buffers(c) /\ c.destroyed = 0 /\ ~ Reading(c)
  BY FieldsOfContext DEF Live, Requesting, Reading
<1>2. c.sended + n \in 0 .. Len(c.cbuff)
  <2>1. Len(c.cbuff) \in Nat
    BY <1>1, TextFacts DEF Buffers
  <2>2. QED
    BY <2>1 DEF Requesting
<1>3. /\ DOMAIN d = Fields /\ d.connection_state = c.connection_state
      /\ d.server_fd = c.server_fd /\ d.cbuff = c.cbuff /\ d.cppos = c.cppos
      /\ d.sbuff = c.sbuff /\ d.sppos = c.sppos /\ d.sended = c.sended + n
      /\ d.destroyed = c.destroyed /\ d.cached = c.cached /\ d.resp_headers = c.resp_headers
      /\ d.sbuff = <<>> /\ d.resp_headers = <<>>
  BY <1>1 DEF Fields, Wrote, Requesting
<1>4. CASE c.sended + n = Len(c.cbuff)
  <2>1. /\ d.handling_step = "PARSING_RESP_CODE"
        /\ d.client_events = {} /\ d.server_events = {"POLLIN"}
    BY <1>1, <1>4 DEF Fields, Wrote
  <2>2. Awaiting(d)
    BY <1>3, <1>4, <2>1 DEF Requesting, Awaiting, Polls
  <2>3. Buffers(d)
    BY <1>1, <1>3, <2>1 DEF Buffers, Reading
  <2>4. QED
    BY <1>1, <1>3, <2>1, <2>2, <2>3, FieldsOfContext DEF Live
<1>5. CASE c.sended + n # Len(c.cbuff)
  <2>1. /\ d.handling_step = c.handling_step
        /\ d.client_events = c.client_events /\ d.server_events = c.server_events
    BY <1>1, <1>5 DEF Fields, Wrote
  <2>2. Requesting(d)
    BY <1>2, <1>3, <2>1 DEF Requesting, Polls
  <2>3. Buffers(d)
    BY <1>1, <1>3, <2>1 DEF Buffers, Requesting, Reading
  <2>4. QED
    BY <1>1, <1>3, <2>2, <2>3, FieldsOfContext DEF Live
<1>6. QED
  BY <1>4, <1>5

(* Reading the response. *)
Onwards(c, d) ==
  /\ Live(d) /\ d.cbuff = c.cbuff /\ Begins(c.sbuff, d.sbuff)
  /\ \/ /\ Awaiting(c) /\ Awaiting(d)
        /\ d.handling_step \in {c.handling_step, "PARSING_RESP_HEADERS"}
     \/ Awaiting(c) /\ d.sended = 0 /\ (Receiving(d) \/ Answering(d))
     \/ Receiving(c) /\ d.sended = c.sended /\ (Receiving(d) \/ Answering(d))

LEMMA StaysOn ==
  ASSUME NEW c, Live(c), Awaiting(c) \/ Receiving(c)
  PROVE  Onwards(c, c)
  BY DEF Onwards, Begins

LEMMA OnwardsOnwards ==
  ASSUME NEW c, NEW d, NEW e, Live(c), Onwards(c, d), Onwards(d, e)
  PROVE  Onwards(c, e)
<1>1. c.sbuff \in Text /\ d.sbuff \in Text /\ e.sbuff \in Text
  BY DEF Onwards, Live, Buffers
<1>2. Begins(c.sbuff, e.sbuff)
  BY <1>1, BeginsTransitive DEF Onwards
<1>3. ~ (Awaiting(d) /\ (Receiving(d) \/ Answering(d))) /\ ~ (Receiving(d) /\ Answering(d))
  BY DEF Awaiting, Receiving, Answering
<1>4. QED
  BY <1>2, <1>3 DEF Onwards

LEMMA ResponseRead ==
  ASSUME response \in Text, NEW c, Live(c), Awaiting(c) \/ Receiving(c),
         NEW n \in 1 .. Len(response) - Len(c.sbuff), NEW d, d = ReadFromServer(c, n)
  PROVE  Onwards(c, d) /\ d.handling_step = c.handling_step
<1>1. DOMAIN c = Fields /\ Buffers(c) /\ c.destroyed = 0
  BY FieldsOfContext DEF Live
<1>2. PICK more : more = Followed(c.sbuff, response, n)
  OBVIOUS
<1>3. more \in Text /\ Begins(more, response) /\ Begins(c.sbuff, more)
      /\ Len(more) = Len(c.sbuff) + n
  <2>1. n \in Nat /\ n <= Len(response) - Len(c.sbuff)
    BY <1>1, TextFacts DEF Buffers
  <2>2. c.sbuff \in Text /\ Begins(c.sbuff, response)
    BY <1>1 DEF Buffers
  <2>3. QED
    BY <1>2, <2>1, <2>2, NextTokens
<1>4. /\ DOMAIN d = Fields /\ d.sbuff = more
      /\ \A f \in Fields \ {"sbuff", "read_"} : d[f] = c[f]
  BY <1>1, <1>2 DEF ReadFromServer, Followed, Fields
<1>5. /\ d.handling_step = c.handling_step /\ d.connection_state = c.connection_state
      /\ d.client_events = c.client_events /\ d.server_events = c.server_events
      /\ d.server_fd = c.server_fd /\ d.cppos = c.cppos /\ d.cbuff = c.cbuff
      /\ d.sppos = c.sppos /\ d.sended = c.sended /\ d.destroyed = c.destroyed
      /\ d.cached = c.cached /\ d.chunk_size = c.chunk_size /\ d.chunk_read = c.chunk_read
  BY <1>4 DEF Fields
<1>6. Len(c.sbuff) \in Nat /\ n \in Nat
  BY <1>1, TextFacts DEF Buffers
<1>7. d.sppos \in 0 .. Len(d.sbuff)
  BY <1>1, <1>3, <1>4, <1>5, <1>6 DEF Buffers
<1>8. Buffers(d)
  BY <1>1, <1>3, <1>4, <1>5, <1>7 DEF Buffers, Reading
<1>9. Awaiting(c) => Awaiting(d)
  BY <1>5 DEF Awaiting, Polls
<1>10. Receiving(c) => Receiving(d)
  BY <1>3, <1>4, <1>5, <1>6 DEF Receiving, Polls
<1>11. Live(d)
  BY <1>1, <1>4, <1>5, <1>8, <1>9, <1>10, FieldsOfContext DEF Live
<1>12. QED
  BY <1>3, <1>4, <1>5, <1>9, <1>10, <1>11 DEF Onwards

(* parsing_resp_code. *)
LEMMA RespCodeParsed ==
  ASSUME NEW c, Live(c), Awaiting(c) \/ Receiving(c), NEW d, d = ParsingRespCode(c)
  PROVE  Onwards(c, d) \/ (Awaiting(c) /\ Dropped(c, d))
<1>1. DOMAIN c = Fields /\ Buffers(c) /\ c.destroyed = 0
  BY FieldsOfContext DEF Live
<1>2. PICK line : line = ParseResponseCode(c.sbuff, c.sppos)
  OBVIOUS
<1>3. \/ line.status \in {"NO_END_OF_LINE", "PARSING_ERROR"}
      \/ line.status = "OK" /\ line.next \in c.sppos + 2 .. Len(c.sbuff)
  <2>1. c.sbuff \in Text /\ c.sppos \in 0 .. Len(c.sbuff)
    BY <1>1 DEF Buffers
  <2>2. QED
    BY <1>2, <2>1, LinesParsed DEF GoesOn
<1>4. CASE c.handling_step # "PARSING_RESP_CODE" \/ line.status = "NO_END_OF_LINE"
  <2>1. d = c
    BY <1>2, <1>4 DEF ParsingRespCode
  <2>2. QED
    BY <2>1, StaysOn
<1>5. CASE c.handling_step = "PARSING_RESP_CODE" /\ line.status = "PARSING_ERROR"
  <2>1. d = Destroy(c)
    BY <1>2, <1>5 DEF ParsingRespCode
  <2>2. Awaiting(c)
    BY <1>5 DEF Receiving
  <2>3. QED
    BY <1>1, <2>1, <2>2, Destroys
<1>6. CASE c.handling_step = "PARSING_RESP_CODE" /\ line.status = "OK"
  <2>1. d = [c EXCEPT !.sppos = line.next, !.handling_step = "PARSING_RESP_HEADERS"]
    BY <1>2, <1>6 DEF ParsingRespCode
  <2>2. /\ SameBut({"sppos", "handling_step"}, c, d)
        /\ d.sppos = line.next /\ d.handling_step = "PARSING_RESP_HEADERS"
    BY <1>1, <2>1 DEF SameBut, Fields
  <2>3. /\ DOMAIN d = Fields /\ d.connection_state = c.connection_state
        /\ d.client_events = c.client_events /\ d.server_events = c.server_events
        /\ d.server_fd = c.server_fd /\ d.cbuff = c.cbuff /\ d.cppos = c.cppos
        /\ d.sbuff = c.sbuff /\ d.sended = c.sended /\ d.destroyed = c.destroyed
        /\ d.cached = c.cached
    BY <2>2 DEF SameBut, Fields
  <2>4. Awaiting(c) /\ Awaiting(d)
    BY <1>6, <2>2, <2>3 DEF Receiving, Awaiting, Polls
  <2>5. d.sppos \in 0 .. Len(d.sbuff)
    <3>1. Len(c.sbuff) \in Nat /\ c.sppos \in Nat
      BY <1>1, TextFacts DEF Buffers
    <3>2. QED
      BY <1>3, <1>6, <2>2, <2>3, <3>1
  <2>6. Buffers(d)
    BY <1>1, <1>6, <2>2, <2>3, <2>5 DEF Buffers, Reading
  <2>7. QED
    BY <1>1, <2>2, <2>3, <2>4, <2>6, FieldsOfContext DEF Live, Onwards, Begins
<1>7. QED
  BY <1>3, <1>4, <1>5, <1>6

(* The end of the response headers. *)
LEMMA BodyStarted ==
  ASSUME NEW c, DOMAIN c = Fields, Buffers(c), Awaiting(c), c.destroyed = 0,
         NEW d, d = StartBody(c)
  PROVE  /\ Live(d) /\ d.cbuff = c.cbuff /\ d.sbuff = c.sbuff
         /\ d.sended = 0 /\ Receiving(d)
<1>1. PICK c1 : c1 = StartBodyWithoutReset(c)
  OBVIOUS
<1>2. /\ SameBut({"content_length", "read_", "chunk_size", "chunk_read", "client_events",
                  "handling_step"}, c, c1)
      /\ c1.chunk_size = -1 /\ c1.chunk_read = 0
      /\ c1.client_events = {"POLLOUT"} /\ c1.handling_step = "PARSING_RESP_BODY"
  BY <1>1 DEF StartBodyWithoutReset, SameBut, Fields
<1>3. d = [c1 EXCEPT !.sended = 0]
  BY <1>1 DEF StartBody
<1>4. /\ DOMAIN d = Fields /\ d.sended = 0 /\ d.chunk_size = -1 /\ d.chunk_read = 0
      /\ d.client_events = {"POLLOUT"} /\ d.handling_step = "PARSING_RESP_BODY"
      /\ d.connection_state = c.connection_state /\ d.server_events = c.server_events
      /\ d.server_fd = c.server_fd /\ d.cbuff = c.cbuff /\ d.cppos = c.cppos
      /\ d.sbuff = c.sbuff /\ d.sppos = c.sppos /\ d.destroyed = c.destroyed
      /\ d.cached = c.cached
  BY <1>2, <1>3 DEF SameBut, Fields
<1>5. Len(c.sbuff) \in Nat /\ c.sppos \in Nat
  BY TextFacts DEF Buffers
<1>6. Receiving(d)
  BY <1>4, <1>5 DEF Receiving, Awaiting, Polls
<1>7. [sppos |-> d.sppos, chunk_size |-> d.chunk_size, chunk_read |-> d.chunk_read]
        \in ChunkPositions
  BY <1>4, <1>5 DEF ChunkPositions
<1>8. Buffers(d)
  BY <1>4, <1>7 DEF Buffers, Awaiting, Reading
<1>9. QED
  BY <1>4, <1>6, <1>8, FieldsOfContext DEF Live

(* parsing_resp_headers. *)
LEMMA RespHeadersParsed ==
  ASSUME NEW c, Live(c), Awaiting(c) \/ Receiving(c), NEW d, d = ParsingRespHeaders(c)
  PROVE  Onwards(c, d) \/ (Awaiting(c) /\ Dropped(c, d))
<1>1. DOMAIN c = Fields /\ Buffers(c) /\ c.destroyed = 0
  BY FieldsOfContext DEF Live
<1>2. CASE c.handling_step # "PARSING_RESP_HEADERS"
  <2>1. d = c
    BY <1>2 DEF ParsingRespHeaders
  <2>2. QED
    BY <2>1, StaysOn
<1>3. CASE c.handling_step = "PARSING_RESP_HEADERS"
  <2>1. PICK parsed : parsed = ParseHeaders(c.sbuff, c.sppos)
    OBVIOUS
  <2>2. c.sbuff \in Text /\ c.sppos \in 0 .. Len(c.sbuff) /\ Awaiting(c)
    BY <1>1, <1>3 DEF Buffers, Receiving
  <2>3. HeadRead(c.sbuff, c.sppos, parsed)
    BY <2>1, <2>2, HeadReads
  <2>4. parsed.next \in 0 .. Len(c.sbuff)
    <3>1. Len(c.sbuff) \in Nat
      BY <2>2, TextFacts
    <3>2. QED
      BY <2>2, <2>3, <3>1 DEF HeadRead
  <2>5. PICK c1 : c1 = [c EXCEPT !.sppos = parsed.next, !.resp_headers = @ \o parsed.headers]
    OBVIOUS
  <2>6. SameBut({"sppos", "resp_headers"}, c, c1) /\ c1.sppos = parsed.next
    BY <1>1, <2>5 DEF SameBut, Fields
  <2>7. /\ DOMAIN c1 = Fields /\ c1.handling_step = c.handling_step
        /\ c1.connection_state = c.connection_state /\ c1.client_events = c.client_events
        /\ c1.server_events = c.server_events /\ c1.server_fd = c.server_fd
        /\ c1.cbuff = c.cbuff /\ c1.cppos = c.cppos /\ c1.sbuff = c.sbuff
        /\ c1.sended = c.sended /\ c1.destroyed = c.destroyed /\ c1.cached = c.cached
    BY <2>6 DEF SameBut, Fields
  <2>8. Buffers(c1) /\ Awaiting(c1)
    <3>1. Awaiting(c1)
      BY <2>2, <2>7 DEF Awaiting, Polls
    <3>2. Buffers(c1)
      BY <1>1, <1>3, <2>4, <2>6, <2>7 DEF Buffers, Reading
    <3>3. QED
      BY <3>1, <3>2
  <2>9. \/ d \in {Destroy(c1), c1}
        \/ d = StartBody(c1)
    BY <1>3, <2>1, <2>3, <2>5 DEF ParsingRespHeaders, HeadRead
  <2>10. CASE d = Destroy(c1)
    <3>1. Dropped(c1, d)
      BY <1>1, <2>7, <2>10, Destroys
    <3>2. QED
      BY <2>2, <2>7, <3>1 DEF Dropped
  <2>11. CASE d = c1
    <3>1. Live(c1)
      BY <1>1, <2>7, <2>8, FieldsOfContext DEF Live
    <3>2. QED
      BY <2>2, <2>7, <2>8, <2>11, <3>1 DEF Onwards, Begins
  <2>12. CASE d = StartBody(c1)
    <3>1. /\ Live(d) /\ d.cbuff = c1.cbuff /\ d.sbuff = c1.sbuff
          /\ d.sended = 0 /\ Receiving(d)
      BY <1>1, <2>7, <2>8, <2>12, BodyStarted
    <3>2. QED
      BY <2>2, <2>7, <3>1 DEF Onwards, Begins
  <2>13. QED
    BY <2>9, <2>10, <2>11, <2>12
<1>4. QED
  BY <1>2, <1>3

(* The end of the body. *)
LEMMA AllRead ==
  ASSUME NEW c, DOMAIN c = Fields, Buffers(c), Receiving(c), c.destroyed = 0,
         NEW d, d = RespComplete(c)
  PROVE  /\ Live(d) /\ d.cbuff = c.cbuff /\ d.sbuff = c.sbuff
         /\ d.sended = c.sended /\ Answering(d)
<1>1. /\ DOMAIN d = Fields /\ d.handling_step = "SENDING_RESP"
      /\ d.client_events = {"POLLOUT"} /\ d.server_events = {} /\ d.cached = c.sbuff
      /\ d.connection_state = c.connection_state /\ d.server_fd = c.server_fd
      /\ d.cbuff = c.cbuff /\ d.cppos = c.cppos /\ d.sbuff = c.sbuff /\ d.sppos = c.sppos
      /\ d.sended = c.sended /\ d.destroyed = c.destroyed
  BY DEF RespComplete, Fields
<1>2. Answering(d)
  BY <1>1 DEF Receiving, Answering, Polls
<1>3. Buffers(d)
  BY <1>1 DEF Buffers, Receiving, Reading
<1>4. QED
  BY <1>1, <1>2, <1>3, FieldsOfContext DEF Live

(* parsing_resp_body. *)
LEMMA RespBodyParsed ==
  ASSUME NEW c, Live(c), Awaiting(c) \/ Receiving(c), NEW d, d = ParsingRespBody(c)
  PROVE  Onwards(c, d)
<1>1. DOMAIN c = Fields /\ Buffers(c) /\ c.destroyed = 0
  BY FieldsOfContext DEF Live
<1>2. CASE c.handling_step # "PARSING_RESP_BODY"
  <2>1. d = c
    BY <1>2 DEF ParsingRespBody
  <2>2. QED
    BY <2>1, StaysOn
<1>3. CASE c.handling_step = "PARSING_RESP_BODY"
  <2>1. PICK start : start = [sppos |-> c.sppos, chunk_size |-> c.chunk_size,
                              chunk_read |-> c.chunk_read]
    OBVIOUS
  <2>2. PICK scanned : scanned = ScanChunks(c.sbuff, start)
    OBVIOUS
  <2>3. Receiving(c) /\ start \in ChunkPositions /\ c.sppos \in 0 .. Len(c.sbuff)
        /\ c.sbuff \in Text /\ Len(c.sbuff) \in Nat
    BY <1>1, <1>3, <2>1, TextFacts DEF Awaiting, Buffers
  <2>4. /\ scanned \in ChunkPositions
        /\ scanned.sppos \in 0 .. Len(c.sbuff)
    <3>1. Inside(c.sbuff, start)
      BY <2>1, <2>3 DEF Inside
    <3>2. Inside(c.sbuff, scanned)
      BY <2>2, <2>3, <3>1, ScanStaysInside
    <3>3. QED
      BY <2>3, <3>2 DEF Inside, ChunkPositions
  <2>5. PICK c1 : c1 = [c EXCEPT !.sppos = scanned.sppos, !.chunk_size = scanned.chunk_size,
                                 !.chunk_read = scanned.chunk_read]
    OBVIOUS
  <2>6. PICK c2 : c2 = [c EXCEPT !.sppos = Len(c.sbuff)]
    OBVIOUS
  <2>7. PICK c3 : c3 = [c1 EXCEPT !.content_length = c.read_]
    OBVIOUS
  <2>8. d \in {c, c1, RespComplete(c2), RespComplete(c3)}
    BY <1>3, <2>1, <2>2, <2>5, <2>6, <2>7 DEF ParsingRespBody
  <2>9. SameBut({"sppos", "chunk_size", "chunk_read"}, c, c1)
        /\ c1.sppos = scanned.sppos /\ c1.chunk_size = scanned.chunk_size
        /\ c1.chunk_read = scanned.chunk_read
    BY <1>1, <2>5 DEF SameBut, Fields
  <2>10. SameBut({"sppos"}, c, c2) /\ c2.sppos = Len(c.sbuff)
    BY <1>1, <2>6 DEF SameBut, Fields
  <2>11. SameBut({"content_length"}, c1, c3)
    BY <2>7, <2>9 DEF SameBut, Fields
  <2>12. \A e \in {c1, c2, c3} :
           /\ DOMAIN e = Fields /\ e.handling_step = c.handling_step
           /\ e.connection_state = c.connection_state /\ e.client_events = c.client_events
           /\ e.server_events = c.server_events /\ e.server_fd = c.server_fd
           /\ e.cbuff = c.cbuff /\ e.cppos = c.cppos /\ e.sbuff = c.sbuff
           /\ e.sended = c.sended /\ e.destroyed = c.destroyed /\ e.cached = c.cached
    BY <2>9, <2>10, <2>11 DEF SameBut, Fields
  <2>13. \A e \in {c1, c2, c3} : e.sppos \in 0 .. Len(c.sbuff)
    BY <2>3, <2>4, <2>9, <2>10, <2>11 DEF SameBut, Fields
  <2>14. \A e \in {c1, c2, c3} :
           [sppos |-> e.sppos, chunk_size |-> e.chunk_size, chunk_read |-> e.chunk_read]
             \in ChunkPositions
    <3>1. scanned = [sppos |-> scanned.sppos, chunk_size |-> scanned.chunk_size,
                     chunk_read |-> scanned.chunk_read]
      BY <2>4 DEF ChunkPositions
    <3>2. \A e \in {c1, c3} :
            [sppos |-> e.sppos, chunk_size |-> e.chunk_size, chunk_read |-> e.chunk_read]
              = scanned
      BY <2>9, <2>11, <3>1 DEF SameBut, Fields
    <3>3. c2.chunk_size = c.chunk_size /\ c2.chunk_read = c.chunk_read
      BY <2>10 DEF SameBut, Fields
    <3>4. [sppos |-> Len(c.sbuff), chunk_size |-> c.chunk_size, chunk_read |-> c.chunk_read]
            \in ChunkPositions
      BY <2>1, <2>3 DEF ChunkPositions
    <3>5. QED
      BY <2>4, <2>10, <3>2, <3>3, <3>4
  <2>15. \A e \in {c1, c2, c3} : Receiving(e)
    BY <2>3, <2>12 DEF Receiving, Polls
  <2>16. \A e \in {c1, c2, c3} : Buffers(e)
    BY <1>1, <1>3, <2>12, <2>13, <2>14 DEF Buffers, Reading
  <2>17. CASE d = c
    BY <2>3, <2>17, StaysOn
  <2>18. CASE d = c1
    <3>1. Live(c1)
      BY <1>1, <2>12, <2>15, <2>16, FieldsOfContext DEF Live
    <3>2. QED
      BY <2>3, <2>12, <2>15, <2>18, <3>1 DEF Onwards, Begins
  <2>19. CASE d \in {RespComplete(c2), RespComplete(c3)}
    <3>1. PICK e \in {c2, c3} : d = RespComplete(e)
      BY <2>19
    <3>2. DOMAIN e = Fields /\ Buffers(e) /\ Receiving(e) /\ e.destroyed = 0
          /\ e.cbuff = c.cbuff /\ e.sbuff = c.sbuff /\ e.sended = c.sended
      BY <1>1, <2>12, <2>15, <2>16
    <3>3. /\ Live(d) /\ d.cbuff = e.cbuff /\ d.sbuff = e.sbuff
          /\ d.sended = e.sended /\ Answering(d)
      BY <3>1, <3>2, AllRead
    <3>4. QED
      BY <2>3, <3>2, <3>3 DEF Onwards, Begins
  <2>20. QED
    BY <2>8, <2>17, <2>18, <2>19
<1>4. QED
  BY <1>2, <1>3

(* All that one read of the server leads to. *)
LEMMA ResponseHandled ==
  ASSUME response \in Text, NEW c, Live(c), Awaiting(c) \/ Receiving(c),
         NEW n \in 1 .. Len(response) - Len(c.sbuff), NEW d, d = HandleResponseData(c, n)
  PROVE  Onwards(c, d) \/ (Awaiting(c) /\ Dropped(c, d))
<1>1. PICK c1 : c1 = ReadFromServer(c, n)
  OBVIOUS
<1>2. PICK c2 : c2 = ParsingRespCode(c1)
  OBVIOUS
<1>3. PICK c3 : c3 = ParsingRespHeaders(c2)
  OBVIOUS
<1>4. d = ParsingRespBody(c3)
  BY <1>1, <1>2, <1>3 DEF HandleResponseData
<1>5. \A e, g : Onwards(e, g) =>
        /\ Live(g) /\ (Awaiting(g) \/ Receiving(g) \/ Answering(g))
        /\ Awaiting(g) => /\ Awaiting(e)
                          /\ g.handling_step \in {e.handling_step, "PARSING_RESP_HEADERS"}
  BY DEF Onwards, Awaiting, Receiving, Answering
<1>6. \A e, g, h : /\ Live(e) /\ Live(g) /\ Awaiting(e) /\ Awaiting(g)
                   /\ e.cbuff = g.cbuff /\ Dropped(g, h)
                   => Dropped(e, h)
  BY DEF Awaiting, Polls, Dropped
<1>7. Onwards(c, c1) /\ c1.handling_step = c.handling_step /\ Live(c1)
      /\ (Awaiting(c1) \/ Receiving(c1))
  <2>1. Onwards(c, c1) /\ c1.handling_step = c.handling_step
    BY <1>1, ResponseRead
  <2>2. QED
    BY <2>1 DEF Onwards, Awaiting, Receiving, Answering
<1>8. \A e : Dropped(c, e) => ParsingRespHeaders(e) = e /\ ParsingRespBody(e) = e
  BY DEF Dropped, ParsingRespHeaders, ParsingRespBody
<1>9. Onwards(c1, c2) \/ (Awaiting(c1) /\ Dropped(c1, c2))
  BY <1>2, <1>7, RespCodeParsed
<1>10. CASE Awaiting(c1) /\ Dropped(c1, c2)
  <2>1. Awaiting(c) /\ c.cbuff = c1.cbuff
    BY <1>5, <1>7, <1>10 DEF Onwards
  <2>2. Dropped(c, c2)
    BY <1>6, <1>7, <1>10, <2>1
  <2>3. QED
    BY <1>3, <1>4, <1>8, <2>1, <2>2
<1>11. CASE Onwards(c1, c2)
  <2>1. Onwards(c, c2)
    BY <1>7, <1>11, OnwardsOnwards
  <2>2. CASE Answering(c2)
    <3>1. c3 = c2 /\ d = c2
      BY <1>3, <1>4, <2>2 DEF ParsingRespHeaders, ParsingRespBody, Answering
    <3>2. QED
      BY <2>1, <3>1
  <2>3. CASE Awaiting(c2) \/ Receiving(c2)
    <3>1. Live(c2)
      BY <2>1 DEF Onwards
    <3>2. Onwards(c2, c3) \/ (Awaiting(c2) /\ Dropped(c2, c3))
      BY <1>3, <2>3, <3>1, RespHeadersParsed
    <3>3. CASE Awaiting(c2) /\ Dropped(c2, c3)
      <4>1. Awaiting(c) /\ c.cbuff = c2.cbuff
        BY <1>5, <2>1, <3>3 DEF Onwards
      <4>2. Dropped(c, c3)
        BY <1>6, <3>1, <3>3, <4>1
      <4>3. QED
        BY <1>4, <1>8, <4>1, <4>2
    <3>4. CASE Onwards(c2, c3)
      <4>1. Onwards(c, c3)
        BY <2>1, <3>4, OnwardsOnwards
      <4>2. CASE Answering(c3)
        <5>1. d = c3
          BY <1>4, <4>2 DEF ParsingRespBody, Answering
        <5>2. QED
          BY <4>1, <5>1
      <4>3. CASE Awaiting(c3) \/ Receiving(c3)
        <5>1. Live(c3)
          BY <4>1 DEF Onwards
        <5>2. Onwards(c3, d)
          BY <1>4, <4>3, <5>1, RespBodyParsed
        <5>3. QED
          BY <4>1, <5>2, OnwardsOnwards
      <4>4. QED
        BY <1>5, <4>1, <4>2, <4>3
    <3>5. QED
      BY <3>2, <3>3, <3>4
  <2>4. QED
    BY <1>5, <2>1, <2>2, <2>3
<1>12. QED
  BY <1>9, <1>10, <1>11

-----------------------------------------------------------------------------
(* Every step keeps the invariant. *)
LEMMA Streams ==
  ASSUME IInv
  PROVE  request \in Text /\ response \in Text
<1>1. peers \in [request : Seq(STRING), response : Seq(STRING), cooperative : BOOLEAN]
  BY PeersAssumption DEF IInv
<1>2. QED
  BY <1>1 DEF request, response, Text

LEMMA LiveTyped ==
  ASSUME NEW c, Live(c)
  PROVE  /\ DOMAIN c = Fields /\ c.destroyed = 0
         /\ c.handling_step \in Steps \ Ended
         /\ c.connection_state \in {"NOT_CONNECTED", "AWAIT_CONNECTION", "CONNECTED"}
         /\ c.client_events \in {{}, {"POLLIN"}, {"POLLOUT"}}
         /\ c.server_events \in {{}, {"POLLIN"}, {"POLLOUT"}}
         /\ c.server_fd \in {-1, 1}
<1>1. c.handling_step \in Steps \ Ended
  BY DEF Live, Connecting, Requesting, Awaiting, Receiving, Answering, Steps, Ended
<1>2. PICK state \in {"NOT_CONNECTED", "AWAIT_CONNECTION", "CONNECTED"},
           client \in {{}, {"POLLIN"}, {"POLLOUT"}}, server \in {{}, {"POLLIN"}, {"POLLOUT"}} :
           Polls(c, state, client, server)
  BY DEF Live, Connecting, Requesting, Awaiting, Receiving, Answering
<1>3. QED
  BY <1>1, <1>2, FieldsOfContext DEF Polls, Live

LEMMA Alive ==
  ASSUME IInv, ctx.handling_step \notin Ended
  PROVE  Live(ctx) /\ Written
  BY DEF IInv, Gone

LEMMA StillLive ==
  ASSUME Live(ctx'), peers' = peers
  PROVE  Live(ctx)'
<1>1. request' = request /\ response' = response /\ HeadLength' = HeadLength
  BY DEF request, response, HeadLength
<1>2. Buffers(ctx)'
  BY <1>1 DEF Live, Buffers
<1>3. QED
  BY <1>2 DEF Live

LEMMA LiveInv ==
  ASSUME IInv, Live(ctx'), peers' = peers, Written',
         toServer' \in Text, Begins(toServer', request),
         toClient' \in Text, Begins(toClient', response)
  PROVE  IInv'
<1>1. request' = request /\ response' = response
  BY DEF request, response
<1>2. QED
  BY <1>1, StillLive DEF IInv

LEMMA DroppedInv ==
  ASSUME IInv, Live(ctx), Dropped(ctx, ctx'), UNCHANGED <<peers, toServer, toClient>>
  PROVE  IInv'
<1>1. /\ ctx'.connection_state \in {"NOT_CONNECTED", "AWAIT_CONNECTION", "CONNECTED"}
      /\ ctx'.client_events \in {{}, {"POLLIN"}, {"POLLOUT"}}
      /\ ctx'.server_events \in {{}, {"POLLIN"}, {"POLLOUT"}}
      /\ ctx'.server_fd \in {-1, 1}
  BY LiveTyped DEF Dropped
<1>2. Gone'
  BY <1>1, FieldsOfContext DEF Gone, Dropped, Ended
<1>3. request' = request /\ response' = response
  BY DEF request, response
<1>4. QED
  BY <1>2, <1>3 DEF IInv

LEMMA DestroyedInv ==
  ASSUME IInv, ctx.handling_step \notin Ended, ctx' = Destroy(ctx),
         UNCHANGED <<peers, toServer, toClient>>
  PROVE  IInv'
<1>1. Live(ctx)
  BY Alive
<1>2. Dropped(ctx, ctx')
  BY <1>1, LiveTyped, Destroys
<1>3. QED
  BY <1>1, <1>2, DroppedInv

(* The events polled tell in which part of its life the context is.        *)
LEMMA PolledPart ==
  ASSUME IInv, ctx.handling_step \notin Ended
  PROVE  /\ "POLLIN" \in ctx.client_events =>
              Connecting(ctx) /\ ctx.connection_state # "AWAIT_CONNECTION"
         /\ "POLLOUT" \in ctx.client_events => Receiving(ctx) \/ Answering(ctx)
         /\ "POLLOUT" \in ctx.server_events =>
              \/ Requesting(ctx)
              \/ Connecting(ctx) /\ ~ Reading(ctx) /\ ctx.connection_state = "AWAIT_CONNECTION"
         /\ "POLLIN" \in ctx.server_events => Awaiting(ctx) \/ Receiving(ctx)
<1>1. Live(ctx)
  BY Alive
<1>2. "POLLIN" # "POLLOUT"
  OBVIOUS
<1>3. QED
  BY <1>1, <1>2 DEF Live, Connecting, Requesting, Awaiting, Receiving, Answering, Polls

LEMMA RequestArrivesInv ==
  ASSUME IInv, RequestArrives
  PROVE  IInv' /\ ((Live(ctx') /\ Connecting(ctx')
                     /\ (ctx'.handling_step = "PARSING_REQ_TYPE" =>
                           ctx.handling_step = "PARSING_REQ_TYPE"))
                   \/ Dropped(ctx, ctx'))
<1>1. /\ ctx.handling_step \notin Ended /\ Reading(ctx)
      /\ UNCHANGED <<peers, toServer, toClient>>
  BY DEF RequestArrives, ClientPolled, ReadingRequest, Reading
<1>2. PICK n \in 1 .. Len(request) - Len(ctx.cbuff), outcome \in Outcomes :
           ctx' = HandleRequestData(ctx, n, outcome)
  BY DEF RequestArrives, UnsentOfRequest, ConnectOutcomes, Outcomes
<1>3. Live(ctx) /\ Written /\ request \in Text
  BY <1>1, Alive, Streams
<1>4. \/ /\ Live(ctx') /\ Connecting(ctx')
         /\ ctx'.handling_step = "PARSING_REQ_TYPE" => ctx.handling_step = "PARSING_REQ_TYPE"
      \/ Dropped(ctx, ctx')
  BY <1>1, <1>2, <1>3, RequestHandled
<1>5. CASE Dropped(ctx, ctx')
  BY <1>1, <1>3, <1>5, DroppedInv
<1>6. CASE Live(ctx') /\ Connecting(ctx')
  <2>1. Connecting(ctx) /\ ~ Sending(ctx)
    BY <1>1, <1>3
    DEF Live, Reading, Sending, Connecting, Requesting, Awaiting, Receiving, Answering
  <2>2. toServer = <<>> /\ toClient = <<>>
    BY <1>3, <2>1 DEF Written
  <2>3. ~ Sending(ctx)' /\ ~ Requesting(ctx)' /\ Connecting(ctx)'
    BY <1>6 DEF Sending, Requesting, Connecting, Reading, Polls
  <2>4. Written'
    BY <1>1, <2>2, <2>3 DEF Written
  <2>5. QED
    BY <1>1, <1>4, <1>6, <2>4, LiveInv DEF IInv
<1>7. QED
  BY <1>4, <1>5, <1>6

LEMMA ConnectingInv ==
  ASSUME IInv, ClientStirs \/ ConnectEnds
  PROVE  /\ IInv' /\ Live(ctx) /\ ctx.handling_step = "CONNECT_STEP"
         /\ \/ Live(ctx') /\ Requesting(ctx')
            \/ /\ ConnectEnds /\ ctx.connection_state = "AWAIT_CONNECTION"
               /\ Dropped(ctx, ctx')
<1>1. /\ ctx.handling_step \notin Ended /\ ctx.handling_step = "CONNECT_STEP"
      /\ UNCHANGED <<peers, toServer, toClient>>
  BY DEF ClientStirs, ConnectEnds, ClientPolled, ServerPolled
<1>2. Live(ctx) /\ Written
  BY <1>1, Alive
<1>3. PICK outcome \in {"connected", "fails"} :
        ctx' = ConnectStep(ctx, outcome) /\ (ClientStirs => outcome = "connected")
  BY DEF ClientStirs, ConnectEnds
<1>4. \/ Live(ctx') /\ Requesting(ctx') /\ ctx'.sended = 0
      \/ /\ ctx.connection_state = "AWAIT_CONNECTION" /\ outcome = "fails"
         /\ Dropped(ctx, ctx')
  BY <1>1, <1>2, <1>3, ConnectionMade
<1>5. CASE Dropped(ctx, ctx') /\ outcome = "fails" /\ ctx.connection_state = "AWAIT_CONNECTION"
  <2>1. ConnectEnds
    BY <1>3, <1>5
  <2>2. QED
    BY <1>1, <1>2, <1>5, <2>1, DroppedInv
<1>6. CASE Live(ctx') /\ Requesting(ctx') /\ ctx'.sended = 0
  <2>1. Connecting(ctx) /\ ~ Sending(ctx)
    BY <1>1, <1>2 DEF Live, Sending, Connecting, Requesting, Awaiting, Receiving, Answering
  <2>2. toServer = <<>> /\ toClient = <<>>
    BY <1>2, <2>1 DEF Written
  <2>3. ~ Sending(ctx)' /\ Requesting(ctx)' /\ ~ Connecting(ctx)'
    BY <1>6 DEF Sending, Requesting, Connecting
  <2>4. Len(toServer') = ctx'.sended /\ Begins(toServer', ctx'.cbuff)
    <3>1. ctx'.cbuff \in Text
      BY <1>6 DEF Live, Buffers
    <3>2. QED
      BY <1>1, <1>6, <2>2, <3>1, NothingBegins
  <2>5. Written'
    BY <1>1, <2>2, <2>3, <2>4 DEF Written
  <2>6. QED
    BY <1>1, <1>2, <1>6, <2>5, LiveInv DEF IInv
<1>7. QED
  BY <1>4, <1>5, <1>6

LEMMA SendingReqInv ==
  ASSUME IInv, SendingReq
  PROVE  /\ IInv' /\ Requesting(ctx)
         /\ Live(ctx')
         /\ ctx'.sbuff = <<>> /\ ctx'.resp_headers = <<>>
         /\ Requesting(ctx') \/ (Awaiting(ctx') /\ ctx'.handling_step = "PARSING_RESP_CODE")
<1>1. /\ ctx.handling_step \notin Ended /\ ctx.handling_step = "SENDING_REQ"
      /\ UNCHANGED <<peers, toClient>>
  BY DEF SendingReq, ServerPolled
<1>2. Live(ctx) /\ Written /\ Requesting(ctx)
  <2>1. Live(ctx) /\ Written
    BY <1>1, Alive
  <2>2. QED
    BY <1>1, <2>1 DEF Live, Connecting, Awaiting, Receiving, Answering
<1>3. PICK n \in 1 .. Len(ctx.cbuff) - ctx.sended :
        /\ toServer' = toServer \o SubSeq(ctx.cbuff, ctx.sended + 1, ctx.sended + n)
        /\ ctx' = IF ctx.sended + n = Len(ctx.cbuff)
                  THEN [ctx EXCEPT !.sended = @ + n, !.client_events = {},
                                   !.server_events = {"POLLIN"},
                                   !.handling_step = "PARSING_RESP_CODE"]
                  ELSE [ctx EXCEPT !.sended = @ + n]
  BY DEF SendingReq
<1>4. /\ Live(ctx') /\ ctx'.cbuff = ctx.cbuff /\ ctx'.sended = ctx.sended + n
      /\ ctx'.sbuff = <<>> /\ ctx'.resp_headers = <<>>
      /\ Requesting(ctx') \/ (Awaiting(ctx') /\ ctx'.handling_step = "PARSING_RESP_CODE")
  <2>1. PICK d : d = Wrote(ctx, n)
    OBVIOUS
  <2>2. /\ Live(d) /\ d.cbuff = ctx.cbuff /\ d.sended = ctx.sended + n
        /\ d.sbuff = <<>> /\ d.resp_headers = <<>>
        /\ Requesting(d) \/ (Awaiting(d) /\ d.handling_step = "PARSING_RESP_CODE")
    BY <1>2, <2>1, RequestWritten
  <2>3. ctx' = d
    BY <1>3, <2>1 DEF Wrote
  <2>4. QED
    BY <2>2, <2>3
<1>5. /\ toServer \in Text /\ ctx.cbuff \in Text /\ Len(toServer) = ctx.sended
      /\ Begins(toServer, ctx.cbuff) /\ Begins(ctx.cbuff, request) /\ toClient = <<>>
  BY <1>2 DEF IInv, Written, Live, Buffers, Requesting, Sending
<1>6. /\ toServer' \in Text /\ Len(toServer') = ctx'.sended /\ Begins(toServer', ctx'.cbuff)
      /\ Begins(toServer', request)
  <2>1. toServer' = Followed(toServer, ctx.cbuff, n)
    BY <1>3, <1>5 DEF Followed
  <2>2. n \in Nat /\ n <= Len(ctx.cbuff) - Len(toServer)
    BY <1>2, <1>3, <1>5, TextFacts
  <2>3. toServer' \in Text /\ Len(toServer') = Len(toServer) + n /\ Begins(toServer', ctx.cbuff)
    BY <1>5, <2>1, <2>2, NextTokens
  <2>4. request \in Text
    BY Streams
  <2>5. QED
    BY <1>4, <1>5, <2>3, <2>4, BeginsTransitive
<1>7. Written'
  <2>1. ~ Sending(ctx)' /\ ~ Connecting(ctx)'
    BY <1>4 DEF Sending, Requesting, Awaiting, Connecting
  <2>2. CASE Requesting(ctx')
    BY <1>1, <1>5, <1>6, <2>1, <2>2 DEF Written
  <2>3. CASE Awaiting(ctx')
    <3>1. ~ Requesting(ctx)' /\ ctx'.sended = Len(ctx'.cbuff)
      BY <2>3 DEF Awaiting, Requesting
    <3>2. toServer' = ctx'.cbuff
      BY <1>4, <1>5, <1>6, <3>1, AllOfIt
    <3>3. QED
      BY <1>1, <1>5, <2>1, <3>1, <3>2 DEF Written
  <2>4. QED
    BY <1>4, <2>2, <2>3
<1>8. QED
  BY <1>1, <1>2, <1>4, <1>6, <1>7, LiveInv DEF IInv

LEMMA DestroyingInv ==
  ASSUME IInv, ClientGone \/ ServerRefuses \/ ServerGone
  PROVE  IInv' /\ Live(ctx) /\ Dropped(ctx, ctx')
<1>1. /\ ctx.handling_step \notin Ended /\ ctx' = Destroy(ctx)
      /\ UNCHANGED <<peers, toServer, toClient>>
  BY DEF ClientGone, ServerRefuses, ServerGone, ClientPolled, ServerPolled
<1>2. Live(ctx)
  BY <1>1, Alive
<1>3. Dropped(ctx, ctx')
  BY <1>1, <1>2, LiveTyped, Destroys
<1>4. QED
  BY <1>1, <1>2, <1>3, DestroyedInv

LEMMA ResponseArrivesInv ==
  ASSUME IInv, ResponseArrives
  PROVE  /\ IInv' /\ Live(ctx)
         /\ Onwards(ctx, ctx') \/ (Awaiting(ctx) /\ Dropped(ctx, ctx'))
<1>1. /\ ctx.handling_step \notin Ended /\ "POLLIN" \in ctx.server_events
      /\ UNCHANGED <<peers, toServer, toClient>>
  BY DEF ResponseArrives, ServerPolled
<1>2. Live(ctx) /\ Written /\ (Awaiting(ctx) \/ Receiving(ctx))
  BY <1>1, Alive, PolledPart
<1>3. PICK n \in 1 .. Len(response) - Len(ctx.sbuff) : ctx' = HandleResponseData(ctx, n)
  BY DEF ResponseArrives, UnsentOfResponse
<1>4. Onwards(ctx, ctx') \/ (Awaiting(ctx) /\ Dropped(ctx, ctx'))
  BY <1>2, <1>3, Streams, ResponseHandled
<1>5. CASE Dropped(ctx, ctx')
  BY <1>1, <1>2, <1>4, <1>5, DroppedInv
<1>6. CASE Onwards(ctx, ctx')
  <2>1. /\ Live(ctx') /\ ctx'.cbuff = ctx.cbuff /\ Begins(ctx.sbuff, ctx'.sbuff)
        /\ ctx.sbuff \in Text /\ ctx'.sbuff \in Text
    BY <1>2, <1>6 DEF Onwards, Live, Buffers
  <2>2. ~ Connecting(ctx)' /\ ~ Requesting(ctx)' /\ ~ Connecting(ctx) /\ ~ Requesting(ctx)
    BY <1>2, <1>6
    DEF Onwards, Connecting, Requesting, Awaiting, Receiving, Answering
  <2>3. toServer' = ctx'.cbuff
    BY <1>1, <1>2, <2>1, <2>2 DEF Written
  <2>4. ~ Sending(ctx)' => toClient' = <<>>
    <3>1. ~ Sending(ctx)' => ~ Sending(ctx)
      BY <1>2, <1>6 DEF Onwards, Sending, Awaiting, Receiving, Answering
    <3>2. QED
      BY <1>1, <1>2, <3>1 DEF Written
  <2>5. ASSUME Sending(ctx')
        PROVE  Len(toClient') = ctx'.sended /\ Begins(toClient', ctx'.sbuff)
    <3>1. CASE Awaiting(ctx)
      <4>1. toClient = <<>> /\ ctx'.sended = 0
        BY <1>2, <1>6, <2>5, <3>1 DEF Written, Onwards, Sending, Awaiting, Receiving
      <4>2. QED
        BY <1>1, <2>1, <4>1, NothingBegins
    <3>2. CASE Receiving(ctx)
      <4>1. /\ Len(toClient) = ctx.sended /\ Begins(toClient, ctx.sbuff)
            /\ ctx'.sended = ctx.sended
        BY <1>2, <1>6, <3>2 DEF Written, Onwards, Sending, Awaiting, Receiving
      <4>2. toClient \in Text
        BY DEF IInv
      <4>3. QED
        BY <1>1, <2>1, <4>1, <4>2, BeginsTransitive
    <3>3. QED
      BY <1>2, <3>1, <3>2
  <2>6. Written'
    BY <2>2, <2>3, <2>4, <2>5 DEF Written, Sending
  <2>7. QED
    BY <1>1, <1>2, <1>4, <2>1, <2>6, LiveInv DEF IInv
<1>7. QED
  BY <1>4, <1>5, <1>6

(* send_resp_in_receiving has written n tokens of the buffer. *)
LEMMA ResponseWritten ==
  ASSUME NEW c, Live(c), Receiving(c) \/ Answering(c),
         NEW n \in 0 .. Len(c.sbuff) - c.sended, NEW d, d = [c EXCEPT !.sended = @ + n]
  PROVE  /\ Live(d) /\ d.sended = c.sended + n /\ d.sended \in 0 .. Len(d.sbuff)
         /\ d.sbuff = c.sbuff /\ d.cbuff = c.cbuff /\ d.cached = c.cached
         /\ d.handling_step = c.handling_step
         /\ Receiving(c) => Receiving(d)
         /\ Answering(c) => Answering(d)
<1>1. DOMAIN c = Fields /\ Buffers(c) /\ c.destroyed = 0
  BY FieldsOfContext DEF Live
<1>2. SameBut({"sended"}, c, d) /\ d.sended = c.sended + n
  BY <1>1 DEF SameBut, Fields
<1>3. /\ d.handling_step = c.handling_step /\ d.connection_state = c.connection_state
      /\ d.client_events = c.client_events /\ d.server_events = c.server_events
      /\ d.server_fd = c.server_fd /\ d.cbuff = c.cbuff /\ d.cppos = c.cppos
      /\ d.sbuff = c.sbuff /\ d.sppos = c.sppos /\ d.destroyed = c.destroyed
      /\ d.cached = c.cached /\ d.chunk_size = c.chunk_size /\ d.chunk_read = c.chunk_read
  BY <1>2 DEF SameBut, Fields
<1>4. d.sended \in 0 .. Len(d.sbuff)
  <2>1. c.sended \in 0 .. Len(c.sbuff) /\ Len(c.sbuff) \in Nat
    BY <1>1, TextFacts DEF Receiving, Answering, Buffers
  <2>2. QED
    BY <1>2, <1>3, <2>1
<1>5. (Receiving(c) => Receiving(d)) /\ (Answering(c) => Answering(d))
  BY <1>3, <1>4 DEF Receiving, Answering, Polls
<1>6. Buffers(d)
  BY <1>1, <1>3 DEF Buffers, Reading
<1>7. Live(d)
  BY <1>1, <1>2, <1>3, <1>5, <1>6, FieldsOfContext DEF Live, SameBut
<1>8. QED
  BY <1>2, <1>3, <1>4, <1>5, <1>7

(* A context that send_resp_step has finished with. *)
Finished(c, d) ==
  /\ DOMAIN d = Fields /\ d.handling_step = "HANDLED"
  /\ d.connection_state = c.connection_state
  /\ d.client_events = c.client_events /\ d.server_events = c.server_events
  /\ d.server_fd = c.server_fd /\ d.cached = c.cached

LEMMA Finishes ==
  ASSUME NEW c, DOMAIN c = Fields,
         NEW d, d = [Destroy(c) EXCEPT !.handling_step = "HANDLED"]
  PROVE  Finished(c, d) /\ d.destroyed = c.destroyed + 1
<1>1. PICK e : e = Destroy(c)
  OBVIOUS
<1>2. /\ SameBut({"cbuff", "sbuff", "req_headers", "handling_step", "destroyed"}, c, e)
      /\ e.destroyed = c.destroyed + 1
  BY <1>1 DEF Destroy, SameBut, Fields
<1>3. SameBut({"handling_step"}, e, d) /\ d.handling_step = "HANDLED"
  BY <1>1, <1>2 DEF SameBut, Fields
<1>4. QED
  BY <1>2, <1>3 DEF SameBut, Fields, Finished

LEMMA FinishedInv ==
  ASSUME IInv, Live(ctx), Finished(ctx, ctx'), UNCHANGED <<peers, toServer>>,
         toClient' \in Text, Begins(toClient', response),
         \/ ctx'.destroyed = 1 /\ toClient' = ctx'.cached
         \/ ctx'.destroyed = 2 /\ toClient' = <<>> /\ ctx'.cached # <<>>
  PROVE  IInv'
<1>1. /\ ctx'.connection_state \in {"NOT_CONNECTED", "AWAIT_CONNECTION", "CONNECTED"}
      /\ ctx'.client_events \in {{}, {"POLLIN"}, {"POLLOUT"}}
      /\ ctx'.server_events \in {{}, {"POLLIN"}, {"POLLOUT"}}
      /\ ctx'.server_fd \in {-1, 1}
  BY LiveTyped DEF Finished
<1>2. Gone'
  BY <1>1, FieldsOfContext DEF Gone, Finished, Ended
<1>3. request' = request /\ response' = response
  BY DEF request, response
<1>4. QED
  BY <1>2, <1>3 DEF IInv

LEMMA SendingRespInv ==
  ASSUME IInv, SendingResp
  PROVE  /\ IInv' /\ Live(ctx) /\ (Receiving(ctx) \/ Answering(ctx))
         /\ \/ /\ Live(ctx')
               /\ Receiving(ctx) => Receiving(ctx')
               /\ Answering(ctx) => Answering(ctx')
            \/ Answering(ctx) /\ Finished(ctx, ctx')
<1>1. /\ ctx.handling_step \notin Ended /\ "POLLOUT" \in ctx.client_events
      /\ UNCHANGED <<peers, toServer>>
  BY DEF SendingResp, ClientPolled
<1>2. Live(ctx) /\ Written /\ (Receiving(ctx) \/ Answering(ctx))
  BY <1>1, Alive, PolledPart
<1>3. PICK n \in 0 .. Len(ctx.sbuff) - ctx.sended :
        /\ toClient' = toClient \o SubSeq(ctx.sbuff, ctx.sended + 1, ctx.sended + n)
        /\ ctx' = FinishSending([ctx EXCEPT !.sended = @ + n])
  BY DEF SendingResp
<1>4. PICK c : c = [ctx EXCEPT !.sended = @ + n]
  OBVIOUS
<1>5. /\ Live(c) /\ c.sended = ctx.sended + n /\ c.sended \in 0 .. Len(c.sbuff)
      /\ c.sbuff = ctx.sbuff /\ c.cbuff = ctx.cbuff /\ c.cached = ctx.cached
      /\ c.handling_step = ctx.handling_step
      /\ Receiving(ctx) => Receiving(c)
      /\ Answering(ctx) => Answering(c)
  BY <1>2, <1>4, ResponseWritten
<1>6. /\ toClient \in Text /\ ctx.sbuff \in Text /\ Len(toClient) = ctx.sended
      /\ Begins(toClient, ctx.sbuff) /\ Begins(ctx.sbuff, response)
      /\ toServer = ctx.cbuff
  BY <1>2 DEF IInv, Written, Live, Buffers, Receiving, Answering, Sending, Connecting,
              Requesting
<1>7. /\ toClient' \in Text /\ Len(toClient') = c.sended /\ Begins(toClient', ctx.sbuff)
      /\ Begins(toClient', response)
  <2>1. toClient' = Followed(toClient, ctx.sbuff, n)
    BY <1>3, <1>6 DEF Followed
  <2>2. n \in Nat /\ n <= Len(ctx.sbuff) - Len(toClient)
    <3>1. Len(ctx.sbuff) \in Nat /\ Len(toClient) \in Nat
      BY <1>6, TextFacts
    <3>2. QED
      BY <1>3, <1>6, <3>1
  <2>3. /\ toClient' \in Text /\ Len(toClient') = Len(toClient) + n
        /\ Begins(toClient', ctx.sbuff)
    BY <1>6, <2>1, <2>2, NextTokens
  <2>4. response \in Text
    BY Streams
  <2>5. QED
    BY <1>5, <1>6, <2>3, <2>4, BeginsTransitive
<1>8. \/ ctx' = c
      \/ /\ Answering(ctx) /\ c.sended = Len(c.sbuff)
         /\ ctx' = [Destroy(c) EXCEPT !.handling_step = "HANDLED"]
  BY <1>2, <1>3, <1>4, <1>5 DEF FinishSending, Receiving
<1>9. CASE ctx' = c
  <2>1. Sending(ctx)' /\ ~ Connecting(ctx)' /\ ~ Requesting(ctx)'
    BY <1>2, <1>5, <1>9 DEF Sending, Receiving, Answering, Connecting, Requesting
  <2>2. Written'
    BY <1>1, <1>5, <1>6, <1>7, <1>9, <2>1 DEF Written
  <2>3. QED
    BY <1>1, <1>2, <1>5, <1>7, <1>9, <2>2, LiveInv DEF IInv
<1>10. CASE /\ Answering(ctx) /\ c.sended = Len(c.sbuff)
            /\ ctx' = [Destroy(c) EXCEPT !.handling_step = "HANDLED"]
  <2>1. DOMAIN c = Fields /\ c.destroyed = 0 /\ Answering(c)
    BY <1>5, <1>10, FieldsOfContext DEF Live
  <2>2. Finished(c, ctx') /\ ctx'.destroyed = 1
    <3>1. PICK d : d = [Destroy(c) EXCEPT !.handling_step = "HANDLED"]
      OBVIOUS
    <3>2. Finished(c, d) /\ d.destroyed = c.destroyed + 1
      BY <2>1, <3>1, Finishes
    <3>3. ctx' = d
      BY <1>10, <3>1
    <3>4. QED
      BY <2>1, <3>2, <3>3
  <2>3. Finished(ctx, ctx')
    BY <1>5, <1>10, <2>1, <2>2 DEF Finished, Answering, Polls
  <2>4. toClient' = ctx'.cached
    <3>1. toClient' = ctx.sbuff
      BY <1>5, <1>6, <1>7, <1>10, AllOfIt
    <3>2. QED
      BY <1>10, <2>3, <3>1 DEF Finished, Answering
  <2>5. QED
    BY <1>1, <1>2, <1>7, <1>10, <2>2, <2>3, <2>4, FinishedInv
<1>11. QED
  BY <1>8, <1>9, <1>10

LEMMA ClientRefusesInv ==
  ASSUME IInv, ClientRefuses
  PROVE  /\ IInv' /\ Live(ctx) /\ (Receiving(ctx) \/ Answering(ctx))
         /\ Dropped(ctx, ctx') \/ (Answering(ctx) /\ Finished(ctx, ctx'))
<1>1. /\ ctx.handling_step \notin Ended /\ "POLLOUT" \in ctx.client_events
      /\ UNCHANGED <<peers, toServer, toClient>> /\ Len(ctx.sbuff) > ctx.sended
  BY DEF ClientRefuses, ClientPolled
<1>2. Live(ctx) /\ Written /\ (Receiving(ctx) \/ Answering(ctx))
  BY <1>1, Alive, PolledPart
<1>3. PICK c : c = Destroy(ctx)
  OBVIOUS
<1>4. Dropped(ctx, c) /\ DOMAIN c = Fields
  BY <1>2, <1>3, LiveTyped, Destroys DEF Dropped
<1>5. \/ ctx' = c
      \/ /\ Answering(ctx) /\ c.sended = Len(c.sbuff)
         /\ ctx' = [Destroy(c) EXCEPT !.handling_step = "HANDLED"]
  BY <1>2, <1>3 DEF ClientRefuses, FinishSending, Receiving
<1>6. CASE ctx' = c
  BY <1>1, <1>2, <1>4, <1>6, DroppedInv
<1>7. CASE /\ Answering(ctx) /\ c.sended = Len(c.sbuff)
           /\ ctx' = [Destroy(c) EXCEPT !.handling_step = "HANDLED"]
  <2>1. ctx.sended = 0
    BY <1>4, <1>7, NothingBegins DEF Dropped
  <2>2. Finished(c, ctx') /\ ctx'.destroyed = 2
    <3>1. PICK d : d = [Destroy(c) EXCEPT !.handling_step = "HANDLED"]
      OBVIOUS
    <3>2. Finished(c, d) /\ d.destroyed = c.destroyed + 1
      BY <1>4, <3>1, Finishes
    <3>3. ctx' = d /\ c.destroyed = 1
      BY <1>4, <1>7, <3>1 DEF Dropped
    <3>4. QED
      BY <3>2, <3>3
  <2>3. Finished(ctx, ctx')
    BY <1>4, <1>7, <2>2 DEF Finished, Dropped, Answering, Polls
  <2>4. toClient = <<>>
    <3>1. Len(toClient) = 0 /\ toClient \in Text
      BY <1>2, <1>7, <2>1 DEF IInv, Written, Sending, Answering
    <3>2. QED
      BY <3>1, NothingBegins
  <2>5. ctx.cached # <<>>
    BY <1>1, <1>7, <2>1, NothingBegins DEF Answering
  <2>6. toClient' \in Text /\ Begins(toClient', response)
    BY <1>1 DEF IInv
  <2>7. QED
    BY <1>1, <1>2, <1>7, <2>2, <2>3, <2>4, <2>5, <2>6, FinishedInv DEF Finished
<1>8. QED
  BY <1>5, <1>6, <1>7

LEMMA StutterInv ==
  ASSUME IInv, UNCHANGED vars
  PROVE  IInv'
<1>1. /\ ctx' = ctx /\ peers' = peers /\ toServer' = toServer /\ toClient' = toClient
      /\ request' = request /\ response' = response
  BY DEF vars, request, response
<1>2. CASE Live(ctx) /\ Written
  <2>1. Written'
    BY <1>1, <1>2 DEF Written
  <2>2. QED
    BY <1>1, <1>2, <2>1, LiveInv DEF IInv
<1>3. CASE Gone
  BY <1>1, <1>3 DEF IInv, Gone
<1>4. QED
  BY <1>2, <1>3 DEF IInv

LEMMA StepInv ==
  ASSUME IInv, [Next]_vars
  PROVE  IInv'
<1>1. CASE RequestArrives
  BY <1>1, RequestArrivesInv
<1>2. CASE ClientStirs \/ ConnectEnds
  BY <1>2, ConnectingInv
<1>3. CASE SendingReq
  BY <1>3, SendingReqInv
<1>4. CASE ClientGone \/ ServerRefuses \/ ServerGone
  BY <1>4, DestroyingInv
<1>5. CASE ResponseArrives
  BY <1>5, ResponseArrivesInv
<1>6. CASE SendingResp
  BY <1>6, SendingRespInv
<1>7. CASE ClientRefuses
  BY <1>7, ClientRefusesInv
<1>8. CASE Over \/ UNCHANGED vars
  BY <1>8, StutterInv DEF Over
<1>9. QED
  BY <1>1, <1>2, <1>3, <1>4, <1>5, <1>6, <1>7, <1>8 DEF Next

LEMMA InitInv ==
  ASSUME Init
  PROVE  IInv
<1>1. request \in Text /\ response \in Text /\ peers \in Peers
  <2>1. peers \in [request : Seq(STRING), response : Seq(STRING), cooperative : BOOLEAN]
    BY PeersAssumption DEF Init
  <2>2. QED
    BY <2>1 DEF Init, request, response, Text
<1>2. /\ ctx = FreshContext /\ toServer = <<>> /\ toClient = <<>>
  BY DEF Init
<1>3. /\ ctx.handling_step = "PARSING_REQ_TYPE" /\ ctx.connection_state = "NOT_CONNECTED"
      /\ ctx.client_events = {"POLLIN"} /\ ctx.server_events = {} /\ ctx.server_fd = -1
      /\ ctx.cbuff = <<>> /\ ctx.cppos = 0 /\ ctx.sbuff = <<>> /\ ctx.sppos = 0
      /\ ctx.sended = 0 /\ ctx.destroyed = 0 /\ ctx.cached = <<>> /\ ctx.resp_headers = <<>>
  BY <1>2 DEF FreshContext
<1>4. Buffers(ctx)
  BY <1>1, <1>3, NothingBegins DEF Buffers, Reading
<1>5. Connecting(ctx)
  BY <1>3 DEF Connecting, Reading, Polls
<1>6. Live(ctx)
  BY <1>2, <1>3, <1>4, <1>5 DEF Live
<1>7. Written
  BY <1>2, <1>3 DEF Written, Sending, Requesting, Connecting
<1>8. QED
  BY <1>1, <1>2, <1>6, <1>7, NothingBegins DEF IInv

(* The invariant of handle, for all streams and ways of cutting them up.   *)
THEOREM InductiveInvariant == Spec => []IInv
  BY InitInv, StepInv, PTL DEF Spec

-----------------------------------------------------------------------------
LEMMA EndedGone ==
  ASSUME IInv
  PROVE  ctx.handling_step \in Ended => Gone
<1>1. Live(ctx) => ctx.handling_step \notin Ended
  BY LiveTyped
<1>2. QED
  BY <1>1 DEF IInv

(* Every field of the context keeps its type: while the context lives its  *)
(* buffers hold what has come of the two streams and the positions and the *)
(* counter are inside them.                                                *)
THEOREM TypeCorrect == Spec => []TypeOK
<1>1. ASSUME IInv PROVE TypeOK
  <2>1. CASE Live(ctx)
    <3>1. /\ ctx.handling_step \in Steps \ Ended
          /\ ctx.connection_state \in {"NOT_CONNECTED", "AWAIT_CONNECTION", "CONNECTED"}
          /\ ctx.client_events \in {{}, {"POLLIN"}, {"POLLOUT"}}
          /\ ctx.server_events \in {{}, {"POLLIN"}, {"POLLOUT"}}
          /\ ctx.server_fd \in {-1, 1}
      BY <2>1, LiveTyped
    <3>2. /\ ctx.cbuff \in Text /\ Begins(ctx.cbuff, request) /\ ctx.cppos \in 0 .. Len(ctx.cbuff)
          /\ ctx.sbuff \in Text /\ Begins(ctx.sbuff, response) /\ ctx.sppos \in 0 .. Len(ctx.sbuff)
      BY <2>1 DEF Live, Buffers
    <3>3. IsPrefix(ctx.cbuff, request) /\ IsPrefix(ctx.sbuff, response)
      BY <1>1, <3>2, Streams, PrefixByToken
    <3>4. ctx.sended \in 0 .. Len(ctx.cbuff) + Len(ctx.sbuff)
      <4>1. Len(ctx.cbuff) \in Nat /\ Len(ctx.sbuff) \in Nat
        BY <3>2, TextFacts
      <4>2. ctx.sended = 0 \/ ctx.sended \in 0 .. Len(ctx.cbuff)
            \/ ctx.sended = Len(ctx.cbuff) \/ ctx.sended \in 0 .. Len(ctx.sbuff)
        BY <2>1 DEF Live, Connecting, Requesting, Awaiting, Receiving, Answering
      <4>3. \A m, n \in Nat : 0 \in 0 .. m + n /\ 0 .. m \subseteq 0 .. m + n
                              /\ m \in 0 .. m + n /\ 0 .. n \subseteq 0 .. m + n
        OBVIOUS
      <4>4. PICK m, n : m = Len(ctx.cbuff) /\ n = Len(ctx.sbuff)
        OBVIOUS
      <4>5. QED
        BY <4>1, <4>2, <4>3, <4>4
    <3>5. QED
      BY <3>1, <3>2, <3>3, <3>4 DEF TypeOK
  <2>2. CASE Gone
    BY <2>2 DEF Gone, TypeOK, Steps
  <2>3. QED
    BY <1>1, <2>1, <2>2 DEF IInv
<1>2. QED
  BY <1>1, InductiveInvariant, PTL

LEMMA HeadSent ==
  ASSUME request \in Text, NEW t \in Text, Begins(t, request), HeadLength <= Len(t)
  PROVE  IsPrefix(HeadOf(request), t)
<1>1. HeadLength \in Nat /\ Len(request) \in Nat /\ Len(t) \in Nat /\ Len(t) <= Len(request)
  BY HeadLengthNat, TextFacts DEF Begins
<1>2. PICK u : u = HeadOf(request)
  OBVIOUS
<1>3. u = SubSeq(request, 1, HeadLength)
  BY <1>2 DEF HeadOf, HeadLength
<1>4. /\ u \in Text /\ Len(u) = HeadLength
      /\ \A k \in 1 .. HeadLength : u[k] = request[k]
  <2>1. PICK n : n = HeadLength
    OBVIOUS
  <2>2. n \in Nat /\ n <= Len(request) /\ 1 \in Int /\ n \in Int
        /\ n - 1 + 1 = n /\ (~ (1 <= n) => n = 0)
    BY <1>1, <2>1
  <2>3. \A k \in 1 .. n : request[k] \in STRING /\ 1 + k - 1 = k
    BY <1>1, <2>2, TextFacts
  <2>4. /\ u \in Seq(STRING) /\ Len(u) = IF 1 <= n THEN n - 1 + 1 ELSE 0
        /\ \A k \in 1 .. n - 1 + 1 : u[k] = request[1 + k - 1]
    BY <1>3, <2>1, <2>2, <2>3, SubSeqProperties
  <2>5. QED
    BY <2>1, <2>2, <2>3, <2>4 DEF Text
<1>5. Begins(u, t)
  BY <1>1, <1>4 DEF Begins
<1>6. QED
  BY <1>2, <1>4, <1>5, PrefixByToken

(* What has been written to each side is the beginning of the other side's *)
(* stream, and by the time the proxy reads the response the server has     *)
(* been sent all that was read of the request, its whole head with it,     *)
(* however the streams were cut up and whatever they hold.                 *)
THEOREM ForwardedInOrder == Spec => []Forwarding
<1>1. ASSUME IInv PROVE Forwarding
  <2>1. /\ toServer \in Text /\ Begins(toServer, request)
        /\ toClient \in Text /\ Begins(toClient, response)
        /\ request \in Text /\ response \in Text
    BY <1>1, Streams DEF IInv
  <2>2. IsPrefix(toServer, request) /\ IsPrefix(toClient, response)
    BY <2>1, PrefixByToken
  <2>3. ASSUME ReadingResponse \/ ctx.handling_step = "SENDING_RESP"
        PROVE  toServer = ctx.cbuff /\ IsPrefix(HeadOf(request), toServer)
    <3>1. Live(ctx) /\ Written
      BY <1>1, <2>3, Alive DEF ReadingResponse, Ended
    <3>2. ~ Connecting(ctx) /\ ~ Requesting(ctx) /\ ~ Reading(ctx)
      BY <2>3 DEF ReadingResponse, Connecting, Requesting, Reading
    <3>3. toServer = ctx.cbuff /\ HeadLength <= Len(toServer)
      BY <3>1, <3>2 DEF Written, Live, Buffers
    <3>4. QED
      BY <2>1, <3>3, HeadSent
  <2>4. QED
    BY <2>2, <2>3 DEF Forwarding
<1>2. QED
  BY <1>1, InductiveInvariant, PTL

(* A context is destroyed when it ends, and a second time only by          *)
(* send_resp_step after a failed write, with nothing of the response sent. *)
THEOREM DestructionsCounted == Spec => []DestroyedTwice
<1>1. ASSUME IInv PROVE DestroyedTwice
  <2>1. CASE Live(ctx)
    BY <2>1, LiveTyped DEF DestroyedTwice
  <2>2. CASE Gone
    BY <2>2 DEF Gone, DestroyedTwice
  <2>3. QED
    BY <1>1, <2>1, <2>2 DEF IInv
<1>2. QED
  BY <1>1, InductiveInvariant, PTL

HandledSentAll ==
  ctx.handling_step = "HANDLED" /\ ctx.destroyed = 1 => toClient = ctx.cached

(* HANDLED says that the client has been sent all of what was given to     *)
(* cache().                                                                *)
THEOREM HandledWasSent == Spec => []HandledSentAll
<1>1. ASSUME IInv PROVE HandledSentAll
  BY <1>1, EndedGone DEF HandledSentAll, Gone, Ended
<1>2. QED
  BY <1>1, InductiveInvariant, PTL

-----------------------------------------------------------------------------
(* What the main loop sees follows the lifecycle.                          *)
Seen(step, state, client, server, fd) ==
  [handling_step |-> step, connection_state |-> state, client_events |-> client,
   server_events |-> server, client_fd |-> 0, server_fd |-> fd]
SeenOf(c) ==
  Seen(c.handling_step, c.connection_state, c.client_events, c.server_events, c.server_fd)

LEMMA ViewSeen == View = SeenOf(ctx)
  BY DEF View, SeenOf, Seen

LEMMA SeenFields ==
  ASSUME NEW step, NEW state, NEW client, NEW server, NEW fd,
         NEW c, c = Seen(step, state, client, server, fd)
  PROVE  /\ c.handling_step = step /\ c.connection_state = state
         /\ c.client_events = client /\ c.server_events = server /\ c.server_fd = fd
         /\ \A next : Lifecycle!AtStep(c, next) = Seen(next, state, client, server, fd)
         /\ Lifecycle!Destroyed(c)
              = Seen("HANDLED_EXCEPTIONALLY", state, client, server, fd)
         /\ Lifecycle!StartSending(c) = Seen("SENDING_REQ", state, {}, {"POLLOUT"}, fd)
<1>1. /\ c.handling_step = step /\ c.connection_state = state
      /\ c.client_events = client /\ c.server_events = server /\ c.server_fd = fd
  BY DEF Seen
<1>2. ASSUME NEW next
      PROVE  Lifecycle!AtStep(c, next) = Seen(next, state, client, server, fd)
  BY DEF Lifecycle!AtStep, Seen
<1>3. Lifecycle!StartSending(c) = Seen("SENDING_REQ", state, {}, {"POLLOUT"}, fd)
  <2>1. Lifecycle!AtStep(c, "SENDING_REQ") = Seen("SENDING_REQ", state, client, server, fd)
    BY <1>2
  <2>2. QED
    <3>1. PICK d : d = [Seen("SENDING_REQ", state, client, server, fd) EXCEPT !.client_events = {}]
      OBVIOUS
    <3>2. d = Seen("SENDING_REQ", state, {}, server, fd)
      BY <3>1 DEF Seen
    <3>3. Lifecycle!StartSending(c) = [d EXCEPT !.server_events = {"POLLOUT"}]
      BY <2>1, <3>1 DEF Lifecycle!StartSending
    <3>4. QED
      BY <3>2, <3>3 DEF Seen
<1>4. QED
  BY <1>1, <1>2, <1>3 DEF Lifecycle!Destroyed

LEMMA SeenConnecting ==
  ASSUME NEW step, NEW state, NEW client, NEW server, NEW fd,
         NEW c, c = Seen(step, state, client, server, fd)
  PROVE  /\ Seen("HANDLED_EXCEPTIONALLY", state, client, server, fd)
              \in Lifecycle!AfterConnect(c, 1)
         /\ Seen("HANDLED_EXCEPTIONALLY", state, client, server, 1)
              \in Lifecycle!AfterConnect(c, 1)
         /\ Seen("CONNECT_STEP", "CONNECTED", client, server, 1)
              \in Lifecycle!AfterConnect(c, 1)
         /\ Seen("CONNECT_STEP", "AWAIT_CONNECTION", {}, {"POLLOUT"}, 1)
              \in Lifecycle!AfterConnect(c, 1)
<1>1. Lifecycle!Destroyed(c) = Seen("HANDLED_EXCEPTIONALLY", state, client, server, fd)
  BY SeenFields
<1>2. PICK opened : opened = [Lifecycle!AtStep(c, "CONNECT_STEP") EXCEPT !.server_fd = 1]
  OBVIOUS
<1>3. opened = Seen("CONNECT_STEP", state, client, server, 1)
  <2>1. Lifecycle!AtStep(c, "CONNECT_STEP") = Seen("CONNECT_STEP", state, client, server, fd)
    BY SeenFields
  <2>2. QED
    BY <1>2, <2>1 DEF Seen
<1>4. Lifecycle!Destroyed(opened) = Seen("HANDLED_EXCEPTIONALLY", state, client, server, 1)
  BY <1>3, SeenFields
<1>5. PICK made : made = [opened EXCEPT !.connection_state = "CONNECTED"]
  OBVIOUS
<1>6. made = Seen("CONNECT_STEP", "CONNECTED", client, server, 1)
  BY <1>3, <1>5 DEF Seen
<1>7. PICK awaited : awaited = [opened EXCEPT !.connection_state = "AWAIT_CONNECTION",
                                  !.client_events = {}, !.server_events = {"POLLOUT"}]
  OBVIOUS
<1>8. awaited = Seen("CONNECT_STEP", "AWAIT_CONNECTION", {}, {"POLLOUT"}, 1)
  <2>1. PICK d : d = [opened EXCEPT !.connection_state = "AWAIT_CONNECTION"]
    OBVIOUS
  <2>2. d = Seen("CONNECT_STEP", "AWAIT_CONNECTION", client, server, 1)
    BY <1>3, <2>1 DEF Seen
  <2>3. PICK e : e = [d EXCEPT !.client_events = {}]
    OBVIOUS
  <2>4. e = Seen("CONNECT_STEP", "AWAIT_CONNECTION", {}, server, 1)
    BY <2>2, <2>3 DEF Seen
  <2>5. awaited = [e EXCEPT !.server_events = {"POLLOUT"}]
    BY <1>7, <2>1, <2>3
  <2>6. QED
    BY <2>4, <2>5 DEF Seen
<1>9. Lifecycle!AfterConnect(c, 1)
        = {Lifecycle!Destroyed(c), Lifecycle!Destroyed(opened), made, awaited}
  BY <1>2, <1>5, <1>7 DEF Lifecycle!AfterConnect
<1>10. QED
  BY <1>1, <1>4, <1>6, <1>8, <1>9

Connects(c) == [Lifecycle!StartSending(c) EXCEPT !.connection_state = "CONNECTED"]
Awaits(c) == [Lifecycle!AtStep(c, "PARSING_RESP_CODE")
                EXCEPT !.client_events = {}, !.server_events = {"POLLIN"}]

LEMMA SeenSending ==
  ASSUME NEW step, NEW state, NEW client, NEW server, NEW fd,
         NEW c, c = Seen(step, state, client, server, fd)
  PROVE  /\ Lifecycle!ReceivingBody(c)
              = Seen("PARSING_RESP_BODY", state, {"POLLOUT"}, server, fd)
         /\ Lifecycle!ResponseComplete(c)
              = Seen("SENDING_RESP", state, {"POLLOUT"}, {}, fd)
         /\ Connects(c) = Seen("SENDING_REQ", "CONNECTED", {}, {"POLLOUT"}, fd)
         /\ Awaits(c) = Seen("PARSING_RESP_CODE", state, {}, {"POLLIN"}, fd)
<1>1. \A next : Lifecycle!AtStep(c, next) = Seen(next, state, client, server, fd)
  BY SeenFields
<1>2. Lifecycle!ReceivingBody(c) = Seen("PARSING_RESP_BODY", state, {"POLLOUT"}, server, fd)
  <2>1. Lifecycle!AtStep(c, "PARSING_RESP_BODY")
          = Seen("PARSING_RESP_BODY", state, client, server, fd)
    BY <1>1
  <2>2. QED
    BY <2>1 DEF Lifecycle!ReceivingBody, Seen
<1>3. Lifecycle!ResponseComplete(c) = Seen("SENDING_RESP", state, {"POLLOUT"}, {}, fd)
  <2>1. PICK d : d = [Lifecycle!AtStep(c, "SENDING_RESP") EXCEPT !.client_events = {"POLLOUT"}]
    OBVIOUS
  <2>2. Lifecycle!AtStep(c, "SENDING_RESP") = Seen("SENDING_RESP", state, client, server, fd)
    BY <1>1
  <2>3. d = Seen("SENDING_RESP", state, {"POLLOUT"}, server, fd)
    BY <2>1, <2>2 DEF Seen
  <2>4. Lifecycle!ResponseComplete(c) = [d EXCEPT !.server_events = {}]
    BY <2>1 DEF Lifecycle!ResponseComplete
  <2>5. QED
    BY <2>3, <2>4 DEF Seen
<1>4. Connects(c) = Seen("SENDING_REQ", "CONNECTED", {}, {"POLLOUT"}, fd)
  <2>1. Lifecycle!StartSending(c) = Seen("SENDING_REQ", state, {}, {"POLLOUT"}, fd)
    BY SeenFields
  <2>2. QED
    BY <2>1 DEF Seen, Connects
<1>5. Awaits(c) = Seen("PARSING_RESP_CODE", state, {}, {"POLLIN"}, fd)
  <2>1. PICK e : e = Lifecycle!AtStep(c, "PARSING_RESP_CODE")
    OBVIOUS
  <2>2. PICK d : d = [e EXCEPT !.client_events = {}]
    OBVIOUS
  <2>3. e = Seen("PARSING_RESP_CODE", state, client, server, fd)
    BY <1>1, <2>1
  <2>4. d = Seen("PARSING_RESP_CODE", state, {}, server, fd)
    BY <2>2, <2>3 DEF Seen
  <2>5. Awaits(c) = [d EXCEPT !.server_events = {"POLLIN"}]
    BY <2>1, <2>2 DEF Awaits
  <2>6. [d EXCEPT !.server_events = {"POLLIN"}] = Seen("PARSING_RESP_CODE", state, {}, {"POLLIN"}, fd)
    BY <2>4 DEF Seen
  <2>7. QED
    BY <2>5, <2>6
<1>6. QED
  BY <1>2, <1>3, <1>4, <1>5

(* The calls of handle, by what it finds and what it leaves. *)
ClientMoves(c, d) ==
  /\ c.handling_step \notin Ended /\ c.client_events # {}
  /\ Lifecycle!ClientEventExpected(c, c.client_events)
  /\ d \in Lifecycle!AfterClientEvent(c, 1)
ServerMoves(c, d) ==
  /\ c.handling_step \notin Ended /\ c.server_events # {} /\ c.server_fd # -1
  /\ Lifecycle!ServerEventExpected(c, c.server_events)
  /\ d \in Lifecycle!AfterServerEvent(c)

LEMMA RequestRun ==
  ASSUME NEW step \in {"PARSING_REQ_TYPE", "PARSING_REQ_HEADERS"},
         NEW c, c = Seen(step, "NOT_CONNECTED", {"POLLIN"}, {}, -1), NEW d,
         \/ d = c
         \/ d = Seen("PARSING_REQ_HEADERS", "NOT_CONNECTED", {"POLLIN"}, {}, -1)
         \/ d = Seen("CONNECT_STEP", "CONNECTED", {"POLLIN"}, {}, 1)
         \/ d = Seen("CONNECT_STEP", "AWAIT_CONNECTION", {}, {"POLLOUT"}, 1)
         \/ d = Seen("HANDLED_EXCEPTIONALLY", "NOT_CONNECTED", {"POLLIN"}, {}, -1)
         \/ d = Seen("HANDLED_EXCEPTIONALLY", "NOT_CONNECTED", {"POLLIN"}, {}, 1)
  PROVE  ClientMoves(c, d)
<1>1. /\ c.handling_step = step /\ c.client_events = {"POLLIN"}
      /\ Lifecycle!AtStep(c, "PARSING_REQ_HEADERS")
           = Seen("PARSING_REQ_HEADERS", "NOT_CONNECTED", {"POLLIN"}, {}, -1)
  BY SeenFields
<1>2. step = "PARSING_REQ_HEADERS" =>
        c = Seen("PARSING_REQ_HEADERS", "NOT_CONNECTED", {"POLLIN"}, {}, -1)
  OBVIOUS
<1>3. d \in {c, Lifecycle!AtStep(c, "PARSING_REQ_HEADERS")} \/ d \in Lifecycle!AfterConnect(c, 1)
  BY <1>1, SeenConnecting
<1>4. d \in Lifecycle!AfterClientEvent(c, 1)
  <2>1. CASE step = "PARSING_REQ_TYPE"
    BY <1>1, <1>3, <2>1 DEF Lifecycle!AfterClientEvent
  <2>2. CASE step = "PARSING_REQ_HEADERS"
    <3>1. Lifecycle!AtStep(c, "PARSING_REQ_HEADERS") = c
      BY <1>1, <1>2, <2>2
    <3>2. QED
      BY <1>1, <1>3, <2>2, <3>1 DEF Lifecycle!AfterClientEvent
  <2>3. QED
    BY <2>1, <2>2
<1>5. Lifecycle!ClientEventExpected(c, c.client_events)
  BY <1>1 DEF Lifecycle!ClientEventExpected
<1>6. QED
  BY <1>1, <1>4, <1>5 DEF ClientMoves, Ended

LEMMA ConnectRun ==
  ASSUME NEW c, NEW d
  PROVE  /\ /\ c = Seen("CONNECT_STEP", "CONNECTED", {"POLLIN"}, {}, 1)
            /\ d = Seen("SENDING_REQ", "CONNECTED", {}, {"POLLOUT"}, 1)
            => ClientMoves(c, d)
         /\ /\ c = Seen("CONNECT_STEP", "AWAIT_CONNECTION", {}, {"POLLOUT"}, 1)
            /\ d \in {Seen("SENDING_REQ", "CONNECTED", {}, {"POLLOUT"}, 1),
                      Seen("HANDLED_EXCEPTIONALLY", "AWAIT_CONNECTION", {}, {"POLLOUT"}, 1)}
            => ServerMoves(c, d)
<1>1. ASSUME c = Seen("CONNECT_STEP", "CONNECTED", {"POLLIN"}, {}, 1),
             d = Seen("SENDING_REQ", "CONNECTED", {}, {"POLLOUT"}, 1)
      PROVE  ClientMoves(c, d)
  <2>1. /\ c.handling_step = "CONNECT_STEP" /\ c.client_events = {"POLLIN"}
        /\ c.connection_state = "CONNECTED" /\ Lifecycle!StartSending(c) = d
    BY <1>1, SeenFields
  <2>2. QED
    BY <2>1 DEF ClientMoves, Ended, Lifecycle!ClientEventExpected, Lifecycle!AfterClientEvent
<1>2. ASSUME c = Seen("CONNECT_STEP", "AWAIT_CONNECTION", {}, {"POLLOUT"}, 1),
             d \in {Seen("SENDING_REQ", "CONNECTED", {}, {"POLLOUT"}, 1),
                    Seen("HANDLED_EXCEPTIONALLY", "AWAIT_CONNECTION", {}, {"POLLOUT"}, 1)}
      PROVE  ServerMoves(c, d)
  <2>1. /\ c.handling_step = "CONNECT_STEP" /\ c.server_events = {"POLLOUT"} /\ c.server_fd = 1
        /\ Lifecycle!StartSending(c)
             = Seen("SENDING_REQ", "AWAIT_CONNECTION", {}, {"POLLOUT"}, 1)
    BY <1>2, SeenFields
  <2>2. Lifecycle!Destroyed(Lifecycle!StartSending(c))
          = Seen("HANDLED_EXCEPTIONALLY", "AWAIT_CONNECTION", {}, {"POLLOUT"}, 1)
    BY <2>1, SeenFields
  <2>3. Connects(c) = Seen("SENDING_REQ", "CONNECTED", {}, {"POLLOUT"}, 1)
    BY <1>2, SeenSending
  <2>4. d \in Lifecycle!AfterServerEvent(c)
    BY <1>2, <2>1, <2>2, <2>3 DEF Lifecycle!AfterServerEvent, Connects
  <2>5. QED
    BY <2>1, <2>4 DEF ServerMoves, Ended, Lifecycle!ServerEventExpected
<1>3. QED
  BY <1>1, <1>2

LEMMA SendingReqRun ==
  ASSUME NEW c, c = Seen("SENDING_REQ", "CONNECTED", {}, {"POLLOUT"}, 1), NEW d,
         \/ d = c
         \/ d = Seen("PARSING_RESP_CODE", "CONNECTED", {}, {"POLLIN"}, 1)
         \/ d = Seen("HANDLED_EXCEPTIONALLY", "CONNECTED", {}, {"POLLOUT"}, 1)
  PROVE  ServerMoves(c, d)
<1>1. /\ c.handling_step = "SENDING_REQ" /\ c.server_events = {"POLLOUT"} /\ c.server_fd = 1
      /\ Lifecycle!Destroyed(c) = Seen("HANDLED_EXCEPTIONALLY", "CONNECTED", {}, {"POLLOUT"}, 1)
  BY SeenFields
<1>2. Awaits(c) = Seen("PARSING_RESP_CODE", "CONNECTED", {}, {"POLLIN"}, 1)
  BY SeenSending
<1>3. d \in Lifecycle!AfterServerEvent(c)
  BY <1>1, <1>2 DEF Lifecycle!AfterServerEvent, Awaits
<1>4. QED
  BY <1>1, <1>3 DEF ServerMoves, Ended, Lifecycle!ServerEventExpected

LEMMA AwaitingRun ==
  ASSUME NEW step \in {"PARSING_RESP_CODE", "PARSING_RESP_HEADERS"},
         NEW c, c = Seen(step, "CONNECTED", {}, {"POLLIN"}, 1), NEW d,
         \/ d = c
         \/ d = Seen("PARSING_RESP_HEADERS", "CONNECTED", {}, {"POLLIN"}, 1)
         \/ d = Seen("PARSING_RESP_BODY", "CONNECTED", {"POLLOUT"}, {"POLLIN"}, 1)
         \/ d = Seen("SENDING_RESP", "CONNECTED", {"POLLOUT"}, {}, 1)
         \/ d = Seen("HANDLED_EXCEPTIONALLY", "CONNECTED", {}, {"POLLIN"}, 1)
  PROVE  ServerMoves(c, d)
<1>1. /\ c.handling_step = step /\ c.server_events = {"POLLIN"} /\ c.server_fd = 1
      /\ Lifecycle!Destroyed(c) = Seen("HANDLED_EXCEPTIONALLY", "CONNECTED", {}, {"POLLIN"}, 1)
      /\ Lifecycle!AtStep(c, "PARSING_RESP_HEADERS")
           = Seen("PARSING_RESP_HEADERS", "CONNECTED", {}, {"POLLIN"}, 1)
  BY SeenFields
<1>2. /\ Lifecycle!ReceivingBody(c)
           = Seen("PARSING_RESP_BODY", "CONNECTED", {"POLLOUT"}, {"POLLIN"}, 1)
      /\ Lifecycle!ResponseComplete(c) = Seen("SENDING_RESP", "CONNECTED", {"POLLOUT"}, {}, 1)
  BY SeenSending
<1>3. d \in Lifecycle!AfterServerEvent(c)
  <2>1. CASE step = "PARSING_RESP_CODE"
    BY <1>1, <1>2, <2>1 DEF Lifecycle!AfterServerEvent
  <2>2. CASE step = "PARSING_RESP_HEADERS"
    <3>1. c = Seen("PARSING_RESP_HEADERS", "CONNECTED", {}, {"POLLIN"}, 1)
      BY <2>2
    <3>2. QED
      BY <1>1, <1>2, <2>2, <3>1 DEF Lifecycle!AfterServerEvent
  <2>3. QED
    BY <2>1, <2>2
<1>4. QED
  BY <1>1, <1>3 DEF ServerMoves, Ended, Lifecycle!ServerEventExpected

LEMMA ReceivingRun ==
  ASSUME NEW c, c = Seen("PARSING_RESP_BODY", "CONNECTED", {"POLLOUT"}, {"POLLIN"}, 1), NEW d
  PROVE  /\ \/ d = c
            \/ d = Seen("HANDLED_EXCEPTIONALLY", "CONNECTED", {"POLLOUT"}, {"POLLIN"}, 1)
            => ClientMoves(c, d)
         /\ \/ d = c
            \/ d = Seen("SENDING_RESP", "CONNECTED", {"POLLOUT"}, {}, 1)
            \/ d = Seen("HANDLED_EXCEPTIONALLY", "CONNECTED", {"POLLOUT"}, {"POLLIN"}, 1)
            => ServerMoves(c, d)
<1>1. /\ c.handling_step = "PARSING_RESP_BODY"
      /\ c.client_events = {"POLLOUT"} /\ c.server_events = {"POLLIN"} /\ c.server_fd = 1
      /\ Lifecycle!Destroyed(c)
           = Seen("HANDLED_EXCEPTIONALLY", "CONNECTED", {"POLLOUT"}, {"POLLIN"}, 1)
  BY SeenFields
<1>2. Lifecycle!ResponseComplete(c) = Seen("SENDING_RESP", "CONNECTED", {"POLLOUT"}, {}, 1)
  BY SeenSending
<1>3. ASSUME \/ d = c
             \/ d = Seen("HANDLED_EXCEPTIONALLY", "CONNECTED", {"POLLOUT"}, {"POLLIN"}, 1)
      PROVE  ClientMoves(c, d)
  BY <1>1, <1>3 DEF ClientMoves, Ended, Lifecycle!ClientEventExpected,
                    Lifecycle!AfterClientEvent
<1>4. ASSUME \/ d = c
             \/ d = Seen("SENDING_RESP", "CONNECTED", {"POLLOUT"}, {}, 1)
             \/ d = Seen("HANDLED_EXCEPTIONALLY", "CONNECTED", {"POLLOUT"}, {"POLLIN"}, 1)
      PROVE  ServerMoves(c, d)
  BY <1>1, <1>2, <1>4 DEF ServerMoves, Ended, Lifecycle!ServerEventExpected,
                          Lifecycle!AfterServerEvent
<1>5. QED
  BY <1>3, <1>4

LEMMA AnsweringRun ==
  ASSUME NEW c, c = Seen("SENDING_RESP", "CONNECTED", {"POLLOUT"}, {}, 1), NEW d,
         \/ d = c
         \/ d = Seen("HANDLED", "CONNECTED", {"POLLOUT"}, {}, 1)
         \/ d = Seen("HANDLED_EXCEPTIONALLY", "CONNECTED", {"POLLOUT"}, {}, 1)
  PROVE  ClientMoves(c, d)
<1>1. /\ c.handling_step = "SENDING_RESP" /\ c.client_events = {"POLLOUT"}
      /\ Lifecycle!AtStep(c, "HANDLED") = Seen("HANDLED", "CONNECTED", {"POLLOUT"}, {}, 1)
      /\ Lifecycle!Destroyed(c) = Seen("HANDLED_EXCEPTIONALLY", "CONNECTED", {"POLLOUT"}, {}, 1)
  BY SeenFields
<1>2. d \in Lifecycle!AfterClientEvent(c, 1)
  BY <1>1 DEF Lifecycle!AfterClientEvent
<1>3. QED
  BY <1>1, <1>2 DEF ClientMoves, Ended, Lifecycle!ClientEventExpected

LEMMA SeenPart ==
  ASSUME NEW c
  PROVE  /\ Connecting(c) => SeenOf(c) \in
              {Seen("PARSING_REQ_TYPE", "NOT_CONNECTED", {"POLLIN"}, {}, -1),
               Seen("PARSING_REQ_HEADERS", "NOT_CONNECTED", {"POLLIN"}, {}, -1),
               Seen("CONNECT_STEP", "CONNECTED", {"POLLIN"}, {}, 1),
               Seen("CONNECT_STEP", "AWAIT_CONNECTION", {}, {"POLLOUT"}, 1)}
         /\ Requesting(c) => SeenOf(c) = Seen("SENDING_REQ", "CONNECTED", {}, {"POLLOUT"}, 1)
         /\ Awaiting(c) => SeenOf(c) = Seen(c.handling_step, "CONNECTED", {}, {"POLLIN"}, 1)
         /\ Receiving(c) => SeenOf(c) =
              Seen("PARSING_RESP_BODY", "CONNECTED", {"POLLOUT"}, {"POLLIN"}, 1)
         /\ Answering(c) => SeenOf(c) = Seen("SENDING_RESP", "CONNECTED", {"POLLOUT"}, {}, 1)
<1>1. Connecting(c) => SeenOf(c) \in
        {Seen("PARSING_REQ_TYPE", "NOT_CONNECTED", {"POLLIN"}, {}, -1),
         Seen("PARSING_REQ_HEADERS", "NOT_CONNECTED", {"POLLIN"}, {}, -1),
         Seen("CONNECT_STEP", "CONNECTED", {"POLLIN"}, {}, 1),
         Seen("CONNECT_STEP", "AWAIT_CONNECTION", {}, {"POLLOUT"}, 1)}
  BY DEF Connecting, Reading, Polls, SeenOf
<1>2. Requesting(c) => SeenOf(c) = Seen("SENDING_REQ", "CONNECTED", {}, {"POLLOUT"}, 1)
  BY DEF Requesting, Polls, SeenOf
<1>3. Awaiting(c) => SeenOf(c) = Seen(c.handling_step, "CONNECTED", {}, {"POLLIN"}, 1)
  BY DEF Awaiting, Polls, SeenOf
<1>4. Receiving(c) => SeenOf(c) =
        Seen("PARSING_RESP_BODY", "CONNECTED", {"POLLOUT"}, {"POLLIN"}, 1)
  BY DEF Receiving, Polls, SeenOf
<1>5. Answering(c) => SeenOf(c) = Seen("SENDING_RESP", "CONNECTED", {"POLLOUT"}, {}, 1)
  BY DEF Answering, Polls, SeenOf
<1>6. QED
  BY <1>1, <1>2, <1>3, <1>4, <1>5

LEMMA SeenDropped ==
  ASSUME NEW c, NEW d, Dropped(c, d)
  PROVE  SeenOf(d) \in
           {Seen("HANDLED_EXCEPTIONALLY", c.connection_state, c.client_events,
                 c.server_events, c.server_fd),
            Seen("HANDLED_EXCEPTIONALLY", c.connection_state, c.client_events,
                 c.server_events, 1)}
  BY DEF Dropped, SeenOf

LEMMA SeenConnectingDropped ==
  ASSUME NEW c, Connecting(c), NEW d, Dropped(c, d)
  PROVE  \/ /\ Reading(c)
            /\ SeenOf(d) \in
                 {Seen("HANDLED_EXCEPTIONALLY", "NOT_CONNECTED", {"POLLIN"}, {}, -1),
                  Seen("HANDLED_EXCEPTIONALLY", "NOT_CONNECTED", {"POLLIN"}, {}, 1)}
         \/ ~ Reading(c) /\ c.connection_state = "CONNECTED"
         \/ /\ ~ Reading(c) /\ c.connection_state = "AWAIT_CONNECTION"
            /\ SeenOf(d) = Seen("HANDLED_EXCEPTIONALLY", "AWAIT_CONNECTION", {}, {"POLLOUT"}, 1)
  BY SeenDropped DEF Connecting, Polls

LEMMA SeenPartDropped ==
  ASSUME NEW c, NEW d, Dropped(c, d)
  PROVE  /\ Requesting(c) => SeenOf(d) =
              Seen("HANDLED_EXCEPTIONALLY", "CONNECTED", {}, {"POLLOUT"}, 1)
         /\ Awaiting(c) => SeenOf(d) =
              Seen("HANDLED_EXCEPTIONALLY", "CONNECTED", {}, {"POLLIN"}, 1)
         /\ Receiving(c) => SeenOf(d) =
              Seen("HANDLED_EXCEPTIONALLY", "CONNECTED", {"POLLOUT"}, {"POLLIN"}, 1)
         /\ Answering(c) => SeenOf(d) =
              Seen("HANDLED_EXCEPTIONALLY", "CONNECTED", {"POLLOUT"}, {}, 1)
  BY SeenDropped DEF Requesting, Awaiting, Receiving, Answering, Polls

LEMMA RequestArrivesFollows ==
  ASSUME IInv, RequestArrives \/ ClientGone
  PROVE  ClientMoves(SeenOf(ctx), SeenOf(ctx'))
<1>1. ctx.handling_step \notin Ended /\ Reading(ctx)
  BY DEF RequestArrives, ClientGone, ClientPolled, ReadingRequest, Reading
<1>2. Live(ctx) /\ Connecting(ctx)
  BY <1>1, Alive DEF Live, Reading, Requesting, Awaiting, Receiving, Answering
<1>3. PICK step \in {"PARSING_REQ_TYPE", "PARSING_REQ_HEADERS"} :
        /\ ctx.handling_step = step
        /\ SeenOf(ctx) = Seen(step, "NOT_CONNECTED", {"POLLIN"}, {}, -1)
  BY <1>1, <1>2 DEF Connecting, Reading, Polls, SeenOf
<1>4. \/ /\ Connecting(ctx')
         /\ ctx'.handling_step = "PARSING_REQ_TYPE" => step = "PARSING_REQ_TYPE"
      \/ Dropped(ctx, ctx')
  BY <1>3, RequestArrivesInv, DestroyingInv
<1>5. CASE Dropped(ctx, ctx')
  BY <1>1, <1>2, <1>3, <1>5, SeenConnectingDropped, RequestRun
<1>6. CASE /\ Connecting(ctx')
           /\ ctx'.handling_step = "PARSING_REQ_TYPE" => step = "PARSING_REQ_TYPE"
  <2>1. SeenOf(ctx') \in
          {Seen("PARSING_REQ_TYPE", "NOT_CONNECTED", {"POLLIN"}, {}, -1),
           Seen("PARSING_REQ_HEADERS", "NOT_CONNECTED", {"POLLIN"}, {}, -1),
           Seen("CONNECT_STEP", "CONNECTED", {"POLLIN"}, {}, 1),
           Seen("CONNECT_STEP", "AWAIT_CONNECTION", {}, {"POLLOUT"}, 1)}
    BY <1>6, SeenPart
  <2>2. SeenOf(ctx').handling_step = ctx'.handling_step
    BY DEF SeenOf, Seen
  <2>3. SeenOf(ctx') = Seen("PARSING_REQ_TYPE", "NOT_CONNECTED", {"POLLIN"}, {}, -1) =>
          SeenOf(ctx') = SeenOf(ctx)
    <3>1. Seen("PARSING_REQ_TYPE", "NOT_CONNECTED", {"POLLIN"}, {}, -1).handling_step
            = "PARSING_REQ_TYPE"
      BY DEF Seen
    <3>2. QED
      BY <1>3, <1>6, <2>2, <3>1
  <2>4. QED
    BY <1>3, <2>1, <2>3, RequestRun
<1>7. QED
  BY <1>4, <1>5, <1>6

LEMMA ConnectFollows ==
  ASSUME IInv, ClientStirs \/ ConnectEnds
  PROVE  ClientMoves(SeenOf(ctx), SeenOf(ctx')) \/ ServerMoves(SeenOf(ctx), SeenOf(ctx'))
<1>1. /\ Live(ctx) /\ ctx.handling_step = "CONNECT_STEP"
      /\ \/ Requesting(ctx')
         \/ ctx.connection_state = "AWAIT_CONNECTION" /\ Dropped(ctx, ctx')
  BY ConnectingInv
<1>2. Connecting(ctx) /\ ~ Reading(ctx)
  BY <1>1 DEF Live, Requesting, Awaiting, Receiving, Answering, Reading
<1>3. \/ /\ ctx.connection_state = "CONNECTED"
         /\ SeenOf(ctx) = Seen("CONNECT_STEP", "CONNECTED", {"POLLIN"}, {}, 1)
      \/ /\ ctx.connection_state = "AWAIT_CONNECTION"
         /\ SeenOf(ctx) = Seen("CONNECT_STEP", "AWAIT_CONNECTION", {}, {"POLLOUT"}, 1)
  BY <1>1, <1>2 DEF Connecting, Polls, SeenOf
<1>4. Requesting(ctx') => SeenOf(ctx') = Seen("SENDING_REQ", "CONNECTED", {}, {"POLLOUT"}, 1)
  BY SeenPart
<1>5. ctx.connection_state = "AWAIT_CONNECTION" /\ Dropped(ctx, ctx') =>
        SeenOf(ctx') = Seen("HANDLED_EXCEPTIONALLY", "AWAIT_CONNECTION", {}, {"POLLOUT"}, 1)
  BY <1>2, SeenConnectingDropped
<1>6. QED
  BY <1>1, <1>3, <1>4, <1>5, ConnectRun

LEMMA SendingReqFollows ==
  ASSUME IInv, SendingReq \/ ServerRefuses
  PROVE  ServerMoves(SeenOf(ctx), SeenOf(ctx'))
<1>1. Requesting(ctx)
  <2>1. /\ ctx.handling_step \notin Ended /\ ctx.handling_step = "SENDING_REQ"
    BY DEF SendingReq, ServerRefuses, ServerPolled
  <2>2. QED
    BY <2>1, Alive DEF Live, Connecting, Awaiting, Receiving, Answering
<1>2. \/ Requesting(ctx')
      \/ Awaiting(ctx') /\ ctx'.handling_step = "PARSING_RESP_CODE"
      \/ Dropped(ctx, ctx')
  BY SendingReqInv, DestroyingInv
<1>3. SeenOf(ctx) = Seen("SENDING_REQ", "CONNECTED", {}, {"POLLOUT"}, 1)
  BY <1>1, SeenPart
<1>4. \/ SeenOf(ctx') = SeenOf(ctx)
      \/ SeenOf(ctx') = Seen("PARSING_RESP_CODE", "CONNECTED", {}, {"POLLIN"}, 1)
      \/ SeenOf(ctx') = Seen("HANDLED_EXCEPTIONALLY", "CONNECTED", {}, {"POLLOUT"}, 1)
  BY <1>1, <1>2, <1>3, SeenPart, SeenPartDropped
<1>5. QED
  BY <1>3, <1>4, SendingReqRun

LEMMA ResponseFollows ==
  ASSUME IInv, ResponseArrives \/ ServerGone
  PROVE  ServerMoves(SeenOf(ctx), SeenOf(ctx'))
<1>1. Awaiting(ctx) \/ Receiving(ctx)
  BY PolledPart DEF ResponseArrives, ServerGone, ServerPolled
<1>2. Onwards(ctx, ctx') \/ Dropped(ctx, ctx')
  BY ResponseArrivesInv, DestroyingInv
<1>3. CASE Awaiting(ctx)
  <2>1. PICK step \in {"PARSING_RESP_CODE", "PARSING_RESP_HEADERS"} :
          ctx.handling_step = step /\ SeenOf(ctx) = Seen(step, "CONNECTED", {}, {"POLLIN"}, 1)
    BY <1>3, SeenPart DEF Awaiting
  <2>2. \/ Awaiting(ctx') /\ ctx'.handling_step \in {step, "PARSING_RESP_HEADERS"}
        \/ Receiving(ctx') \/ Answering(ctx') \/ Dropped(ctx, ctx')
    BY <1>2, <2>1 DEF Onwards
  <2>3. \/ SeenOf(ctx') = SeenOf(ctx)
        \/ SeenOf(ctx') = Seen("PARSING_RESP_HEADERS", "CONNECTED", {}, {"POLLIN"}, 1)
        \/ SeenOf(ctx') = Seen("PARSING_RESP_BODY", "CONNECTED", {"POLLOUT"}, {"POLLIN"}, 1)
        \/ SeenOf(ctx') = Seen("SENDING_RESP", "CONNECTED", {"POLLOUT"}, {}, 1)
        \/ SeenOf(ctx') = Seen("HANDLED_EXCEPTIONALLY", "CONNECTED", {}, {"POLLIN"}, 1)
    BY <1>3, <2>1, <2>2, SeenPart, SeenPartDropped
  <2>4. QED
    BY <2>1, <2>3, AwaitingRun
<1>4. CASE Receiving(ctx)
  <2>1. SeenOf(ctx) = Seen("PARSING_RESP_BODY", "CONNECTED", {"POLLOUT"}, {"POLLIN"}, 1)
    BY <1>4, SeenPart
  <2>2. Receiving(ctx') \/ Answering(ctx') \/ Dropped(ctx, ctx')
    BY <1>2, <1>4 DEF Onwards, Awaiting, Receiving
  <2>3. \/ SeenOf(ctx') = SeenOf(ctx)
        \/ SeenOf(ctx') = Seen("SENDING_RESP", "CONNECTED", {"POLLOUT"}, {}, 1)
        \/ SeenOf(ctx') = Seen("HANDLED_EXCEPTIONALLY", "CONNECTED", {"POLLOUT"}, {"POLLIN"}, 1)
    BY <1>4, <2>1, <2>2, SeenPart, SeenPartDropped
  <2>4. QED
    BY <2>1, <2>3, ReceivingRun
<1>5. QED
  BY <1>1, <1>3, <1>4

LEMMA SendingRespFollows ==
  ASSUME IInv, SendingResp \/ ClientRefuses
  PROVE  ClientMoves(SeenOf(ctx), SeenOf(ctx'))
<1>1. /\ Receiving(ctx) \/ Answering(ctx)
      /\ \/ (Receiving(ctx) => Receiving(ctx')) /\ (Answering(ctx) => Answering(ctx'))
         \/ Answering(ctx) /\ Finished(ctx, ctx')
         \/ Dropped(ctx, ctx')
  BY SendingRespInv, ClientRefusesInv
<1>2. CASE Receiving(ctx)
  <2>1. SeenOf(ctx) = Seen("PARSING_RESP_BODY", "CONNECTED", {"POLLOUT"}, {"POLLIN"}, 1)
    BY <1>2, SeenPart
  <2>2. Receiving(ctx') \/ Dropped(ctx, ctx')
    BY <1>1, <1>2 DEF Receiving, Answering
  <2>3. \/ SeenOf(ctx') = SeenOf(ctx)
        \/ SeenOf(ctx') = Seen("HANDLED_EXCEPTIONALLY", "CONNECTED", {"POLLOUT"}, {"POLLIN"}, 1)
    BY <1>2, <2>1, <2>2, SeenPart, SeenPartDropped
  <2>4. QED
    BY <2>1, <2>3, ReceivingRun
<1>3. CASE Answering(ctx)
  <2>1. SeenOf(ctx) = Seen("SENDING_RESP", "CONNECTED", {"POLLOUT"}, {}, 1)
    BY <1>3, SeenPart
  <2>2. Answering(ctx') \/ Dropped(ctx, ctx') \/ Finished(ctx, ctx')
    BY <1>1, <1>3
  <2>3. Finished(ctx, ctx') => SeenOf(ctx') = Seen("HANDLED", "CONNECTED", {"POLLOUT"}, {}, 1)
    BY <1>3 DEF Finished, Answering, Polls, SeenOf
  <2>4. \/ SeenOf(ctx') = SeenOf(ctx)
        \/ SeenOf(ctx') = Seen("HANDLED", "CONNECTED", {"POLLOUT"}, {}, 1)
        \/ SeenOf(ctx') = Seen("HANDLED_EXCEPTIONALLY", "CONNECTED", {"POLLOUT"}, {}, 1)
    BY <1>3, <2>1, <2>2, <2>3, SeenPart, SeenPartDropped
  <2>5. QED
    BY <2>1, <2>4, AnsweringRun
<1>4. QED
  BY <1>1, <1>2, <1>3

LEMMA MovesFollow ==
  /\ ClientMoves(View, View') => Lifecycle!LifecycleNext
  /\ ServerMoves(View, View') => Lifecycle!LifecycleNext
<1>1. Lifecycle!Ended = Ended
  BY DEF Lifecycle!Ended, Ended
<1>2. QED
  BY <1>1 DEF ClientMoves, ServerMoves, Lifecycle!LifecycleNext, Lifecycle!ClientReady,
              Lifecycle!ServerReady

(* Every call of handle is one step of the lifecycle the main loop counts  *)
(* on, for a descriptor and an event the present step expects: that is     *)
(* what ProxyLoop assumes of the calls it makes.                           *)
THEOREM LifecycleFollowed == Spec => FollowsLifecycle
<1>1. ASSUME Init PROVE Lifecycle!LifecycleInit
  BY <1>1 DEF Init, FreshContext, View, Lifecycle!LifecycleInit, Lifecycle!InitContext
<1>2. ASSUME IInv, [Next]_vars PROVE [Lifecycle!LifecycleNext]_View
  <2>1. View = SeenOf(ctx) /\ View' = SeenOf(ctx')
    BY DEF View, SeenOf, Seen
  <2>2. CASE RequestArrives \/ ClientGone
    BY <1>2, <2>1, <2>2, RequestArrivesFollows, MovesFollow
  <2>3. CASE ClientStirs \/ ConnectEnds
    BY <1>2, <2>1, <2>3, ConnectFollows, MovesFollow
  <2>4. CASE SendingReq \/ ServerRefuses
    BY <1>2, <2>1, <2>4, SendingReqFollows, MovesFollow
  <2>5. CASE ResponseArrives \/ ServerGone
    BY <1>2, <2>1, <2>5, ResponseFollows, MovesFollow
  <2>6. CASE SendingResp \/ ClientRefuses
    BY <1>2, <2>1, <2>6, SendingRespFollows, MovesFollow
  <2>7. CASE Over \/ UNCHANGED vars
    BY <2>7 DEF Over, vars, View
  <2>8. QED
    BY <1>2, <2>2, <2>3, <2>4, <2>5, <2>6, <2>7 DEF Next
<1>3. QED
  BY <1>1, <1>2, InductiveInvariant, PTL
  DEF Spec, FollowsLifecycle, Lifecycle!LifecycleSpec

-----------------------------------------------------------------------------
(* Reading in parts. What the parser finds in the beginning of a stream it *)
(* finds at the same place in the whole of it.                             *)

(* The part of a buffer that has come already does not change. *)
LEMMA PartStays ==
  ASSUME NEW buf \in Text, NEW full \in Text, Begins(buf, full),
         NEW m \in Nat \ {0}, NEW n \in 0 .. Len(buf)
  PROVE  SubSeq(buf, m, n) = SubSeq(full, m, n) /\ SubSeq(buf, m, n) \in Text
<1>1. Len(buf) \in Nat /\ Len(full) \in Nat /\ Len(buf) <= Len(full)
  BY TextFacts DEF Begins
<1>2. \A k \in m .. n : buf[k] \in STRING /\ full[k] \in STRING /\ buf[k] = full[k]
  <2>1. \A k \in m .. n : k \in 1 .. Len(buf) /\ k \in 1 .. Len(full)
    BY <1>1
  <2>2. QED
    BY <2>1, TextFacts DEF Begins
<1>3. PICK s, t : s = SubSeq(buf, m, n) /\ t = SubSeq(full, m, n)
  OBVIOUS
<1>4. PICK len : len = IF m <= n THEN n - m + 1 ELSE 0
  OBVIOUS
<1>5. m \in Int /\ n \in Int /\ (m <= n \/ n - m + 1 <= 0) /\ len \in Nat
  BY <1>1, <1>4
<1>6. /\ s \in Seq(STRING) /\ Len(s) = len
      /\ \A k \in 1 .. n - m + 1 : s[k] = buf[m + k - 1]
  BY <1>2, <1>3, <1>4, <1>5, SubSeqProperties
<1>7. /\ t \in Seq(STRING) /\ Len(t) = len
      /\ \A k \in 1 .. n - m + 1 : t[k] = full[m + k - 1]
  BY <1>2, <1>3, <1>4, <1>5, SubSeqProperties
<1>8. \A k \in 1 .. len : k \in 1 .. n - m + 1 /\ m + k - 1 \in m .. n
  BY <1>1, <1>4
<1>9. \A k \in 1 .. len : s[k] = t[k]
  BY <1>2, <1>6, <1>7, <1>8
<1>10. s = t
  BY <1>6, <1>7, <1>9, SeqEqual
<1>11. QED
  BY <1>3, <1>6, <1>10 DEF Text

LEMMA BetweenStays ==
  ASSUME NEW buf \in Text, NEW full \in Text, Begins(buf, full),
         NEW first \in Nat, NEW last \in 1 .. Len(buf)
  PROVE  Between(buf, first, last) = Between(full, first, last)
         /\ Between(buf, first, last) \in Text
<1>1. first + 1 \in Nat \ {0} /\ last - 1 \in 0 .. Len(buf)
  BY TextFacts
<1>2. QED
  BY <1>1, PartStays DEF Between

(* strstr finds in the beginning what it finds in the whole, unless that   *)
(* is still to come.                                                       *)
LEMMA FoundAgain ==
  ASSUME NEW buf \in Text, NEW full \in Text, Begins(buf, full),
         NEW pos \in Nat, NEW pattern, Len(pattern) \in Nat \ {0}
  PROVE  LET found == Strstr(full, pos, pattern)
         IN /\ found \in Nat
            /\ Strstr(buf, pos, pattern)
                 = IF found <= Len(buf) - Len(pattern) + 1 THEN found ELSE 0
<1>1. PICK there, here : there = Strstr(full, pos, pattern) /\ here = Strstr(buf, pos, pattern)
  OBVIOUS
<1>2. PICK len \in Nat \ {0} : len = Len(pattern)
  OBVIOUS
<1>3. Len(buf) \in Nat /\ Len(full) \in Nat /\ Len(buf) <= Len(full)
  BY TextFacts DEF Begins
<1>4. PICK last, end : last = Len(buf) - len + 1 /\ end = Len(full) - len + 1
  OBVIOUS
<1>5. last \in Int /\ end \in Int /\ last <= end
  BY <1>2, <1>3, <1>4
<1>6. \/ there = 0 /\ \A k \in pos + 1 .. end : ~ StandsAt(full, pattern, k)
      \/ /\ there \in pos + 1 .. end /\ StandsAt(full, pattern, there)
         /\ \A k \in pos + 1 .. end : StandsAt(full, pattern, k) => there <= k
  BY <1>1, <1>2, <1>4, StrstrFindsFirst
<1>7. \/ here = 0 /\ \A k \in pos + 1 .. last : ~ StandsAt(buf, pattern, k)
      \/ /\ here \in pos + 1 .. last /\ StandsAt(buf, pattern, here)
         /\ \A k \in pos + 1 .. last : StandsAt(buf, pattern, k) => here <= k
  BY <1>1, <1>2, <1>4, StrstrFindsFirst
<1>8. ASSUME NEW k \in pos + 1 .. last
      PROVE  StandsAt(buf, pattern, k) <=> StandsAt(full, pattern, k)
  <2>1. k \in Nat \ {0} /\ k + len - 1 \in 0 .. Len(buf)
    BY <1>2, <1>3, <1>4
  <2>2. SubSeq(buf, k, k + len - 1) = SubSeq(full, k, k + len - 1)
    BY <2>1, PartStays
  <2>3. QED
    BY <1>2, <2>2 DEF StandsAt
<1>9. there \in Nat
  BY <1>5, <1>6
<1>10. here = IF there <= last THEN there ELSE 0
  <2>1. CASE there = 0
    <3>1. \A k \in pos + 1 .. last : k \in pos + 1 .. end
      BY <1>5
    <3>2. here = 0
      BY <1>6, <1>7, <1>8, <2>1, <3>1
    <3>3. QED
      BY <2>1, <3>2
  <2>2. CASE there # 0 /\ there <= last
    <3>1. there \in pos + 1 .. last /\ StandsAt(buf, pattern, there)
      BY <1>5, <1>6, <1>8, <2>2
    <3>2. here \in pos + 1 .. last /\ here <= there /\ StandsAt(buf, pattern, here)
      BY <1>7, <3>1
    <3>3. here \in pos + 1 .. end /\ there <= here
      BY <1>5, <1>6, <1>8, <2>2, <3>2
    <3>4. here = there
      BY <1>5, <1>9, <3>2, <3>3
    <3>5. QED
      BY <2>2, <3>4
  <2>3. CASE there # 0 /\ ~ (there <= last)
    <3>1. \A k \in pos + 1 .. last : k \in pos + 1 .. end /\ ~ (there <= k)
      BY <1>5, <1>9, <2>3
    <3>2. here = 0
      BY <1>6, <1>7, <1>8, <2>3, <3>1
    <3>3. QED
      BY <2>3, <3>2
  <2>4. QED
    BY <2>1, <2>2, <2>3
<1>11. QED
  BY <1>1, <1>2, <1>4, <1>9, <1>10

(* Each kind of line, once it is whole, is read as in the whole stream. *)
LEMMA LineAgain ==
  ASSUME NEW buf \in Text, NEW full \in Text, Begins(buf, full), NEW pos \in 0 .. Len(buf)
  PROVE  LET crlf == Strstr(buf, pos, CrLf)
         IN crlf # 0 => /\ crlf \in pos + 1 .. Len(buf) - 1 /\ Strstr(full, pos, CrLf) = crlf
                        /\ \A mark : Len(mark) = 1 =>
                             LET here == Strstr(buf, pos, mark)
                                 there == Strstr(full, pos, mark)
                             IN /\ here \in Nat /\ there \in Nat
                                /\ (here # 0 \/ (there # 0 /\ there <= crlf)) => here = there
<1>1. PICK crlf : crlf = Strstr(buf, pos, CrLf)
  OBVIOUS
<1>2. Len(CrLf) = 2 /\ Len(CrLf) \in Nat \ {0} /\ pos \in Nat /\ Len(buf) \in Nat
  BY TextFacts DEF CrLf
<1>3. SUFFICES ASSUME crlf # 0
      PROVE  /\ crlf \in pos + 1 .. Len(buf) - 1 /\ Strstr(full, pos, CrLf) = crlf
             /\ \A mark : Len(mark) = 1 =>
                  LET here == Strstr(buf, pos, mark)
                      there == Strstr(full, pos, mark)
                  IN /\ here \in Nat /\ there \in Nat
                     /\ (here # 0 \/ (there # 0 /\ there <= crlf)) => here = there
  BY <1>1
<1>4. crlf \in pos + 1 .. Len(buf) - 1
  BY <1>1, <1>3, FindsLineEnd
<1>5. Strstr(full, pos, CrLf) = crlf
  <2>1. Strstr(buf, pos, CrLf) = IF Strstr(full, pos, CrLf) <= Len(buf) - Len(CrLf) + 1
                                 THEN Strstr(full, pos, CrLf) ELSE 0
    BY <1>2, FoundAgain
  <2>2. QED
    BY <1>1, <1>3, <2>1
<1>6. ASSUME NEW mark, Len(mark) = 1
      PROVE  LET here == Strstr(buf, pos, mark)
                 there == Strstr(full, pos, mark)
             IN /\ here \in Nat /\ there \in Nat
                /\ (here # 0 \/ (there # 0 /\ there <= crlf)) => here = there
  <2>1. PICK here, there : here = Strstr(buf, pos, mark) /\ there = Strstr(full, pos, mark)
    OBVIOUS
  <2>2. there \in Nat /\ here = IF there <= Len(buf) - 1 + 1 THEN there ELSE 0
    <3>1. Len(mark) \in Nat \ {0}
      BY <1>6
    <3>2. QED
      BY <1>2, <1>6, <2>1, <3>1, FoundAgain
  <2>3. QED
    BY <1>2, <1>4, <2>1, <2>2
<1>7. QED
  BY <1>4, <1>5, <1>6

LEMMA CodeAgain ==
  ASSUME NEW buf \in Text, NEW full \in Text, Begins(buf, full), NEW pos \in 0 .. Len(buf),
         ParseResponseCode(buf, pos).status # "NO_END_OF_LINE"
  PROVE  /\ ParseResponseCode(full, pos).status = ParseResponseCode(buf, pos).status
         /\ ParseResponseCode(full, pos).next = ParseResponseCode(buf, pos).next
<1>1. PICK crlf, ws : crlf = Strstr(buf, pos, CrLf) /\ ws = Strstr(buf, pos, <<" ">>)
  OBVIOUS
<1>2. PICK after : after = Strstr(full, pos, <<" ">>)
  OBVIOUS
<1>3. crlf # 0
  BY <1>1 DEF ParseResponseCode, NoLine
<1>4. /\ crlf \in pos + 1 .. Len(buf) - 1 /\ Strstr(full, pos, CrLf) = crlf
      /\ ws \in Nat /\ after \in Nat /\ (ws # 0 \/ (after # 0 /\ after <= crlf) => ws = after)
  <2>1. Len(<<" ">>) = 1
    OBVIOUS
  <2>2. QED
    BY <1>1, <1>2, <1>3, <2>1, LineAgain
<1>5. crlf \in Nat
  BY <1>4, TextFacts
<1>6. (ws = 0 \/ ws > crlf) <=> (after = 0 \/ after > crlf)
  BY <1>4, <1>5
<1>7. CASE ws = 0 \/ ws > crlf
  BY <1>1, <1>2, <1>3, <1>4, <1>6, <1>7 DEF ParseResponseCode, BadLine
<1>8. CASE ~ (ws = 0 \/ ws > crlf)
  BY <1>1, <1>2, <1>3, <1>4, <1>6, <1>8 DEF ParseResponseCode
<1>9. QED
  BY <1>7, <1>8

HeaderSet == [type : Text, value : Text]
LEMMA HeaderAgain ==
  ASSUME NEW buf \in Text, NEW full \in Text, Begins(buf, full), NEW pos \in 0 .. Len(buf),
         ParseNextHeader(buf, pos).status # "NO_END_OF_LINE"
  PROVE  /\ ParseNextHeader(full, pos) = ParseNextHeader(buf, pos)
         /\ ParseNextHeader(buf, pos).status = "OK" =>
              ParseNextHeader(buf, pos).header \in HeaderSet
<1>1. PICK crlf, sep : crlf = Strstr(buf, pos, CrLf) /\ sep = Strstr(buf, pos, <<": ">>)
  OBVIOUS
<1>2. PICK after : after = Strstr(full, pos, <<": ">>)
  OBVIOUS
<1>3. crlf # 0
  BY <1>1 DEF ParseNextHeader, NoLine
<1>4. /\ crlf \in pos + 1 .. Len(buf) - 1 /\ Strstr(full, pos, CrLf) = crlf
      /\ sep \in Nat /\ after \in Nat /\ (sep # 0 \/ (after # 0 /\ after <= crlf) => sep = after)
  <2>1. Len(<<": ">>) = 1
    OBVIOUS
  <2>2. QED
    BY <1>1, <1>2, <1>3, <2>1, LineAgain
<1>5. crlf \in Nat /\ pos \in Nat /\ Len(buf) \in Nat
  BY <1>4, TextFacts
<1>6. (sep = 0 \/ sep > crlf) <=> (after = 0 \/ after > crlf)
  BY <1>4, <1>5
<1>7. CASE crlf = pos + 1
  BY <1>1, <1>3, <1>4, <1>7 DEF ParseNextHeader
<1>8. CASE crlf # pos + 1 /\ (sep = 0 \/ sep > crlf)
  BY <1>1, <1>2, <1>3, <1>4, <1>6, <1>8 DEF ParseNextHeader, BadLine
<1>9. CASE crlf # pos + 1 /\ ~ (sep = 0 \/ sep > crlf)
  <2>1. sep = after /\ sep \in 1 .. Len(buf) /\ crlf \in 1 .. Len(buf) /\ sep \in Nat
    BY <1>4, <1>5, <1>9
  <2>2. /\ Between(buf, pos, sep) = Between(full, pos, sep) /\ Between(buf, pos, sep) \in Text
        /\ Between(buf, sep, crlf) = Between(full, sep, crlf) /\ Between(buf, sep, crlf) \in Text
    BY <1>5, <2>1, BetweenStays
  <2>3. ParseNextHeader(buf, pos) =
          [status |-> "OK", next |-> crlf + 1,
           header |-> [type |-> Between(buf, pos, sep), value |-> Between(buf, sep, crlf)]]
    BY <1>1, <1>3, <1>9 DEF ParseNextHeader
  <2>4. ParseNextHeader(full, pos) =
          [status |-> "OK", next |-> crlf + 1,
           header |-> [type |-> Between(full, pos, sep), value |-> Between(full, sep, crlf)]]
    BY <1>2, <1>3, <1>4, <1>6, <1>9, <2>1 DEF ParseNextHeader
  <2>5. QED
    BY <2>2, <2>3, <2>4 DEF HeaderSet
<1>10. QED
  BY <1>7, <1>8, <1>9

(* The headers are read line by line. *)
LEMMA HeadersOneByOne ==
  ASSUME NEW buf \in Text, NEW pos \in 0 .. Len(buf),
         NEW line, line = ParseNextHeader(buf, pos)
  PROVE  ParseHeaders(buf, pos) =
           IF line.status # "OK"
           THEN [status |-> line.status, next |-> line.next, headers |-> <<>>]
           ELSE [ParseHeaders(buf, line.next) EXCEPT !.headers = <<line.header>> \o @]
<1> DEFINE Defines(f) ==
      f = [at \in 0 .. Len(buf) |->
             LET next == ParseNextHeader(buf, at)
             IN IF next.status # "OK"
                THEN [status |-> next.status, next |-> next.next, headers |-> <<>>]
                ELSE LET rest == f[next.next]
                     IN [rest EXCEPT !.headers = <<next.header>> \o @]]
<1>1. PICK from : from = CHOOSE f : Defines(f)
  OBVIOUS
<1>2. \A at : ParseHeaders(buf, at) = from[at]
  BY <1>1 DEF ParseHeaders
<1>3. Defines(from)
  <2>1. PICK f : ReadsFrom(buf, f, 0)
    BY HeadersExist
  <2>2. Defines(f)
    BY <2>1 DEF ReadsFrom, HeadersFrom
  <2>3. QED
    BY <1>1, <2>2
<1>4. from[pos] = IF line.status # "OK"
                  THEN [status |-> line.status, next |-> line.next, headers |-> <<>>]
                  ELSE [from[line.next] EXCEPT !.headers = <<line.header>> \o @]
  BY <1>3
<1> HIDE DEF Defines
<1>5. QED
  BY <1>2, <1>4

(* Whoever stops for want of a line and reads on from there, when more has *)
(* come, finds what he would have found in one go.                         *)
Joins(first, rest, whole) ==
  /\ whole.status = rest.status /\ whole.next = rest.next
  /\ whole.headers = first.headers \o rest.headers
Resumed(buf, full, pos) ==
  LET first == ParseHeaders(buf, pos)
      whole == ParseHeaders(full, pos)
  IN /\ first.headers \in Seq(HeaderSet)
     /\ first.status = "NO_END_OF_LINE" =>
          /\ ParseNextHeader(buf, first.next).status = "NO_END_OF_LINE"
          /\ ParseHeaders(full, first.next).headers \in Seq(HeaderSet) =>
               Joins(first, ParseHeaders(full, first.next), whole)
     /\ first.status # "NO_END_OF_LINE" => whole = first

LEMMA HeadersResumed ==
  ASSUME NEW buf \in Text, NEW full \in Text, Begins(buf, full), NEW start \in 0 .. Len(buf)
  PROVE  Resumed(buf, full, start)
<1>1. Len(buf) \in Nat /\ Len(full) \in Nat /\ Len(buf) <= Len(full)
  BY TextFacts DEF Begins
<1> DEFINE Wrong == {k \in 0 .. Len(buf) : ~ Resumed(buf, full, Len(buf) - k)}
<1>2. Wrong = {}
  <2> SUFFICES ASSUME Wrong # {} PROVE FALSE
    OBVIOUS
  <2>1. PICK k \in Wrong : \A j \in Wrong : ~ (<<j, k>> \in OpToRel(<, Nat))
    <3>1. Wrong \subseteq Nat
      BY <1>1
    <3> HIDE DEF Wrong
    <3>2. QED
      BY <3>1, NatLessThanWellFounded, WFMin
  <2>2. PICK pos : pos = Len(buf) - k
    OBVIOUS
  <2>3. k \in Nat /\ pos \in 0 .. Len(buf) /\ pos \in 0 .. Len(full)
        /\ ~ Resumed(buf, full, pos)
    BY <1>1, <2>2
  <2>4. PICK line, there : line = ParseNextHeader(buf, pos) /\ there = ParseNextHeader(full, pos)
    OBVIOUS
  <2>5. PICK first, whole : first = ParseHeaders(buf, pos) /\ whole = ParseHeaders(full, pos)
    OBVIOUS
  <2>6. CASE line.status = "OK"
    <3>1. there = line /\ line.header \in HeaderSet
      BY <2>3, <2>4, <2>6, HeaderAgain
    <3>2. PICK later : later = line.next
      OBVIOUS
    <3>3. later \in pos + 2 .. Len(buf)
      BY <2>3, <2>4, <2>6, <3>2, HeaderParsed DEF GoesOn
    <3>4. Len(buf) - later \in 0 .. Len(buf) /\ Len(buf) - later \in Nat
          /\ Len(buf) - later < k /\ Len(buf) - (Len(buf) - later) = later
      BY <1>1, <2>2, <2>3, <3>3
    <3>5. Resumed(buf, full, later)
      <4>1. Len(buf) - later \notin Wrong
        <5> HIDE DEF Wrong
        <5> QED
          BY <2>1, <2>3, <3>4 DEF OpToRel
      <4>2. QED
        BY <3>4, <4>1
    <3>6. later \in 0 .. Len(buf) /\ later \in 0 .. Len(full)
      BY <1>1, <2>3, <3>3
    <3>7. PICK part, rest : part = ParseHeaders(buf, later) /\ rest = ParseHeaders(full, later)
      OBVIOUS
    <3>8. first = [part EXCEPT !.headers = <<line.header>> \o @]
          /\ whole = [rest EXCEPT !.headers = <<line.header>> \o @]
      <4>1. first = [part EXCEPT !.headers = <<line.header>> \o @]
        BY <2>3, <2>4, <2>5, <2>6, <3>2, <3>7, HeadersOneByOne
      <4>2. there.status = "OK" /\ there.next = later /\ there.header = line.header
        BY <2>6, <3>1, <3>2
      <4>3. whole = [rest EXCEPT !.headers = <<there.header>> \o @]
        BY <2>3, <2>4, <2>5, <3>7, <4>2, HeadersOneByOne
      <4>4. QED
        BY <4>1, <4>2, <4>3
    <3>9. DOMAIN part = {"status", "next", "headers"} /\ DOMAIN rest = {"status", "next", "headers"}
      BY <3>6, <3>7, HeadReads DEF HeadRead
    <3>10. /\ first.status = part.status /\ first.next = part.next
           /\ first.headers = <<line.header>> \o part.headers
           /\ whole.status = rest.status /\ whole.next = rest.next
           /\ whole.headers = <<line.header>> \o rest.headers
      BY <3>8, <3>9
    <3>11. <<line.header>> \in Seq(HeaderSet) /\ part.headers \in Seq(HeaderSet)
      <4>1. part.headers \in Seq(HeaderSet)
        BY <3>5, <3>7 DEF Resumed
      <4>2. Append(<<>>, line.header) \in Seq(HeaderSet) /\ <<line.header>> = Append(<<>>, line.header)
        <5>1. <<>> \in Seq(HeaderSet)
          BY EmptySeq
        <5>2. QED
          BY <3>1, <5>1, AppendProperties
      <4>3. QED
        BY <4>1, <4>2
    <3>12. first.headers \in Seq(HeaderSet)
      BY <3>10, <3>11, ConcatProperties
    <3>13. CASE first.status = "NO_END_OF_LINE"
      <4>1. PICK more : more = ParseHeaders(full, first.next)
        OBVIOUS
      <4>2. /\ ParseNextHeader(buf, first.next).status = "NO_END_OF_LINE"
            /\ more.headers \in Seq(HeaderSet) => Joins(part, more, rest)
        BY <3>5, <3>7, <3>10, <3>13, <4>1 DEF Resumed
      <4>3. ASSUME more.headers \in Seq(HeaderSet) PROVE Joins(first, more, whole)
        <5>1. /\ rest.status = more.status /\ rest.next = more.next
              /\ rest.headers = part.headers \o more.headers
          BY <4>2, <4>3 DEF Joins
        <5>2. whole.headers = (<<line.header>> \o part.headers) \o more.headers
          <6>1. PICK own, now, then : /\ own = <<line.header>> /\ now = part.headers
                                      /\ then = more.headers
            OBVIOUS
          <6>2. (own \o now) \o then = own \o (now \o then)
            <7>1. own \in Seq(HeaderSet) /\ now \in Seq(HeaderSet) /\ then \in Seq(HeaderSet)
              BY <3>11, <4>3, <6>1, Zenon
            <7>2. QED
              BY <7>1, ConcatAssociative
          <6>3. rest.headers = now \o then /\ whole.headers = own \o rest.headers
            BY <3>10, <5>1, <6>1, Zenon
          <6>4. QED
            BY <6>1, <6>2, <6>3, Zenon
        <5>3. QED
          BY <3>10, <5>1, <5>2 DEF Joins
      <4>4. QED
        BY <2>3, <2>5, <3>12, <3>13, <4>1, <4>2, <4>3 DEF Resumed
    <3>14. CASE first.status # "NO_END_OF_LINE"
      <4>1. rest = part
        BY <3>5, <3>7, <3>10, <3>14 DEF Resumed
      <4>2. whole = first
        BY <3>8, <4>1
      <4>3. QED
        BY <2>3, <2>5, <3>12, <3>14, <4>2 DEF Resumed
    <3>15. QED
      BY <3>13, <3>14
  <2>7. CASE line.status # "OK"
    <3>1. first = [status |-> line.status, next |-> line.next, headers |-> <<>>]
      BY <2>3, <2>4, <2>5, <2>7, HeadersOneByOne
    <3>2. first.headers = <<>> /\ <<>> \in Seq(HeaderSet)
      BY <3>1, EmptySeq
    <3>3. CASE line.status = "NO_END_OF_LINE"
      <4>1. line.next = pos
        BY <2>3, <2>4, <3>3, HeaderParsed
      <4>2. first.next = pos /\ first.status = "NO_END_OF_LINE"
        BY <3>1, <3>3, <4>1
      <4>3. ASSUME whole.headers \in Seq(HeaderSet) PROVE Joins(first, whole, whole)
        <5>1. whole.headers = <<>> \o whole.headers
          BY <4>3, ConcatEmptySeq
        <5>2. QED
          BY <3>2, <5>1 DEF Joins
      <4>4. QED
        BY <2>3, <2>4, <2>5, <3>2, <3>3, <4>2, <4>3 DEF Resumed
    <3>4. CASE line.status # "NO_END_OF_LINE"
      <4>1. there = line
        BY <2>3, <2>4, <3>4, HeaderAgain
      <4>2. whole = first
        <5>1. there.status # "OK"
          BY <2>7, <4>1
        <5>2. whole = [status |-> there.status, next |-> there.next, headers |-> <<>>]
          BY <2>3, <2>4, <2>5, <5>1, HeadersOneByOne
        <5>3. QED
          BY <3>1, <4>1, <5>2
      <4>3. QED
        BY <2>3, <2>5, <3>1, <3>2, <3>4, <4>2 DEF Resumed
    <3>5. QED
      BY <3>3, <3>4
  <2>8. QED
    BY <2>6, <2>7
<1>3. Len(buf) - start \in 0 .. Len(buf) /\ Len(buf) - (Len(buf) - start) = start
  BY <1>1
<1>4. QED
  BY <1>2, <1>3

(* The loop over the chunks goes turn by turn. *)
LEMMA ChunksTurnByTurn ==
  ASSUME NEW buf \in Text, NEW s \in ChunkPositions
  PROVE  /\ s.chunk_size = -1 /\ LineAt(buf, s) = 0 => ScanChunks(buf, s) = s
         /\ s.chunk_size = -1 /\ LineAt(buf, s) # 0 =>
              ScanChunks(buf, s) = ScanChunks(buf, SizeRead(buf, s))
         /\ s.chunk_size # -1 /\ StopsIn(DataPassed(buf, s)) =>
              ScanChunks(buf, s) = DataPassed(buf, s)
         /\ s.chunk_size # -1 /\ ~ StopsIn(DataPassed(buf, s)) =>
              ScanChunks(buf, s) = ScanChunks(buf, ChunkPassed(DataPassed(buf, s)))
<1> DEFINE Defines(f) ==
      f = [t \in ChunkPositions |->
             LET crlf == Strstr(buf, t.sppos, CrLf)
                 passed == Passable(buf, t)
                 t1 == [t EXCEPT !.sppos = @ + passed, !.chunk_read = @ + passed]
             IN CASE t.chunk_size = -1 /\ crlf = 0 -> t
                  [] t.chunk_size = -1 /\ crlf # 0 ->
                       f[[sppos |-> crlf + 1, chunk_read |-> 0,
                          chunk_size |-> Strtol(Between(buf, t.sppos, crlf)) + 2]]
                  [] OTHER ->
                       IF t1.chunk_read # t1.chunk_size \/ LastChunkPassed(t1) THEN t1
                       ELSE f[[t1 EXCEPT !.chunk_size = -1, !.chunk_read = 0]]]
<1>1. PICK from : from = CHOOSE f : Defines(f)
  OBVIOUS
<1>2. \A t : ScanChunks(buf, t) = from[t]
  BY <1>1 DEF ScanChunks
<1>3. \A f : Defines(f) <=> f = [t \in ChunkPositions |-> ChunksFrom(buf, f, t)]
  BY DEF ChunksFrom, LineAt, SizeRead, DataPassed, ChunkPassed, StopsIn
<1>4. from = [t \in ChunkPositions |-> ChunksFrom(buf, from, t)]
  <2> HIDE DEF Defines
  <2>1. PICK f : Defines(f)
    BY <1>3, ScansExist
  <2>2. QED
    BY <1>1, <1>3, <2>1
<1> HIDE DEF Defines
<1>5. from[s] = ChunksFrom(buf, from, s)
  BY <1>4
<1>6. QED
  BY <1>2, <1>5 DEF ChunksFrom

(* One chunk of a stream, where f gives the end of the body from a later   *)
(* position.                                                               *)
ChunkEnd(stream, pos) ==
  Strstr(stream, pos, CrLf) + 1 + Strtol(Between(stream, pos, Strstr(stream, pos, CrLf))) + 2
EndFrom(stream, f, pos) ==
  IF Strstr(stream, pos, CrLf) = 0 \/ ChunkEnd(stream, pos) > Len(stream) THEN 0
  ELSE IF Strtol(Between(stream, pos, Strstr(stream, pos, CrLf))) = 0
       THEN ChunkEnd(stream, pos) ELSE f[ChunkEnd(stream, pos)]

LEMMA ChunkEndsLater ==
  ASSUME NEW stream \in Text, NEW pos \in 0 .. Len(stream), Strstr(stream, pos, CrLf) # 0
  PROVE  ChunkEnd(stream, pos) \in Nat /\ ChunkEnd(stream, pos) > pos
<1>1. PICK crlf, n : /\ crlf = Strstr(stream, pos, CrLf)
                     /\ n = Strtol(Between(stream, pos, crlf))
  OBVIOUS
<1>2. crlf \in pos + 1 .. Len(stream) - 1 /\ n \in -1 .. 3
  BY <1>1, FindsLineEnd, NumberRead
<1>3. crlf + 1 + n + 2 \in Nat /\ crlf + 1 + n + 2 > pos
  BY <1>2, TextFacts
<1>4. QED
  BY <1>1, <1>3 DEF ChunkEnd

LEMMA OnlyLaterEnds ==
  ASSUME NEW stream \in Text, NEW pos \in 0 .. Len(stream), NEW f, NEW g,
         \A later \in pos + 1 .. Len(stream) : f[later] = g[later]
  PROVE  EndFrom(stream, f, pos) = EndFrom(stream, g, pos)
<1>1. CASE Strstr(stream, pos, CrLf) = 0 \/ ChunkEnd(stream, pos) > Len(stream)
  BY <1>1 DEF EndFrom
<1>2. CASE ~ (Strstr(stream, pos, CrLf) = 0 \/ ChunkEnd(stream, pos) > Len(stream))
  <2>1. PICK later : later = ChunkEnd(stream, pos)
    OBVIOUS
  <2>2. later \in Nat /\ later > pos /\ ~ (later > Len(stream)) /\ Len(stream) \in Nat
    BY <1>2, <2>1, ChunkEndsLater, TextFacts
  <2>3. later \in pos + 1 .. Len(stream)
    BY <2>2
  <2>4. f[later] = g[later]
    BY <2>3
  <2>5. QED
    BY <1>2, <2>1, <2>4 DEF EndFrom
<1>3. QED
  BY <1>1, <1>2

EndsFrom(stream, f, start) == f = [pos \in start .. Len(stream) |-> EndFrom(stream, f, pos)]
LEMMA EndsExist ==
  ASSUME NEW stream \in Text
  PROVE  \E f : EndsFrom(stream, f, 0)
<1>1. Len(stream) \in Nat
  BY TextFacts
<1> DEFINE Missing == {k \in 0 .. Len(stream) + 1 :
                         ~ \E f : EndsFrom(stream, f, Len(stream) + 1 - k)}
<1>2. SUFFICES ASSUME Missing # {} PROVE FALSE
  <2>1. Len(stream) + 1 \notin Missing
    OBVIOUS
  <2>2. QED
    BY <1>1, <2>1
<1>3. PICK k \in Missing : \A j \in Missing : ~ (<<j, k>> \in OpToRel(<, Nat))
  <2>1. Missing \subseteq Nat
    BY <1>1
  <2> HIDE DEF Missing
  <2>2. QED
    BY <1>2, <2>1, NatLessThanWellFounded, WFMin
<1>4. PICK first : first = Len(stream) + 1 - k
  OBVIOUS
<1>5. /\ k \in Nat /\ k <= Len(stream) + 1 /\ first \in 0 .. Len(stream) + 1
      /\ ~ \E f : EndsFrom(stream, f, first)
  BY <1>1, <1>4
<1>6. k # 0
  <2> SUFFICES ASSUME k = 0 PROVE FALSE
    OBVIOUS
  <2>1. first .. Len(stream) = {}
    BY <1>1, <1>4
  <2>2. PICK f : f = [pos \in {} |-> 0]
    OBVIOUS
  <2>3. f = [pos \in {} |-> EndFrom(stream, f, pos)]
    BY <2>2
  <2>4. QED
    BY <1>5, <2>1, <2>3 DEF EndsFrom
<1>7. PICK g : EndsFrom(stream, g, first + 1)
  <2>1. /\ k - 1 \in 0 .. Len(stream) + 1 /\ k - 1 \in Nat /\ k - 1 < k
        /\ Len(stream) + 1 - (k - 1) = first + 1
    BY <1>1, <1>4, <1>5, <1>6
  <2>2. k - 1 \notin Missing
    <3> HIDE DEF Missing
    <3> QED
      BY <1>3, <1>5, <2>1 DEF OpToRel
  <2>3. QED
    BY <2>1, <2>2
<1>8. PICK f : f = [pos \in first .. Len(stream) |->
                     IF pos = first THEN EndFrom(stream, g, pos) ELSE g[pos]]
  OBVIOUS
<1>9. first \in 0 .. Len(stream)
  BY <1>1, <1>4, <1>5, <1>6
<1>10. ASSUME NEW pos \in first .. Len(stream) PROVE f[pos] = EndFrom(stream, f, pos)
  <2>1. pos \in 0 .. Len(stream)
    BY <1>1, <1>9
  <2>2. ASSUME NEW later \in pos + 1 .. Len(stream) PROVE f[later] = g[later]
    <3>1. later \in first .. Len(stream) /\ later # first
      BY <1>1, <1>9
    <3>2. QED
      BY <1>8, <3>1
  <2>3. EndFrom(stream, f, pos) = EndFrom(stream, g, pos)
    BY <2>1, <2>2, OnlyLaterEnds
  <2>4. f[pos] = EndFrom(stream, g, pos)
    <3>1. CASE pos = first
      BY <1>8, <3>1
    <3>2. CASE pos # first
      <4>1. pos \in first + 1 .. Len(stream)
        BY <1>1, <1>9, <3>2
      <4>2. g[pos] = EndFrom(stream, g, pos)
        BY <1>7, <4>1 DEF EndsFrom
      <4>3. QED
        BY <1>8, <3>2, <4>2
    <3>3. QED
      BY <3>1, <3>2
  <2>5. QED
    BY <2>3, <2>4
<1>11. EndsFrom(stream, f, first)
  BY <1>8, <1>10 DEF EndsFrom
<1>12. QED
  BY <1>5, <1>11

LEMMA ChunkByChunk ==
  ASSUME NEW stream \in Text, NEW pos \in 0 .. Len(stream)
  PROVE  EndOfChunks(stream, pos) =
           IF Strstr(stream, pos, CrLf) = 0 \/ ChunkEnd(stream, pos) > Len(stream) THEN 0
           ELSE IF Strtol(Between(stream, pos, Strstr(stream, pos, CrLf))) = 0
                THEN ChunkEnd(stream, pos)
                ELSE EndOfChunks(stream, ChunkEnd(stream, pos))
<1> DEFINE Defines(f) ==
      f = [at \in 0 .. Len(stream) |->
             LET crlf == Strstr(stream, at, CrLf)
                 size == Strtol(Between(stream, at, crlf))
                 next == crlf + 1 + size + 2
             IN IF crlf = 0 \/ next > Len(stream) THEN 0
                ELSE IF size = 0 THEN next ELSE f[next]]
<1>1. PICK from : from = CHOOSE f : Defines(f)
  OBVIOUS
<1>2. \A at : EndOfChunks(stream, at) = from[at]
  BY <1>1 DEF EndOfChunks
<1>3. EndsFrom(stream, from, 0)
  <2>1. \A f : Defines(f) <=> EndsFrom(stream, f, 0)
    BY DEF EndsFrom, EndFrom, ChunkEnd
  <2> HIDE DEF Defines
  <2>2. PICK f : Defines(f)
    BY <2>1, EndsExist
  <2>3. QED
    BY <1>1, <2>1, <2>2
<1>4. from[pos] = EndFrom(stream, from, pos)
  BY <1>3 DEF EndsFrom
<1> HIDE DEF Defines
<1>5. QED
  BY <1>2, <1>4 DEF EndFrom

(* Where a body in chunks ends, seen from a position of the loop: at a     *)
(* size line, or with some of a chunk's data still ahead.                  *)
DataEnd(s) == s.sppos + (s.chunk_size - s.chunk_read)
RestEnds(stream, s) ==
  IF s.chunk_size = -1 THEN EndOfChunks(stream, s.sppos)
  ELSE IF DataEnd(s) > Len(stream) THEN 0
  ELSE IF s.chunk_size = 2 THEN DataEnd(s)
  ELSE EndOfChunks(stream, DataEnd(s))

(* The end stays where it is from turn to turn. *)
LEMMA EndBehindSize ==
  ASSUME NEW buf \in Text, NEW full \in Text, Begins(buf, full),
         NEW s, Inside(buf, s), s.chunk_size = -1, LineAt(buf, s) # 0
  PROVE  RestEnds(full, SizeRead(buf, s)) = RestEnds(full, s)
<1>1. PICK pos, crlf, n : /\ pos = s.sppos /\ crlf = LineAt(buf, s)
                          /\ n = Strtol(Between(buf, pos, crlf))
  OBVIOUS
<1>2. /\ Len(buf) \in Nat /\ Len(full) \in Nat /\ Len(buf) <= Len(full)
      /\ pos \in 0 .. Len(buf) /\ pos \in 0 .. Len(full) /\ n \in -1 .. 3
  <2>1. pos \in Nat /\ pos <= Len(buf)
    BY <1>1 DEF Inside, ChunkPositions
  <2>2. Len(buf) \in Nat /\ Len(full) \in Nat /\ Len(buf) <= Len(full)
    BY TextFacts DEF Begins
  <2>3. QED
    BY <1>1, <2>1, <2>2, NumberRead
<1>3. crlf \in pos + 1 .. Len(buf) - 1 /\ Strstr(full, pos, CrLf) = crlf
  BY <1>1, <1>2, LineAgain DEF LineAt
<1>4. crlf \in 1 .. Len(buf) /\ pos \in Nat /\ crlf \in Nat
  BY <1>2, <1>3
<1>5. Between(buf, pos, crlf) = Between(full, pos, crlf)
  BY <1>4, BetweenStays
<1>6. PICK t : t = SizeRead(buf, s)
  OBVIOUS
<1>7. /\ t.sppos = crlf + 1 /\ t.chunk_read = 0 /\ t.chunk_size = n + 2
      /\ n + 2 # -1 /\ (n + 2 = 2 <=> n = 0)
  BY <1>1, <1>2, <1>6 DEF SizeRead
<1>8. PICK next : next = crlf + 1 + n + 2
  OBVIOUS
<1>9. DataEnd(t) = next /\ ChunkEnd(full, pos) = next
  <2>1. crlf + 1 + (n + 2 - 0) = crlf + 1 + n + 2
    BY <1>2, <1>4
  <2>2. DataEnd(t) = next
    <3>1. DataEnd(t) = crlf + 1 + (n + 2 - 0)
      BY <1>2, <1>4, <1>7 DEF DataEnd
    <3>2. QED
      BY <1>8, <2>1, <3>1
  <2>3. Strtol(Between(full, pos, crlf)) = n
    BY <1>1, <1>5
  <2>4. ChunkEnd(full, pos) = next
    BY <1>3, <1>8, <2>3 DEF ChunkEnd
  <2>5. QED
    BY <2>2, <2>4
<1>10. RestEnds(full, t) = IF next > Len(full) THEN 0
                           ELSE IF n = 0 THEN next ELSE EndOfChunks(full, next)
  BY <1>7, <1>9 DEF RestEnds
<1>11. EndOfChunks(full, pos) = IF next > Len(full) THEN 0
                                ELSE IF n = 0 THEN next ELSE EndOfChunks(full, next)
  <2>1. Strtol(Between(full, pos, Strstr(full, pos, CrLf))) = n /\ Strstr(full, pos, CrLf) # 0
    BY <1>1, <1>3, <1>4, <1>5
  <2>2. QED
    BY <1>2, <1>9, <2>1, ChunkByChunk
<1>12. QED
  BY <1>1, <1>6, <1>10, <1>11 DEF RestEnds

LEMMA EndBehindData ==
  ASSUME NEW buf \in Text, NEW full \in Text, Begins(buf, full),
         NEW s, Inside(buf, s), s.chunk_size # -1, NEW t, t = DataPassed(buf, s)
  PROVE  /\ RestEnds(full, t) = RestEnds(full, s)
         /\ LastChunkPassed(t) => RestEnds(full, t) = t.sppos
         /\ StopsIn(t) /\ ~ LastChunkPassed(t) /\ Len(buf) = Len(full) => RestEnds(full, t) = 0
         /\ ~ StopsIn(t) => RestEnds(full, ChunkPassed(t)) = RestEnds(full, t)
<1>1. /\ Len(buf) \in Nat /\ Len(full) \in Nat /\ Len(buf) <= Len(full)
      /\ s.sppos \in Nat /\ s.sppos <= Len(buf) /\ s.chunk_size \in Int /\ s.chunk_read \in Int
      /\ s.chunk_read \in 0 .. s.chunk_size
      /\ s \in [sppos : Nat, chunk_size : Int, chunk_read : Int]
  BY TextFacts DEF Begins, Inside, ChunkPositions
<1>2. PICK a, b, n : /\ a = s.chunk_size - s.chunk_read /\ b = Len(buf) - s.sppos
                     /\ n = Passable(buf, s)
  OBVIOUS
<1>3. a \in Nat /\ b \in Nat /\ n = IF a <= b THEN a ELSE b
  <2>1. a \in Int /\ b \in Int /\ a \in Nat /\ b \in Nat
    BY <1>1, <1>2
  <2>2. QED
    BY <1>2, <2>1, LesserOfTwo DEF Passable
<1>4. t = [s EXCEPT !.sppos = s.sppos + n, !.chunk_read = s.chunk_read + n]
  BY <1>2 DEF DataPassed
<1>5. /\ t.sppos = s.sppos + n /\ t.chunk_size = s.chunk_size
      /\ t.chunk_read = s.chunk_read + n
      /\ DOMAIN t = {"sppos", "chunk_size", "chunk_read"}
  BY <1>1, <1>4
<1>6. /\ DataEnd(s) \in Nat /\ DataEnd(t) = DataEnd(s) /\ DataEnd(s) = s.sppos + a
      /\ t.chunk_read = t.chunk_size <=> n = a
      /\ n = a => DataEnd(t) = t.sppos /\ t.sppos <= Len(full)
      /\ n # a => DataEnd(t) > Len(buf)
  <2>1. PICK p, q, r : p = s.sppos /\ q = s.chunk_size /\ r = s.chunk_read
    OBVIOUS
  <2>2. /\ p \in Nat /\ q \in Int /\ r \in Int /\ a = q - r /\ b = Len(buf) - p
        /\ DataEnd(s) = p + (q - r) /\ DataEnd(t) = p + n + (q - (r + n))
        /\ t.chunk_read = r + n /\ t.chunk_size = q /\ t.sppos = p + n
    BY <1>1, <1>2, <1>5, <2>1 DEF DataEnd
  <2>3. p + n + (q - (r + n)) = p + (q - r) /\ p + (q - r) = p + a /\ p + a \in Nat
    <3>1. p \in Nat /\ q \in Int /\ r \in Int /\ n \in Int /\ a \in Nat /\ a = q - r
      BY <1>3, <2>2
    <3>2. QED
      BY <3>1
  <2>4. r + n = q <=> n = a
    BY <1>3, <2>2
  <2>5. n = a => p + a = p + n /\ p + n <= Len(full)
    BY <1>1, <1>3, <2>2
  <2>6. n # a => p + a > Len(buf)
    BY <1>1, <1>3, <2>2
  <2>7. /\ DataEnd(s) = p + a /\ DataEnd(t) = p + a /\ p + a \in Nat
        /\ t.sppos = p + n /\ s.sppos = p
    BY <2>1, <2>2, <2>3
  <2>8. t.chunk_read = t.chunk_size <=> n = a
    BY <2>2, <2>4
  <2>9. DataEnd(s) \in Nat /\ DataEnd(t) = DataEnd(s) /\ DataEnd(s) = s.sppos + a
    BY <2>7
  <2>10. n = a => DataEnd(t) = t.sppos /\ t.sppos <= Len(full)
    BY <2>5, <2>7
  <2>11. n # a => DataEnd(t) > Len(buf)
    BY <2>6, <2>7
  <2>12. QED
    BY <2>8, <2>9, <2>10, <2>11
<1>7. RestEnds(full, t) = RestEnds(full, s)
  BY <1>5, <1>6 DEF RestEnds
<1>8. ASSUME n = a
      PROVE  RestEnds(full, t) = IF t.chunk_size = 2 THEN t.sppos ELSE EndOfChunks(full, t.sppos)
  <2>1. ~ (DataEnd(t) > Len(full))
    BY <1>1, <1>6, <1>8
  <2>2. QED
    BY <1>5, <1>6, <1>8, <2>1 DEF RestEnds
<1>9. ASSUME LastChunkPassed(t) PROVE RestEnds(full, t) = t.sppos
  BY <1>6, <1>8, <1>9 DEF LastChunkPassed
<1>10. ASSUME StopsIn(t), ~ LastChunkPassed(t), Len(buf) = Len(full)
       PROVE  RestEnds(full, t) = 0
  <2>1. n # a
    BY <1>6, <1>10 DEF StopsIn
  <2>2. QED
    BY <1>5, <1>6, <1>10, <2>1 DEF RestEnds
<1>11. ASSUME ~ StopsIn(t) PROVE RestEnds(full, ChunkPassed(t)) = RestEnds(full, t)
  <2>1. n = a /\ t.chunk_size # 2
    BY <1>6, <1>11 DEF StopsIn, LastChunkPassed
  <2>2. ChunkPassed(t).chunk_size = -1 /\ ChunkPassed(t).sppos = t.sppos
    BY <1>5 DEF ChunkPassed
  <2>3. RestEnds(full, ChunkPassed(t)) = EndOfChunks(full, t.sppos)
    BY <2>2 DEF RestEnds
  <2>4. QED
    BY <1>8, <2>1, <2>3
<1>12. QED
  BY <1>7, <1>9, <1>10, <1>11

(* So the loop may stop anywhere for want of data and go on later: it      *)
(* stops at the end of the body if it has come, and when all has come that *)
(* will, and it still wants more, the body has no end.                     *)
ScanResumed(buf, full, s) ==
  LET t == ScanChunks(buf, s)
  IN /\ RestEnds(full, t) = RestEnds(full, s)
     /\ LastChunkPassed(t) => RestEnds(full, t) = t.sppos
     /\ ~ LastChunkPassed(t) /\ Len(buf) = Len(full) => RestEnds(full, t) = 0

LEMMA ChunksResumed ==
  ASSUME NEW buf \in Text, NEW full \in Text, Begins(buf, full), NEW start, Inside(buf, start)
  PROVE  ScanResumed(buf, full, start)
<1> DEFINE Wrong == {k \in Nat : \E s : /\ Inside(buf, s) /\ TurnsLeft(buf, s) = k
                                        /\ ~ ScanResumed(buf, full, s)}
<1>1. \A s : Inside(buf, s) => s \in ChunkPositions /\ TurnsLeft(buf, s) \in Nat
  <2>1. Len(buf) \in Nat
    BY TextFacts
  <2>2. \A s \in ChunkPositions : TurnsLeft(buf, s) \in Nat
    BY <2>1, TurnsCounted
  <2>3. QED
    BY <2>2 DEF Inside
<1>2. Wrong = {}
  <2> SUFFICES ASSUME Wrong # {} PROVE FALSE
    OBVIOUS
  <2>1. PICK k \in Wrong : \A j \in Wrong : ~ (<<j, k>> \in OpToRel(<, Nat))
    <3>1. Wrong \subseteq Nat
      OBVIOUS
    <3> HIDE DEF Wrong
    <3>2. QED
      BY <3>1, NatLessThanWellFounded, WFMin
  <2>2. PICK s : Inside(buf, s) /\ TurnsLeft(buf, s) = k /\ ~ ScanResumed(buf, full, s)
    OBVIOUS
  <2>3. ASSUME NEW t, Nearer(buf, s, t), ScanChunks(buf, s) = ScanChunks(buf, t),
               RestEnds(full, t) = RestEnds(full, s)
        PROVE  FALSE
    <3>1. Inside(buf, t) /\ TurnsLeft(buf, t) \in Nat /\ TurnsLeft(buf, t) < k /\ k \in Nat
      BY <1>1, <2>2, <2>3 DEF Nearer
    <3>2. TurnsLeft(buf, t) \notin Wrong
      <4> HIDE DEF Wrong
      <4> QED
        BY <2>1, <3>1 DEF OpToRel
    <3>3. ScanResumed(buf, full, t)
      BY <3>1, <3>2
    <3>4. QED
      BY <2>2, <2>3, <3>3 DEF ScanResumed
  <2>4. s \in ChunkPositions
    BY <1>1, <2>2
  <2> HIDE DEF Wrong
  <2>5. CASE s.chunk_size = -1 /\ LineAt(buf, s) = 0
    <3>1. ScanChunks(buf, s) = s
      BY <2>4, <2>5, ChunksTurnByTurn
    <3>2. ~ LastChunkPassed(s)
      BY <2>5 DEF LastChunkPassed
    <3>3. ASSUME Len(buf) = Len(full) PROVE RestEnds(full, s) = 0
      <4>1. buf = full
        BY <3>3, AllOfIt
      <4>2. s.sppos \in 0 .. Len(full)
        BY <2>2, <4>1 DEF Inside, ChunkPositions
      <4>3. EndOfChunks(full, s.sppos) = 0
        BY <2>5, <4>1, <4>2, ChunkByChunk DEF LineAt
      <4>4. QED
        BY <2>5, <4>3 DEF RestEnds
    <3>4. QED
      BY <2>2, <3>1, <3>2, <3>3 DEF ScanResumed
  <2>6. CASE s.chunk_size = -1 /\ LineAt(buf, s) # 0
    BY <2>2, <2>3, <2>4, <2>6, ChunksTurnByTurn, SizeReadIsNearer, EndBehindSize
  <2>7. CASE s.chunk_size # -1
    <3>1. PICK t : t = DataPassed(buf, s)
      OBVIOUS
    <3>2. /\ RestEnds(full, t) = RestEnds(full, s)
          /\ LastChunkPassed(t) => RestEnds(full, t) = t.sppos
          /\ StopsIn(t) /\ ~ LastChunkPassed(t) /\ Len(buf) = Len(full) => RestEnds(full, t) = 0
          /\ ~ StopsIn(t) => RestEnds(full, ChunkPassed(t)) = RestEnds(full, t)
      BY <2>2, <2>7, <3>1, EndBehindData
    <3>3. CASE StopsIn(t)
      <4>1. ScanChunks(buf, s) = t
        BY <2>4, <2>7, <3>1, <3>3, ChunksTurnByTurn
      <4>2. QED
        BY <2>2, <3>2, <3>3, <4>1 DEF ScanResumed
    <3>4. CASE ~ StopsIn(t)
      <4>1. ScanChunks(buf, s) = ScanChunks(buf, ChunkPassed(t))
        BY <2>4, <2>7, <3>1, <3>4, ChunksTurnByTurn
      <4>2. Nearer(buf, s, ChunkPassed(t))
        BY <2>4, <2>7, <3>1, <3>4, DataIsPassed
      <4>3. QED
        BY <2>3, <3>2, <3>4, <4>1, <4>2
    <3>5. QED
      BY <3>3, <3>4
  <2>8. QED
    BY <2>5, <2>6, <2>7
<1>3. QED
  BY <1>1, <1>2

-----------------------------------------------------------------------------
(* Where the code stands in the response, told from the response in one    *)
(* piece.                                                                  *)
StatusLine == ParseResponseCode(response, 0)
WholeHead == ParseHeaders(response, StatusLine.next)
Framed(headers) ==
  HasHeader(headers, "Content-Length") \/ HasHeader(headers, "Transfer-Encoding")
ChunkPlace(c) ==
  [sppos |-> c.sppos, chunk_size |-> c.chunk_size, chunk_read |-> c.chunk_read]

(* The headers read so far and those that are still to come are all the    *)
(* headers there are.                                                      *)
HeadBegun(c) ==
  /\ StatusLine.status = "OK" /\ StatusLine.next \in 1 .. c.sppos /\ c.resp_headers \in Seq(HeaderSet)
  /\ Joins([headers |-> c.resp_headers], ParseHeaders(response, c.sppos), WholeHead)
(* All that is in the buffer behind the head has been counted, and the     *)
(* loop over the chunks is on its way to the end of the body.              *)
BodyBegun(c) ==
  /\ StatusLine.status = "OK" /\ WholeHead.status = "END_OF_HEADER" /\ Framed(WholeHead.headers)
  /\ c.content_length = ContentLength(WholeHead.headers)
  /\ c.read_ \in Int /\ WholeHead.next + c.read_ = Len(c.sbuff)
  /\ WholeHead.next \in 1 .. c.sppos
  /\ c.content_length = -1 =>
       RestEnds(response, ChunkPlace(c)) = EndOfChunks(response, WholeHead.next)
Placed(c) ==
  /\ c.handling_step = "PARSING_RESP_CODE" => c.sppos = 0 /\ c.resp_headers = <<>>
  /\ c.handling_step = "PARSING_RESP_HEADERS" => HeadBegun(c)
  /\ c.handling_step = "PARSING_RESP_BODY" => BodyBegun(c)
  /\ c.handling_step = "SENDING_RESP" => IsComplete(c.sbuff, response)
  /\ c.cached # <<>> => IsComplete(c.cached, response)

(* Between two reads the code has gone as far as what has come allows.     *)
AwaitsCode(c) ==
  c.handling_step = "PARSING_RESP_CODE" =>
    ParseResponseCode(c.sbuff, c.sppos).status = "NO_END_OF_LINE"
AwaitsHeader(c) ==
  c.handling_step = "PARSING_RESP_HEADERS" =>
    ParseNextHeader(c.sbuff, c.sppos).status = "NO_END_OF_LINE"
AwaitsBody(c) ==
  c.handling_step = "PARSING_RESP_BODY" =>
    IF c.content_length # -1 THEN c.content_length # c.read_
    ELSE Len(c.sbuff) = Len(response) => RestEnds(response, ChunkPlace(c)) = 0

Settled(c) == Placed(c) /\ AwaitsCode(c) /\ AwaitsHeader(c) /\ AwaitsBody(c)
EndInv == Settled(ctx)

LEMMA HeadersTyped ==
  ASSUME NEW buf \in Text, NEW pos \in 0 .. Len(buf)
  PROVE  ParseHeaders(buf, pos).headers \in Seq(HeaderSet)
<1>1. Begins(buf, buf)
  BY TextFacts DEF Begins
<1>2. Resumed(buf, buf, pos)
  BY <1>1, HeadersResumed
<1>3. QED
  BY <1>2 DEF Resumed

(* Reading more of the response moves nothing. *)
LEMMA MoreRead ==
  ASSUME response \in Text, NEW c, Live(c), Awaiting(c) \/ Receiving(c), Placed(c),
         NEW n \in 1 .. Len(response) - Len(c.sbuff), NEW d, d = ReadFromServer(c, n)
  PROVE  Placed(d)
<1>1. DOMAIN c = Fields /\ c.sbuff \in Text /\ Begins(c.sbuff, response)
  BY FieldsOfContext DEF Live, Buffers
<1>2. Len(c.sbuff) \in Nat /\ n \in Nat /\ n <= Len(response) - Len(c.sbuff)
  BY <1>1, TextFacts
<1>3. PICK more : more = Followed(c.sbuff, response, n)
  OBVIOUS
<1>4. Len(more) = Len(c.sbuff) + n
  BY <1>1, <1>2, <1>3, NextTokens
<1>5. /\ d.sbuff = more
      /\ d.read_ = IF c.handling_step = "PARSING_RESP_BODY" THEN c.read_ + n ELSE c.read_
      /\ \A f \in Fields \ {"sbuff", "read_"} : d[f] = c[f]
  BY <1>1, <1>3 DEF ReadFromServer, Followed, Fields
<1>6. /\ d.handling_step = c.handling_step /\ d.sppos = c.sppos
      /\ d.resp_headers = c.resp_headers /\ d.cached = c.cached
      /\ d.content_length = c.content_length
      /\ d.chunk_size = c.chunk_size /\ d.chunk_read = c.chunk_read
  BY <1>5 DEF Fields
<1>7. /\ d.cached = <<>> /\ d.handling_step # "SENDING_RESP"
      /\ ChunkPlace(d) = ChunkPlace(c)
  BY <1>6 DEF Awaiting, Receiving, ChunkPlace
<1>8. HeadBegun(c) => HeadBegun(d)
  BY <1>6 DEF HeadBegun
<1>9. ASSUME c.handling_step = "PARSING_RESP_BODY" PROVE BodyBegun(d)
  <2>1. BodyBegun(c) /\ d.read_ = c.read_ + n
    BY <1>5, <1>9 DEF Placed
  <2>2. WholeHead.next \in Int
    BY <2>1 DEF BodyBegun
  <2>3. d.read_ \in Int /\ WholeHead.next + d.read_ = Len(d.sbuff)
    BY <1>2, <1>4, <1>5, <2>1, <2>2 DEF BodyBegun
  <2>4. QED
    BY <1>6, <1>7, <2>1, <2>3 DEF BodyBegun
<1>10. QED
  BY <1>6, <1>7, <1>8, <1>9 DEF Placed

(* parsing_resp_code. *)
LEMMA CodePlaced ==
  ASSUME response \in Text, NEW c, Live(c), Awaiting(c) \/ Receiving(c), Placed(c),
         NEW d, d = ParsingRespCode(c), Live(d)
  PROVE  Placed(d) /\ AwaitsCode(d)
<1>1. /\ DOMAIN c = Fields /\ c.sbuff \in Text /\ Begins(c.sbuff, response)
      /\ c.cached = <<>> /\ Len(c.sbuff) \in Nat /\ Len(response) \in Nat
      /\ Len(c.sbuff) <= Len(response)
  BY FieldsOfContext, TextFacts DEF Live, Buffers, Awaiting, Receiving, Begins
<1>2. CASE c.handling_step # "PARSING_RESP_CODE"
  BY <1>2 DEF ParsingRespCode, AwaitsCode
<1>3. CASE c.handling_step = "PARSING_RESP_CODE"
  <2>1. PICK line : line = ParseResponseCode(c.sbuff, 0)
    OBVIOUS
  <2>2. c.sppos = 0 /\ c.resp_headers = <<>>
    BY <1>3 DEF Placed
  <2>3. 0 \in 0 .. Len(c.sbuff)
    BY <1>1
  <2>4. \/ line.status \in {"NO_END_OF_LINE", "PARSING_ERROR"}
        \/ line.status = "OK" /\ line.next \in 2 .. Len(c.sbuff)
    BY <1>1, <2>1, <2>3, LinesParsed DEF GoesOn
  <2>5. CASE line.status = "NO_END_OF_LINE"
    <3>1. d = c
      BY <1>3, <2>1, <2>2, <2>5 DEF ParsingRespCode
    <3>2. QED
      BY <2>1, <2>2, <2>5, <3>1 DEF AwaitsCode
  <2>6. CASE line.status = "PARSING_ERROR"
    <3>1. d = Destroy(c)
      BY <1>3, <2>1, <2>2, <2>6 DEF ParsingRespCode
    <3>2. d.handling_step \in Ended
      BY <1>1, <3>1 DEF Destroy, Fields, Ended
    <3>3. QED
      BY <3>2, LiveTyped
  <2>7. CASE line.status = "OK" /\ line.next \in 2 .. Len(c.sbuff)
    <3>1. d = [c EXCEPT !.sppos = line.next, !.handling_step = "PARSING_RESP_HEADERS"]
      BY <1>3, <2>1, <2>2, <2>7 DEF ParsingRespCode
    <3>2. /\ d.sppos = line.next /\ d.handling_step = "PARSING_RESP_HEADERS"
          /\ d.resp_headers = <<>> /\ d.cached = <<>>
      BY <1>1, <2>2, <3>1 DEF Fields
    <3>3. StatusLine.status = "OK" /\ StatusLine.next = line.next
      BY <1>1, <2>1, <2>3, <2>7, CodeAgain DEF StatusLine
    <3>4. line.next \in 0 .. Len(response) /\ StatusLine.next \in 1 .. d.sppos
      BY <1>1, <2>7, <3>2, <3>3
    <3>5. PICK rest : rest = ParseHeaders(response, d.sppos)
      OBVIOUS
    <3>6. rest.headers \in Seq(HeaderSet) /\ rest = WholeHead
      BY <3>2, <3>3, <3>4, <3>5, HeadersTyped DEF WholeHead
    <3>7. <<>> \in Seq(HeaderSet) /\ <<>> \o rest.headers = rest.headers
      BY <3>6, ConcatEmptySeq, EmptySeq
    <3>8. HeadBegun(d)
      BY <3>2, <3>3, <3>4, <3>5, <3>6, <3>7 DEF HeadBegun, Joins
    <3>9. QED
      BY <3>2, <3>8 DEF Placed, AwaitsCode
  <2>8. QED
    BY <2>4, <2>5, <2>6, <2>7
<1>4. QED
  BY <1>2, <1>3

(* parsing_resp_headers. *)
LEMMA HeadersPlaced ==
  ASSUME response \in Text, NEW c, Live(c), Awaiting(c) \/ Receiving(c),
         Placed(c), AwaitsCode(c), NEW d, d = ParsingRespHeaders(c), Live(d)
  PROVE  Placed(d) /\ AwaitsCode(d) /\ AwaitsHeader(d)
<1>1. /\ DOMAIN c = Fields /\ c.sbuff \in Text /\ Begins(c.sbuff, response)
      /\ c.cached = <<>> /\ Len(c.sbuff) \in Nat /\ Len(response) \in Nat
      /\ Len(c.sbuff) <= Len(response) /\ c.sppos \in 0 .. Len(c.sbuff)
  BY FieldsOfContext, TextFacts DEF Live, Buffers, Awaiting, Receiving, Begins
<1>2. CASE c.handling_step # "PARSING_RESP_HEADERS"
  BY <1>2 DEF ParsingRespHeaders, AwaitsHeader
<1>3. CASE c.handling_step = "PARSING_RESP_HEADERS"
  <2>1. PICK first, rest : /\ first = ParseHeaders(c.sbuff, c.sppos)
                           /\ rest = ParseHeaders(response, c.sppos)
    OBVIOUS
  <2>2. PICK c1 : c1 = [c EXCEPT !.sppos = first.next, !.resp_headers = @ \o first.headers]
    OBVIOUS
  <2>3. /\ SameBut({"sppos", "resp_headers"}, c, c1) /\ c1.sppos = first.next
        /\ c1.resp_headers = c.resp_headers \o first.headers
    BY <1>1, <2>2 DEF SameBut, Fields
  <2>4. /\ DOMAIN c1 = Fields /\ c1.handling_step = "PARSING_RESP_HEADERS"
        /\ c1.sbuff = c.sbuff /\ c1.cached = <<>>
    BY <1>1, <1>3, <2>3 DEF SameBut, Fields
  <2>5. HeadBegun(c)
    BY <1>3 DEF Placed
  <2>6. HeadRead(c.sbuff, c.sppos, first)
    BY <1>1, <2>1, HeadReads
  <2>7. first.next \in c.sppos .. Len(c.sbuff)
    BY <2>6 DEF HeadRead
  <2>8. first.next \in 0 .. Len(response) /\ StatusLine.next \in 1 .. first.next
    <3>1. StatusLine.next \in 1 .. c.sppos
      BY <2>5 DEF HeadBegun
    <3>2. QED
      BY <1>1, <2>7, <3>1
  <2>9. Resumed(c.sbuff, response, c.sppos)
    BY <1>1, HeadersResumed
  <2>10. /\ c.resp_headers \in Seq(HeaderSet) /\ first.headers \in Seq(HeaderSet)
         /\ c1.resp_headers \in Seq(HeaderSet)
    <3>1. c.resp_headers \in Seq(HeaderSet) /\ first.headers \in Seq(HeaderSet)
      BY <2>1, <2>5, <2>9 DEF HeadBegun, Resumed
    <3>2. QED
      BY <2>3, <3>1, ConcatProperties
  <2>11. CASE first.status = "NO_END_OF_LINE"
    <3>1. PICK last : last = ParseHeaders(response, first.next)
      OBVIOUS
    <3>2. last.headers \in Seq(HeaderSet)
      BY <2>8, <3>1, HeadersTyped
    <3>3. /\ ParseNextHeader(c.sbuff, first.next).status = "NO_END_OF_LINE"
          /\ Joins(first, last, rest)
      BY <2>1, <2>9, <2>11, <3>1, <3>2 DEF Resumed
    <3>4. d = c1
      BY <1>3, <2>1, <2>2, <2>11 DEF ParsingRespHeaders
    <3>5. Joins([headers |-> c1.resp_headers], last, WholeHead)
      <4>1. /\ WholeHead.status = rest.status /\ WholeHead.next = rest.next
            /\ WholeHead.headers = c.resp_headers \o rest.headers
        BY <2>1, <2>5 DEF HeadBegun, Joins
      <4>2. WholeHead.headers = c.resp_headers \o (first.headers \o last.headers)
        BY <3>3, <4>1 DEF Joins
      <4>3. (c.resp_headers \o first.headers) \o last.headers
              = c.resp_headers \o (first.headers \o last.headers)
        <5>1. PICK own, now, then : own = c.resp_headers /\ now = first.headers /\ then = last.headers
          OBVIOUS
        <5>2. own \in Seq(HeaderSet) /\ now \in Seq(HeaderSet) /\ then \in Seq(HeaderSet)
          BY <2>10, <3>2, <5>1, Zenon
        <5>3. (own \o now) \o then = own \o (now \o then)
          BY <5>2, ConcatAssociative
        <5>4. QED
          BY <5>1, <5>3, Zenon
      <4>4. WholeHead.headers = c1.resp_headers \o last.headers
        BY <2>3, <4>2, <4>3, Zenon
      <4>5. QED
        BY <3>3, <4>1, <4>4 DEF Joins
    <3>6. HeadBegun(d)
      BY <2>3, <2>5, <2>8, <2>10, <3>1, <3>4, <3>5 DEF HeadBegun
    <3>7. QED
      BY <2>3, <2>4, <3>3, <3>4, <3>6 DEF Placed, AwaitsCode, AwaitsHeader
  <2>12. CASE first.status = "PARSING_ERROR" \/ d = Destroy(c1)
    <3>1. d = Destroy(c1)
      BY <1>3, <2>1, <2>2, <2>12 DEF ParsingRespHeaders
    <3>2. d.handling_step \in Ended
      BY <2>4, <3>1 DEF Destroy, Fields, Ended
    <3>3. QED
      BY <3>2, LiveTyped
  <2>13. CASE first.status = "END_OF_HEADER" /\ d # Destroy(c1)
    <3>1. d = StartBody(c1) /\ Framed(c1.resp_headers)
      BY <1>3, <2>1, <2>2, <2>13 DEF ParsingRespHeaders, Framed
    <3>2. PICK c2 : c2 = StartBodyWithoutReset(c1)
      OBVIOUS
    <3>3. /\ SameBut({"content_length", "read_", "chunk_size", "chunk_read",
                      "client_events", "handling_step"}, c1, c2)
          /\ c2.content_length = ContentLength(c1.resp_headers)
          /\ c2.read_ = Len(c1.sbuff) - c1.sppos
          /\ c2.chunk_size = -1 /\ c2.chunk_read = 0
          /\ c2.handling_step = "PARSING_RESP_BODY"
      BY <2>4, <3>2 DEF StartBodyWithoutReset, SameBut, Fields
    <3>4. d = [c2 EXCEPT !.sended = 0]
      BY <3>1, <3>2 DEF StartBody
    <3>5. /\ d.content_length = ContentLength(c1.resp_headers)
          /\ d.read_ = Len(c.sbuff) - first.next /\ d.sppos = first.next
          /\ d.chunk_size = -1 /\ d.chunk_read = 0 /\ d.sbuff = c.sbuff
          /\ d.handling_step = "PARSING_RESP_BODY" /\ d.cached = <<>>
      BY <2>3, <2>4, <3>3, <3>4 DEF SameBut, Fields
    <3>6. /\ WholeHead.status = "END_OF_HEADER" /\ WholeHead.next = first.next
          /\ WholeHead.headers = c1.resp_headers
      <4>1. rest = first
        BY <2>1, <2>9, <2>13 DEF Resumed
      <4>2. QED
        BY <2>1, <2>3, <2>5, <2>13, <4>1 DEF HeadBegun, Joins
    <3>7. /\ WholeHead.next \in Int /\ d.read_ \in Int
          /\ WholeHead.next + d.read_ = Len(d.sbuff) /\ WholeHead.next \in 1 .. d.sppos
      BY <1>1, <2>7, <2>8, <3>5, <3>6
    <3>8. RestEnds(response, ChunkPlace(d)) = EndOfChunks(response, WholeHead.next)
      BY <3>5, <3>6 DEF RestEnds, ChunkPlace
    <3>9. BodyBegun(d)
      BY <2>5, <3>1, <3>5, <3>6, <3>7, <3>8 DEF BodyBegun, HeadBegun
    <3>10. QED
      BY <3>5, <3>9 DEF Placed, AwaitsCode, AwaitsHeader
  <2>14. QED
    BY <2>6, <2>11, <2>12, <2>13 DEF HeadRead
<1>4. QED
  BY <1>2, <1>3

(* The end of a response whose head is complete. *)
LEMMA EndKnown ==
  ASSUME StatusLine.status = "OK", WholeHead.status = "END_OF_HEADER",
         Framed(WholeHead.headers)
  PROVE  EndOfResponse(response) =
           IF ContentLength(WholeHead.headers) # -1
           THEN WholeHead.next + ContentLength(WholeHead.headers)
           ELSE EndOfChunks(response, WholeHead.next)
  BY DEF EndOfResponse, StatusLine, WholeHead, Framed

(* parsing_resp_body. *)
LEMMA BodyPlaced ==
  ASSUME response \in Text, NEW c, Live(c), Awaiting(c) \/ Receiving(c),
         Placed(c), AwaitsCode(c), AwaitsHeader(c), NEW d, d = ParsingRespBody(c)
  PROVE  Placed(d) /\ AwaitsCode(d) /\ AwaitsHeader(d) /\ AwaitsBody(d)
<1>1. /\ DOMAIN c = Fields /\ c.sbuff \in Text /\ Begins(c.sbuff, response)
      /\ c.cached = <<>> /\ Len(c.sbuff) \in Nat /\ Len(response) \in Nat
      /\ Len(c.sbuff) <= Len(response) /\ c.sppos \in 0 .. Len(c.sbuff)
  BY FieldsOfContext, TextFacts DEF Live, Buffers, Awaiting, Receiving, Begins
<1>2. CASE c.handling_step # "PARSING_RESP_BODY"
  BY <1>2 DEF ParsingRespBody, AwaitsBody
<1>3. CASE c.handling_step = "PARSING_RESP_BODY"
  <2>1. PICK scanned : scanned = ScanChunks(c.sbuff, ChunkPlace(c))
    OBVIOUS
  <2>2. BodyBegun(c)
    BY <1>3 DEF Placed
  <2>3. /\ WholeHead.next \in Nat \ {0} /\ WholeHead.next <= c.sppos
        /\ c.read_ \in Int /\ WholeHead.next + c.read_ = Len(c.sbuff)
        /\ c.content_length = ContentLength(WholeHead.headers)
    BY <1>1, <2>2 DEF BodyBegun
  <2>4. EndOfResponse(response) =
          IF c.content_length # -1 THEN WholeHead.next + c.content_length
          ELSE EndOfChunks(response, WholeHead.next)
    BY <2>2, EndKnown DEF BodyBegun
  <2>5. Inside(c.sbuff, ChunkPlace(c))
    BY <1>1, <1>3 DEF Inside, ChunkPlace, Live, Buffers
  <2>6. Inside(c.sbuff, scanned) /\ c.sppos <= scanned.sppos
    BY <1>1, <2>1, <2>5, ScanStaysInside DEF ChunkPlace
  <2>7. scanned \in ChunkPositions /\ scanned.sppos \in 1 .. Len(c.sbuff)
        /\ WholeHead.next \in 1 .. scanned.sppos
    <3>1. scanned \in ChunkPositions /\ scanned.sppos \in Nat /\ scanned.sppos <= Len(c.sbuff)
      BY <2>6 DEF Inside, ChunkPositions
    <3>2. QED
      BY <1>1, <2>3, <2>6, <3>1
  <2>8. ScanResumed(c.sbuff, response, ChunkPlace(c))
    BY <1>1, <2>5, ChunksResumed
  <2>9. IsPrefix(c.sbuff, response)
    BY <1>1, PrefixByToken
  <2>10. ASSUME NEW e, DOMAIN e = Fields, e.sbuff = c.sbuff, d = RespComplete(e),
                EndOfResponse(response) \in 1 .. Len(c.sbuff),
                Len(c.sbuff) # EndOfResponse(response) => c.content_length = -1
         PROVE  Placed(d) /\ AwaitsCode(d) /\ AwaitsHeader(d) /\ AwaitsBody(d)
    <3>1. /\ d.handling_step = "SENDING_RESP" /\ d.cached = c.sbuff /\ d.sbuff = c.sbuff
      BY <2>10 DEF RespComplete, Fields
    <3>2. IsComplete(c.sbuff, response)
      BY <2>3, <2>9, <2>10 DEF IsComplete, WholeHead, StatusLine
    <3>3. QED
      BY <3>1, <3>2 DEF Placed, AwaitsCode, AwaitsHeader, AwaitsBody
  <2>11. CASE c.content_length # -1 /\ c.content_length = c.read_
    <3>1. PICK e : e = [c EXCEPT !.sppos = Len(c.sbuff)]
      OBVIOUS
    <3>2. DOMAIN e = Fields /\ e.sbuff = c.sbuff /\ d = RespComplete(e)
      BY <1>1, <1>3, <2>11, <3>1 DEF ParsingRespBody, Fields
    <3>3. EndOfResponse(response) = Len(c.sbuff)
      BY <2>3, <2>4, <2>11
    <3>4. Len(c.sbuff) \in 1 .. Len(c.sbuff)
      BY <1>1, <2>7
    <3>5. QED
      BY <2>10, <3>2, <3>3, <3>4
  <2>12. CASE c.content_length # -1 /\ c.content_length # c.read_
    <3>1. d = c
      BY <1>3, <2>12 DEF ParsingRespBody
    <3>2. QED
      BY <1>3, <2>12, <3>1 DEF AwaitsBody
  <2>13. CASE c.content_length = -1
    <3>1. PICK c1 : c1 = [c EXCEPT !.sppos = scanned.sppos,
                                   !.chunk_size = scanned.chunk_size,
                                   !.chunk_read = scanned.chunk_read]
      OBVIOUS
    <3>2. /\ SameBut({"sppos", "chunk_size", "chunk_read"}, c, c1)
          /\ c1.sppos = scanned.sppos /\ c1.chunk_size = scanned.chunk_size
          /\ c1.chunk_read = scanned.chunk_read
      BY <1>1, <3>1 DEF SameBut, Fields
    <3>3. /\ DOMAIN c1 = Fields /\ c1.sbuff = c.sbuff /\ c1.cached = <<>>
          /\ c1.handling_step = "PARSING_RESP_BODY"
          /\ c1.read_ = c.read_ /\ c1.content_length = -1
      BY <1>1, <1>3, <2>13, <3>2 DEF SameBut, Fields
    <3>4. RestEnds(response, scanned) = EndOfChunks(response, WholeHead.next)
      BY <2>1, <2>2, <2>8, <2>13 DEF ScanResumed, BodyBegun
    <3>5. CASE LastChunkPassed(scanned)
      <4>1. PICK e : e = [c1 EXCEPT !.content_length = c.read_]
        OBVIOUS
      <4>2. DOMAIN e = Fields /\ e.sbuff = c.sbuff
        BY <3>3, <4>1 DEF Fields
      <4>3. d = RespComplete(e)
        BY <1>3, <2>1, <2>13, <3>1, <3>5, <4>1 DEF ParsingRespBody, ChunkPlace
      <4>4. EndOfResponse(response) \in 1 .. Len(c.sbuff)
        BY <2>1, <2>4, <2>7, <2>8, <2>13, <3>4, <3>5 DEF ScanResumed
      <4>5. QED
        BY <2>10, <2>13, <4>2, <4>3, <4>4
    <3>6. CASE ~ LastChunkPassed(scanned)
      <4>1. d = c1
        BY <1>3, <2>1, <2>13, <3>1, <3>6 DEF ParsingRespBody, ChunkPlace
      <4>2. ChunkPlace(c1) = scanned
        BY <2>7, <3>2 DEF ChunkPlace, ChunkPositions
      <4>3. BodyBegun(c1)
        BY <2>2, <2>7, <2>13, <3>2, <3>3, <3>4, <4>2 DEF BodyBegun
      <4>4. Len(c1.sbuff) = Len(response) => RestEnds(response, ChunkPlace(c1)) = 0
        BY <2>1, <2>8, <3>3, <3>6, <4>2 DEF ScanResumed
      <4>5. QED
        BY <3>3, <4>1, <4>3, <4>4 DEF Placed, AwaitsCode, AwaitsHeader, AwaitsBody
    <3>7. QED
      BY <3>5, <3>6
  <2>14. QED
    BY <2>11, <2>12, <2>13
<1>4. QED
  BY <1>2, <1>3

(* Where nothing is left to find. *)
Elsewhere(c) ==
  c.handling_step \notin {"PARSING_RESP_CODE", "PARSING_RESP_HEADERS", "PARSING_RESP_BODY",
                          "SENDING_RESP"}
LEMMA SettledElsewhere ==
  ASSUME NEW c, Placed(c), NEW d, d.cached = c.cached, Elsewhere(d)
  PROVE  Settled(d)
  BY DEF Settled, Placed, AwaitsCode, AwaitsHeader, AwaitsBody, Elsewhere

LEMMA SettledAnswering ==
  ASSUME NEW c, Placed(c), Answering(c)
  PROVE  Settled(c)
  BY DEF Settled, Placed, AwaitsCode, AwaitsHeader, AwaitsBody, Answering

(* All that one read of the server leads to. *)
LEMMA ResponseSettled ==
  ASSUME response \in Text, NEW c, Live(c), Awaiting(c) \/ Receiving(c), Settled(c),
         NEW n \in 1 .. Len(response) - Len(c.sbuff), NEW d, d = HandleResponseData(c, n)
  PROVE  Settled(d)
<1>1. PICK c1 : c1 = ReadFromServer(c, n)
  OBVIOUS
<1>2. PICK c2 : c2 = ParsingRespCode(c1)
  OBVIOUS
<1>3. PICK c3 : c3 = ParsingRespHeaders(c2)
  OBVIOUS
<1>4. d = ParsingRespBody(c3)
  BY <1>1, <1>2, <1>3 DEF HandleResponseData
<1>5. \A e, g : Onwards(e, g) => Live(g) /\ (Awaiting(g) \/ Receiving(g) \/ Answering(g))
  BY DEF Onwards
<1>6. \A e, g : Dropped(e, g) =>
        /\ ParsingRespHeaders(g) = g /\ ParsingRespBody(g) = g
        /\ g.cached = e.cached /\ Elsewhere(g)
  BY DEF Dropped, ParsingRespHeaders, ParsingRespBody, Elsewhere
<1>7. \A e : Answering(e) => ParsingRespHeaders(e) = e /\ ParsingRespBody(e) = e
  BY DEF Answering, ParsingRespHeaders, ParsingRespBody
<1>8. Placed(c)
  BY DEF Settled
<1>9. Live(c1) /\ (Awaiting(c1) \/ Receiving(c1)) /\ Placed(c1)
  <2>1. Onwards(c, c1) /\ c1.handling_step = c.handling_step
    BY <1>1, ResponseRead
  <2>2. Placed(c1)
    BY <1>1, <1>8, MoreRead
  <2>3. QED
    BY <2>1, <2>2 DEF Onwards, Awaiting, Receiving, Answering
<1>10. Onwards(c1, c2) \/ Dropped(c1, c2)
  BY <1>2, <1>9, RespCodeParsed
<1>11. CASE Dropped(c1, c2)
  <2>1. d = c2 /\ c2.cached = c1.cached /\ Elsewhere(c2)
    BY <1>3, <1>4, <1>6, <1>11
  <2>2. QED
    BY <1>9, <2>1, SettledElsewhere
<1>12. CASE Onwards(c1, c2)
  <2>1. Live(c2) /\ (Awaiting(c2) \/ Receiving(c2) \/ Answering(c2))
    BY <1>5, <1>12
  <2>2. Placed(c2) /\ AwaitsCode(c2)
    BY <1>2, <1>9, <2>1, CodePlaced
  <2>3. CASE Answering(c2)
    BY <1>3, <1>4, <1>7, <2>2, <2>3, SettledAnswering
  <2>4. CASE Awaiting(c2) \/ Receiving(c2)
    <3>1. Onwards(c2, c3) \/ Dropped(c2, c3)
      BY <1>3, <2>1, <2>4, RespHeadersParsed
    <3>2. CASE Dropped(c2, c3)
      <4>1. d = c3 /\ c3.cached = c2.cached /\ Elsewhere(c3)
        BY <1>4, <1>6, <3>2
      <4>2. QED
        BY <2>2, <4>1, SettledElsewhere
    <3>3. CASE Onwards(c2, c3)
      <4>1. Live(c3) /\ (Awaiting(c3) \/ Receiving(c3) \/ Answering(c3))
        BY <1>5, <3>3
      <4>2. Placed(c3) /\ AwaitsCode(c3) /\ AwaitsHeader(c3)
        BY <1>3, <2>1, <2>2, <2>4, <4>1, HeadersPlaced
      <4>3. CASE Answering(c3)
        BY <1>4, <1>7, <4>2, <4>3, SettledAnswering
      <4>4. CASE Awaiting(c3) \/ Receiving(c3)
        BY <1>4, <4>1, <4>2, <4>4, BodyPlaced DEF Settled
      <4>5. QED
        BY <4>1, <4>3, <4>4
    <3>4. QED
      BY <3>1, <3>2, <3>3
  <2>5. QED
    BY <2>1, <2>3, <2>4
<1>13. QED
  BY <1>10, <1>11, <1>12

(* The response has not begun when its turn comes. *)
LEMMA NothingRead ==
  ASSUME NEW c, Live(c), c.sbuff = <<>>, c.resp_headers = <<>>, c.cached = <<>>,
         c.handling_step = "PARSING_RESP_CODE"
  PROVE  Settled(c)
<1>1. c.sppos = 0 /\ <<>> \in Text /\ 0 \in 0 .. Len(<<>>) /\ Len(<<>>) = 0
  BY NothingBegins DEF Live, Buffers
<1>2. Strstr(<<>>, 0, CrLf) = 0
  <2>1. PICK crlf : crlf = Strstr(<<>>, 0, CrLf)
    OBVIOUS
  <2>2. crlf = 0 \/ crlf \in 0 + 1 .. Len(<<>>) - 1
    BY <1>1, <2>1, FindsLineEnd
  <2>3. QED
    BY <1>1, <2>1, <2>2
<1>3. ParseResponseCode(<<>>, 0).status = "NO_END_OF_LINE"
  BY <1>2 DEF ParseResponseCode, NoLine
<1>4. QED
  BY <1>1, <1>3 DEF Settled, Placed, AwaitsCode, AwaitsHeader, AwaitsBody

LEMMA SettledStill ==
  ASSUME Settled(ctx'), peers' = peers
  PROVE  EndInv'
<1>1. response' = response
  BY DEF response
<1>2. /\ StatusLine' = StatusLine /\ WholeHead' = WholeHead
  BY <1>1 DEF StatusLine, WholeHead
<1>3. QED
  BY <1>1, <1>2 DEF EndInv, Settled, Placed, HeadBegun, BodyBegun, AwaitsCode, AwaitsHeader,
                    AwaitsBody

LEMMA ResponseArrivesEnd ==
  ASSUME IInv, EndInv, ResponseArrives
  PROVE  Settled(ctx')
<1>1. ctx.handling_step \notin Ended /\ "POLLIN" \in ctx.server_events
  BY DEF ResponseArrives, ServerPolled
<1>2. Live(ctx) /\ (Awaiting(ctx) \/ Receiving(ctx))
  BY <1>1, Alive, PolledPart
<1>3. PICK n \in 1 .. Len(response) - Len(ctx.sbuff) : ctx' = HandleResponseData(ctx, n)
  BY DEF ResponseArrives, UnsentOfResponse
<1>4. QED
  BY <1>2, <1>3, Streams, ResponseSettled DEF EndInv

LEMMA SendingRespEnd ==
  ASSUME IInv, EndInv, SendingResp
  PROVE  Settled(ctx')
<1>1. /\ IInv' /\ Live(ctx)
      /\ Live(ctx') \/ Finished(ctx, ctx')
  BY SendingRespInv
<1>2. Placed(ctx) /\ Settled(ctx) /\ DOMAIN ctx = Fields
  BY <1>1, LiveTyped DEF EndInv, Settled
<1>3. CASE Finished(ctx, ctx')
  <2>1. ctx'.cached = ctx.cached /\ Elsewhere(ctx')
    BY <1>3 DEF Finished, Elsewhere
  <2>2. QED
    BY <1>2, <2>1, SettledElsewhere
<1>4. CASE Live(ctx')
  <2>1. PICK n \in 0 .. Len(ctx.sbuff) - ctx.sended :
          ctx' = FinishSending([ctx EXCEPT !.sended = @ + n])
    BY DEF SendingResp
  <2>2. PICK c : c = [ctx EXCEPT !.sended = @ + n]
    OBVIOUS
  <2>3. ctx' = c
    <3>1. [Destroy(c) EXCEPT !.handling_step = "HANDLED"].handling_step = "HANDLED"
      BY <1>2, <2>2 DEF Destroy, Fields
    <3>2. ctx'.handling_step # "HANDLED"
      BY <1>4, LiveTyped DEF Ended
    <3>3. QED
      BY <2>1, <2>2, <3>1, <3>2 DEF FinishSending
  <2>4. \A f \in Fields \ {"sended"} : c[f] = ctx[f]
    BY <1>2, <2>2
  <2>5. /\ c.handling_step = ctx.handling_step /\ c.sppos = ctx.sppos
        /\ c.resp_headers = ctx.resp_headers /\ c.cached = ctx.cached
        /\ c.content_length = ctx.content_length /\ c.read_ = ctx.read_
        /\ c.chunk_size = ctx.chunk_size /\ c.chunk_read = ctx.chunk_read
        /\ c.sbuff = ctx.sbuff
    BY <2>4 DEF Fields
  <2>6. ChunkPlace(c) = ChunkPlace(ctx)
    BY <2>5 DEF ChunkPlace
  <2>7. Settled(c)
    BY <1>2, <2>5, <2>6 DEF Settled, Placed, HeadBegun, BodyBegun, AwaitsCode, AwaitsHeader,
                           AwaitsBody
  <2>8. QED
    BY <2>3, <2>7
<1>5. QED
  BY <1>1, <1>3, <1>4

LEMMA StepEnd ==
  ASSUME IInv, EndInv, [Next]_vars
  PROVE  EndInv'
<1>1. Placed(ctx) /\ Settled(ctx)
  BY DEF EndInv, Settled
<1>2. ASSUME Dropped(ctx, ctx') \/ Finished(ctx, ctx') PROVE Settled(ctx')
  <2>1. ctx'.cached = ctx.cached /\ Elsewhere(ctx')
    BY <1>2 DEF Dropped, Finished, Elsewhere
  <2>2. QED
    BY <1>1, <2>1, SettledElsewhere
<1>3. ASSUME Connecting(ctx') \/ Requesting(ctx') PROVE Settled(ctx')
  BY <1>3 DEF Connecting, Requesting, Settled, Placed, AwaitsCode, AwaitsHeader, AwaitsBody
<1>4. CASE RequestArrives
  <2>1. Settled(ctx')
    BY <1>2, <1>3, <1>4, RequestArrivesInv
  <2>2. QED
    BY <1>4, <2>1, SettledStill DEF RequestArrives
<1>5. CASE ClientStirs \/ ConnectEnds
  <2>1. Settled(ctx')
    BY <1>2, <1>3, <1>5, ConnectingInv
  <2>2. QED
    BY <1>5, <2>1, SettledStill DEF ClientStirs, ConnectEnds
<1>6. CASE SendingReq
  <2>1. /\ Live(ctx') /\ ctx'.sbuff = <<>> /\ ctx'.resp_headers = <<>>
        /\ Requesting(ctx') \/ (Awaiting(ctx') /\ ctx'.handling_step = "PARSING_RESP_CODE")
    BY <1>6, SendingReqInv
  <2>2. Settled(ctx')
    BY <1>3, <2>1, NothingRead DEF Awaiting
  <2>3. QED
    BY <1>6, <2>2, SettledStill DEF SendingReq
<1>7. CASE ClientGone \/ ServerRefuses \/ ServerGone
  <2>1. Settled(ctx')
    BY <1>2, <1>7, DestroyingInv
  <2>2. QED
    BY <1>7, <2>1, SettledStill DEF ClientGone, ServerRefuses, ServerGone
<1>8. CASE ResponseArrives
  BY <1>8, ResponseArrivesEnd, SettledStill DEF ResponseArrives
<1>9. CASE SendingResp
  BY <1>9, SendingRespEnd, SettledStill DEF SendingResp
<1>10. CASE ClientRefuses
  <2>1. Settled(ctx')
    BY <1>2, <1>10, ClientRefusesInv
  <2>2. QED
    BY <1>10, <2>1, SettledStill DEF ClientRefuses
<1>11. CASE Over \/ UNCHANGED vars
  BY <1>1, <1>11, SettledStill DEF Over, vars
<1>12. QED
  BY <1>4, <1>5, <1>6, <1>7, <1>8, <1>9, <1>10, <1>11 DEF Next

LEMMA InitEnd ==
  ASSUME Init
  PROVE  EndInv
<1>1. ctx.handling_step = "PARSING_REQ_TYPE" /\ ctx.cached = <<>>
  BY DEF Init, FreshContext
<1>2. QED
  BY <1>1 DEF EndInv, Settled, Placed, AwaitsCode, AwaitsHeader, AwaitsBody

(* However the response is cut up, the context stands where it would if    *)
(* what has come of it had come in one piece.                              *)
THEOREM EndInductive == Spec => []EndInv
  BY InitInv, StepInv, InitEnd, StepEnd, PTL DEF Spec

(* However the response of a cooperative server is cut up into reads, its  *)
(* end is recognised with its last token: before that the context goes on  *)
(* reading, and it does not wait for more when nothing more will come.     *)
THEOREM EndFound == Spec => []EndRecognised
<1>1. ASSUME IInv, EndInv PROVE EndRecognised
  <2> SUFFICES ASSUME peers.cooperative
               PROVE  /\ ReadingResponse => ctx.sbuff # response
                      /\ ctx.handling_step = "SENDING_RESP" => ctx.sbuff = response
    BY DEF EndRecognised
  <2>1. response \in Text /\ response # <<>> /\ EndOfResponse(response) = Len(response)
    BY <1>1, Streams, CooperativeAssumption DEF IInv, response
  <2>2. Len(response) \in Nat \ {0}
    BY <2>1, EmptySeq DEF Text
  <2>3. /\ StatusLine.status = "OK" /\ WholeHead.status = "END_OF_HEADER"
        /\ Framed(WholeHead.headers)
    BY <2>1, <2>2 DEF EndOfResponse, StatusLine, WholeHead, Framed
  <2>4. Len(response) =
          IF ContentLength(WholeHead.headers) # -1
          THEN WholeHead.next + ContentLength(WholeHead.headers)
          ELSE EndOfChunks(response, WholeHead.next)
    BY <2>1, <2>3, EndKnown
  <2>5. ASSUME ReadingResponse, ctx.sbuff = response PROVE FALSE
    <3>1. CASE ctx.handling_step = "PARSING_RESP_CODE"
      BY <1>1, <2>3, <2>5, <3>1 DEF EndInv, Settled, Placed, AwaitsCode, StatusLine
    <3>2. CASE ctx.handling_step = "PARSING_RESP_HEADERS"
      <4>1. PICK line : line = ParseNextHeader(response, ctx.sppos)
        OBVIOUS
      <4>2. /\ line.status = "NO_END_OF_LINE" /\ HeadBegun(ctx)
            /\ ctx.sppos \in 0 .. Len(response)
        <5>1. Live(ctx)
          BY <1>1, <3>2, Alive DEF Ended
        <5>2. QED
          BY <1>1, <2>5, <3>2, <4>1, <5>1
          DEF EndInv, Settled, Placed, AwaitsHeader, Live, Buffers
      <4>3. ParseHeaders(response, ctx.sppos).status = "NO_END_OF_LINE"
        <5>1. PICK pos : pos = ctx.sppos
          OBVIOUS
        <5>2. pos \in 0 .. Len(response) /\ line = ParseNextHeader(response, pos)
          BY <4>1, <4>2, <5>1
        <5>3. ParseHeaders(response, pos)
                = [status |-> line.status, next |-> line.next, headers |-> <<>>]
          BY <2>1, <4>2, <5>2, HeadersOneByOne
        <5>4. QED
          BY <4>2, <5>1, <5>3
      <4>4. QED
        BY <2>3, <4>2, <4>3 DEF HeadBegun, Joins
    <3>3. CASE ctx.handling_step = "PARSING_RESP_BODY"
      <4>1. BodyBegun(ctx) /\ AwaitsBody(ctx)
        BY <1>1, <3>3 DEF EndInv, Settled, Placed
      <4>2. /\ ctx.content_length = ContentLength(WholeHead.headers)
            /\ ctx.read_ \in Int /\ WholeHead.next \in Int
            /\ WholeHead.next + ctx.read_ = Len(response)
        BY <2>5, <4>1 DEF BodyBegun
      <4>3. CASE ctx.content_length # -1
        <5>1. ContentLength(WholeHead.headers) \in Int
          BY NumberRead DEF ContentLength
        <5>2. ctx.content_length = ctx.read_
          BY <2>2, <2>4, <4>2, <4>3, <5>1
        <5>3. QED
          BY <3>3, <4>1, <4>3, <5>2 DEF AwaitsBody
      <4>4. CASE ctx.content_length = -1
        BY <2>2, <2>4, <2>5, <3>3, <4>1, <4>2, <4>4 DEF AwaitsBody, BodyBegun
      <4>5. QED
        BY <4>3, <4>4
    <3>4. QED
      BY <2>5, <3>1, <3>2, <3>3 DEF ReadingResponse
  <2>6. ASSUME ctx.handling_step = "SENDING_RESP" PROVE ctx.sbuff = response
    <3>1. /\ ctx.sbuff \in Text /\ Begins(ctx.sbuff, response)
      BY <1>1, <2>6, Alive DEF Live, Buffers, Ended
    <3>2. EndOfResponse(response) \in 1 .. Len(ctx.sbuff)
      BY <1>1, <2>6 DEF EndInv, Settled, Placed, IsComplete
    <3>3. Len(ctx.sbuff) \in Nat /\ Len(ctx.sbuff) <= Len(response)
      BY <3>1, TextFacts DEF Begins
    <3>4. Len(ctx.sbuff) = Len(response)
      BY <2>1, <2>2, <3>2, <3>3
    <3>5. QED
      BY <2>1, <3>1, <3>4, AllOfIt
  <2>7. QED
    BY <2>5, <2>6
<1>2. QED
  BY <1>1, InductiveInvariant, EndInductive, PTL

(* HANDLED means a complete response, the one that was given to cache(),   *)
(* also between faulty peers and however the response was cut up.          *)
THEOREM HandledIsComplete == Spec => []HandledMeansDelivered
<1>1. ASSUME EndInv, HandledSentAll PROVE HandledMeansDelivered
  BY <1>1 DEF EndInv, Settled, Placed, HandledSentAll, HandledMeansDelivered
<1>2. QED
  BY <1>1, EndInductive, HandledWasSent, PTL

=============================================================================
