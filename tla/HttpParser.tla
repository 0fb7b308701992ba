----------------------------- MODULE HttpParser -----------------------------
(***************************************************************************)
(* proxy/http_header_parser.c on a buffer that is a sequence of tokens.    *)
(* The separators the code searches for are tokens of their own: "CR",     *)
(* "LF", " " and ": "; every other token stands for bytes that contain no  *)
(* separator. A position is a number of tokens already consumed, as the    *)
(* offsets cppos and sppos are numbers of bytes.                           *)
(***************************************************************************)
EXTENDS Integers, Sequences, FiniteSetsExt

CrLf == <<"CR", "LF">>

(* strstr(buf + pos, pattern): the index of the first occurrence, 0 for    *)
(* NULL.                                                                   *)
Strstr(buf, pos, pattern) ==
  LET starts == {i \in pos + 1 .. Len(buf) - Len(pattern) + 1 :
                   SubSeq(buf, i, i + Len(pattern) - 1) = pattern}
  IN IF starts = {} THEN 0 ELSE Min(starts)

(* The tokens strictly between two indexes. *)
Between(buf, first, last) == SubSeq(buf, first + 1, last - 1)

(* strtol on a token: the value of a number, 0 for anything else. *)
Numerals ==
  [text \in {"-1", "0", "1", "2", "3"} |->
     CASE text = "-1" -> -1 [] text = "0" -> 0 [] text = "1" -> 1
       [] text = "2" -> 2 [] text = "3" -> 3]
Strtol(text) ==
  IF text # <<>> /\ text[1] \in DOMAIN Numerals THEN Numerals[text[1]] ELSE 0

NoLine(pos) == [status |-> "NO_END_OF_LINE", next |-> pos]
BadLine(pos) == [status |-> "PARSING_ERROR", next |-> pos]

ParseReqType(buf, pos) ==
  LET crlf == Strstr(buf, pos, CrLf)
      ws1 == Strstr(buf, pos, <<" ">>)
      ws2 == Strstr(buf, ws1, <<" ">>)
  IN IF crlf = 0 THEN NoLine(pos)
     ELSE IF ws1 = 0 \/ ws1 > crlf \/ ws2 = 0 \/ ws2 > crlf THEN BadLine(pos)
     ELSE [status |-> "OK", next |-> crlf + 1, type |-> Between(buf, pos, ws1)]

ParseNextHeader(buf, pos) ==
  LET crlf == Strstr(buf, pos, CrLf)
      sep == Strstr(buf, pos, <<": ">>)
  IN IF crlf = 0 THEN NoLine(pos)
     ELSE IF crlf = pos + 1 THEN [status |-> "END_OF_HEADER", next |-> pos + 2]
     ELSE IF sep = 0 \/ sep > crlf THEN BadLine(pos)
     ELSE [status |-> "OK", next |-> crlf + 1,
           header |-> [type |-> Between(buf, pos, sep),
                       value |-> Between(buf, sep, crlf)]]

ParseResponseCode(buf, pos) ==
  LET crlf == Strstr(buf, pos, CrLf)
      ws == Strstr(buf, pos, <<" ">>)
  IN IF crlf = 0 THEN NoLine(pos)
     ELSE IF ws = 0 \/ ws > crlf THEN BadLine(pos)
     ELSE [status |-> "OK", next |-> crlf + 1, code |-> Between(buf, ws, crlf)]

(* find_header: the first header of that name. *)
HasHeader(headers, type) == \E i \in DOMAIN headers : headers[i].type = <<type>>
FindHeader(headers, type) ==
  headers[Min({i \in DOMAIN headers : headers[i].type = <<type>>})].value

=============================================================================
