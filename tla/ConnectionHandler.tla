-------------------------- MODULE ConnectionHandler --------------------------
(***************************************************************************)
(* proxy/connection_handler.c: what handle() makes of one proxied          *)
(* connection, a struct HttpConnectionHandlerContext, as poll reports its  *)
(* two sockets ready. The client sends the tokens of "request", the server *)
(* answers with those of "response", and a read returns any non-empty part *)
(* of what is still to come: the code must not depend on how the streams   *)
(* are cut up. A step is one call of handle. CACHED and KEEP_ALIVE are not *)
(* defined in the build, and memory does not run out.                      *)
(***************************************************************************)
EXTENDS HttpParser, SequencesExt

(* What the two ends of a connection may be like: the streams they send,   *)
(* and whether they cooperate. If they do, the streams are well-formed,    *)
(* connect goes on in the background and succeeds, and nobody closes       *)
(* before everything has been sent; else each may fail at any moment.      *)
CONSTANT Peers

ASSUME PeersAssumption ==
  Peers \subseteq [request : Seq(STRING), response : Seq(STRING), cooperative : BOOLEAN]

VARIABLES
  ctx,                  \* the context
  peers,                \* the ends of this connection
  toServer, toClient    \* what has been written to each socket so far

vars == <<ctx, peers, toServer, toClient>>

request == peers.request
response == peers.response
ConnectOutcomes ==
  IF peers.cooperative THEN {"in_progress"}
  ELSE {"no_socket", "connected", "in_progress", "fails"}

Ended == {"HANDLED", "HANDLED_EXCEPTIONALLY"}

(* init_context. The last two fields are not in the struct: how often      *)
(* destroy_context has run, and the response handed to cache().            *)
FreshContext ==
  [handling_step |-> "PARSING_REQ_TYPE", connection_state |-> "NOT_CONNECTED",
   client_events |-> {"POLLIN"}, server_events |-> {}, server_fd |-> -1,
   type |-> <<>>, req_headers |-> <<>>, resp_headers |-> <<>>, content_length |-> -1,
   cbuff |-> <<>>, cppos |-> 0, sbuff |-> <<>>, sppos |-> 0,
   sended |-> 0, read_ |-> 0, chunk_size |-> -1, chunk_read |-> 0,
   destroyed |-> 0, cached |-> <<>>]

Init ==
  /\ ctx = FreshContext
  /\ peers \in Peers
  /\ toServer = <<>> /\ toClient = <<>>

-----------------------------------------------------------------------------
(* destroy_context frees the buffers, and so sets both counts to 0, closes *)
(* the sockets and leaves the rest of the context alone.                   *)
DestroyWithoutStep(c) ==
  [c EXCEPT !.cbuff = <<>>, !.sbuff = <<>>, !.req_headers = <<>>, !.destroyed = @ + 1]
Destroy(c) ==
  [c EXCEPT !.cbuff = <<>>, !.sbuff = <<>>, !.req_headers = <<>>,
            !.handling_step = "HANDLED_EXCEPTIONALLY", !.destroyed = @ + 1]

(* parse_next_header until there is no whole line left, an empty line or a *)
(* malformed one.                                                          *)
ParseHeaders(buf, start) ==
  LET from[pos \in 0 .. Len(buf)] ==
        LET line == ParseNextHeader(buf, pos)
        IN IF line.status # "OK"
           THEN [status |-> line.status, next |-> line.next, headers |-> <<>>]
           ELSE LET rest == from[line.next]
                IN [rest EXCEPT !.headers = <<line.header>> \o @]
  IN from[start]

ParsingReqType(c) ==
  LET line == ParseReqType(c.cbuff, c.cppos)
  IN IF c.handling_step # "PARSING_REQ_TYPE" THEN c
     ELSE CASE line.status = "PARSING_ERROR" -> Destroy(c)
            [] line.status = "NO_END_OF_LINE" -> c
            [] line.status = "OK" ->
                 [c EXCEPT !.cppos = line.next, !.type = line.type,
                           !.handling_step = "PARSING_REQ_HEADERS"]

(* connect_step. "outcome" is what the operating system answers: there is  *)
(* no socket, or connect succeeds at once, goes on in the background or    *)
(* fails (so does a name lookup), and for a connection under way, what     *)
(* SO_ERROR then says.                                                     *)
StartSendingPollsClient(c) ==
  [c EXCEPT !.server_events = {"POLLOUT"}, !.sended = 0,
            !.handling_step = "SENDING_REQ"]
StartSending(c) ==
  [c EXCEPT !.client_events = {}, !.server_events = {"POLLOUT"}, !.sended = 0,
            !.handling_step = "SENDING_REQ"]

ConnectStep(c, outcome) ==
  CASE c.connection_state = "CONNECTED" -> StartSending(c)
    [] c.connection_state = "AWAIT_CONNECTION" ->
         IF outcome = "fails" THEN Destroy(StartSending(c))
         ELSE [StartSending(c) EXCEPT !.connection_state = "CONNECTED"]
    [] c.connection_state = "NOT_CONNECTED" ->
         LET c1 == [c EXCEPT !.server_fd = 1]
         IN IF outcome = "no_socket" THEN Destroy(c)
            ELSE IF ~ HasHeader(c.req_headers, "Host") THEN Destroy(c1)
            ELSE CASE outcome = "connected" -> [c1 EXCEPT !.connection_state = "CONNECTED"]
                   [] outcome = "in_progress" ->
                        [c1 EXCEPT !.client_events = {}, !.server_events = {"POLLOUT"},
                                   !.connection_state = "AWAIT_CONNECTION"]
                   [] outcome = "fails" -> Destroy(c1)

ParsingReqHeaders(c, outcome) ==
  LET parsed == ParseHeaders(c.cbuff, c.cppos)
      c1 == [c EXCEPT !.cppos = parsed.next, !.req_headers = @ \o parsed.headers]
  IN IF c.handling_step # "PARSING_REQ_HEADERS" THEN c
     ELSE CASE parsed.status = "PARSING_ERROR" -> Destroy(c1)
            [] parsed.status = "NO_END_OF_LINE" -> c1
            [] parsed.status = "END_OF_HEADER" ->
                 IF c1.type # <<"GET">> THEN Destroy(c1)
                 ELSE ConnectStep([c1 EXCEPT !.handling_step = "CONNECT_STEP"], outcome)

ParsingRespCode(c) ==
  LET line == ParseResponseCode(c.sbuff, c.sppos)
  IN IF c.handling_step # "PARSING_RESP_CODE" THEN c
     ELSE CASE line.status = "PARSING_ERROR" -> Destroy(c)
            [] line.status = "NO_END_OF_LINE" -> c
            [] line.status = "OK" ->
                 [c EXCEPT !.sppos = line.next, !.handling_step = "PARSING_RESP_HEADERS"]

(* Without a Content-Length it is -1; a header that says -1 is as good as  *)
(* none.                                                                   *)
ContentLength(headers) ==
  IF HasHeader(headers, "Content-Length")
  THEN Strtol(FindHeader(headers, "Content-Length")) ELSE -1

(* The end of the response headers: the body is as long as Content-Length  *)
(* says or, without one, comes in chunks, and what of it is already in the *)
(* buffer counts as read. The client is sent the response from its start.  *)
StartBodyWithoutReset(c) ==
  [c EXCEPT !.content_length = ContentLength(c.resp_headers),
            !.read_ = Len(c.sbuff) - c.sppos,
            !.chunk_size = -1, !.chunk_read = 0,
            !.client_events = {"POLLOUT"},
            !.handling_step = "PARSING_RESP_BODY"]
StartBodyUncounted(c) == [StartBodyWithoutReset(c) EXCEPT !.sended = 0, !.read_ = 0]
StartBody(c) == [StartBodyWithoutReset(c) EXCEPT !.sended = 0]

ParsingRespHeaders(c) ==
  LET parsed == ParseHeaders(c.sbuff, c.sppos)
      c1 == [c EXCEPT !.sppos = parsed.next, !.resp_headers = @ \o parsed.headers]
  IN IF c.handling_step # "PARSING_RESP_HEADERS" THEN c
     ELSE CASE parsed.status = "PARSING_ERROR" -> Destroy(c1)
            [] parsed.status = "NO_END_OF_LINE" -> c1
            [] parsed.status = "END_OF_HEADER" ->
                 IF \/ HasHeader(c1.resp_headers, "Content-Length")
                    \/ HasHeader(c1.resp_headers, "Transfer-Encoding")
                 THEN StartBody(c1)
                 ELSE Destroy(c1)

(* The loop over the chunks: at a chunk's size line when chunk_size is -1, *)
(* else inside its data, of which chunk_read has been passed. The two more *)
(* are the line end after the data. The chunk of size 0 is the last.       *)
ChunkPositions ==
  {s \in [sppos : Nat, chunk_size : Int, chunk_read : Int] :
     s.chunk_size = -1 \/ s.chunk_read \in 0 .. s.chunk_size}
LastChunkSeen(s) == s.chunk_size = 2
LastChunkPassed(s) == s.chunk_size = 2 /\ s.chunk_read = 2

PassableUnbounded(buf, s) == s.chunk_size - s.chunk_read
Passable(buf, s) == Min({s.chunk_size - s.chunk_read, Len(buf) - s.sppos})

ScanChunks(buf, start) ==
  LET from[s \in ChunkPositions] ==
        LET crlf == Strstr(buf, s.sppos, CrLf)
            passed == Passable(buf, s)
            s1 == [s EXCEPT !.sppos = @ + passed, !.chunk_read = @ + passed]
        IN CASE s.chunk_size = -1 /\ crlf = 0 -> s
             [] s.chunk_size = -1 /\ crlf # 0 ->
                  from[[sppos |-> crlf + 1, chunk_read |-> 0,
                        chunk_size |-> Strtol(Between(buf, s.sppos, crlf)) + 2]]
             [] OTHER ->
                  IF s1.chunk_read # s1.chunk_size \/ LastChunkPassed(s1) THEN s1
                  ELSE from[[s1 EXCEPT !.chunk_size = -1, !.chunk_read = 0]]
  IN from[start]

(* The whole response is in the buffer: stop polling the server and give   *)
(* cache() its copy.                                                       *)
RespCompletePollsServer(c) ==
  [c EXCEPT !.client_events = {"POLLOUT"}, !.handling_step = "SENDING_RESP",
            !.cached = c.sbuff]
RespComplete(c) ==
  [c EXCEPT !.client_events = {"POLLOUT"}, !.server_events = {},
            !.handling_step = "SENDING_RESP", !.cached = c.sbuff]

ParsingRespBody(c) ==
  LET scanned == ScanChunks(c.sbuff, [sppos |-> c.sppos, chunk_size |-> c.chunk_size,
                                      chunk_read |-> c.chunk_read])
      c1 == [c EXCEPT !.sppos = scanned.sppos, !.chunk_size = scanned.chunk_size,
                      !.chunk_read = scanned.chunk_read]
  IN IF c.handling_step # "PARSING_RESP_BODY" THEN c
     ELSE IF c.content_length # -1
     THEN IF c.content_length = c.read_
          THEN RespComplete([c EXCEPT !.sppos = Len(c.sbuff)])
          ELSE c
     ELSE IF LastChunkPassed(scanned)
     THEN RespComplete([c1 EXCEPT !.content_length = c.read_])
     ELSE c1

(* read_to_vchar of n tokens of the client's or the server's stream.       *)
ReadFromClient(c, n) ==
  [c EXCEPT !.cbuff = @ \o SubSeq(request, Len(@) + 1, Len(@) + n)]
ReadFromServer(c, n) ==
  [c EXCEPT !.sbuff = @ \o SubSeq(response, Len(@) + 1, Len(@) + n),
            !.read_ = IF c.handling_step = "PARSING_RESP_BODY" THEN @ + n ELSE @]

(* What handle does on data of the client and of the server: it reads once *)
(* and goes as far through the parsing steps as the data allow.            *)
HandleRequestData(c, n, outcome) ==
  ParsingReqHeaders(ParsingReqType(ReadFromClient(c, n)), outcome)

HandleResponseData(c, n) ==
  ParsingRespBody(ParsingRespHeaders(ParsingRespCode(ReadFromServer(c, n))))

(* The test at the end of send_resp_step, on whatever the write before it  *)
(* has made of the context.                                                *)
FinishSending(c) ==
  IF c.handling_step \in {"SENDING_RESP", "HANDLED_EXCEPTIONALLY"} /\ c.sended = Len(c.sbuff)
  THEN [Destroy(c) EXCEPT !.handling_step = "HANDLED"]
  ELSE c

-----------------------------------------------------------------------------
(* The main loop calls handle when poll reports an event the context asks  *)
(* for.                                                                    *)
ClientPolled(event) == ctx.handling_step \notin Ended /\ event \in ctx.client_events
ServerPolled(event) == ctx.handling_step \notin Ended /\ event \in ctx.server_events

ReadingRequest == ctx.handling_step \in {"PARSING_REQ_TYPE", "PARSING_REQ_HEADERS"}
UnsentOfRequest == Len(request) - Len(ctx.cbuff)
UnsentOfResponse == Len(response) - Len(ctx.sbuff)

RequestArrives ==
  /\ ClientPolled("POLLIN") /\ ReadingRequest
  /\ \E n \in 1 .. UnsentOfRequest, outcome \in ConnectOutcomes :
       ctx' = HandleRequestData(ctx, n, outcome)
  /\ UNCHANGED <<peers, toServer, toClient>>

(* read returns 0 or -1: the client has closed or reset its connection.    *)
ClientGone ==
  /\ ClientPolled("POLLIN") /\ ReadingRequest
  /\ ~ peers.cooperative \/ UnsentOfRequest = 0
  /\ ctx' = Destroy(ctx)
  /\ UNCHANGED <<peers, toServer, toClient>>

(* After a connect that succeeded at once, the context waits for the       *)
(* client to send more or to close, and only then goes on.                 *)
ClientStirs ==
  /\ ClientPolled("POLLIN") /\ ctx.handling_step = "CONNECT_STEP"
  /\ ctx' = ConnectStep(ctx, "connected")
  /\ UNCHANGED <<peers, toServer, toClient>>

ConnectEnds ==
  /\ ServerPolled("POLLOUT") /\ ctx.handling_step = "CONNECT_STEP"
  /\ \E outcome \in {"connected"} \cup (ConnectOutcomes \cap {"fails"}) :
       ctx' = ConnectStep(ctx, outcome)
  /\ UNCHANGED <<peers, toServer, toClient>>

SendingReq ==
  /\ ServerPolled("POLLOUT") /\ ctx.handling_step = "SENDING_REQ"
  /\ \E n \in 1 .. Len(ctx.cbuff) - ctx.sended :
       /\ toServer' = toServer \o SubSeq(ctx.cbuff, ctx.sended + 1, ctx.sended + n)
       /\ ctx' = IF ctx.sended + n = Len(ctx.cbuff)
                 THEN [ctx EXCEPT !.sended = @ + n, !.client_events = {},
                                  !.server_events = {"POLLIN"},
                                  !.handling_step = "PARSING_RESP_CODE"]
                 ELSE [ctx EXCEPT !.sended = @ + n]
  /\ UNCHANGED <<peers, toClient>>

(* write to the server fails. *)
ServerRefuses ==
  /\ ServerPolled("POLLOUT") /\ ctx.handling_step = "SENDING_REQ"
  /\ ~ peers.cooperative
  /\ ctx' = Destroy(ctx)
  /\ UNCHANGED <<peers, toServer, toClient>>

ResponseArrives ==
  /\ ServerPolled("POLLIN")
  /\ \E n \in 1 .. UnsentOfResponse : ctx' = HandleResponseData(ctx, n)
  /\ UNCHANGED <<peers, toServer, toClient>>

(* read returns 0 or -1: the server has closed or reset its connection.    *)
ServerGone ==
  /\ ServerPolled("POLLIN")
  /\ ~ peers.cooperative \/ UnsentOfResponse = 0
  /\ ctx' = Destroy(ctx)
  /\ UNCHANGED <<peers, toServer, toClient>>

(* send_resp_in_receiving while the body is still coming in, and           *)
(* send_resp_step, which calls it, afterwards. With nothing to write the   *)
(* former does nothing.                                                    *)
SendingResp ==
  /\ ClientPolled("POLLOUT")
  /\ \E n \in 0 .. Len(ctx.sbuff) - ctx.sended :
       /\ n = 0 <=> ctx.sended = Len(ctx.sbuff)
       /\ toClient' = toClient \o SubSeq(ctx.sbuff, ctx.sended + 1, ctx.sended + n)
       /\ ctx' = FinishSending([ctx EXCEPT !.sended = @ + n])
  /\ UNCHANGED <<peers, toServer>>

(* write to the client fails. send_resp_step goes on to its test although  *)
(* send_resp_in_receiving has destroyed the context.                       *)
ClientRefuses ==
  /\ ClientPolled("POLLOUT")
  /\ ~ peers.cooperative /\ Len(ctx.sbuff) > ctx.sended
  /\ ctx' = IF ctx.handling_step = "SENDING_RESP" THEN FinishSending(Destroy(ctx))
            ELSE Destroy(ctx)
  /\ UNCHANGED <<peers, toServer, toClient>>

(* The main loop has dropped the context.                                  *)
Over == ctx.handling_step \in Ended /\ UNCHANGED vars

Next ==
  \/ RequestArrives \/ ClientGone \/ ClientStirs
  \/ ConnectEnds \/ SendingReq \/ ServerRefuses
  \/ ResponseArrives \/ ServerGone
  \/ SendingResp \/ ClientRefuses
  \/ Over

Spec == Init /\ [][Next]_vars

(* poll reports a ready socket again and again until it is served, and the *)
(* peers go on sending and receiving.                                      *)
Fairness ==
  /\ WF_vars(RequestArrives) /\ WF_vars(ConnectEnds) /\ WF_vars(SendingReq)
  /\ WF_vars(ResponseArrives) /\ WF_vars(SendingResp)

FairSpec == Spec /\ Fairness
-----------------------------------------------------------------------------
Steps ==
  {"PARSING_REQ_TYPE", "PARSING_REQ_HEADERS", "CONNECT_STEP", "SENDING_REQ",
   "PARSING_RESP_CODE", "PARSING_RESP_HEADERS", "PARSING_RESP_BODY",
   "SENDING_RESP"} \cup Ended

ReadingResponse ==
  ctx.handling_step \in {"PARSING_RESP_CODE", "PARSING_RESP_HEADERS", "PARSING_RESP_BODY"}

TypeOK ==
  /\ ctx.handling_step \in Steps
  /\ ctx.connection_state \in {"NOT_CONNECTED", "AWAIT_CONNECTION", "CONNECTED"}
  /\ ctx.client_events \in {{}, {"POLLIN"}, {"POLLOUT"}}
  /\ ctx.server_events \in {{}, {"POLLIN"}, {"POLLOUT"}}
  /\ ctx.server_fd \in {-1, 1}
  /\ ctx.handling_step \notin Ended =>
       /\ IsPrefix(ctx.cbuff, request) /\ ctx.cppos \in 0 .. Len(ctx.cbuff)
       /\ IsPrefix(ctx.sbuff, response) /\ ctx.sppos \in 0 .. Len(ctx.sbuff)
       /\ ctx.sended \in 0 .. Len(ctx.cbuff) + Len(ctx.sbuff)

(* The part of a request the code must have before it acts on it: all up   *)
(* to and including the first empty line.                                  *)
HeadOf(stream) == SubSeq(stream, 1, Strstr(stream, 0, CrLf \o CrLf) + 3)

(* One counter, sended, serves both directions, and is set back in two     *)
(* places (connect_step and the end of the response headers): each side    *)
(* still gets the other's stream from its start, without gap or            *)
(* repetition, and the server gets the whole head of the request before    *)
(* the proxy waits for an answer.                                          *)
Forwarding ==
  /\ IsPrefix(toServer, request) /\ IsPrefix(toClient, response)
  /\ ReadingResponse \/ ctx.handling_step = "SENDING_RESP" =>
       toServer = ctx.cbuff /\ IsPrefix(HeadOf(request), toServer)

(* Where a body in chunks that starts behind "start" ends: behind the line *)
(* end of the first chunk of size 0. Here and below, 0 says that the       *)
(* stream has no such place.                                               *)
EndOfChunks(stream, start) ==
  LET from[pos \in 0 .. Len(stream)] ==
        LET crlf == Strstr(stream, pos, CrLf)
            size == Strtol(Between(stream, pos, crlf))
            next == crlf + 1 + size + 2
        IN IF crlf = 0 \/ next > Len(stream) THEN 0
           ELSE IF size = 0 THEN next ELSE from[next]
  IN from[start]

(* Where a response ends when it is read in one piece: as many tokens      *)
(* behind its head as Content-Length says or, without one, behind its last *)
(* chunk.                                                                  *)
EndOfResponse(stream) ==
  LET code == ParseResponseCode(stream, 0)
      head == ParseHeaders(stream, code.next)
      length == ContentLength(head.headers)
      framed == \/ HasHeader(head.headers, "Content-Length")
                \/ HasHeader(head.headers, "Transfer-Encoding")
  IN IF code.status # "OK" \/ head.status # "END_OF_HEADER" \/ ~ framed THEN 0
     ELSE IF length # -1 THEN head.next + length
     ELSE EndOfChunks(stream, head.next)

(* A server that cooperates sends what the head of its response announces, *)
(* and nothing behind it.                                                  *)
ASSUME CooperativeAssumption ==
  \A ends \in Peers : ends.cooperative =>
    ends.response # <<>> /\ EndOfResponse(ends.response) = Len(ends.response)

(* However the response is cut up into reads, its end is recognised with   *)
(* its last token and neither before nor after (for cooperative peers,     *)
(* whose framing is right).                                                *)
EndRecognised ==
  peers.cooperative =>
  /\ ReadingResponse => ctx.sbuff # response
  /\ ctx.handling_step = "SENDING_RESP" => ctx.sbuff = response

(* What has come of a stream is a complete response when it reaches the    *)
(* end the stream has in one piece, and goes beyond it only behind the     *)
(* last chunk, where one read may have brought more.                       *)
IsComplete(buf, stream) ==
  /\ IsPrefix(buf, stream) /\ EndOfResponse(stream) \in 1 .. Len(buf)
  /\ Len(buf) # EndOfResponse(stream) =>
       ContentLength(ParseHeaders(stream, ParseResponseCode(stream, 0).next).headers) = -1

(* HANDLED says that the client has a complete response, the same that was *)
(* given to cache(), also between faulty peers and however the response    *)
(* was cut up; the one exception is the second destruction that            *)
(* DestroyedTwice is about.                                                *)
HandledMeansDelivered ==
  /\ ctx.handling_step = "HANDLED" /\ ctx.destroyed = 1 => toClient = ctx.cached
  /\ ctx.cached # <<>> => IsComplete(ctx.cached, response)

(* A context is destroyed twice only by send_resp_step, when the write     *)
(* that fails is the first one of the response: the freed buffer is empty, *)
(* like what was sent.                                                     *)
DestroyedTwice ==
  /\ ctx.destroyed <= 2
  /\ ctx.destroyed = 2 => ctx.cached # <<>> /\ toClient = <<>>
  /\ ctx.destroyed > 0 <=> ctx.handling_step \in Ended

(* What the main loop sees of the context. *)
View ==
  [handling_step |-> ctx.handling_step, connection_state |-> ctx.connection_state,
   client_events |-> ctx.client_events, server_events |-> ctx.server_events,
   client_fd |-> 0, server_fd |-> ctx.server_fd]

Lifecycle == INSTANCE ContextLifecycle WITH context <- View

(* The steps follow one another as the main loop relies on: each call of   *)
(* handle is for a descriptor whose event the present step expects, so     *)
(* that no assertion at the head of a step fails, and leaves the context   *)
(* in one of the steps, with one of the sets of events, of its lifecycle.  *)
FollowsLifecycle == Lifecycle!LifecycleSpec

(* Between cooperative peers, every request is answered: the      *)
(* client gets the whole response and the context ends as HANDLED.         *)
EveryRequestAnswered ==
  peers.cooperative => <>(ctx.handling_step = "HANDLED" /\ toClient = response)

(* A failed write destroys the context and ends its handling               *)
(* (connection_handler.c:404), so no context is destroyed a second time.   *)
DestroyedOnce == ctx.destroyed <= 1

=============================================================================
