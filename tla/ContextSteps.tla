---------------------------- MODULE ContextSteps ----------------------------
(***************************************************************************)
(* What a call of handle may do to the part of a connection's context that *)
(* the main loop looks at: its step, the events it wants reported and its  *)
(* two descriptors. The streams, buffers and counters of the connection    *)
(* are abstracted to the choices they can lead to.                         *)
(***************************************************************************)
EXTENDS Integers

Ended == {"HANDLED", "HANDLED_EXCEPTIONALLY"}

(* The context init_context makes of an accepted connection. *)
InitContext(client_fd) ==
  [handling_step |-> "PARSING_REQ_TYPE", connection_state |-> "NOT_CONNECTED",
   client_events |-> {"POLLIN"}, server_events |-> {},
   client_fd |-> client_fd, server_fd |-> -1]

AtStep(c, step) == [c EXCEPT !.handling_step = step]
Destroyed(c) == AtStep(c, "HANDLED_EXCEPTIONALLY")

(* The assertions at the head of the steps: which descriptor a step is to  *)
(* be called for, and that its event is among those reported.              *)
ClientEventExpected(c, revents) ==
  \/ /\ c.handling_step \in {"PARSING_REQ_TYPE", "PARSING_REQ_HEADERS"}
     /\ "POLLIN" \in revents
  \/ c.handling_step = "CONNECT_STEP" /\ c.connection_state # "AWAIT_CONNECTION"
  \/ c.handling_step = "PARSING_RESP_BODY"
  \/ c.handling_step = "SENDING_RESP" /\ "POLLOUT" \in revents

ServerEventExpected(c, revents) ==
  \/ c.handling_step \in {"CONNECT_STEP", "SENDING_REQ"} /\ "POLLOUT" \in revents
  \/ /\ c.handling_step \in {"PARSING_RESP_CODE", "PARSING_RESP_HEADERS", "PARSING_RESP_BODY"}
     /\ "POLLIN" \in revents

(* The end of connect_step on an established connection. *)
StartSending(c) ==
  [AtStep(c, "SENDING_REQ") EXCEPT !.client_events = {}, !.server_events = {"POLLOUT"}]

(* The whole request head is there: a socket, numbered fd, is created (or  *)
(* not) and connect succeeds at once, goes on in the background or fails.  *)
AfterConnect(c, fd) ==
  LET opened == [AtStep(c, "CONNECT_STEP") EXCEPT !.server_fd = fd]
  IN {Destroyed(c), Destroyed(opened),
      [opened EXCEPT !.connection_state = "CONNECTED"],
      [opened EXCEPT !.connection_state = "AWAIT_CONNECTION",
                     !.client_events = {}, !.server_events = {"POLLOUT"}]}

(* What becomes of context c when its client's descriptor is ready, fd     *)
(* being the descriptor a new socket would get.                            *)
AfterClientEvent(c, fd) ==
  CASE c.handling_step = "PARSING_REQ_TYPE" ->
         {c, AtStep(c, "PARSING_REQ_HEADERS")} \cup AfterConnect(c, fd)
    [] c.handling_step = "PARSING_REQ_HEADERS" -> {c} \cup AfterConnect(c, fd)
    [] c.handling_step = "CONNECT_STEP" -> {StartSending(c)}
    [] c.handling_step = "PARSING_RESP_BODY" -> {c, Destroyed(c)}
    [] c.handling_step = "SENDING_RESP" -> {c, Destroyed(c), AtStep(c, "HANDLED")}

ReceivingBody(c) == [AtStep(c, "PARSING_RESP_BODY") EXCEPT !.client_events = {"POLLOUT"}]
ResponseComplete(c) ==
  [AtStep(c, "SENDING_RESP") EXCEPT !.client_events = {"POLLOUT"}, !.server_events = {}]

(* The same when the server's descriptor is ready. *)
AfterServerEvent(c) ==
  CASE c.handling_step = "CONNECT_STEP" ->
         {Destroyed(StartSending(c)), [StartSending(c) EXCEPT !.connection_state = "CONNECTED"]}
    [] c.handling_step = "SENDING_REQ" ->
         {c, Destroyed(c),
          [AtStep(c, "PARSING_RESP_CODE") EXCEPT !.client_events = {}, !.server_events = {"POLLIN"}]}
    [] c.handling_step = "PARSING_RESP_CODE" ->
         {c, Destroyed(c), AtStep(c, "PARSING_RESP_HEADERS"), ReceivingBody(c), ResponseComplete(c)}
    [] c.handling_step = "PARSING_RESP_HEADERS" ->
         {c, Destroyed(c), ReceivingBody(c), ResponseComplete(c)}
    [] c.handling_step = "PARSING_RESP_BODY" ->
         {c, Destroyed(c), ResponseComplete(c)}

=============================================================================
