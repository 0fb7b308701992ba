----------------------------- MODULE ProxyLoop -----------------------------
(***************************************************************************)
(* proxy/proxy.c: the loop that polls the listening socket and the sockets *)
(* of all connections, accepts one client a round, calls handle for every  *)
(* ready descriptor and builds the array for the next poll. What handle    *)
(* makes of a context is that of ContextLifecycle. The steps are the call  *)
(* of poll with the accept after it, one round of the scan, and one round  *)
(* of the rebuilding; the loop is the program's only thread. Descriptors   *)
(* are numbers and a new one is the lowest not in use.                     *)
(***************************************************************************)
EXTENDS ContextSteps, FiniteSets, SequencesExt, FiniteSetsExt

CONSTANTS
  Slots,           \* capacity of context1 (100); fds has twice as many
  MaxOpen,         \* connections that clients keep open at a time
  MaxConnections   \* bound on the connections accepted in a behaviour

ASSUME LoopAssumption ==
  /\ Slots \in Nat /\ MaxOpen \in Nat /\ MaxConnections \in Nat
  /\ MaxOpen < Slots

(* Descriptors: those before the listening socket's are the standard       *)
(* streams, and a process never needs more than MaxOpen pairs.             *)
ServSock == 3
Descriptors == ServSock + 1 .. ServSock + 2 * MaxOpen

VARIABLES
  phase,      \* "poll", "scan" or "rebuild"; at the end "exited" or "killed"
  context1,   \* the live contexts, each with the number of its connection
  fds,        \* the polled array, without the listening socket's entry
  i,          \* index of the loop under way
  open,       \* descriptors in use for connections
  accepted    \* connections accepted so far

vars == <<phase, context1, fds, i, open, accepted>>

Init ==
  /\ phase = "poll"
  /\ context1 = <<>> /\ fds = <<>> /\ open = {}
  /\ i = 1 /\ accepted = 0

-----------------------------------------------------------------------------
FreeDescriptor == Min(Descriptors \ open)

(* The sockets destroy_context closes. *)
SocketsOf(c) == {c.client_fd, c.server_fd} \ {-1}

(* find_context: the contexts, by index, that have a descriptor, of which  *)
(* the code takes the first; none is -1.                                   *)
Having(fd) == {k \in DOMAIN context1 : fd \in SocketsOf(context1[k].state)}

(* An entry's connection number is there for the properties only. *)
Entry(fd, events, number) ==
  [fd |-> fd, events |-> events, revents |-> {}, number |-> number]

(* poll returns with some of the events asked for; a client that has       *)
(* connected is accepted at once.                                          *)
Poll ==
  /\ phase = "poll"
  /\ \E ready \in SUBSET DOMAIN fds :
       fds' = [k \in DOMAIN fds |->
                 [fds[k] EXCEPT !.revents = IF k \in ready THEN fds[k].events ELSE {}]]
  /\ \/ UNCHANGED <<context1, open, accepted>>
     \/ /\ Len(context1) < MaxOpen /\ accepted < MaxConnections
        /\ accepted' = accepted + 1
        /\ open' = open \cup {FreeDescriptor}
        /\ context1' = Append(context1,
             [number |-> accepted + 1, state |-> InitContext(FreeDescriptor)])
  /\ phase' = "scan" /\ i' = 1

(* The scan is at an entry; find_context has found context k for it, if    *)
(* any, and the events that this context now wants from that descriptor.   *)
Scanning == phase = "scan" /\ i <= Len(fds)
Found(k) == Having(fds[i].fd) # {} /\ k = Min(Having(fds[i].fd))
IsClient(k) == context1[k].state.client_fd = fds[i].fd
Wanted(c, fd) == IF c.client_fd = fd THEN c.client_events ELSE c.server_events
Ready(k) == Wanted(context1[k].state, fds[i].fd) \cap fds[i].revents # {}

(* ASSERT(ind != -1). *)
NotFound ==
  /\ Scanning
  /\ Having(fds[i].fd) = {}
  /\ phase' = "exited"
  /\ UNCHANGED <<context1, fds, i, open, accepted>>

NotReady ==
  /\ Scanning
  /\ \E k \in DOMAIN context1 : Found(k) /\ ~ Ready(k)
  /\ i' = i + 1
  /\ UNCHANGED <<phase, context1, fds, open, accepted>>

(* handle has turned context k into c. If it has ended, its sockets are    *)
(* closed and the contexts after it move up.                               *)
HasEndedWell(c) == c.handling_step = "HANDLED"
HasEnded(c) == c.handling_step \in {"HANDLED", "HANDLED_EXCEPTIONALLY"}

ClosedClientOnly(c) == {c.client_fd}
Closed(c) == SocketsOf(c)

LastRemoved(k) == RemoveAt(context1, Len(context1))
Remaining(k) == RemoveAt(context1, k)

Handled(k, c) ==
  IF HasEnded(c)
  THEN /\ context1' = Remaining(k)
       /\ open' = open \ Closed(c)
  ELSE /\ context1' = [context1 EXCEPT ![k].state = c]
       /\ open' = open \cup SocketsOf(c)

HandleClient ==
  /\ Scanning
  /\ \E k \in DOMAIN context1 :
       LET c == context1[k].state
       IN /\ Found(k) /\ IsClient(k) /\ Ready(k)
          /\ IF ClientEventExpected(c, fds[i].revents)
             THEN /\ \E c2 \in AfterClientEvent(c, FreeDescriptor) : Handled(k, c2)
                  /\ i' = i + 1 /\ UNCHANGED phase
             ELSE phase' = "exited" /\ UNCHANGED <<context1, open, i>>
  /\ UNCHANGED <<fds, accepted>>

HandleServer ==
  /\ Scanning
  /\ \E k \in DOMAIN context1 :
       LET c == context1[k].state
       IN /\ Found(k) /\ ~ IsClient(k) /\ Ready(k)
          /\ IF ServerEventExpected(c, fds[i].revents)
             THEN /\ \E c2 \in AfterServerEvent(c) : Handled(k, c2)
                  /\ i' = i + 1 /\ UNCHANGED phase
             ELSE phase' = "exited" /\ UNCHANGED <<context1, open, i>>
  /\ UNCHANGED <<fds, accepted>>

(* A write to a peer that has gone can end the process: SIGPIPE is not     *)
(* ignored, and send_resp_step then may free the context twice.            *)
WriteKills ==
  /\ Scanning
  /\ \E k \in DOMAIN context1 :
       /\ Found(k) /\ Ready(k)
       /\ "POLLOUT" \in fds[i].revents
       /\ context1[k].state.handling_step # "CONNECT_STEP"
  /\ phase' = "killed"
  /\ UNCHANGED <<context1, fds, i, open, accepted>>

EndScanKeepingEntries ==
  /\ phase = "scan" /\ i > Len(fds)
  /\ phase' = "rebuild"
  /\ i' = 1
  /\ UNCHANGED <<context1, fds, open, accepted>>
EndScan ==
  /\ phase = "scan" /\ i > Len(fds)
  /\ phase' = "rebuild"
  /\ fds' = <<>> /\ i' = 1
  /\ UNCHANGED <<context1, open, accepted>>

(* The entries of one context, if it wants any events. *)
ClientEntry(x) ==
  IF x.state.client_events = {} THEN <<>>
  ELSE <<Entry(x.state.client_fd, x.state.client_events, x.number)>>
ServerEntryUnlessClient(x) ==
  IF x.state.server_events = {} \/ x.state.client_events # {} THEN <<>>
  ELSE <<Entry(x.state.server_fd, x.state.server_events, x.number)>>
ServerEntry(x) ==
  IF x.state.server_events = {} \/ x.state.server_fd = -1 THEN <<>>
  ELSE <<Entry(x.state.server_fd, x.state.server_events, x.number)>>

EntriesServerFirst(x) == ServerEntry(x) \o ClientEntry(x)
EntriesOf(x) == ClientEntry(x) \o ServerEntry(x)

Rebuild ==
  /\ phase = "rebuild" /\ i <= Len(context1)
  /\ fds' = fds \o EntriesOf(context1[i])
  /\ i' = i + 1
  /\ UNCHANGED <<phase, context1, open, accepted>>

EndRebuild ==
  /\ phase = "rebuild" /\ i > Len(context1)
  /\ phase' = "poll" /\ i' = 1
  /\ UNCHANGED <<context1, fds, open, accepted>>

Stopped == phase \in {"exited", "killed"} /\ UNCHANGED vars

Next ==
  \/ Poll
  \/ NotFound \/ NotReady \/ HandleClient \/ HandleServer \/ WriteKills
  \/ EndScan \/ Rebuild \/ EndRebuild
  \/ Stopped

Spec == Init /\ [][Next]_vars

-----------------------------------------------------------------------------
Contexts ==
  [handling_step : {"PARSING_REQ_TYPE", "PARSING_REQ_HEADERS", "CONNECT_STEP",
                    "SENDING_REQ", "PARSING_RESP_CODE", "PARSING_RESP_HEADERS",
                    "PARSING_RESP_BODY", "SENDING_RESP"},
   connection_state : {"NOT_CONNECTED", "AWAIT_CONNECTION", "CONNECTED"},
   client_events : {{}, {"POLLIN"}, {"POLLOUT"}},
   server_events : {{}, {"POLLIN"}, {"POLLOUT"}},
   client_fd : Descriptors, server_fd : Descriptors \cup {-1}]

Entries ==
  [fd : Descriptors, events : {{"POLLIN"}, {"POLLOUT"}},
   revents : {{}, {"POLLIN"}, {"POLLOUT"}}, number : 1 .. accepted]

TypeOK ==
  /\ phase \in {"poll", "scan", "rebuild", "exited", "killed"}
  /\ context1 \in Seq([number : 1 .. accepted, state : Contexts])
  /\ fds \in Seq(Entries)
  /\ i \in 1 .. 1 + Len(fds) + Len(context1)
  /\ open \subseteq Descriptors
  /\ accepted \in 0 .. MaxConnections

(* The descriptors in use are those of the live contexts, each owned by    *)
(* one of them, once: nothing leaks when a connection ends in the middle   *)
(* of a scan, and find_context cannot mistake one connection for another.  *)
DescriptorsOwned ==
  /\ open = UNION {SocketsOf(context1[k].state) : k \in DOMAIN context1}
  /\ \A k \in DOMAIN context1 :
       /\ context1[k].state.client_fd # context1[k].state.server_fd
       /\ \A m \in DOMAIN context1 \ {k} :
            SocketsOf(context1[k].state) \cap SocketsOf(context1[m].state) = {}

(* As long as clients keep fewer connections open than context1 has slots, *)
(* every access is inside the two arrays, also the copy of the slot after  *)
(* the last one when a context is removed (proxy.c:95).                    *)
InBounds == Len(context1) < Slots /\ 1 + Len(fds) <= 2 * Slots

(* An event reported for one connection is never handled as another's,     *)
(* although descriptors are closed and given out again while the entries   *)
(* of the last poll are still being scanned.                               *)
EventsReachTheirConnection ==
  phase = "scan" => \A e \in i .. Len(fds) :
    \A k \in Having(fds[e].fd) : context1[k].number = fds[e].number

(* Before every poll, each live connection has its entry, or entries, with *)
(* the events it wants now: none of them is forgotten for ever.            *)
EveryConnectionPolled ==
  phase = "poll" => \A k \in DOMAIN context1 :
    LET mine == {e \in DOMAIN fds : fds[e].number = context1[k].number}
    IN /\ mine # {}
       /\ \A e \in mine : fds[e].events = Wanted(context1[k].state, fds[e].fd)
       /\ {fds[e].fd : e \in mine} =
            {fd \in SocketsOf(context1[k].state) : Wanted(context1[k].state, fd) # {}}

(* The one way to a failed assertion: the entry is that of the server of a *)
(* connection which the entry just before, its client's, has ended.        *)
ExitCause ==
  phase = "exited" =>
    /\ Having(fds[i].fd) = {}
    /\ i > 1 /\ fds[i - 1].number = fds[i].number
    /\ fds[i - 1].revents = {"POLLOUT"} /\ fds[i].events = {"POLLIN"}

(* A descriptor that was polled belongs to a context, as                   *)
(* ASSERT(ind != -1) in the loop says (proxy.c:88).                        *)
EntryHasContext == phase # "exited"

=============================================================================
