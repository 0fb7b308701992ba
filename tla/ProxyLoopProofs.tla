-------------------------- MODULE ProxyLoopProofs --------------------------
(***************************************************************************)
(* Proofs about the main loop of proxy.c for any number of slots, of       *)
(* connections open at a time and of connections accepted.                 *)
(***************************************************************************)
EXTENDS ProxyLoop, FiniteSetTheorems, SequenceTheorems,
        WellFoundedInduction, TLAPS

State(k) == context1[k].state

(* What the steps keep to be true of a context between two calls of        *)
(* handle: its events follow from its step and the state of its connect.   *)
Asks(c, client_events, server_events) ==
  c.client_events = client_events /\ c.server_events = server_events

WithServer(c) ==
  /\ c.server_fd # -1
  /\ \/ /\ c.handling_step = "CONNECT_STEP" /\ c.connection_state = "CONNECTED"
        /\ Asks(c, {"POLLIN"}, {})
     \/ /\ c.handling_step = "CONNECT_STEP" /\ c.connection_state = "AWAIT_CONNECTION"
        /\ Asks(c, {}, {"POLLOUT"})
     \/ c.handling_step = "SENDING_REQ" /\ Asks(c, {}, {"POLLOUT"})
     \/ /\ c.handling_step \in {"PARSING_RESP_CODE", "PARSING_RESP_HEADERS"}
        /\ Asks(c, {}, {"POLLIN"})
     \/ c.handling_step = "PARSING_RESP_BODY" /\ Asks(c, {"POLLOUT"}, {"POLLIN"})
     \/ c.handling_step = "SENDING_RESP" /\ Asks(c, {"POLLOUT"}, {})

WithoutServer(c) ==
  /\ c.server_fd = -1
  /\ c.handling_step \in {"PARSING_REQ_TYPE", "PARSING_REQ_HEADERS"}
  /\ Asks(c, {"POLLIN"}, {})

Coherent(c) ==
  /\ c \in Contexts
  /\ c.client_fd # c.server_fd
  /\ WithServer(c) \/ WithoutServer(c)

Typed ==
  /\ phase \in {"poll", "scan", "rebuild", "exited", "killed"}
  /\ context1 \in Seq([number : 1 .. accepted, state : Contexts])
  /\ fds \in Seq(Entries)
  /\ i \in Nat \ {0}
  /\ open \subseteq Descriptors
  /\ accepted \in 0 .. MaxConnections

Counted ==
  /\ Len(context1) <= MaxOpen /\ Len(fds) <= 2 * MaxOpen
  /\ phase = "poll" => i = 1
  /\ phase = "scan" => i <= Len(fds) + 1
  /\ phase = "rebuild" => i <= Len(context1) + 1 /\ Len(fds) <= 2 * (i - 1)
  /\ phase \in {"exited", "killed"} => i <= Len(fds)

AllCoherent == \A k \in DOMAIN context1 : Coherent(State(k))

Numbered ==
  \A k, m \in DOMAIN context1 : context1[k].number = context1[m].number => k = m

Apart ==
  \A k, m \in DOMAIN context1 :
    \A d \in SocketsOf(State(k)) : d \in SocketsOf(State(m)) => k = m

OpenOwned ==
  \A d \in Descriptors :
    d \in open <=> \E k \in DOMAIN context1 : d \in SocketsOf(State(k))

Reported == \A e \in DOMAIN fds : fds[e].revents \in {{}, fds[e].events}

Adjacent ==
  \A e, f \in DOMAIN fds :
    e < f /\ fds[e].number = fds[f].number =>
      f = e + 1 /\ fds[e].events = {"POLLOUT"} /\ fds[f].events = {"POLLIN"}

Concerns(e, k) ==
  fds[e].number = context1[k].number /\ fds[e].fd \in SocketsOf(State(k))

Describes(e, k) == Concerns(e, k) /\ fds[e].events = Wanted(State(k), fds[e].fd)

Built(last) ==
  /\ \A e \in DOMAIN fds : \E k \in 1 .. last : Describes(e, k)
  /\ \A k \in 1 .. last : \A d \in SocketsOf(State(k)) :
       Wanted(State(k), d) # {} => \E e \in DOMAIN fds : fds[e].fd = d /\ Describes(e, k)

Orphan(e) ==
  /\ Having(fds[e].fd) = {}
  /\ e > 1 /\ fds[e - 1].number = fds[e].number
  /\ fds[e - 1].revents = {"POLLOUT"} /\ fds[e].events = {"POLLIN"}

EntriesCurrent ==
  /\ phase = "poll" => Built(Len(context1))
  /\ phase = "rebuild" => Built(i - 1)
  /\ phase = "scan" => \A e \in i .. Len(fds) :
                         (\E k \in DOMAIN context1 : Concerns(e, k)) \/ (e = i /\ Orphan(e))
  /\ phase = "exited" => Orphan(i)

IInv ==
  /\ Typed /\ Counted /\ AllCoherent /\ Numbered /\ Apart /\ OpenOwned
  /\ Reported /\ Adjacent /\ EntriesCurrent

-----------------------------------------------------------------------------
(* The descriptors: a finite interval, of which the lowest free one is     *)
(* taken. Two for each connection that may be open are enough.             *)
LEMMA DescriptorNumbers ==
  /\ Descriptors \subseteq Nat /\ -1 \notin Descriptors
  /\ IsFiniteSet(Descriptors) /\ Cardinality(Descriptors) = 2 * MaxOpen
<1>1. 2 * MaxOpen \in Nat
  BY LoopAssumption
<1>2. Descriptors = 4 .. 3 + 2 * MaxOpen
  BY <1>1 DEF Descriptors, ServSock
<1>3. 4 \in Int /\ 3 + 2 * MaxOpen \in Int
  BY <1>1
<1>4. IsFiniteSet(4 .. 3 + 2 * MaxOpen) /\ Cardinality(4 .. 3 + 2 * MaxOpen) = 2 * MaxOpen
  BY <1>1, <1>3, FS_Interval
<1>5. QED
  BY <1>1, <1>2, <1>4

LEMMA LowestExists ==
  ASSUME NEW S, S \subseteq Nat, S # {}
  PROVE  Min(S) \in S
<1>1. PICK x \in S : \A y \in S : ~ (<<y, x>> \in OpToRel(<, Nat))
  BY NatLessThanWellFounded, WFMin
<1>2. ASSUME NEW y \in S PROVE x =< y
  <2>1. ~ (y < x)
    BY <1>1 DEF OpToRel
  <2>2. QED
    BY <2>1
<1>3. QED
  BY <1>2 DEF Min

(* As long as a context has no server, or there is room for one context    *)
(* more, a descriptor is free.                                             *)
LEMMA FreeDescriptorExists ==
  ASSUME IInv,
         \/ Len(context1) < MaxOpen
         \/ \E k \in DOMAIN context1 : State(k).server_fd = -1
  PROVE  FreeDescriptor \in Descriptors /\ FreeDescriptor \notin open
<1> DEFINE Free == Descriptors \ open
           N == Len(context1)
           Owner(d) == CHOOSE k \in DOMAIN context1 : d \in SocketsOf(State(k))
           Place == [d \in Descriptors |-> IF d = State(Owner(d)).client_fd
                                           THEN 2 * Owner(d) - 1 ELSE 2 * Owner(d)]
<1>1. N \in Nat /\ DOMAIN context1 = 1 .. N /\ N <= MaxOpen
  BY LenProperties DEF IInv, Typed, Counted
<1>2. SUFFICES ASSUME Free = {} PROVE FALSE
  <2>1. Free # {}
    BY <1>2
  <2>2. Min(Free) \in Free
    BY <2>1, LowestExists, DescriptorNumbers
  <2>3. QED
    BY <2>2 DEF FreeDescriptor
<1>3. \A d \in Descriptors : Owner(d) \in 1 .. N /\ d \in SocketsOf(State(Owner(d)))
  BY <1>1, <1>2 DEF IInv, OpenOwned
<1>4. PICK T \in SUBSET (1 .. 2 * N) :
        \/ T = 1 .. 2 * N /\ N < MaxOpen
        \/ \E k \in 1 .. N : State(k).server_fd = -1 /\ T = (1 .. 2 * N) \ {2 * k}
  BY <1>1
<1>5. IsFiniteSet(T) /\ Cardinality(T) < Cardinality(Descriptors)
  <2>1. 2 * N \in Nat
    BY <1>1
  <2>2. IsFiniteSet(1 .. 2 * N) /\ Cardinality(1 .. 2 * N) = 2 * N
    BY <2>1, FS_Interval
  <2>3. CASE T = 1 .. 2 * N /\ N < MaxOpen
    BY <1>1, <2>2, <2>3, DescriptorNumbers, LoopAssumption
  <2>4. ASSUME NEW k \in 1 .. N, T = (1 .. 2 * N) \ {2 * k}
        PROVE  IsFiniteSet(T) /\ Cardinality(T) < Cardinality(Descriptors)
    <3>1. 2 * k \in 1 .. 2 * N
      BY <1>1
    <3>2. IsFiniteSet(T) /\ Cardinality(T) = 2 * N - 1
      <4>1. /\ IsFiniteSet((1 .. 2 * N) \ {2 * k})
            /\ Cardinality((1 .. 2 * N) \ {2 * k}) = 2 * N - 1
        <5> DEFINE S == 1 .. 2 * N
                   x == 2 * k
                   c == 2 * N
        <5>1. IsFiniteSet(S) /\ Cardinality(S) = c /\ x \in S
          BY <2>2, <3>1
        <5> HIDE DEF S, x, c
        <5>2. IsFiniteSet(S \ {x}) /\ Cardinality(S \ {x}) = c - 1
          BY <5>1, FS_RemoveElement
        <5>3. QED
          BY <5>2 DEF S, x, c
      <4>2. QED
        BY <2>4, <4>1
    <3>3. QED
      BY <1>1, <3>2, DescriptorNumbers, LoopAssumption
  <2>5. QED
    BY <1>4, <2>3, <2>4
<1>6. Place \in [Descriptors -> T]
  <2> SUFFICES ASSUME NEW d \in Descriptors PROVE Place[d] \in T
    OBVIOUS
  <2> DEFINE o == Owner(d)
  <2>1. o \in 1 .. N /\ d \in SocketsOf(State(o))
    BY <1>3
  <2> HIDE DEF Owner
  <2>2. Place[d] = IF d = State(o).client_fd THEN 2 * o - 1 ELSE 2 * o
    OBVIOUS
  <2>3. d # State(o).client_fd => d = State(o).server_fd /\ State(o).server_fd # -1
    BY <2>1 DEF SocketsOf
  <2> HIDE DEF o, Place
  <2>4. Place[d] \in 1 .. 2 * N
    BY <1>1, <2>1, <2>2
  <2>5. \A k \in 1 .. N : State(k).server_fd = -1 => Place[d] # 2 * k
    <3> SUFFICES ASSUME NEW k \in 1 .. N, State(k).server_fd = -1, Place[d] = 2 * k
                 PROVE  FALSE
      OBVIOUS
    <3>1. 2 * o - 1 # 2 * k
      BY <2>1
    <3>2. 2 * o = 2 * k /\ d # State(o).client_fd
      BY <2>2, <3>1
    <3>3. o = k
      BY <2>1, <3>2
    <3>4. QED
      BY <2>3, <3>2, <3>3
  <2>6. QED
    BY <1>4, <2>4, <2>5
<1>7. \A d, e \in Descriptors : Place[d] = Place[e] => d = e
  <2> SUFFICES ASSUME NEW d \in Descriptors, NEW e \in Descriptors, Place[d] = Place[e]
               PROVE  d = e
    OBVIOUS
  <2> DEFINE o == Owner(d)
             p == Owner(e)
  <2>1. o \in 1 .. N /\ d \in SocketsOf(State(o)) /\ p \in 1 .. N /\ e \in SocketsOf(State(p))
    BY <1>3
  <2> HIDE DEF Owner
  <2>2. /\ Place[d] = IF d = State(o).client_fd THEN 2 * o - 1 ELSE 2 * o
        /\ Place[e] = IF e = State(p).client_fd THEN 2 * p - 1 ELSE 2 * p
    OBVIOUS
  <2>3. /\ d = State(o).client_fd \/ d = State(o).server_fd
        /\ e = State(p).client_fd \/ e = State(p).server_fd
    BY <2>1 DEF SocketsOf
  <2> HIDE DEF o, p, Place
  <2>4. o = p /\ (d = State(o).client_fd <=> e = State(p).client_fd)
    <3>1. o \in Int /\ p \in Int
      BY <2>1
    <3>2. 2 * o - 1 # 2 * p /\ 2 * p - 1 # 2 * o
      BY <3>1
    <3>3. 2 * o - 1 = 2 * p - 1 \/ 2 * o = 2 * p => o = p
      BY <3>1
    <3>4. QED
      BY <2>2, <3>1, <3>2, <3>3
  <2>5. QED
    BY <2>3, <2>4
<1>8. \E d, e \in Descriptors : d # e /\ Place[d] = Place[e]
  <2> HIDE DEF Place
  <2>1. QED
    BY <1>5, <1>6, DescriptorNumbers, FS_PigeonHole
<1>9. QED
  BY <1>7, <1>8

-----------------------------------------------------------------------------
(* A coherent context asks for something, for two things in one step only, *)
(* and never for an event of a server it does not have.                    *)
LEMMA AsksSomething ==
  ASSUME NEW c, Coherent(c)
  PROVE  /\ c.client_fd \in Descriptors /\ c.client_events \in {{}, {"POLLIN"}, {"POLLOUT"}}
         /\ c.server_events \in {{}, {"POLLIN"}, {"POLLOUT"}}
         /\ c.server_fd # -1 => c.server_fd \in Descriptors
         /\ c.server_fd = -1 => c.server_events = {}
         /\ c.client_events # {} \/ c.server_events # {}
         /\ c.client_events # {} /\ c.server_events # {} =>
              c.client_events = {"POLLOUT"} /\ c.server_events = {"POLLIN"}
  BY DEF Coherent, WithServer, WithoutServer, Asks, Contexts

(* The assertions at the head of the steps hold.                           *)
LEMMA ClientExpected ==
  ASSUME NEW c, NEW revents, Coherent(c), c.client_events \cap revents # {}
  PROVE  ClientEventExpected(c, revents)
  BY DEF Coherent, WithServer, WithoutServer, Asks, ClientEventExpected

LEMMA ServerExpected ==
  ASSUME NEW c, NEW revents, Coherent(c), c.server_events \cap revents # {}
  PROVE  ServerEventExpected(c, revents)
  BY DEF Coherent, WithServer, WithoutServer, Asks, ServerEventExpected

(* The contexts that a step can make of a live one, the ended ones among   *)
(* them, and what is in the one it makes, field by field.                  *)
LiveSteps == {"PARSING_REQ_TYPE", "PARSING_REQ_HEADERS", "CONNECT_STEP",
              "SENDING_REQ", "PARSING_RESP_CODE", "PARSING_RESP_HEADERS",
              "PARSING_RESP_BODY", "SENDING_RESP"}

Outcomes ==
  [handling_step : LiveSteps \cup Ended,
   connection_state : {"NOT_CONNECTED", "AWAIT_CONNECTION", "CONNECTED"},
   client_events : {{}, {"POLLIN"}, {"POLLOUT"}},
   server_events : {{}, {"POLLIN"}, {"POLLOUT"}},
   client_fd : Descriptors, server_fd : Descriptors \cup {-1}]

Made(c2, c, step, connection_state, client_events, server_events, server_fd) ==
  /\ c2 \in Outcomes
  /\ c2.handling_step = step /\ c2.connection_state = connection_state
  /\ Asks(c2, client_events, server_events)
  /\ c2.client_fd = c.client_fd /\ c2.server_fd = server_fd

LEMMA LiveOutcome ==
  /\ Contexts \subseteq Outcomes
  /\ \A c \in Outcomes : c.handling_step \in LiveSteps => c \in Contexts
  BY DEF Contexts, Outcomes, LiveSteps, Ended

LEMMA StepMoved ==
  ASSUME NEW c \in Outcomes, NEW step \in LiveSteps \cup Ended
  PROVE  Made(AtStep(c, step), c, step, c.connection_state,
              c.client_events, c.server_events, c.server_fd)
  BY DEF AtStep, Outcomes, Made, Asks

LEMMA OtherStepsMade ==
  ASSUME NEW c \in Outcomes
  PROVE  /\ Made(Destroyed(c), c, "HANDLED_EXCEPTIONALLY", c.connection_state,
                 c.client_events, c.server_events, c.server_fd)
         /\ Made(StartSending(c), c, "SENDING_REQ", c.connection_state,
                 {}, {"POLLOUT"}, c.server_fd)
         /\ Made([StartSending(c) EXCEPT !.connection_state = "CONNECTED"],
                 c, "SENDING_REQ", "CONNECTED", {}, {"POLLOUT"}, c.server_fd)
         /\ Made([AtStep(c, "PARSING_RESP_CODE") EXCEPT
                     !.client_events = {}, !.server_events = {"POLLIN"}],
                 c, "PARSING_RESP_CODE", c.connection_state, {}, {"POLLIN"}, c.server_fd)
         /\ Made(ReceivingBody(c), c, "PARSING_RESP_BODY", c.connection_state,
                 {"POLLOUT"}, c.server_events, c.server_fd)
         /\ Made(ResponseComplete(c), c, "SENDING_RESP", c.connection_state,
                 {"POLLOUT"}, {}, c.server_fd)
<1> USE DEF Made, Outcomes, Asks
<1>1. \A step \in LiveSteps \cup Ended :
        Made(AtStep(c, step), c, step, c.connection_state,
             c.client_events, c.server_events, c.server_fd)
  BY StepMoved
<1>2. Made(Destroyed(c), c, "HANDLED_EXCEPTIONALLY", c.connection_state,
           c.client_events, c.server_events, c.server_fd)
  BY <1>1 DEF Destroyed, Ended
<1>3. Made(StartSending(c), c, "SENDING_REQ", c.connection_state,
           {}, {"POLLOUT"}, c.server_fd)
  BY <1>1 DEF StartSending, LiveSteps
<1>4. Made([StartSending(c) EXCEPT !.connection_state = "CONNECTED"],
           c, "SENDING_REQ", "CONNECTED", {}, {"POLLOUT"}, c.server_fd)
  BY <1>3
<1>5. Made([AtStep(c, "PARSING_RESP_CODE") EXCEPT
              !.client_events = {}, !.server_events = {"POLLIN"}],
           c, "PARSING_RESP_CODE", c.connection_state, {}, {"POLLIN"}, c.server_fd)
  BY <1>1 DEF LiveSteps
<1>6. Made(ReceivingBody(c), c, "PARSING_RESP_BODY", c.connection_state,
           {"POLLOUT"}, c.server_events, c.server_fd)
  BY <1>1 DEF ReceivingBody, LiveSteps
<1>7. Made(ResponseComplete(c), c, "SENDING_RESP", c.connection_state,
           {"POLLOUT"}, {}, c.server_fd)
  BY <1>1 DEF ResponseComplete, LiveSteps
<1>8. QED
  BY <1>2, <1>3, <1>4, <1>5, <1>6, <1>7

(* What handle makes of a coherent context: it has ended or is coherent    *)
(* again, and its descriptors are the old ones and at most a new one.      *)
Succeeds(c, c2, fd) ==
  /\ c2.client_fd = c.client_fd
  /\ c2.server_fd = c.server_fd \/ (c.server_fd = -1 /\ c2.server_fd = fd)
  /\ HasEnded(c2) \/ Coherent(c2)

LEMMA LiveSucceeds ==
  ASSUME NEW c, NEW fd, NEW c2 \in Outcomes, c2.handling_step \in LiveSteps,
         c2.client_fd = c.client_fd, c2.client_fd # c2.server_fd,
         c2.server_fd = c.server_fd \/ (c.server_fd = -1 /\ c2.server_fd = fd),
         WithServer(c2) \/ WithoutServer(c2)
  PROVE  Succeeds(c, c2, fd)
<1>1. Coherent(c2)
  BY LiveOutcome DEF Coherent
<1>2. QED
  BY <1>1 DEF Succeeds

LEMMA DestructionSucceeds ==
  ASSUME NEW c \in Outcomes, NEW fd
  PROVE  Succeeds(c, Destroyed(c), fd)
<1>1. Made(Destroyed(c), c, "HANDLED_EXCEPTIONALLY", c.connection_state,
           c.client_events, c.server_events, c.server_fd)
  BY OtherStepsMade
<1>2. QED
  BY <1>1 DEF Succeeds, HasEnded, Made

LEMMA ConnectSucceeds ==
  ASSUME NEW c, Coherent(c), NEW fd, c.server_fd = -1,
         fd \in Descriptors, fd # c.client_fd,
         NEW c2 \in AfterConnect(c, fd)
  PROVE  Succeeds(c, c2, fd)
<1> DEFINE opened == [AtStep(c, "CONNECT_STEP") EXCEPT !.server_fd = fd]
<1>1. c \in Outcomes /\ Asks(c, {"POLLIN"}, {}) /\ fd # -1
  BY LiveOutcome, DescriptorNumbers DEF Coherent, WithServer, WithoutServer
<1>2. Made(AtStep(c, "CONNECT_STEP"), c, "CONNECT_STEP", c.connection_state,
           {"POLLIN"}, {}, c.server_fd)
  BY <1>1, StepMoved DEF Asks, LiveSteps
<1>3. Made(opened, c, "CONNECT_STEP", c.connection_state, {"POLLIN"}, {}, fd)
  BY <1>2 DEF Made, Asks, Outcomes
<1> HIDE DEF opened
<1>4. CASE c2 = Destroyed(c)
  BY <1>1, <1>4, DestructionSucceeds
<1>5. CASE c2 = Destroyed(opened)
  <2>1. opened \in Outcomes
    BY <1>3 DEF Made
  <2>2. Made(c2, opened, "HANDLED_EXCEPTIONALLY", opened.connection_state,
             opened.client_events, opened.server_events, opened.server_fd)
    BY <1>5, <2>1, OtherStepsMade
  <2>3. QED
    BY <1>3, <2>2 DEF Succeeds, HasEnded, Made
<1>6. CASE c2 = [opened EXCEPT !.connection_state = "CONNECTED"]
  <2>1. Made(c2, c, "CONNECT_STEP", "CONNECTED", {"POLLIN"}, {}, fd)
    BY <1>3, <1>6 DEF Made, Asks, Outcomes
  <2>2. WithServer(c2)
    BY <1>1, <2>1 DEF WithServer, Made
  <2>3. QED
    BY <1>1, <2>1, <2>2, LiveSucceeds DEF LiveSteps, Made
<1>7. CASE c2 = [opened EXCEPT !.connection_state = "AWAIT_CONNECTION",
                               !.client_events = {}, !.server_events = {"POLLOUT"}]
  <2>1. Made(c2, c, "CONNECT_STEP", "AWAIT_CONNECTION", {}, {"POLLOUT"}, fd)
    BY <1>3, <1>7 DEF Made, Asks, Outcomes
  <2>2. WithServer(c2)
    BY <1>1, <2>1 DEF WithServer, Made
  <2>3. QED
    BY <1>1, <2>1, <2>2, LiveSucceeds DEF LiveSteps, Made
<1>8. QED
  BY <1>4, <1>5, <1>6, <1>7 DEF AfterConnect, opened

LEMMA ClientEventSucceeds ==
  ASSUME NEW c, Coherent(c), NEW fd, NEW revents, ClientEventExpected(c, revents),
         c.client_events # {},
         c.server_fd = -1 => fd \in Descriptors /\ fd # c.client_fd,
         NEW c2 \in AfterClientEvent(c, fd)
  PROVE  Succeeds(c, c2, fd)
<1>1. c \in Outcomes
  BY LiveOutcome DEF Coherent
<1>2. Succeeds(c, c, fd) /\ Succeeds(c, Destroyed(c), fd)
  BY <1>1, DestructionSucceeds DEF Succeeds
<1>3. CASE c.server_fd = -1
  <2>1. c.handling_step \in {"PARSING_REQ_TYPE", "PARSING_REQ_HEADERS"}
        /\ Asks(c, {"POLLIN"}, {})
    BY <1>3 DEF Coherent, WithServer, WithoutServer
  <2>2. c2 \in {c, AtStep(c, "PARSING_REQ_HEADERS")} \cup AfterConnect(c, fd)
    BY <2>1 DEF AfterClientEvent
  <2>3. CASE c2 = AtStep(c, "PARSING_REQ_HEADERS")
    <3>1. Made(c2, c, "PARSING_REQ_HEADERS", c.connection_state, {"POLLIN"}, {}, -1)
      BY <1>1, <1>3, <2>1, <2>3, StepMoved DEF Asks, LiveSteps
    <3>2. WithoutServer(c2) /\ c.client_fd # -1
      BY <1>3, <3>1 DEF WithoutServer, Made, Coherent
    <3>3. QED
      BY <1>3, <3>1, <3>2, LiveSucceeds DEF LiveSteps, Made
  <2>4. QED
    BY <1>2, <1>3, <2>2, <2>3, ConnectSucceeds
<1>4. CASE c.server_fd # -1
  <2>1. c.handling_step \in {"CONNECT_STEP", "PARSING_RESP_BODY", "SENDING_RESP"}
    BY <1>4 DEF Coherent, WithServer, WithoutServer, Asks
  <2>2. CASE c.handling_step = "CONNECT_STEP"
    <3>1. c2 = StartSending(c)
      BY <2>2 DEF AfterClientEvent
    <3>2. Made(c2, c, "SENDING_REQ", c.connection_state, {}, {"POLLOUT"}, c.server_fd)
      BY <1>1, <3>1, OtherStepsMade
    <3>3. WithServer(c2) /\ c.client_fd # c.server_fd
      BY <1>4, <3>2 DEF WithServer, Made, Coherent
    <3>4. QED
      BY <3>2, <3>3, LiveSucceeds DEF LiveSteps, Made
  <2>3. CASE c.handling_step = "PARSING_RESP_BODY"
    BY <1>2, <2>3 DEF AfterClientEvent
  <2>4. CASE c.handling_step = "SENDING_RESP"
    <3>1. c2 \in {c, Destroyed(c), AtStep(c, "HANDLED")}
      BY <2>4 DEF AfterClientEvent
    <3>2. Made(AtStep(c, "HANDLED"), c, "HANDLED", c.connection_state,
               c.client_events, c.server_events, c.server_fd)
      BY <1>1, StepMoved DEF Ended
    <3>3. Succeeds(c, AtStep(c, "HANDLED"), fd)
      BY <3>2 DEF Succeeds, HasEnded, Made
    <3>4. QED
      BY <1>2, <3>1, <3>3
  <2>5. QED
    BY <2>1, <2>2, <2>3, <2>4
<1>5. QED
  BY <1>3, <1>4

LEMMA ServerEventSucceeds ==
  ASSUME NEW c, Coherent(c), NEW fd, c.server_events # {},
         NEW c2 \in AfterServerEvent(c)
  PROVE  Succeeds(c, c2, fd)
<1>1. c \in Outcomes
  BY LiveOutcome DEF Coherent
<1>2. c.server_fd # -1 /\ c.client_fd # c.server_fd
      /\ c.handling_step \in {"CONNECT_STEP", "SENDING_REQ", "PARSING_RESP_CODE",
                              "PARSING_RESP_HEADERS", "PARSING_RESP_BODY"}
  BY DEF Coherent, WithServer, WithoutServer, Asks
<1>3. ASSUME NEW step \in LiveSteps, NEW connection_state,
             NEW client_events, NEW server_events, NEW made,
             Made(made, c, step, connection_state, client_events, server_events, c.server_fd),
             \/ step = "SENDING_REQ" /\ client_events = {} /\ server_events = {"POLLOUT"}
             \/ /\ step \in {"PARSING_RESP_CODE", "PARSING_RESP_HEADERS"}
                /\ client_events = {} /\ server_events = {"POLLIN"}
             \/ /\ step = "PARSING_RESP_BODY"
                /\ client_events = {"POLLOUT"} /\ server_events = {"POLLIN"}
             \/ step = "SENDING_RESP" /\ client_events = {"POLLOUT"} /\ server_events = {}
      PROVE  Succeeds(c, made, fd)
  <2>1. WithServer(made)
    BY <1>2, <1>3 DEF WithServer, Made, Asks
  <2>2. QED
    BY <1>2, <1>3, <2>1, LiveSucceeds DEF Made
<1>4. Succeeds(c, c, fd) /\ Succeeds(c, Destroyed(c), fd)
  BY <1>1, DestructionSucceeds DEF Succeeds
<1>5. CASE c.handling_step = "CONNECT_STEP"
  <2>1. c2 \in {Destroyed(StartSending(c)),
                [StartSending(c) EXCEPT !.connection_state = "CONNECTED"]}
    BY <1>5 DEF AfterServerEvent
  <2>2. CASE c2 = Destroyed(StartSending(c))
    <3>1. Made(StartSending(c), c, "SENDING_REQ", c.connection_state, {}, {"POLLOUT"}, c.server_fd)
      BY <1>1, OtherStepsMade
    <3>2. StartSending(c) \in Outcomes
          /\ StartSending(c).client_fd = c.client_fd /\ StartSending(c).server_fd = c.server_fd
      BY <3>1 DEF Made
    <3>3. Succeeds(StartSending(c), c2, fd) /\ c.server_fd # -1
      BY <1>2, <2>2, <3>2, DestructionSucceeds
    <3>4. QED
      BY <3>2, <3>3 DEF Succeeds
  <2>3. CASE c2 = [StartSending(c) EXCEPT !.connection_state = "CONNECTED"]
    <3>1. Made(c2, c, "SENDING_REQ", "CONNECTED", {}, {"POLLOUT"}, c.server_fd)
      BY <1>1, <2>3, OtherStepsMade
    <3>2. QED
      BY <1>3, <3>1 DEF LiveSteps
  <2>4. QED
    BY <2>1, <2>2, <2>3
<1>6. CASE c.handling_step = "SENDING_REQ"
  <2> DEFINE received == [AtStep(c, "PARSING_RESP_CODE") EXCEPT
                            !.client_events = {}, !.server_events = {"POLLIN"}]
  <2>1. c2 \in {c, Destroyed(c), received}
    BY <1>6 DEF AfterServerEvent
  <2>2. Made(received, c, "PARSING_RESP_CODE", c.connection_state, {}, {"POLLIN"}, c.server_fd)
    BY <1>1, OtherStepsMade
  <2>3. Succeeds(c, received, fd)
    BY <1>3, <2>2 DEF LiveSteps
  <2>4. QED
    BY <1>4, <2>1, <2>3
<1>7. CASE c.handling_step \in {"PARSING_RESP_CODE", "PARSING_RESP_HEADERS", "PARSING_RESP_BODY"}
  <2>1. c.server_events = {"POLLIN"}
        /\ (c.handling_step = "PARSING_RESP_CODE" => c.client_events = {})
    BY <1>7 DEF Coherent, WithServer, WithoutServer, Asks
  <2>2. Succeeds(c, ReceivingBody(c), fd)
    <3>1. Made(ReceivingBody(c), c, "PARSING_RESP_BODY", c.connection_state,
               {"POLLOUT"}, {"POLLIN"}, c.server_fd)
      BY <1>1, <2>1, OtherStepsMade
    <3>2. QED
      BY <1>3, <3>1 DEF LiveSteps
  <2>3. Succeeds(c, ResponseComplete(c), fd)
    <3>1. Made(ResponseComplete(c), c, "SENDING_RESP", c.connection_state,
               {"POLLOUT"}, {}, c.server_fd)
      BY <1>1, OtherStepsMade
    <3>2. QED
      BY <1>3, <3>1 DEF LiveSteps
  <2>4. CASE c.handling_step = "PARSING_RESP_CODE"
    <3>1. Made(AtStep(c, "PARSING_RESP_HEADERS"), c, "PARSING_RESP_HEADERS",
               c.connection_state, {}, {"POLLIN"}, c.server_fd)
      BY <1>1, <2>1, <2>4, StepMoved DEF LiveSteps
    <3>2. Succeeds(c, AtStep(c, "PARSING_RESP_HEADERS"), fd)
      BY <1>3, <3>1 DEF LiveSteps
    <3>3. c2 \in {c, Destroyed(c), AtStep(c, "PARSING_RESP_HEADERS"),
                  ReceivingBody(c), ResponseComplete(c)}
      BY <2>4 DEF AfterServerEvent
    <3>4. QED
      BY <1>4, <2>2, <2>3, <3>2, <3>3
  <2>5. CASE c.handling_step \in {"PARSING_RESP_HEADERS", "PARSING_RESP_BODY"}
    <3>1. c2 \in {c, Destroyed(c), ReceivingBody(c), ResponseComplete(c)}
      BY <2>5 DEF AfterServerEvent
    <3>2. QED
      BY <1>4, <2>2, <2>3, <3>1
  <2>6. QED
    BY <1>7, <2>4, <2>5
<1>8. QED
  BY <1>2, <1>5, <1>6, <1>7

-----------------------------------------------------------------------------
(* The steps of the loop. Those that leave the contexts alone leave what   *)
(* the invariant says of them alone.                                       *)
ContextsOK == AllCoherent /\ Numbered /\ Apart /\ OpenOwned

LEMMA ContextsKept ==
  ASSUME ContextsOK, UNCHANGED <<context1, open>>
  PROVE  ContextsOK'
  BY DEF ContextsOK, AllCoherent, Numbered, Apart, OpenOwned, State

LEMMA InitInv == Init => IInv
<1> SUFFICES ASSUME Init PROVE IInv
  OBVIOUS
<1> USE DEF Init
<1>1. Typed
  BY LoopAssumption, EmptySeq DEF Typed
<1>2. DOMAIN context1 = {} /\ DOMAIN fds = {} /\ Len(context1) = 0 /\ Len(fds) = 0
  OBVIOUS
<1>3. Counted
  BY <1>2, LoopAssumption DEF Counted
<1>4. ContextsOK
  BY <1>2 DEF ContextsOK, AllCoherent, Numbered, Apart, OpenOwned
<1>5. Reported /\ Adjacent
  BY <1>2 DEF Reported, Adjacent
<1>6. EntriesCurrent
  BY <1>2 DEF EntriesCurrent, Built
<1>7. QED
  BY <1>1, <1>3, <1>4, <1>5, <1>6 DEF IInv, ContextsOK

(* The entry the scan is at, if no context has its descriptor, is the one  *)
(* of a server whose connection the entry before has ended.                *)
LEMMA FoundOrOrphan ==
  ASSUME IInv, Scanning
  PROVE  /\ i \in DOMAIN fds
         /\ Orphan(i) \/ \E k \in DOMAIN context1 : Concerns(i, k)
         /\ Having(fds[i].fd) = {} <=> Orphan(i)
<1>1. i \in DOMAIN fds /\ i \in i .. Len(fds)
  BY LenProperties DEF IInv, Typed, Scanning
<1>2. Orphan(i) \/ \E k \in DOMAIN context1 : Concerns(i, k)
  BY <1>1 DEF IInv, EntriesCurrent, Scanning
<1>3. \A k \in DOMAIN context1 : Concerns(i, k) => k \in Having(fds[i].fd)
  BY DEF Concerns, Having, State
<1>4. QED
  BY <1>1, <1>2, <1>3 DEF Orphan

LEMMA NotFoundInv == IInv /\ NotFound => IInv'
<1> SUFFICES ASSUME IInv, NotFound PROVE IInv'
  OBVIOUS
<1>1. Scanning /\ Orphan(i) /\ i \in DOMAIN fds
  BY FoundOrOrphan DEF NotFound
<1>2. ContextsOK'
  BY ContextsKept DEF IInv, ContextsOK, NotFound
<1>3. Typed' /\ Reported' /\ Adjacent'
  BY DEF IInv, Typed, Entries, Reported, Adjacent, NotFound
<1>4. Counted'
  BY <1>1, LenProperties DEF IInv, Typed, Counted, NotFound, Scanning
<1>5. Orphan(i)'
  BY <1>1 DEF Orphan, NotFound, Having
<1>6. EntriesCurrent'
  BY <1>5 DEF EntriesCurrent, NotFound
<1>7. QED
  BY <1>2, <1>3, <1>4, <1>6 DEF IInv, ContextsOK

LEMMA NotReadyInv == IInv /\ NotReady => IInv'
<1> SUFFICES ASSUME IInv, NotReady PROVE IInv'
  OBVIOUS
<1>1. PICK k \in DOMAIN context1 : Scanning /\ Found(k)
  BY DEF NotReady
<1>2. ContextsOK'
  BY ContextsKept DEF IInv, ContextsOK, NotReady
<1>3. Typed' /\ Reported' /\ Adjacent'
  BY DEF IInv, Typed, Entries, Reported, Adjacent, NotReady
<1>4. Counted'
  BY <1>1, LenProperties DEF IInv, Typed, Counted, NotReady, Scanning
<1>5. EntriesCurrent'
  <2>1. phase' = "scan" /\ UNCHANGED <<context1, fds>> /\ i' = i + 1
    BY <1>1 DEF NotReady, Scanning
  <2>2. ASSUME NEW e \in i + 1 .. Len(fds)
        PROVE  \E m \in DOMAIN context1 : Concerns(e, m)
    BY <1>1, <2>2, LenProperties DEF IInv, EntriesCurrent, Typed, Scanning
  <2>3. \A e, m : Concerns(e, m)' <=> Concerns(e, m)
    BY <2>1 DEF Concerns, State
  <2>4. QED
    BY <2>1, <2>2, <2>3 DEF EntriesCurrent
<1>6. QED
  BY <1>2, <1>3, <1>4, <1>5 DEF IInv, ContextsOK

LEMMA WriteKillsInv == IInv /\ WriteKills => IInv'
<1> SUFFICES ASSUME IInv, WriteKills PROVE IInv'
  OBVIOUS
<1>1. Scanning /\ i \in DOMAIN fds
  BY FoundOrOrphan DEF WriteKills
<1>2. ContextsOK'
  BY ContextsKept DEF IInv, ContextsOK, WriteKills
<1>3. Typed' /\ Reported' /\ Adjacent'
  BY DEF IInv, Typed, Entries, Reported, Adjacent, WriteKills
<1>4. Counted'
  BY <1>1, LenProperties DEF IInv, Typed, Counted, WriteKills, Scanning
<1>5. EntriesCurrent'
  BY DEF EntriesCurrent, WriteKills
<1>6. QED
  BY <1>2, <1>3, <1>4, <1>5 DEF IInv, ContextsOK

LEMMA EndScanInv == IInv /\ EndScan => IInv'
<1> SUFFICES ASSUME IInv, EndScan PROVE IInv'
  OBVIOUS
<1>1. fds' = <<>> /\ DOMAIN fds' = {} /\ Len(fds') = 0 /\ i' = 1 /\ phase' = "rebuild"
  BY DEF EndScan
<1>2. ContextsOK'
  BY ContextsKept DEF IInv, ContextsOK, EndScan
<1>3. Typed' /\ Reported' /\ Adjacent'
  BY <1>1 DEF IInv, Typed, Reported, Adjacent, EndScan
<1>4. Counted'
  BY <1>1, LenProperties, LoopAssumption DEF IInv, Typed, Counted, EndScan
<1>5. EntriesCurrent'
  BY <1>1 DEF EntriesCurrent, Built
<1>6. QED
  BY <1>2, <1>3, <1>4, <1>5 DEF IInv, ContextsOK

LEMMA EndRebuildInv == IInv /\ EndRebuild => IInv'
<1> SUFFICES ASSUME IInv, EndRebuild PROVE IInv'
  OBVIOUS
<1>1. i = Len(context1) + 1 /\ Len(context1) \in Nat
  BY LenProperties DEF IInv, Typed, Counted, EndRebuild
<1>2. ContextsOK'
  BY ContextsKept DEF IInv, ContextsOK, EndRebuild
<1>3. Typed' /\ Reported' /\ Adjacent'
  BY DEF IInv, Typed, Entries, Reported, Adjacent, EndRebuild
<1>4. Counted'
  BY <1>1 DEF IInv, Typed, Counted, EndRebuild
<1>5. EntriesCurrent'
  <2>1. Built(Len(context1))
    BY <1>1 DEF IInv, EntriesCurrent, EndRebuild
  <2>2. /\ \A e, k : Describes(e, k)' <=> Describes(e, k)
        /\ \A k : State(k)' = State(k)
    BY DEF EndRebuild, Describes, Concerns, State
  <2>3. Built(Len(context1))'
    BY <2>1, <2>2 DEF EndRebuild, Built, SocketsOf
  <2>4. QED
    BY <2>3 DEF EntriesCurrent, EndRebuild
<1>6. QED
  BY <1>2, <1>3, <1>4, <1>5 DEF IInv, ContextsOK

-----------------------------------------------------------------------------
(* The entries of a coherent context: one or two, for its sockets, with    *)
(* the events it wants from them, and none is missing.                     *)
EntryFor(entry, x) ==
  /\ entry.number = x.number /\ entry.fd \in SocketsOf(x.state)
  /\ entry.events = Wanted(x.state, entry.fd) /\ entry.revents = {}

LEMMA EntriesMade ==
  ASSUME NEW x, x.number \in 1 .. accepted, Coherent(x.state)
  PROVE  LET es == EntriesOf(x)
         IN /\ es \in Seq(Entries) /\ Len(es) \in 1 .. 2
            /\ \A j \in 1 .. Len(es) : EntryFor(es[j], x)
            /\ Len(es) = 2 => es[1].events = {"POLLOUT"} /\ es[2].events = {"POLLIN"}
            /\ \A d \in SocketsOf(x.state) :
                 Wanted(x.state, d) # {} => \E j \in 1 .. Len(es) : es[j].fd = d
<1> DEFINE c == x.state
           ofClient == Entry(c.client_fd, c.client_events, x.number)
           ofServer == Entry(c.server_fd, c.server_events, x.number)
           es == EntriesOf(x)
<1>1. /\ c.client_fd \in Descriptors /\ c.client_fd # c.server_fd
      /\ c.client_events \in {{}, {"POLLIN"}, {"POLLOUT"}}
      /\ c.server_events \in {{}, {"POLLIN"}, {"POLLOUT"}}
      /\ c.server_fd # -1 => c.server_fd \in Descriptors
      /\ c.server_fd = -1 => c.server_events = {}
      /\ c.client_events # {} \/ c.server_events # {}
      /\ c.client_events # {} /\ c.server_events # {} =>
           c.client_events = {"POLLOUT"} /\ c.server_events = {"POLLIN"}
  BY AsksSomething DEF Coherent
<1>2. /\ Wanted(c, c.client_fd) = c.client_events
      /\ Wanted(c, c.server_fd) = c.server_events
      /\ c.client_fd \in SocketsOf(c) /\ (c.server_fd # -1 => c.server_fd \in SocketsOf(c))
      /\ \A d \in SocketsOf(c) : d = c.client_fd \/ (d = c.server_fd /\ d # -1)
  BY <1>1, DescriptorNumbers DEF Wanted, SocketsOf
<1>3. ASSUME c.client_events # {}
      PROVE  /\ ofClient \in Entries /\ EntryFor(ofClient, x)
             /\ ofClient.fd = c.client_fd /\ ofClient.events = c.client_events
  BY <1>1, <1>2, <1>3 DEF Entry, Entries, EntryFor
<1>4. ASSUME c.server_events # {}
      PROVE  /\ ofServer \in Entries /\ EntryFor(ofServer, x)
             /\ ofServer.fd = c.server_fd /\ ofServer.events = c.server_events
  BY <1>1, <1>2, <1>4 DEF Entry, Entries, EntryFor
<1>5. es = (IF c.client_events = {} THEN <<>> ELSE <<ofClient>>)
             \o (IF c.server_events = {} THEN <<>> ELSE <<ofServer>>)
  BY <1>1 DEF EntriesOf, ClientEntry, ServerEntry
<1> HIDE DEF ofClient, ofServer, es, c
<1>6. CASE c.client_events # {} /\ c.server_events = {}
  <2>1. es = <<ofClient>> /\ <<ofClient>> \in Seq(Entries)
    BY <1>3, <1>5, <1>6
  <2>2. Len(es) = 1 /\ es[1] = ofClient /\ es \in Seq(Entries)
    BY <2>1
  <2>3. \A j \in 1 .. Len(es) : EntryFor(es[j], x)
    BY <1>3, <1>6, <2>2
  <2>4. \A d \in SocketsOf(c) : Wanted(c, d) # {} => es[1].fd = d
    BY <1>2, <1>3, <1>6, <2>2
  <2>5. QED
    BY <2>2, <2>3, <2>4 DEF es, c
<1>7. CASE c.client_events = {} /\ c.server_events # {}
  <2>1. es = <<ofServer>> /\ <<ofServer>> \in Seq(Entries)
    BY <1>4, <1>5, <1>7
  <2>2. Len(es) = 1 /\ es[1] = ofServer /\ es \in Seq(Entries)
    BY <2>1
  <2>3. \A j \in 1 .. Len(es) : EntryFor(es[j], x)
    BY <1>4, <1>7, <2>2
  <2>4. \A d \in SocketsOf(c) : Wanted(c, d) # {} => es[1].fd = d
    BY <1>2, <1>4, <1>7, <2>2
  <2>5. QED
    BY <2>2, <2>3, <2>4 DEF es, c
<1>8. CASE c.client_events # {} /\ c.server_events # {}
  <2>1. es = <<ofClient>> \o <<ofServer>>
    BY <1>5, <1>8
  <2>2. Len(es) = 2 /\ es[1] = ofClient /\ es[2] = ofServer /\ es \in Seq(Entries)
    BY <1>3, <1>4, <1>8, <2>1
  <2>3. \A j \in 1 .. Len(es) : EntryFor(es[j], x)
    BY <1>3, <1>4, <1>8, <2>2
  <2>4. \A d \in SocketsOf(c) : es[1].fd = d \/ es[2].fd = d
    BY <1>2, <1>3, <1>4, <1>8, <2>2
  <2>5. es[1].events = {"POLLOUT"} /\ es[2].events = {"POLLIN"}
    BY <1>1, <1>3, <1>4, <1>8, <2>2
  <2>6. QED
    BY <2>2, <2>3, <2>4, <2>5 DEF es, c
<1>9. QED
  BY <1>1, <1>6, <1>7, <1>8

LEMMA RebuildInv == IInv /\ Rebuild => IInv'
<1> SUFFICES ASSUME IInv, Rebuild PROVE IInv'
  OBVIOUS
<1>1. PICK at : at = i
  OBVIOUS
<1> DEFINE x == context1[at]
           es == EntriesOf(x)
           n == Len(fds)
<1>2. /\ fds' = fds \o es /\ i' = at + 1
      /\ UNCHANGED <<phase, context1, open, accepted>> /\ phase = "rebuild"
  BY <1>1 DEF Rebuild
<1>3. /\ at \in DOMAIN context1 /\ at \in Nat \ {0} /\ Len(context1) \in Nat
      /\ at <= Len(context1) /\ DOMAIN context1 = 1 .. Len(context1)
      /\ n \in Nat /\ fds \in Seq(Entries) /\ DOMAIN fds = 1 .. n
  BY <1>1, LenProperties DEF IInv, Typed, Rebuild
<1>4. x.number \in 1 .. accepted /\ Coherent(x.state) /\ x.state = State(at)
  <2>1. x \in [number : 1 .. accepted, state : Contexts]
    BY <1>3, ElementOfSeq DEF IInv, Typed
  <2>2. QED
    BY <1>3, <2>1 DEF IInv, AllCoherent, State
<1>5. /\ es \in Seq(Entries) /\ Len(es) \in 1 .. 2
      /\ \A j \in 1 .. Len(es) : EntryFor(es[j], x)
      /\ Len(es) = 2 => es[1].events = {"POLLOUT"} /\ es[2].events = {"POLLIN"}
      /\ \A d \in SocketsOf(x.state) :
           Wanted(x.state, d) # {} => \E j \in 1 .. Len(es) : es[j].fd = d
  BY <1>4, EntriesMade
<1> HIDE DEF es
<1>6. /\ fds' \in Seq(Entries) /\ Len(fds') = n + Len(es) /\ DOMAIN fds' = 1 .. n + Len(es)
      /\ \A e \in 1 .. n : fds'[e] = fds[e]
      /\ \A e \in 1 .. n + Len(es) : e > n => fds'[e] = es[e - n] /\ e - n \in 1 .. Len(es)
  BY <1>2, <1>3, <1>5, ConcatProperties, LenProperties
<1>7. ASSUME NEW e \in 1 .. n + Len(es), e > n PROVE EntryFor(fds'[e], x)
  BY <1>5, <1>6, <1>7
<1>8. ContextsOK'
  BY <1>2, ContextsKept DEF IInv, ContextsOK
<1>9. Typed'
  BY <1>2, <1>3, <1>6 DEF IInv, Typed, Entries
<1>10. Counted'
  <2>1. n <= 2 * (at - 1) /\ Len(context1) <= MaxOpen
    BY <1>1, <1>2 DEF IInv, Counted
  <2>2. Len(fds') <= 2 * at /\ 2 * at <= 2 * MaxOpen
    <3>1. Len(fds') <= n + 2
      BY <1>3, <1>5, <1>6
    <3>2. n + 2 <= 2 * at
      BY <1>3, <2>1
    <3>3. 2 * at <= 2 * MaxOpen
      BY <1>3, <2>1, LoopAssumption
    <3>4. QED
      BY <1>3, <1>5, <1>6, <3>1, <3>2, <3>3
  <2>3. i' - 1 = at /\ i' <= Len(context1) + 1
    <3>1. i' = at + 1
      BY <1>2
    <3>2. at \in Nat /\ Len(context1) \in Nat /\ at <= Len(context1)
      BY <1>3
    <3>3. QED
      BY <3>1, <3>2
  <2>4. Len(fds') <= 2 * MaxOpen
    <3>1. Len(fds') \in Nat
      BY <1>6, LenProperties
    <3>2. \A l, a, m \in Nat : l <= 2 * a /\ 2 * a <= 2 * m => l <= 2 * m
      OBVIOUS
    <3>3. QED
      BY <1>3, <2>2, <3>1, <3>2, LoopAssumption
  <2>5. QED
    BY <1>2, <2>1, <2>2, <2>3, <2>4 DEF Counted
<1>11. Reported'
  <2> SUFFICES ASSUME NEW e \in 1 .. n + Len(es) PROVE fds'[e].revents \in {{}, fds'[e].events}
    BY <1>6 DEF Reported
  <2>1. CASE e \in 1 .. n
    BY <1>3, <1>6, <2>1 DEF IInv, Reported
  <2>2. CASE e > n
    BY <1>7, <2>2 DEF EntryFor
  <2>3. QED
    BY <1>3, <2>1, <2>2
<1>12. \A e \in 1 .. n : fds[e].number # x.number
  <2> SUFFICES ASSUME NEW e \in 1 .. n PROVE fds[e].number # x.number
    OBVIOUS
  <2>1. PICK k \in 1 .. at - 1 : fds[e].number = context1[k].number
    BY <1>1, <1>2, <1>3 DEF IInv, EntriesCurrent, Built, Describes, Concerns
  <2>2. k \in DOMAIN context1 /\ k # at
    BY <1>3
  <2>3. QED
    BY <1>3, <2>1, <2>2 DEF IInv, Numbered
<1>13. Adjacent'
  <2> SUFFICES ASSUME NEW e \in 1 .. n + Len(es), NEW f \in 1 .. n + Len(es), e < f,
                      fds'[e].number = fds'[f].number
               PROVE  f = e + 1 /\ fds'[e].events = {"POLLOUT"} /\ fds'[f].events = {"POLLIN"}
    BY <1>6 DEF Adjacent
  <2>1. CASE f \in 1 .. n
    <3>1. e \in 1 .. n /\ fds'[e] = fds[e] /\ fds'[f] = fds[f]
      BY <1>3, <1>6, <2>1
    <3>2. QED
      BY <1>3, <2>1, <3>1 DEF IInv, Adjacent
  <2>2. CASE e \in 1 .. n /\ f > n
    <3>1. fds'[f].number = x.number
      BY <1>7, <2>2 DEF EntryFor
    <3>2. fds'[e].number # x.number
      BY <1>6, <1>12, <2>2
    <3>3. QED
      BY <3>1, <3>2
  <2>3. CASE e > n
    <3>1. Len(es) = 2 /\ e = n + 1 /\ f = n + 2
      <4>1. Len(es) = 1 \/ Len(es) = 2
        BY <1>5
      <4>2. n \in Nat /\ e \in Nat /\ f \in Nat /\ n < e /\ e < f /\ f <= n + Len(es)
        BY <1>3, <1>5, <2>3
      <4>3. \A a, b, c, l \in Nat :
              (l = 1 \/ l = 2) /\ a < b /\ b < c /\ c <= a + l =>
                l = 2 /\ b = a + 1 /\ c = a + 2
        OBVIOUS
      <4>4. QED
        BY <4>1, <4>2, <4>3
    <3>2. fds'[e] = es[1] /\ fds'[f] = es[2]
      BY <1>3, <1>6, <3>1
    <3>3. QED
      BY <1>3, <1>5, <3>1, <3>2
  <2>4. QED
    BY <1>3, <1>5, <2>1, <2>2, <2>3
<1>14. Built(i - 1)'
  <2>1. \A k : State(k)' = State(k)
    BY <1>2 DEF State
  <2>2. \A e \in 1 .. n : \A k : Describes(e, k)' <=> Describes(e, k)
    BY <1>2, <1>6, <2>1 DEF Describes, Concerns
  <2>3. ASSUME NEW e \in 1 .. n + Len(es), e > n PROVE Describes(e, at)'
    <3>1. EntryFor(fds'[e], x)
      BY <1>7, <2>3
    <3>2. QED
      BY <1>2, <1>4, <2>1, <3>1 DEF Describes, Concerns, EntryFor
  <2>4. ASSUME NEW e \in 1 .. n + Len(es) PROVE \E k \in 1 .. at : Describes(e, k)'
    <3>1. CASE e > n
      BY <1>3, <2>3, <3>1
    <3>2. CASE e \in 1 .. n
      <4>1. PICK k \in 1 .. at - 1 : Describes(e, k)
        BY <1>1, <1>2, <1>3, <3>2 DEF IInv, EntriesCurrent, Built
      <4>2. QED
        BY <1>3, <2>2, <3>2, <4>1
    <3>3. QED
      BY <1>3, <1>5, <3>1, <3>2
  <2>5. ASSUME NEW k \in 1 .. at, NEW d \in SocketsOf(State(k)), Wanted(State(k), d) # {}
        PROVE  \E e \in 1 .. n + Len(es) : fds'[e].fd = d /\ Describes(e, k)'
    <3>1. CASE k = at
      <4>1. PICK j \in 1 .. Len(es) : es[j].fd = d
        BY <1>4, <1>5, <2>5, <3>1
      <4>2. PICK e \in 1 .. n + Len(es) : e > n /\ e - n = j
        <5>1. n + j \in 1 .. n + Len(es) /\ n + j > n /\ n + j - n = j
          BY <1>3, <1>5
        <5>2. QED
          BY <5>1
      <4>3. Describes(e, at)' /\ fds'[e] = es[j]
        BY <1>6, <2>3, <4>2
      <4>4. QED
        BY <3>1, <4>1, <4>2, <4>3
    <3>2. CASE k \in 1 .. at - 1
      <4>1. PICK e \in 1 .. n : fds[e].fd = d /\ Describes(e, k)
        BY <1>1, <1>2, <1>3, <2>5, <3>2 DEF IInv, EntriesCurrent, Built
      <4>2. e \in 1 .. n + Len(es)
        BY <1>3, <1>5
      <4>3. QED
        BY <1>6, <2>2, <4>1, <4>2
    <3>3. QED
      BY <1>3, <3>1, <3>2
  <2>6. i' - 1 = at
    BY <1>2, <1>3
  <2>7. QED
    BY <1>6, <2>1, <2>4, <2>5, <2>6 DEF Built, SocketsOf
<1>15. EntriesCurrent'
  BY <1>2, <1>14 DEF EntriesCurrent
<1>16. QED
  BY <1>8, <1>9, <1>10, <1>11, <1>13, <1>15 DEF IInv, ContextsOK

-----------------------------------------------------------------------------
(* poll changes nothing of an entry but what is reported.                  *)
LEMMA PollReports ==
  ASSUME IInv, Poll
  PROVE  /\ fds' \in Seq(Entries) /\ Len(fds') = Len(fds) /\ DOMAIN fds' = DOMAIN fds
         /\ \A e \in DOMAIN fds :
              /\ fds'[e].fd = fds[e].fd /\ fds'[e].number = fds[e].number
              /\ fds'[e].events = fds[e].events
              /\ fds'[e].revents \in {{}, fds[e].events}
<1>1. PICK ready \in SUBSET DOMAIN fds :
        fds' = [e \in DOMAIN fds |->
                  [fds[e] EXCEPT !.revents = IF e \in ready THEN fds[e].events ELSE {}]]
  BY DEF Poll
<1>2. fds \in Seq(Entries) /\ Len(fds) \in Nat /\ DOMAIN fds = 1 .. Len(fds)
  BY LenProperties DEF IInv, Typed
<1>3. ASSUME NEW e \in DOMAIN fds
      PROVE  /\ fds'[e] \in Entries
             /\ fds'[e].fd = fds[e].fd /\ fds'[e].number = fds[e].number
             /\ fds'[e].events = fds[e].events
             /\ fds'[e].revents \in {{}, fds[e].events}
  <2>1. fds[e] \in Entries
    BY <1>2, ElementOfSeq
  <2>2. fds'[e] = [fds[e] EXCEPT !.revents = IF e \in ready THEN fds[e].events ELSE {}]
    BY <1>1
  <2>3. CASE e \in ready
    BY <2>1, <2>2, <2>3 DEF Entries
  <2>4. CASE e \notin ready
    BY <2>1, <2>2, <2>4 DEF Entries
  <2>5. QED
    BY <2>3, <2>4
<1>4. fds' \in [1 .. Len(fds) -> Entries]
  BY <1>1, <1>2, <1>3
<1>5. fds' \in Seq(Entries) /\ Len(fds') = Len(fds)
  BY <1>2, <1>4
<1>6. QED
  BY <1>1, <1>3, <1>5

(* The context of a new connection has a number and a descriptor that no   *)
(* other one has.                                                          *)
LEMMA AcceptedInv ==
  ASSUME IInv, Poll, context1' # context1
  PROVE  /\ ContextsOK' /\ Len(context1') = Len(context1) + 1 /\ Len(context1) < MaxOpen
         /\ accepted' = accepted + 1 /\ accepted' <= MaxConnections
         /\ open' \subseteq Descriptors
         /\ context1' \in Seq([number : 1 .. accepted', state : Contexts])
         /\ \A k \in DOMAIN context1 : k \in DOMAIN context1' /\ context1'[k] = context1[k]
<1> DEFINE new == [number |-> accepted + 1, state |-> InitContext(FreeDescriptor)]
           n == Len(context1)
<1>1. /\ n < MaxOpen /\ accepted < MaxConnections /\ accepted' = accepted + 1
      /\ open' = open \cup {FreeDescriptor} /\ context1' = Append(context1, new)
  BY DEF Poll
<1>2. FreeDescriptor \in Descriptors /\ FreeDescriptor \notin open /\ FreeDescriptor # -1
  BY <1>1, FreeDescriptorExists, DescriptorNumbers
<1>3. /\ accepted \in Nat /\ MaxConnections \in Nat /\ n \in Nat /\ DOMAIN context1 = 1 .. n
      /\ context1 \in Seq([number : 1 .. accepted, state : Contexts])
  BY LoopAssumption, LenProperties DEF IInv, Typed
<1>4. [number : 1 .. accepted, state : Contexts]
        \subseteq [number : 1 .. accepted + 1, state : Contexts]
  BY <1>3
<1>5. context1 \in Seq([number : 1 .. accepted + 1, state : Contexts])
  BY <1>3, <1>4, SeqMonotonic
<1>6. Coherent(InitContext(FreeDescriptor)) /\ InitContext(FreeDescriptor) \in Contexts
      /\ SocketsOf(InitContext(FreeDescriptor)) = {FreeDescriptor}
  BY <1>2 DEF InitContext, Coherent, Contexts, WithoutServer, Asks, SocketsOf
<1>7. new \in [number : 1 .. accepted + 1, state : Contexts]
      /\ new.number = accepted + 1 /\ new.state = InitContext(FreeDescriptor)
  BY <1>3, <1>6
<1> HIDE DEF new
<1>8. /\ context1' \in Seq([number : 1 .. accepted + 1, state : Contexts])
      /\ Len(context1') = n + 1 /\ DOMAIN context1' = 1 .. n + 1
      /\ \A k \in 1 .. n : context1'[k] = context1[k]
      /\ context1'[n + 1] = new
  BY <1>1, <1>5, <1>7, AppendProperties, LenProperties
<1>9. \A k \in 1 .. n : k \in 1 .. n + 1 /\ State(k)' = State(k)
      /\ context1[k].number \in 1 .. accepted /\ SocketsOf(State(k)) \subseteq open
  <2> SUFFICES ASSUME NEW k \in 1 .. n
               PROVE  /\ k \in 1 .. n + 1 /\ State(k)' = State(k)
                      /\ context1[k].number \in 1 .. accepted
                      /\ SocketsOf(State(k)) \subseteq open
    OBVIOUS
  <2>1. context1[k] \in [number : 1 .. accepted, state : Contexts]
    BY <1>3, ElementOfSeq
  <2>2. SocketsOf(State(k)) \subseteq Descriptors
    BY <2>1 DEF State, SocketsOf, Contexts
  <2>3. SocketsOf(State(k)) \subseteq open
    BY <1>3, <2>2 DEF IInv, OpenOwned
  <2>4. QED
    BY <1>3, <1>8, <2>1, <2>3 DEF State
<1>10. \A k \in 1 .. n + 1 : k \in 1 .. n \/ k = n + 1
  BY <1>3
<1>11. PICK last : last = n + 1 /\ State(last)' = InitContext(FreeDescriptor)
                   /\ context1'[last].number = accepted + 1
                   /\ SocketsOf(State(last)') = {FreeDescriptor}
  BY <1>6, <1>7, <1>8 DEF State
<1>12. AllCoherent'
  BY <1>3, <1>6, <1>8, <1>9, <1>10, <1>11 DEF IInv, AllCoherent
<1>13. Numbered'
  <2> SUFFICES ASSUME NEW k \in 1 .. n + 1, NEW m \in 1 .. n + 1,
                      context1'[k].number = context1'[m].number
               PROVE  k = m
    BY <1>8 DEF Numbered
  <2>1. CASE k \in 1 .. n /\ m \in 1 .. n
    BY <1>3, <1>8, <2>1 DEF IInv, Numbered
  <2>2. ASSUME NEW j \in 1 .. n PROVE context1'[j].number # accepted + 1
    BY <1>3, <1>8, <1>9
  <2>3. QED
    BY <1>10, <1>11, <2>1, <2>2
<1>14. Apart'
  <2> SUFFICES ASSUME NEW k \in 1 .. n + 1, NEW m \in 1 .. n + 1,
                      NEW d \in SocketsOf(State(k)'), d \in SocketsOf(State(m)')
               PROVE  k = m
    BY <1>8 DEF Apart, SocketsOf
  <2>1. CASE k \in 1 .. n /\ m \in 1 .. n
    <3>1. d \in SocketsOf(State(k)) /\ d \in SocketsOf(State(m))
      BY <1>9, <2>1
    <3>2. QED
      BY <1>3, <2>1, <3>1 DEF IInv, Apart
  <2>2. ASSUME NEW j \in 1 .. n PROVE FreeDescriptor \notin SocketsOf(State(j)')
    BY <1>2, <1>9
  <2>3. QED
    BY <1>10, <1>11, <2>1, <2>2
<1>15. OpenOwned'
  <2> SUFFICES ASSUME NEW d \in Descriptors
               PROVE  d \in open' <=> \E k \in 1 .. n + 1 : d \in SocketsOf(State(k)')
    BY <1>8 DEF OpenOwned, SocketsOf
  <2>1. d \in open <=> \E k \in 1 .. n : d \in SocketsOf(State(k))
    BY <1>3 DEF IInv, OpenOwned
  <2>2. d \in open <=> \E k \in 1 .. n : d \in SocketsOf(State(k)')
    BY <1>9, <2>1
  <2>3. last \in 1 .. n + 1
    BY <1>3, <1>11
  <2>4. QED
    BY <1>1, <1>9, <1>10, <1>11, <2>2, <2>3
<1>16. /\ open' \subseteq Descriptors /\ accepted' <= MaxConnections
       /\ \A k \in DOMAIN context1 : k \in DOMAIN context1' /\ context1'[k] = context1[k]
  <2>1. open' \subseteq Descriptors
    BY <1>1, <1>2 DEF IInv, Typed
  <2>2. accepted' <= MaxConnections
    <3>1. \A a, m \in Nat : a < m => a + 1 <= m
      OBVIOUS
    <3>2. QED
      BY <1>1, <1>3, <3>1
  <2>3. \A k \in 1 .. n : k \in DOMAIN context1' /\ context1'[k] = context1[k]
    BY <1>8, <1>9
  <2>4. QED
    BY <1>3, <2>1, <2>2, <2>3
<1>17. QED
  BY <1>1, <1>8, <1>12, <1>13, <1>14, <1>15, <1>16 DEF ContextsOK

LEMMA PollInv == IInv /\ Poll => IInv'
<1> SUFFICES ASSUME IInv, Poll PROVE IInv'
  OBVIOUS
<1>1. /\ ContextsOK' /\ Len(context1') <= MaxOpen /\ Len(context1') \in Nat
      /\ accepted' \in 0 .. MaxConnections /\ accepted \in Nat
      /\ accepted <= accepted' /\ open' \subseteq Descriptors
      /\ context1' \in Seq([number : 1 .. accepted', state : Contexts])
      /\ \A k \in DOMAIN context1 : k \in DOMAIN context1' /\ context1'[k] = context1[k]
  <2>1. CASE context1' # context1
    <3>1. Len(context1) \in Nat /\ accepted \in Nat /\ MaxConnections \in Nat /\ MaxOpen \in Nat
      BY LoopAssumption, LenProperties DEF IInv, Typed
    <3>2. QED
      BY <2>1, <3>1, AcceptedInv
  <2>2. CASE context1' = context1
    <3>1. context1 # Append(context1, [number |-> accepted + 1, state |-> InitContext(FreeDescriptor)])
      <4>1. Len(Append(context1, [number |-> accepted + 1, state |-> InitContext(FreeDescriptor)]))
              = Len(context1) + 1 /\ Len(context1) \in Nat
        BY AppendProperties, LenProperties DEF IInv, Typed
      <4>2. QED
        BY <4>1
    <3>2. UNCHANGED <<context1, open, accepted>>
      BY <2>2, <3>1 DEF Poll
    <3>3. Len(context1) \in Nat
      BY LenProperties DEF IInv, Typed
    <3>4. QED
      BY <3>2, <3>3, ContextsKept, LoopAssumption DEF IInv, ContextsOK, Typed, Counted
  <2>3. QED
    BY <2>1, <2>2
<1>2. /\ fds' \in Seq(Entries) /\ Len(fds') = Len(fds) /\ DOMAIN fds' = DOMAIN fds
      /\ \A e \in DOMAIN fds :
           /\ fds'[e].fd = fds[e].fd /\ fds'[e].number = fds[e].number
           /\ fds'[e].events = fds[e].events
           /\ fds'[e].revents \in {{}, fds[e].events}
  BY PollReports
<1>3. phase' = "scan" /\ i' = 1 /\ phase = "poll"
  BY DEF Poll
<1>4. /\ Len(fds) \in Nat /\ DOMAIN fds = 1 .. Len(fds) /\ DOMAIN context1 = 1 .. Len(context1)
  BY LenProperties DEF IInv, Typed
<1>5. Typed'
  <2>1. Entries \subseteq Entries'
    BY <1>1 DEF Entries
  <2>2. fds' \in Seq(Entries')
    BY <1>2, <2>1, SeqMonotonic
  <2>3. QED
    BY <1>1, <1>3, <2>2 DEF Typed
<1>6. Counted'
  BY <1>1, <1>2, <1>3, <1>4 DEF IInv, Counted
<1>7. Reported' /\ Adjacent'
  BY <1>2 DEF IInv, Reported, Adjacent
<1>8. EntriesCurrent'
  <2>1. ASSUME NEW e \in 1 .. Len(fds') PROVE \E k \in DOMAIN context1' : Concerns(e, k)'
    <3>1. e \in DOMAIN fds
      BY <1>2, <1>4
    <3>2. PICK k \in 1 .. Len(context1) : Concerns(e, k)
      BY <1>3, <3>1 DEF IInv, EntriesCurrent, Built, Describes
    <3>3. Concerns(e, k)'
      BY <1>1, <1>2, <1>4, <3>1, <3>2 DEF Concerns, State
    <3>4. QED
      BY <1>1, <1>4, <3>2, <3>3
  <2>2. QED
    BY <1>3, <2>1 DEF EntriesCurrent
<1>9. QED
  BY <1>1, <1>5, <1>6, <1>7, <1>8 DEF IInv, ContextsOK

-----------------------------------------------------------------------------
(* What is left of a sequence when one element is taken out.               *)
LEMMA Removed ==
  ASSUME NEW S, NEW s \in Seq(S), NEW k \in 1 .. Len(s)
  PROVE  /\ RemoveAt(s, k) \in Seq(S) /\ Len(RemoveAt(s, k)) = Len(s) - 1
         /\ \A j \in 1 .. Len(s) - 1 :
              RemoveAt(s, k)[j] = IF j < k THEN s[j] ELSE s[j + 1]
<1> DEFINE n == Len(s)
           a == SubSeq(s, 1, k - 1)
           b == SubSeq(s, k + 1, n)
<1>1. n \in Nat /\ k \in Nat /\ 1 <= k /\ k <= n /\ \A j \in 1 .. n : s[j] \in S
  BY LenProperties, ElementOfSeq
<1>2. /\ a \in Seq(S) /\ Len(a) = k - 1
      /\ \A j \in 1 .. k - 1 : a[j] = s[j]
  <2>1. \A j \in 1 .. k - 1 : s[j] \in S
    BY <1>1
  <2>2. 1 \in Int /\ k - 1 \in Int
    BY <1>1
  <2>3. /\ a \in Seq(S) /\ Len(a) = IF 1 <= k - 1 THEN k - 1 - 1 + 1 ELSE 0
        /\ \A j \in 1 .. k - 1 - 1 + 1 : a[j] = s[1 + j - 1]
    BY <2>1, <2>2, SubSeqProperties
  <2> HIDE DEF a
  <2>4. QED
    BY <1>1, <2>3
<1>3. /\ b \in Seq(S) /\ Len(b) = n - k
      /\ \A j \in 1 .. n - k : b[j] = s[k + j]
  <2>1. \A j \in k + 1 .. n : s[j] \in S
    BY <1>1
  <2>2. k + 1 \in Int /\ n \in Int
    BY <1>1
  <2>3. /\ b \in Seq(S) /\ Len(b) = IF k + 1 <= n THEN n - (k + 1) + 1 ELSE 0
        /\ \A j \in 1 .. n - (k + 1) + 1 : b[j] = s[k + 1 + j - 1]
    BY <2>1, <2>2, SubSeqProperties
  <2> HIDE DEF b
  <2>4. QED
    BY <1>1, <2>3
<1> HIDE DEF a, b
<1>4. /\ a \o b \in Seq(S) /\ Len(a \o b) = Len(a) + Len(b)
      /\ \A j \in 1 .. Len(a) + Len(b) :
           (a \o b)[j] = IF j <= Len(a) THEN a[j] ELSE b[j - Len(a)]
  BY <1>2, <1>3, ConcatProperties
<1>5. ASSUME NEW j \in 1 .. n - 1 PROVE (a \o b)[j] = IF j < k THEN s[j] ELSE s[j + 1]
  <2>1. (a \o b)[j] = IF j <= k - 1 THEN a[j] ELSE b[j - (k - 1)]
    BY <1>1, <1>2, <1>3, <1>4
  <2>2. CASE j < k
    BY <1>1, <1>2, <2>1, <2>2
  <2>3. CASE j >= k
    <3>1. j - (k - 1) \in 1 .. n - k /\ k + (j - (k - 1)) = j + 1
      BY <1>1, <2>3
    <3>2. QED
      BY <1>1, <1>3, <2>1, <2>3, <3>1
  <2>4. j < k \/ j >= k
    BY <1>1
  <2>5. QED
    BY <2>2, <2>3, <2>4
<1>6. Len(a) + Len(b) = n - 1
  BY <1>1, <1>2, <1>3
<1>7. RemoveAt(s, k) = a \o b
  BY DEF RemoveAt, a, b
<1>8. QED
  BY <1>4, <1>5, <1>6, <1>7

-----------------------------------------------------------------------------
(* The context that find_context finds for the entry is the entry's, and   *)
(* so it is for every entry after it.                                      *)
LEMMA FoundConcerned ==
  ASSUME IInv, Scanning, NEW k \in DOMAIN context1, Found(k)
  PROVE  /\ i \in DOMAIN fds /\ Concerns(i, k)
         /\ \A e \in i .. Len(fds) : \E m \in DOMAIN context1 : Concerns(e, m)
<1>1. i \in DOMAIN fds /\ ~ Orphan(i) /\ \E m \in DOMAIN context1 : Concerns(i, m)
  BY FoundOrOrphan DEF Found
<1>2. k \in Having(fds[i].fd)
  <2>1. Having(fds[i].fd) \subseteq Nat
    BY LenProperties DEF Having, IInv, Typed
  <2>2. QED
    BY <2>1, LowestExists DEF Found
<1>3. PICK m \in DOMAIN context1 : Concerns(i, m)
  BY <1>1
<1>4. m = k
  BY <1>2, <1>3 DEF Concerns, Having, State, IInv, Apart
<1>5. \A e \in i .. Len(fds) : \E j \in DOMAIN context1 : Concerns(e, j)
  BY <1>1 DEF IInv, EntriesCurrent, Scanning
<1>6. QED
  BY <1>1, <1>3, <1>4, <1>5

(* What a context has after handle, and that it is nobody else's.          *)
LEMMA SocketsAfter ==
  ASSUME ContextsOK, NEW k \in DOMAIN context1, NEW c2, NEW fd,
         Succeeds(State(k), c2, fd),
         State(k).server_fd = -1 => fd \in Descriptors /\ fd \notin open
  PROVE  /\ SocketsOf(State(k)) \subseteq SocketsOf(c2)
         /\ SocketsOf(c2) \subseteq Descriptors
         /\ \A d \in SocketsOf(c2) : d \in SocketsOf(State(k)) \/ d \notin open
         /\ \A m \in DOMAIN context1 : SocketsOf(State(m)) \subseteq open
<1>1. \A m \in DOMAIN context1 : SocketsOf(State(m)) \subseteq Descriptors
  BY AsksSomething DEF ContextsOK, AllCoherent, SocketsOf
<1>2. \A m \in DOMAIN context1 : SocketsOf(State(m)) \subseteq open
  BY <1>1 DEF ContextsOK, OpenOwned
<1>3. CASE c2.server_fd = State(k).server_fd
  <2>1. SocketsOf(c2) = SocketsOf(State(k))
    BY <1>3 DEF Succeeds, SocketsOf
  <2>2. QED
    BY <1>1, <1>2, <2>1
<1>4. CASE State(k).server_fd = -1 /\ c2.server_fd = fd
  <2>1. fd \in Descriptors /\ fd \notin open /\ fd # -1
    BY <1>4, DescriptorNumbers
  <2>2. SocketsOf(c2) = SocketsOf(State(k)) \cup {fd}
    BY <1>4, <2>1 DEF Succeeds, SocketsOf
  <2>3. QED
    BY <1>1, <1>2, <2>1, <2>2
<1>5. QED
  BY <1>3, <1>4 DEF Succeeds

LEMMA GoesOnInv ==
  ASSUME IInv, Scanning, NEW k \in DOMAIN context1, Found(k), NEW c2, NEW fd,
         Succeeds(State(k), c2, fd), ~ HasEnded(c2),
         State(k).server_fd = -1 => fd \in Descriptors /\ fd \notin open,
         Handled(k, c2), i' = i + 1, UNCHANGED <<phase, fds, accepted>>
  PROVE  IInv'
<1> DEFINE n == Len(context1)
<1>1. /\ context1' = [context1 EXCEPT ![k].state = c2]
      /\ open' = open \cup SocketsOf(c2) /\ Coherent(c2) /\ c2 \in Contexts
  BY DEF Handled, Succeeds, Coherent
<1>2. /\ context1 \in Seq([number : 1 .. accepted, state : Contexts])
      /\ n \in Nat /\ DOMAIN context1 = 1 .. n
      /\ context1[k] \in [number : 1 .. accepted, state : Contexts]
  BY LenProperties, ElementOfSeq DEF IInv, Typed
<1>3. /\ context1' \in Seq([number : 1 .. accepted, state : Contexts])
      /\ Len(context1') = n /\ DOMAIN context1' = 1 .. n
      /\ \A m \in 1 .. n : m # k => context1'[m] = context1[m]
      /\ context1'[k].number = context1[k].number /\ context1'[k].state = c2
  <2> DEFINE new == [context1[k] EXCEPT !.state = c2]
  <2>1. new \in [number : 1 .. accepted, state : Contexts]
        /\ new.number = context1[k].number /\ new.state = c2
    BY <1>1, <1>2
  <2>2. context1' = [context1 EXCEPT ![k] = new]
    BY <1>1
  <2> HIDE DEF new
  <2>3. QED
    BY <1>2, <2>1, <2>2, ExceptSeq, LenProperties
<1>4. /\ SocketsOf(State(k)) \subseteq SocketsOf(c2)
      /\ SocketsOf(c2) \subseteq Descriptors
      /\ \A d \in SocketsOf(c2) : d \in SocketsOf(State(k)) \/ d \notin open
      /\ \A m \in 1 .. n : SocketsOf(State(m)) \subseteq open
  BY <1>2, SocketsAfter DEF IInv, ContextsOK
<1>5. /\ State(k)' = c2 /\ SocketsOf(State(k)') = SocketsOf(c2)
      /\ \A m \in 1 .. n : /\ m # k => State(m)' = State(m)
                           /\ context1'[m].number = context1[m].number
                           /\ SocketsOf(State(m)) \subseteq SocketsOf(State(m)')
  <2>1. State(k)' = c2
    BY <1>3 DEF State
  <2>2. \A m \in 1 .. n : m # k => State(m)' = State(m)
    BY <1>3 DEF State
  <2>3. \A m \in 1 .. n : context1'[m].number = context1[m].number
    BY <1>3
  <2>4. \A m \in 1 .. n : SocketsOf(State(m)) \subseteq SocketsOf(State(m)')
    BY <1>4, <2>1, <2>2
  <2>5. QED
    BY <2>1, <2>2, <2>3, <2>4
<1>6. AllCoherent' /\ Numbered'
  <2>1. AllCoherent'
    BY <1>1, <1>3, <1>2, <1>5 DEF IInv, AllCoherent
  <2>2. Numbered'
    BY <1>2, <1>3, <1>5 DEF IInv, Numbered
  <2>3. QED
    BY <2>1, <2>2
<1>7. Apart'
  <2> SUFFICES ASSUME NEW j \in 1 .. n, NEW m \in 1 .. n, j # m,
                      NEW d \in SocketsOf(State(j)'), d \in SocketsOf(State(m)')
               PROVE  FALSE
    BY <1>3 DEF Apart, SocketsOf
  <2>1. \A l \in 1 .. n \ {k} : d \notin SocketsOf(State(l)) \/ d \notin SocketsOf(c2)
    BY <1>2, <1>4 DEF IInv, Apart
  <2>2. CASE j # k /\ m # k
    BY <1>2, <1>5, <2>2 DEF IInv, Apart
  <2>3. CASE j = k
    BY <1>5, <2>1, <2>3
  <2>4. CASE m = k
    BY <1>5, <2>1, <2>4
  <2>5. QED
    BY <2>2, <2>3, <2>4
<1>8. OpenOwned'
  <2> SUFFICES ASSUME NEW d \in Descriptors
               PROVE  d \in open' <=> \E m \in 1 .. n : d \in SocketsOf(State(m)')
    BY <1>3 DEF OpenOwned, SocketsOf
  <2>1. d \in open <=> \E m \in 1 .. n : d \in SocketsOf(State(m))
    BY <1>2 DEF IInv, OpenOwned
  <2>2. QED
    BY <1>1, <1>2, <1>4, <1>5, <2>1
<1>9. Typed'
  <2>1. open' \subseteq Descriptors
    BY <1>1, <1>4 DEF IInv, Typed
  <2>2. QED
    BY <1>3, <2>1 DEF IInv, Typed, Entries
<1>10. Counted'
  BY <1>3, LenProperties DEF IInv, Typed, Counted, Scanning
<1>11. Reported' /\ Adjacent'
  BY DEF IInv, Reported, Adjacent
<1>12. EntriesCurrent'
  <2>1. ASSUME NEW e \in i + 1 .. Len(fds) PROVE \E m \in 1 .. n : Concerns(e, m)'
    <3>1. PICK m \in 1 .. n : Concerns(e, m)
      <4>1. e \in i .. Len(fds)
        BY LenProperties DEF IInv, Typed
      <4>2. QED
        BY <1>2, <4>1, FoundConcerned
    <3>2. Concerns(e, m)'
      BY <1>5, <3>1 DEF Concerns, SocketsOf
    <3>3. QED
      BY <3>2
  <2>2. QED
    BY <1>3, <2>1 DEF EntriesCurrent, Scanning
<1>13. QED
  BY <1>6, <1>7, <1>8, <1>9, <1>10, <1>11, <1>12 DEF IInv

(* When the context ends, its own second entry is the one entry that is    *)
(* left without a context, and it is the next to be looked at.             *)
LEMMA EndsInv ==
  ASSUME IInv, Scanning, NEW k \in DOMAIN context1, Found(k), Ready(k), NEW c2, NEW fd,
         Succeeds(State(k), c2, fd), HasEnded(c2),
         State(k).server_fd = -1 => fd \in Descriptors /\ fd \notin open,
         Handled(k, c2), i' = i + 1, UNCHANGED <<phase, fds, accepted>>
  PROVE  IInv'
<1> DEFINE n == Len(context1)
           Old(j) == IF j < k THEN j ELSE j + 1
<1>1. context1' = RemoveAt(context1, k) /\ open' = open \ SocketsOf(c2)
  BY DEF Handled, HasEnded, Remaining, Closed
<1>2. /\ context1 \in Seq([number : 1 .. accepted, state : Contexts])
      /\ n \in Nat /\ DOMAIN context1 = 1 .. n /\ k \in 1 .. n
  BY LenProperties DEF IInv, Typed
<1>3. /\ context1' \in Seq([number : 1 .. accepted, state : Contexts])
      /\ Len(context1') = n - 1 /\ DOMAIN context1' = 1 .. n - 1
      /\ \A j \in 1 .. n - 1 : context1'[j] = context1[Old(j)]
  <2>1. /\ context1' \in Seq([number : 1 .. accepted, state : Contexts])
        /\ Len(context1') = n - 1
        /\ \A j \in 1 .. n - 1 : context1'[j] = IF j < k THEN context1[j] ELSE context1[j + 1]
    BY <1>1, <1>2, Removed
  <2>2. DOMAIN context1' = 1 .. Len(context1')
    BY <2>1, LenProperties
  <2>3. QED
    BY <2>1, <2>2
<1>4. /\ \A j \in 1 .. n - 1 : Old(j) \in 1 .. n /\ Old(j) # k
      /\ \A j, m \in 1 .. n - 1 : Old(j) = Old(m) => j = m
  <2>1. k \in Nat /\ \A j \in 1 .. n - 1 : j \in Nat /\ j + 1 <= n
    BY <1>2
  <2>2. \A j \in 1 .. n - 1 : Old(j) \in 1 .. n /\ Old(j) # k
    BY <1>2, <2>1
  <2>3. \A j, m \in 1 .. n - 1 : Old(j) = Old(m) => j = m
    BY <2>1
  <2>4. QED
    BY <2>2, <2>3
<1>5. ASSUME NEW m \in 1 .. n, m # k PROVE \E j \in 1 .. n - 1 : Old(j) = m
  <2>1. CASE m < k
    <3>1. m \in 1 .. n - 1 /\ Old(m) = m
      BY <1>2, <2>1
    <3>2. QED
      BY <3>1
  <2>2. CASE m > k
    <3>1. m - 1 \in 1 .. n - 1 /\ Old(m - 1) = m
      BY <1>2, <2>2
    <3>2. QED
      BY <3>1
  <2>3. QED
    BY <1>2, <1>5, <2>1, <2>2
<1> HIDE DEF Old
<1>6. \A j \in 1 .. n - 1 : /\ State(j)' = State(Old(j))
                            /\ context1'[j].number = context1[Old(j)].number
  BY <1>3 DEF State
<1>7. /\ SocketsOf(State(k)) \subseteq SocketsOf(c2)
      /\ \A d \in SocketsOf(c2) : d \in SocketsOf(State(k)) \/ d \notin open
      /\ \A m \in 1 .. n : SocketsOf(State(m)) \subseteq open
  BY <1>2, SocketsAfter DEF IInv, ContextsOK
<1>8. AllCoherent'
  <2>1. \A j \in 1 .. n - 1 : Coherent(State(j)')
    BY <1>2, <1>4, <1>6 DEF IInv, AllCoherent
  <2>2. QED
    BY <1>3, <2>1 DEF AllCoherent, Coherent, WithServer, WithoutServer, Asks, Contexts
<1>9. Numbered'
  <2> SUFFICES ASSUME NEW j \in 1 .. n - 1, NEW m \in 1 .. n - 1,
                      context1'[j].number = context1'[m].number
               PROVE  j = m
    BY <1>3 DEF Numbered
  <2>1. Old(j) = Old(m)
    BY <1>2, <1>4, <1>6 DEF IInv, Numbered
  <2>2. QED
    BY <1>4, <2>1
<1>10. Apart'
  <2> SUFFICES ASSUME NEW j \in 1 .. n - 1, NEW m \in 1 .. n - 1,
                      NEW d \in SocketsOf(State(j)'), d \in SocketsOf(State(m)')
               PROVE  j = m
    BY <1>3 DEF Apart, SocketsOf
  <2>1. Old(j) = Old(m)
    BY <1>2, <1>4, <1>6 DEF IInv, Apart
  <2>2. QED
    BY <1>4, <2>1
<1>11. ASSUME NEW m \in 1 .. n, m # k, NEW d \in SocketsOf(State(m))
       PROVE  d \in open /\ d \notin SocketsOf(State(k)) /\ d \notin SocketsOf(c2)
  BY <1>2, <1>7, <1>11 DEF IInv, Apart
<1>12. OpenOwned'
  <2> SUFFICES ASSUME NEW d \in Descriptors
               PROVE  d \in open' <=> \E j \in 1 .. n - 1 : d \in SocketsOf(State(j)')
    BY <1>3 DEF OpenOwned, SocketsOf
  <2>1. ASSUME d \in open' PROVE \E j \in 1 .. n - 1 : d \in SocketsOf(State(j)')
    <3>1. d \in open /\ d \notin SocketsOf(State(k))
      BY <1>1, <1>7, <2>1
    <3>2. PICK m \in 1 .. n : d \in SocketsOf(State(m))
      BY <1>2, <3>1 DEF IInv, OpenOwned
    <3>3. PICK j \in 1 .. n - 1 : Old(j) = m
      BY <1>5, <3>1, <3>2
    <3>4. QED
      BY <1>6, <3>2, <3>3
  <2>2. ASSUME NEW j \in 1 .. n - 1, d \in SocketsOf(State(j)') PROVE d \in open'
    BY <1>1, <1>4, <1>6, <1>11, <2>2
  <2>3. QED
    BY <2>1, <2>2
<1>13. Typed'
  <2>1. open' \subseteq Descriptors
    BY <1>1 DEF IInv, Typed
  <2>2. QED
    BY <1>3, <2>1 DEF IInv, Typed, Entries
<1>14. Counted'
  <2>1. n - 1 <= MaxOpen
    BY <1>2, LoopAssumption DEF IInv, Counted
  <2>2. QED
    BY <1>3, <2>1, LenProperties DEF IInv, Typed, Counted, Scanning
<1>15. Reported' /\ Adjacent'
  BY DEF IInv, Reported, Adjacent
<1>16. /\ i \in DOMAIN fds /\ Concerns(i, k) /\ i \in Nat \ {0}
       /\ Len(fds) \in Nat /\ DOMAIN fds = 1 .. Len(fds)
       /\ \A e \in i .. Len(fds) : \E m \in 1 .. n : Concerns(e, m)
  BY <1>2, FoundConcerned, LenProperties DEF IInv, Typed
<1>17. ASSUME NEW e \in i + 1 .. Len(fds)
       PROVE  (\E j \in 1 .. n - 1 : Concerns(e, j)') \/ (e = i + 1 /\ Orphan(e)')
  <2>1. e \in DOMAIN fds /\ i < e
    BY <1>16
  <2>2. PICK m \in 1 .. n : Concerns(e, m)
    BY <1>16, <2>1
  <2>3. CASE m # k
    <3>1. PICK j \in 1 .. n - 1 : Old(j) = m
      BY <1>5, <2>3
    <3>2. Concerns(e, j)'
      BY <1>6, <2>2, <3>1 DEF Concerns, SocketsOf
    <3>3. QED
      BY <3>2
  <2>4. CASE m = k
    <3>1. fds[e].number = fds[i].number
      BY <1>16, <2>2, <2>4 DEF Concerns
    <3>2. e = i + 1 /\ fds[i].events = {"POLLOUT"} /\ fds[e].events = {"POLLIN"}
      BY <1>16, <2>1, <3>1 DEF IInv, Adjacent
    <3>3. fds[i].revents = {"POLLOUT"}
      <4>1. fds[i].revents # {}
        BY DEF Ready
      <4>2. QED
        BY <1>16, <3>2, <4>1 DEF IInv, Reported
    <3>4. fds[e].fd \in SocketsOf(State(k))
      BY <2>2, <2>4 DEF Concerns
    <3>5. \A j \in 1 .. n - 1 : fds[e].fd \notin SocketsOf(State(j)')
      BY <1>4, <1>6, <1>11, <3>4
    <3>6. Having(fds[e].fd)' = {}
      BY <1>3, <3>5 DEF Having, State, SocketsOf
    <3>7. e > 1 /\ e - 1 = i
      BY <1>16, <3>2
    <3>8. QED
      BY <3>1, <3>2, <3>3, <3>6, <3>7 DEF Orphan
  <2>5. QED
    BY <2>3, <2>4
<1>18. EntriesCurrent'
  BY <1>3, <1>17 DEF EntriesCurrent, Scanning
<1>19. QED
  BY <1>8, <1>9, <1>10, <1>12, <1>13, <1>14, <1>15, <1>18 DEF IInv

LEMMA HandledInv ==
  ASSUME IInv, Scanning, NEW k \in DOMAIN context1, Found(k), Ready(k), NEW c2, NEW fd,
         Succeeds(State(k), c2, fd),
         State(k).server_fd = -1 => fd \in Descriptors /\ fd \notin open,
         Handled(k, c2), i' = i + 1, UNCHANGED <<phase, fds, accepted>>
  PROVE  IInv'
  BY GoesOnInv, EndsInv

LEMMA HandleClientInv == IInv /\ HandleClient => IInv'
<1> SUFFICES ASSUME IInv, HandleClient PROVE IInv'
  OBVIOUS
<1>1. PICK k \in DOMAIN context1 :
        /\ Found(k) /\ IsClient(k) /\ Ready(k)
        /\ IF ClientEventExpected(State(k), fds[i].revents)
           THEN /\ \E c2 \in AfterClientEvent(State(k), FreeDescriptor) : Handled(k, c2)
                /\ i' = i + 1 /\ UNCHANGED phase
           ELSE phase' = "exited" /\ UNCHANGED <<context1, open, i>>
  BY DEF HandleClient, State
<1>2. Scanning /\ UNCHANGED <<fds, accepted>>
  BY DEF HandleClient
<1>3. Coherent(State(k)) /\ State(k).client_events \cap fds[i].revents # {}
  BY <1>1 DEF IInv, AllCoherent, Ready, IsClient, Wanted, State
<1>4. ClientEventExpected(State(k), fds[i].revents)
  BY <1>3, ClientExpected
<1>5. PICK c2 \in AfterClientEvent(State(k), FreeDescriptor) : Handled(k, c2)
  BY <1>1, <1>4
<1>6. State(k).server_fd = -1 =>
        FreeDescriptor \in Descriptors /\ FreeDescriptor \notin open
  BY FreeDescriptorExists
<1>7. State(k).client_fd \in open
  <2>1. State(k).client_fd \in Descriptors
    BY <1>3, AsksSomething
  <2>2. State(k).client_fd \in SocketsOf(State(k))
    BY <2>1, DescriptorNumbers DEF SocketsOf
  <2>3. QED
    BY <2>1, <2>2 DEF IInv, OpenOwned
<1>8. State(k).client_events # {}
  BY <1>3
<1>9. Succeeds(State(k), c2, FreeDescriptor)
  BY <1>3, <1>4, <1>5, <1>6, <1>7, <1>8, ClientEventSucceeds
<1>10. QED
  BY <1>1, <1>2, <1>4, <1>5, <1>6, <1>9, HandledInv

LEMMA HandleServerInv == IInv /\ HandleServer => IInv'
<1> SUFFICES ASSUME IInv, HandleServer PROVE IInv'
  OBVIOUS
<1>1. PICK k \in DOMAIN context1 :
        /\ Found(k) /\ ~ IsClient(k) /\ Ready(k)
        /\ IF ServerEventExpected(State(k), fds[i].revents)
           THEN /\ \E c2 \in AfterServerEvent(State(k)) : Handled(k, c2)
                /\ i' = i + 1 /\ UNCHANGED phase
           ELSE phase' = "exited" /\ UNCHANGED <<context1, open, i>>
  BY DEF HandleServer, State
<1>2. Scanning /\ UNCHANGED <<fds, accepted>>
  BY DEF HandleServer
<1>3. Coherent(State(k)) /\ State(k).server_events \cap fds[i].revents # {}
  BY <1>1 DEF IInv, AllCoherent, Ready, IsClient, Wanted, State
<1>4. ServerEventExpected(State(k), fds[i].revents)
  BY <1>3, ServerExpected
<1>5. PICK c2 \in AfterServerEvent(State(k)) : Handled(k, c2)
  BY <1>1, <1>4
<1>6. State(k).server_events # {} /\ State(k).server_fd # -1
  BY <1>3, AsksSomething
<1>7. Succeeds(State(k), c2, FreeDescriptor)
  BY <1>3, <1>5, <1>6, ServerEventSucceeds
<1>8. QED
  BY <1>1, <1>2, <1>4, <1>5, <1>6, <1>7, HandledInv

-----------------------------------------------------------------------------
(* The invariant that all the properties of the loop follow from.          *)
THEOREM InductiveInvariant == Spec => []IInv
<1>1. IInv /\ [Next]_vars => IInv'
  <2> SUFFICES ASSUME IInv, [Next]_vars PROVE IInv'
    OBVIOUS
  <2>1. CASE Stopped \/ UNCHANGED vars
    <3>1. UNCHANGED <<phase, context1, fds, i, open, accepted>>
      BY <2>1 DEF Stopped, vars
    <3>2. ContextsOK'
      BY <3>1, ContextsKept DEF IInv, ContextsOK
    <3>3. Typed' /\ Counted' /\ Reported' /\ Adjacent'
      BY <3>1 DEF IInv, Typed, Entries, Counted, Reported, Adjacent
    <3>4. /\ \A e, k : /\ Concerns(e, k)' <=> Concerns(e, k)
                       /\ Describes(e, k)' <=> Describes(e, k)
          /\ \A k : State(k)' = State(k)
      BY <3>1 DEF Concerns, Describes, State
    <3>5. /\ Built(Len(context1))' <=> Built(Len(context1))
          /\ Built(i - 1)' <=> Built(i - 1)
      BY <3>1, <3>4 DEF Built, SocketsOf
    <3>6. \A e : Orphan(e)' <=> Orphan(e)
      BY <3>1 DEF Orphan, Having
    <3>7. Orphan(i)' <=> Orphan(i)
      BY <3>1 DEF Orphan, Having
    <3>8. EntriesCurrent'
      BY <3>1, <3>4, <3>5, <3>6, <3>7 DEF IInv, EntriesCurrent
    <3>9. QED
      BY <3>2, <3>3, <3>8 DEF IInv, ContextsOK
  <2>2. QED
    BY <2>1, PollInv, NotFoundInv, NotReadyInv, HandleClientInv, HandleServerInv,
       WriteKillsInv, EndScanInv, RebuildInv, EndRebuildInv DEF Next
<1>2. QED
  BY <1>1, InitInv, PTL DEF Spec

(* Every field of a context, an entry or the loop keeps the values the     *)
(* code gives it, for any number of connections.                           *)
THEOREM TypeCorrect == Spec => []TypeOK
<1>1. IInv => TypeOK
  <2> SUFFICES ASSUME IInv PROVE TypeOK
    OBVIOUS
  <2>1. Len(fds) \in Nat /\ Len(context1) \in Nat
    BY LenProperties DEF IInv, Typed
  <2>2. i \in 1 .. 1 + Len(fds) + Len(context1)
    BY <2>1 DEF IInv, Typed, Counted
  <2>3. QED
    BY <2>2 DEF IInv, Typed, TypeOK
<1>2. QED
  BY <1>1, InductiveInvariant, PTL

(* No descriptor leaks and none is shared, however connections end.        *)
THEOREM DescriptorsNeverLeak == Spec => []DescriptorsOwned
<1>1. IInv => DescriptorsOwned
  <2> SUFFICES ASSUME IInv PROVE DescriptorsOwned
    OBVIOUS
  <2>1. \A k \in DOMAIN context1 : SocketsOf(State(k)) \subseteq Descriptors
    BY AsksSomething DEF IInv, AllCoherent, SocketsOf
  <2>2. open = UNION {SocketsOf(State(k)) : k \in DOMAIN context1}
    BY <2>1 DEF IInv, Typed, OpenOwned
  <2>3. ASSUME NEW k \in DOMAIN context1
        PROVE  /\ State(k).client_fd # State(k).server_fd
               /\ \A m \in DOMAIN context1 \ {k} :
                    SocketsOf(State(k)) \cap SocketsOf(State(m)) = {}
    BY DEF IInv, AllCoherent, Coherent, Apart
  <2>4. QED
    BY <2>2, <2>3 DEF DescriptorsOwned, State
<1>2. QED
  BY <1>1, InductiveInvariant, PTL

(* As long as clients keep fewer connections open than context1 has slots, *)
(* no access is outside the two arrays.                                    *)
THEOREM AlwaysInBounds == Spec => []InBounds
<1>1. IInv => InBounds
  <2> SUFFICES ASSUME IInv PROVE InBounds
    OBVIOUS
  <2>1. Len(fds) \in Nat /\ Len(context1) \in Nat
    BY LenProperties DEF IInv, Typed
  <2>2. QED
    BY <2>1, LoopAssumption DEF IInv, Counted, InBounds
<1>2. QED
  BY <1>1, InductiveInvariant, PTL

(* Although descriptors are given out again in the middle of a scan, an    *)
(* event of one connection never reaches another.                          *)
THEOREM EventsNeverMisdirected == Spec => []EventsReachTheirConnection
<1>1. IInv => EventsReachTheirConnection
  <2> SUFFICES ASSUME IInv, phase = "scan", NEW e \in i .. Len(fds),
                      NEW k \in Having(fds[e].fd)
               PROVE  context1[k].number = fds[e].number
    BY DEF EventsReachTheirConnection
  <2>1. k \in DOMAIN context1 /\ fds[e].fd \in SocketsOf(State(k)) /\ ~ Orphan(e)
    BY DEF Having, State, Orphan
  <2>2. PICK m \in DOMAIN context1 : Concerns(e, m)
    BY <2>1 DEF IInv, EntriesCurrent
  <2>3. m = k
    BY <2>1, <2>2 DEF Concerns, IInv, Apart
  <2>4. QED
    BY <2>2, <2>3 DEF Concerns
<1>2. QED
  BY <1>1, InductiveInvariant, PTL

(* The array rebuilt after a scan, in which connections may have ended and *)
(* moved up, has all that each live connection waits for.                  *)
THEOREM NobodyForgotten == Spec => []EveryConnectionPolled
<1>1. IInv => EveryConnectionPolled
  <2> SUFFICES ASSUME IInv, phase = "poll", NEW k \in DOMAIN context1
               PROVE  LET mine == {e \in DOMAIN fds : fds[e].number = context1[k].number}
                      IN /\ mine # {}
                         /\ \A e \in mine : fds[e].events = Wanted(State(k), fds[e].fd)
                         /\ {fds[e].fd : e \in mine} =
                              {fd \in SocketsOf(State(k)) : Wanted(State(k), fd) # {}}
    BY DEF EveryConnectionPolled, State
  <2> DEFINE mine == {e \in DOMAIN fds : fds[e].number = context1[k].number}
             c == State(k)
  <2>1. DOMAIN context1 = 1 .. Len(context1) /\ fds \in Seq(Entries) /\ DOMAIN fds = 1 .. Len(fds)
    BY LenProperties DEF IInv, Typed
  <2>2. Built(Len(context1))
    BY DEF IInv, EntriesCurrent
  <2>3. ASSUME NEW e \in mine PROVE Describes(e, k) /\ fds[e].events # {}
    <3>1. PICK m \in DOMAIN context1 : Describes(e, m)
      BY <2>1, <2>2 DEF Built
    <3>2. m = k
      BY <3>1 DEF Describes, Concerns, IInv, Numbered
    <3>3. fds[e] \in Entries
      BY <2>1, ElementOfSeq
    <3>4. QED
      BY <3>1, <3>2, <3>3 DEF Entries
  <2>4. ASSUME NEW fd \in SocketsOf(c), Wanted(c, fd) # {}
        PROVE  \E e \in mine : fds[e].fd = fd
    BY <2>1, <2>2, <2>4 DEF Built, Describes, Concerns
  <2>5. Coherent(c)
    BY DEF IInv, AllCoherent
  <2>6. \E fd \in SocketsOf(c) : Wanted(c, fd) # {}
    <3>1. c.client_fd \in SocketsOf(c) /\ Wanted(c, c.client_fd) = c.client_events
      BY <2>5, AsksSomething, DescriptorNumbers DEF SocketsOf, Wanted
    <3>2. c.server_events # {} => /\ c.server_fd \in SocketsOf(c)
                                  /\ Wanted(c, c.server_fd) = c.server_events
      BY <2>5, AsksSomething DEF SocketsOf, Wanted, Coherent
    <3>3. QED
      BY <2>5, <3>1, <3>2, AsksSomething
  <2>7. mine # {} /\ \A e \in mine : fds[e].events = Wanted(c, fds[e].fd)
    BY <2>3, <2>4, <2>6 DEF Describes
  <2>8. \A e \in mine : fds[e].fd \in SocketsOf(c) /\ Wanted(c, fds[e].fd) # {}
    BY <2>3 DEF Describes, Concerns
  <2>9. QED
    BY <2>4, <2>7, <2>8
<1>2. QED
  BY <1>1, InductiveInvariant, PTL

(* The loop ends itself in one case only: a client's write has failed and  *)
(* its server's entry comes next.                                          *)
THEOREM OneCauseOfExit == Spec => []ExitCause
<1>1. IInv => ExitCause
  BY DEF IInv, EntriesCurrent, Orphan, ExitCause
<1>2. QED
  BY <1>1, InductiveInvariant, PTL

=============================================================================
