# A TLA+ verification of pthreads_labs

The repository holds about twenty small C programs of a course on POSIX threads
and sockets. Three of them carry real protocols: a bounded blocking queue
(`src/task25_26`), a single-threaded HTTP proxy that multiplexes its
connections with `poll` (`src/proxy`), and a family of classical
synchronisation exercises (dining philosophers, two threads that print in turn,
a list shared with sorting threads, workers that a signal stops). This
directory models them in TLA+, checks the models with TLC and proves the
central invariants with TLAPS.

Paths below are relative to the repository; `file:n` is a line.

## 1. Inventory

### 1.1 The blocking queue and its program (`src/task25_26`)

*State.* `struct BLOCKING_QUEUE_TYPE`: the array `items` of `capacity` cells,
`count`, `put_index`, `take_index`, the flags `is_dropped` and `is_destroyed`,
a mutex and two conditions, `not_full` and `not_empty`.
*Operations.* `bq_init`, `bq_put`, `bq_take` (wait in a loop, move one message,
signal one thread on the other condition), `bq_drop` (broadcast on both
conditions, free the cells), `bq_destroy`.
*Users.* `task.c` starts five producers and five consumers, which make five
calls each and call the queue through `mymsgput` and `mymsgget`; these pass the
library's result to the macro `CEM`, which exits the process on any non-zero
value.
*Hard.* Signals that wake one thread only, threads that overtake a woken one,
spurious wakeups, a drop while callers are blocked, woken or inside a call.
*Correct if* messages come out once each and in order, no message or free cell
is left with everybody asleep, the indexes stay in the ring, everybody
finishes.

### 1.2 The proxy (`src/proxy`)

*Main loop* (`proxy.c`). State: the array `context1` of live connections, the
array `fds` given to `poll`, the descriptors in use. Each round polls, accepts
at most one client, calls `handle` for every ready entry, removes the contexts
that have ended, and rebuilds `fds` from the contexts' wanted events. It
asserts that every polled descriptor still belongs to a context (`proxy.c:88`).
*Connection handler* (`connection_handler.c`). State: one context (a step of a
ten-step machine, a connection state, two sets of wanted events, two buffers
with parse positions, one counter `sended` that serves both directions, the
chunk counters). `handle` is called with the events of one descriptor and goes
through as many steps as the data allow.
*Header parser* (`http_header_parser.c`). Pure functions on the buffers.
*Vectors and hash map* (`cvector_impl.h`, `hash_map.c`). The buffers are
vectors that double; `read_to_vchar` reserves room for a read and the zero
after it. `cache` puts a copy of every complete response into a map that the
connections share; it is looked up only in builds with `CACHED`, which nothing
defines.
*Socket utilities.* Thin wrappers of system calls.
*Interaction.* The loop and the handler share the context: the handler's
`client_events` and `server_events` become entries of `fds`, and the entry's
`revents` are the handler's input one round later, when the context may have
changed or gone.
*Hard.* Streams cut up arbitrarily; entries that outlive their contexts;
descriptor numbers that are given out again; writes that fail in a function
whose caller goes on; arrays of fixed size. *Correct if* each peer gets a
prefix of the other's stream and in the end all of it, the end of a response is
recognised exactly, descriptors are neither leaked nor confused, no assertion
fails, every live connection stays polled.

### 1.3 Philosophers (`src/task10.c`, `src/task22.c`)

*State.* One mutex per fork; in task22 also a mutex `m` and a condition `c`.
*Operations.* task10 locks fork `l` then fork `r`, the last philosopher's being
swapped. task22 tries both with `m` held, gives the first back and waits if the
second is taken, and broadcasts after it has eaten; forks are unlocked
*without* `m`.
*Hard.* Deadlock; a fork that becomes free between a failed trylock and
`pthread_cond_wait`. *Correct if* neighbours never eat together, somebody can
always go on, no wakeup is lost, somebody eats again and again.

### 1.4 Printing in turn (`src/task12.c`, `src/task12_.c`, `src/task14.c`, `src/task16/task16a.c`)

The same exercise with two monitors, one monitor, two semaphores, and two named
semaphores shared by two processes. *State.* Mutexes, wait sets, flags or a
value, semaphore counters, and for task16a names that survive the processes.
*Hard.* A wait that begins with `pthread_cond_wait` before it looks at its
flag; one condition for three threads with different wishes; semaphores found
as a killed run left them. *Correct if* the messages alternate, the first
player beginning, and the program ends.

### 1.5 The shared sorted list (`src/tasks17_20/task17.c`, `task18.c`)

*State.* A list with a head embedded in it, and a count. In task17 one mutex
guards all of it. In task18 a mutex guards only `status` (`FREE`, `SORTING`,
`UPDATING`) and `sorting_count`, with the condition `cond` for those not let
in; the list itself is touched without that mutex, its nodes under a mutex of
their own.
*Operations.* `main` reads lines, pushes each to the front and prints the list
at an empty one; sorting threads (one in task17, three in task18) sort it over
and over. task18 exchanges two nodes with the mutexes of three neighbours,
which it locks hand over hand.
*Hard.* A status set by several threads and reset by the last of them; nodes
that change places while their mutexes are being taken in the order of the
list; unsigned arithmetic on an empty list; pointers overwritten before use.
*Correct if* main is alone with the list or not at it, nobody waits for a
thread that is not inside, the list keeps every line, the threads never block
one another, and a sort leaves behind what it has looked at in order.

### 1.6 Sum of a series (`src/task9.c`)

*State.* `is_end`, raised by the handler of SIGINT; `mx_iters` under a
spinlock; a barrier; each worker's own sum and loop variable.
*Operations.* A worker adds its terms, looks every `STOP_POINTS` whether to
stop, puts its rounds into the maximum, waits at the barrier and catches up.
*Hard.* A signal at any moment, or twice; workers that stop at different
rounds. *Correct if* every term up to the agreed round is summed once, and an
interrupted program ends.

### 1.7 Pager (`src/http/28.c`)

*State.* `in_buffer` with what was received and how much was written, and the
lines on the screen. *Operations.* A round polls the terminal and the socket,
reads, empties the screen at a key, and writes what is left as far as the
screen has lines (`write_`). *Hard.* Short writes, failed reads, a response as
long as the buffer. *Correct if* the terminal gets the response once, in order,
and a screen at a time.

### 1.8 String comparison

`str_comp`, once in `task17.c` and `task18.c` and once, with another loop, in
`cmp_test/src/my_strcmp.c`. *Correct if* it orders strings as a dictionary.

### 1.9 The rest

`task2.c` to `task5.c`, `task8.c`: threads without shared state. `task20.c`,
`http/30.c`: unfinished, do not compile. `http/demo.c`, `proxy/trash`, `test`:
experiments.

`PROJECT.json` lists every component with its status, and every hazard at its
line with the property that watches it.

## 2. Modules

| Module | Models | State and actions |
| --- | --- | --- |
| `BlockingQueue` | `blockingqueue_*.h` and the calling threads | The struct's fields by name, `pc` per thread. `PutWaits`/`PutStores` and `TakeWaits`/`TakeLoads` are what a put or take does from getting the mutex to `pthread_cond_wait` or to the unlock; `Unlock`, `Drop`, `Destroy`, `Continue` (the caller's loop), `SpuriousWakeup`. |
| `BoundedFifo` | the queue's promise | A sequence and what each receiver took last; promises end with a drop. |
| `ProducerConsumer` | `task.c` | Extends `BlockingQueue` with `exit_status` and the wrappers' check of the result. |
| `HttpParser` | `http_header_parser.c` | Pure operators on sequences of tokens. |
| `ConnectionHandler` | `handle` and every step function | `ctx` is the struct; an action is one call of `handle`, on any non-empty part of the data to come. |
| `ContextSteps`, `ContextLifecycle` | what a call of `handle` does to the fields the loop looks at | A non-deterministic abstraction of `ConnectionHandler`. |
| `ProxyLoop` | `main` of `proxy.c` | `context1`, `fds`, `i`; one action per poll, per entry scanned, per context rebuilt. Uses `ContextSteps` for `handle`. |
| `Forks` | the table, for both programs | Which forks a philosopher takes, and in which order. |
| `DiningTable` | the promise of both | Who is eating. |
| `OrderedForks`, `MonitoredForks` | task10, task22 | One action per call that can wait or that others can notice. |
| `Alternation` | the promise of the four programs | Messages printed. |
| `TwoMonitors`, `OneMonitor`, `TwoSemaphores` | task12, task12_, task14 and task16a | One action per section between calls that can block. |
| `PingPong` | the four programs side by side | Which program runs; the variables of all of them. |
| `ListAccess` | the promise of task18's status | Who is inside the list. |
| `SharedList` | task18 | `at` per thread, `owner` per node; one action per section under the list's mutex, per mutex of a node taken or given back, per pointer written, per node printed. |
| `LockedList` | task17 | The list; a sort is an action per pair compared, the rest is one action each. |
| `StrComp` | both versions of `str_comp` | Pure operators, and the order of a dictionary for reference. |
| `PiSeries` | task9 | How often each worker has added each of its terms; one action per term, per look at the maximum, per arrival at the barrier. |
| `Pager` | `http/28.c` | The loop's variables by name; a round is what precedes `write_`, then one action per `write`. |
| `Vector`, `Containers` | `cvector_impl.h`; `read_to_vchar`, `hash_map.c`, `cache` | A vector is its cells, count and capacity; one action per read and per response cached. |
| `MC*` | instances for TLC | Streams for the handler, lines for the lists; the choice of an exercise. |
| `*Proofs` | theorems | Section 6. |

### How the parts are composed

* `BlockingQueue` implements `BoundedFifo` (refinement mapping: the ring read
  from `take_index`), and `ProducerConsumer` runs the same actions inside the
  real program, where the process can exit.
* The proxy is checked in two halves that meet in `ContextSteps`.
  `ConnectionHandler` is shown to implement `ContextLifecycle`
  (`FollowsLifecycle`): each call changes the step, the events and the
  descriptors only as `ContextSteps` allows, and is made only for a descriptor
  the present step expects. `ProxyLoop` then runs with any number of contexts
  that do whatever `ContextSteps` allows. So what `ProxyLoop` shows holds of
  the loop with the real handler, for every stream (`LifecycleFollowed`).
* `OrderedForks` and `MonitoredForks` implement `DiningTable`; the ping-pong
  programs implement `Alternation`; `SharedList` implements `ListAccess` (the
  threads between their entry and their exit are those inside).
* `MCExercises` holds the ping-pong programs, `SharedList`, `LockedList`,
  `PiSeries`, `Pager` and `Containers` side by side, for one run: they do not
  interact, the first state chooses one of them and the others stay as they
  begin.

### Grain of the steps

A step never spans a point at which another thread could tell the difference:
code under a mutex is one step up to the wait or the unlock, because every
other access to the same data takes the same mutex. Where the code touches
shared state *outside* the mutex the steps are split: the forks of task22 are
unlocked one by one without `m`, and a trylock can fail between two of these
steps; the list of task18 is changed outside its mutex, so that each pointer
written there is a step. In task17 everything happens under one mutex, and only
the sort, which need not end, is cut into steps. The proxy has one thread; its
steps are the iterations of its loops, between which the kernel and the peers
act.

## 3. Abstractions

* *Messages* of the queue are the thread that sent them. After a drop the cells
  are freed memory: a later take may read anything (`Loadable`).
* *Streams* are sequences of tokens: the separators the parser looks for are
  tokens, everything else is opaque. `strtol` maps number tokens to their value
  and all else to 0. Uri, version and status code are not kept.
* *Reads and writes* move any non-empty part of what there is. Allocation,
  thread creation and initialisation of mutexes succeed; in particular the fork
  mutexes are initialised before anybody locks them, which in the code is left
  to a sleep (`task10.c:59`, listed as a hazard).
* *Time* is not modelled: sleeps, receive timeouts and printing take no steps.
* *Descriptors* are numbers and a new one is the lowest that is free, as POSIX
  says; this is what makes re-use within one scan possible.
* `CACHED` and `KEEP_ALIVE` are not defined, as in the sources.
* *Lines* of the lists are strings without their newline; the constant `Lines`
  has those that are inserted, the empty one asks for printing. SIGINT and the
  end of the input, which end tasks 17 and 18 at once, are left out; `main` of
  task18 may stop reading at any moment anyway.
* *The pager* tells newlines from all other characters. A connect, poll, read
  of the terminal or write that fails ends it, and is left out; a read of the
  socket that fails is not noticed by the code and is modelled.
* *The terms of task9* are counted, not added up.
* *A vector's* growth never fails, and `Garbage` stands for what a fresh cell
  holds. All requests have the hash 1 (`proxy.c:26`), so the map is one bucket.
* *Counters that would be unbounded* have a bound named in the constants:
  `Loops`, `MaxSpurious`, `MaxConnections`, `MaxKills`, `MaxLines`,
  `MaxRounds`, `MaxBytes`. The 2000000000 rounds of the philosophers are an
  endless loop. Where the code subtracts from an unsigned number that may be
  too small (`count - 1` in task18, the sizes given to `write_`), it wraps at
  `SizeRange`; no other counter comes near the width of its type.

## 4. Runs

| Run | Module, bounds | Shows |
| --- | --- | --- |
| `queue` | `BlockingQueue`: 2 producers, 2 consumers, a dropper, capacity 2, 2 calls each, 2 spurious wakeups; 254 000 states | `NoLostWakeup`, `RefinesFifo`, `AllFinish` |
| `queue_dropped` | the same, smaller | `DroppedQueueRefuses` is **violated** |
| `task` | `ProducerConsumer`: 2 and 2; 351 states | `AtMostOneCallEach`, `AlwaysExits` |
| `task_exit` | the same | `NoErrorExit` is **violated** |
| `loop` | `ProxyLoop`: 2 connections at a time, 3 in all, 3 slots; 41 000 states | `DescriptorsOwned`, `InBounds`, `EventsReachTheirConnection`, `EveryConnectionPolled`, `ExitCause` |
| `loop_exit` | one connection | `EntryHasContext` is **violated** |
| `handler` | `MCConnectionHandler`: 8 cooperative and 48 hostile pairs of streams; 6 700 states | `Forwarding`, `EndRecognised`, `HandledMeansDelivered`, `DestroyedTwice`, `FollowsLifecycle`, `EveryRequestAnswered` |
| `handler_destroy` | the same | `DestroyedOnce` is **violated** |
| `exercises` | `MCExercises`: the four ping-pong programs, 10 rounds, 3 kills; task18 with its 3 sorting threads, task17, 3 lines; task9 with 3 workers; the pager with a buffer of 5 and a screen of 2 lines; buffers of up to 9 bytes, 3 keys; 181 000 states | see below |
| `task17_sort` | `MCLockedList`, 3 lines | `KeepsLines` is **violated** |
| `forks_ordered` | `OrderedForks`: the real 5; 261 states | `NoDeadlock`, `RefinesTable`, `SomebodyEats` |
| `forks_monitor` | `MonitoredForks`: the real 5; 17 000 states | `NoLostWakeup`, `RefinesTable`, `SomebodyEats` |

The properties of `exercises`, by program:

| Program | Properties |
| --- | --- |
| task12, task12_, task14, task16a | `RefinesAlternation` (in turn), `AllFinish`, `SignalUnderWay`, `StuckCause` (what blocks them), `OneToken`, `OrderAsFound` (after a kill) |
| task18 | `RefinesAccess` (main alone, or any number of sorting threads), `NoLostWakeup` (who waits, waits for somebody inside), `ListIntact` (no line lost, doubled or printed twice, no cycle), `CrashCause` (a null pointer is followed on the empty list only), `AllGoOn` (sorts never block one another) |
| task17, task18 | `SortsLeave`: a sort of task18 leaves the first two lines in order; a sort of task17 that ends has exchanged nothing |
| task9 | `TermsSummed` (which terms are missing and which count twice), `AllGoOn` (once interrupted it ends, unless a second SIGINT aborts it) |
| `http/28.c` | `PagedFaithfully`: while no write is short and no read fails, all of the response, once, in order, a screen at a time |
| proxy | `StoredAsGiven`: buffers and map give back what was put, and never write outside what they have allocated |

`my_strcmp.c` is compared with the order of a dictionary on all strings of up
to three bytes of two values by an assumption of `MCExercises`, which TLC
evaluates; the other version is seen in what the sorts leave behind.

Why the bounds are enough:

* `queue`: two threads of each kind are what it takes for one to overtake a
  woken one, two calls each make the ring of two cells wrap, and the two
  spurious wakeups can hit both kinds. The invariants are also proved for all
  values.
* `loop`: two connections at a time give neighbours in `context1` to move up on
  a removal and a descriptor to be re-used within one scan; the third
  connection lets a removed slot be filled again. A connection lasts as long as
  the lifecycle lets it, so the depth is not bounded.
* `handler`: each stream is there for a branch of the parser or of a step (no
  Host, not a GET, malformed, split, too short, too long, no length, length 0,
  chunks whose data look like a line end); a read can end anywhere.
* `exercises`, ping-pong, and `forks_*`: the code's own constants, but for the
  ten million rounds of task16a, whose rounds are all alike. Three kills are
  one more than it takes to make two tokens.
* `exercises`, lists: three nodes are all that a pass of task18 locks beside
  the head, so that two threads wait at different places of the list while a
  third exchanges; three are also what it takes for the exchange of task17 to
  make a cycle. One line is the beginning of the other. `SizeRange` is far
  above the count.
* `exercises`, task9: the workers can be two stop points apart. The pager's
  response is longer than a screen and can fill the buffer. The buffers grow
  through four capacities and the bucket through two.

`CHECK_DEADLOCK FALSE` stands where a model really stops: when the process has
exited (`task`, `task_exit`), when an exercise has ended and in the blocked
states that `StuckCause` describes (`exercises`, `task17_sort`). In
`queue_dropped` a single violation is wanted and the drop can leave the uneven
numbers of puts and takes waiting.

### Fairness

Each thread that can run continuously does run (weak fairness per thread): that
is what a preemptive scheduler gives. A mutex is *not* assumed fair, nor the
choice of the waiter that a signal wakes, and nothing forces a spurious wakeup
or a kill. Hence only `SomebodyEats` for the philosophers: a single one can
starve. In task18 nobody has to type, and three sorting threads that take turns
may keep `main` out for ever (`task18.c:107`); `AllGoOn` says that some thread
sorts again and again. In task9 nobody has to send SIGINT: `AllGoOn` speaks of
what follows one. There are two further assumptions:

* In `OneMonitor` no waiter that could be chosen by a signal again and again is
  passed over for ever (`SF` on `Signals`). Without it the property fails: two
  threads with the wrong value can pass the third one's signal to each other
  for ever. The C library wakes threads that wait already before those that
  come later.
* In `ConnectionHandler` a ready socket is served in the end, and cooperative
  peers go on sending and receiving (`poll` is level-triggered and the loop
  scans every entry). What is *not* assumed is that a client stirs after its
  request: see below.

## 5. Findings

Each is a run that TLC ends with a counterexample, and an entry of
`PROJECT.json` that quotes the code.

1. *A dropped queue still serves calls* (`queue_dropped`). `bq_drop` frees
   `items` and broadcasts but never sets `is_dropped`, so that the four checks
   of that flag never refuse anybody and a woken or later call uses freed
   cells.
2. *The producer/consumer program exits at its first success* (`task_exit`).
   `put` and `take` return 1 for success, `CEM` takes any non-zero value for a
   failure. `task` shows what happens instead: the process always exits before
   any second call.
3. *One client can end the proxy* (`loop_exit`). If its connection is destroyed
   by the client's entry of a scan, the server's entry of the same scan finds
   no context and the assertion fails. `ExitCause` (in `loop`) shows that this
   is the only way an assertion of the loop or at the head of a step can fail.
4. *A context destroyed twice* (`handler_destroy`). A failed first write in
   `send_resp_step` destroys the context in the function it calls; back in
   `send_resp_step` the freed buffer is as empty as what was sent, and the
   context is destroyed again and reported as HANDLED. `DestroyedTwice` shows
   that this is the only way.

5. *The exchange of task17 breaks the list* (`task17_sort`). `task17.c:90`
   overwrites the pointer to the first node of a pair before line 91 reaches
   the second node through it; what is assigned is the `next` of the third.
   With two nodes a null pointer is followed, with more the list becomes a
   cycle and the sort never unlocks the mutex. The commented lines 93-95
   exchange the strings instead, which would be right. `SortsLeave` shows the
   other side: a sort that ends has exchanged nothing.

Behaviour worth knowing, of which no text promises the contrary:

* task12 blocks for ever if a wakeup is spurious during main's handshake: the
  player takes the flag it has raised for main (`FlagStolen`); it can even
  print before its turn. Nothing else blocks it (`StuckCause`).
* task16a, killed while a player holds the token, finds both semaphores at 0
  and blocks at its next start; killed once it never has two tokens, killed
  twice it can (`OneToken` says when).
* When `connect` succeeds at once, the proxy waits for the client to send
  something more before it forwards the request (`ClientStirs`, not fair).
  `EveryRequestAnswered` is therefore about connects that go on in the
  background.
* task18 sorts the first two lines only: `do ... while(is_end)` goes on exactly
  when there is nothing to go on to. On the empty list, with which it starts,
  `count - 1` wraps and the first pass follows a null pointer (`CrashCause`),
  unless main has pushed a line before.
* A worker of task9 that catches up adds the term at which it has stopped a
  second time and misses the last one (`TermsSummed`); a second SIGINT ends the
  program at the assertion of line 69.
* After a short write, or a failed read, the pager can write bytes it has never
  received (`http/28.c:56`). A response longer than the buffer is cut off: a
  read into no room returns 0, like the end of the stream.
* `VECTOR_remove`, which nothing calls, copies the cell after the last, which
  is outside the allocation when the vector is full.
* A response longer than its Content-Length that arrives in one piece is never
  HANDLED.

## 6. Proofs

`tlapm` checks every theorem, each for every value of the constants. What the
constants are assumed to be is stated where they are declared:

* `QueueAssumption`: a positive capacity and number of calls, finite and
  disjoint sets of threads, at most one dropper. `LoopsAssumption`: something
  is printed.
* `LoopAssumption`: fewer connections are open at a time than `context1` has
  slots. The code does not see to it (`proxy.c:82`, listed as a hazard); what
  the theorems say of the loop they say of the proxy below its limit.
* `PeersAssumption`: streams are sequences of tokens. Nothing is assumed of
  what they hold, so the theorems include malformed and endless headers, any
  framing and any way of cutting it up. `CooperativeAssumption` says of a
  server that cooperates that it sends exactly what the head of its response
  announces (`EndOfResponse`); only `EndFound`, which is about such servers,
  makes use of it.
* `ForksAssumption`: at least two philosophers. `ListAssumption`: lines are
  non-empty strings without a zero byte (an empty line is never inserted), and
  the count does not wrap. `SeriesAssumption`: a worker at least, and a
  positive distance between stop points. `PagerAssumption`: a screen of a line
  at least, and sizes that fit into a `size_t`. `ContainersAssumption`: reads
  of a byte at least, and `NULL` is neither a response nor a vector.

The bounds that keep TLC's state spaces finite (`MaxSpurious`, `MaxKills`,
`MaxConnections`, `MaxLines`, `MaxRounds`) are any natural number in the
proofs. An invariant that is used in a proof has been checked with TLC first.

**`BlockingQueueProofs`**: `TypeCorrect`, `NoWakeupIsLost`, `QueueIsFifo`, for
any number of threads, any capacity, any number of calls and spurious wakeups,
with a drop at any moment. The inductive invariant is `IInv == TypeOK /\
HolderInv /\ WaiterInv /\ RingInv /\ NoLostWakeup`:

* `NoLostWakeup` alone is not inductive. A signal takes a thread out of a wait
  set, and that it thereby becomes *woken* needs `WaiterInv` (whoever is in a
  wait set is at `wait`); that the wait sets hold the right threads is in
  `TypeOK`.
* Each put adds one message and wakes one consumer, if one is blocked; each
  take uses one message and at most one woken consumer; a woken consumer goes
  back to sleep only when `count = 0`, where nothing is owed. The lemmas on
  cardinalities count this.
* `RingInv` (`put_index` is `count` cells after `take_index`) is what makes the
  refinement hold: `PutAppends` and `TakeRemovesHead` say what the two stores
  do to the ring read from `take_index`, and `StepRefinesFifo` maps every step.

The module also holds the program of task25. `ProgramCallsLibrary`: each of its
steps is one of the library or changes nothing the library has, so that all of
the above holds in the program. `NoSecondCall` (`AtMostOneCallEach`): since the
first call that returns exits the process, `CallsInv` keeps that nobody has
returned yet, that whoever has stored or loaded is about to return 1, and that
there are at most as many messages as producers that have stored one.

**`OrderedForksProofs`**: `NeverDeadlocked`, `TableRefined` for any number of
philosophers. Ownership (`IInv`: a fork's owner is the philosopher whose
progress says so) is inductive: `LockingKeepsOwners` and `UnlockingKeepsOwners`
treat the two kinds of call, `EveryCallKeepsOwners` every step. The absence of
deadlock follows from it: if a fork is held, take the greatest one; its owner
either holds both or waits for a greater one, which is free (`GreatestFork`,
from the well-foundedness of the naturals). For the table, the second lock of a
round is the step that begins a dinner (`SecondLockBegins`), the first unlock
the one that ends it (`FirstUnlockEnds`), and the other two calls change no
dinner.

**`MonitoredForksProofs`**: `NoWakeupLost`, `NeverDeadlocked`, `TableRefined`.
Here `NoLostWakeup` rests on `Ownership` and on who is inside the monitor: a
trylock that fails finds the fork with a diner (`TakenByDiner`), since whoever
else holds a fork briefly does so inside `m`; and a diner broadcasts, with `m`,
only after it has unlocked both, so not before the one that failed is in
`waiting`. Deadlock freedom follows: whoever waits has a neighbour that can go
on, or that waits for `m` only, whose holder can.

**`ProxyLoopProofs`**: `DescriptorsNeverLeak`, `AlwaysInBounds`,
`EventsNeverMisdirected`, `NobodyForgotten`, `OneCauseOfExit`. `IInv` joins

* what `ContextSteps` keeps true of each context (`AllCoherent`: the events
  follow from the step and the state of the connect);
* the ownership of descriptors: no two contexts share a number or a descriptor
  (`Numbered`, `Apart`), and the open ones are exactly theirs (`OpenOwned`);
* what the entries of `fds` are: at most two per context, next to one another
  and the client's first (`Adjacent`); complete when they go into `poll`
  (`Built`); and, during a scan, of a context that still has the descriptor,
  with one exception (`EntriesCurrent`).

The last part is the heart of it. A context that ends is removed in the middle
of a scan, its descriptors are closed, and a connect later in the scan may be
given the same numbers. The entry for the other descriptor of the removed
context is at most the next one, and it is scanned before any connect can
happen; so an event never reaches a stranger, and the only entry left without
a context is the one behind a client whose write has just failed
(`Orphan`), which is the way the assertion of `proxy.c:88` fails.

**`ConnectionHandlerProofs`**: `TypeCorrect`, `ForwardedInOrder`,
`DestructionsCounted`, `HandledWasSent`, `LifecycleFollowed`, `EndFound` and
`HandledIsComplete`, for all streams.

* *The parser.* The loop over the headers and the one over the chunks are
  recursive functions on positions. That the function a `LET` names satisfies
  its equation is not given: it has to be shown to exist. `HeadersExist` and
  `ScansExist` build it from the end of the buffer backwards (if it did not
  exist on all positions, there would be a least distance from the end at which
  it does not). What it returns follows in the same way: `HeadReads` (the
  position does not go back, and the end of the head lies behind two line
  ends) and `ScanStaysInside` (the position stays in the buffer, whatever
  sizes the chunks claim, `strtol` failing or not). Each turn of the chunk loop
  must bring it nearer to its end (`TurnsLeft`): a size line moves it on, and
  so does the line end behind the data, also when the data are empty.
* *The invariant.* A live context is in one of five parts of its life
  (`Connecting`, `Requesting`, `Awaiting`, `Receiving`, `Answering`), each with
  the events it polls, the state of its connection and the range of `sended`;
  `Buffers` says that the buffers are beginnings of the streams with the
  positions inside, and that the head of the request has come once it is acted
  upon. `Written` says what `sended` counts: it is the length of what the
  server has been sent while `Requesting`, and of what the client has been
  sent from `Receiving` on, which is where setting it back in two places could
  go wrong. `Gone` says how often an ended context has been destroyed.
* *Reading in parts.* `EndFound` (`EndRecognised`) and `HandledIsComplete`
  (`HandledMeansDelivered`) compare what is recognised in parts with the end
  that the same bytes have in one piece (`EndOfResponse`, whose chunks are
  counted by a recursion of its own, `EndOfChunks`). What the parser finds in
  the beginning of a stream it finds at the same place in the whole
  (`FoundAgain`, `CodeAgain`), and each of its two loops, stopped for want of
  data, goes on where one run over everything would have been
  (`HeadersResumed`, `ChunksResumed`). So `EndInv` can say by the step alone
  where the code is in the whole response (`Placed`), and that it has gone as
  far as the data allow (`AwaitsCode`, `AwaitsHeader`, `AwaitsBody`): what
  makes a complete response impossible to overlook. A response that is given
  to `cache()` is complete in this sense between faulty peers as well.
* *The lifecycle.* `LifecycleFollowed` maps each action to a step of
  `ContextLifecycle`. With it the two halves of the proxy meet in theorems:
  `ProxyLoopProofs` needs of a call of `handle` only what `ContextSteps`
  allows, and the real handler does nothing else.

Two definitions of the model had to be corrected for these proofs: alternatives
of a `CASE` whose guards overlap mean an unspecified one of them. The choices
that the code makes by the order of its tests are now `IF`s in that order.

**`PingPongProofs`**: `ValueArrives`, `NeverTwoTokens`, `FoundOrder`,
`StopsOnlySo` and `ImplementsAlternation`, for any number of messages and of
killed runs. In the programs with semaphores there is one token: `Turn` says
where it is and, with it, who is ahead in printing, `SemTokens` what a run that
is killed now leaves to the next. In task12 the same is played with two flags;
what makes it work is which thread holds which mutex at each step of the
handshake (`TwoMet`), from which follows who can be waiting for what.

`StopsOnlySo` (`StuckCause`) looks at a state in which each thread waits. With
semaphores the messages printed account for the posts (`SemFlow`: a semaphore
is what it was found at, and what the other player has posted, less what this
one has taken), so that both can be at 0 only if they were found so. In task12
nobody sleeps on a condition whose flag is raised (`TwoWaits`), so that only
`main` and a player can be waiting for each other's mutexes, the player having
taken the flag meant for `main`. That a thread waits is said by what its step
needs (`Blocked`), not by `ENABLED`.

**`SharedListProofs`**: `NoWakeupLost`, `AccessRefined`, `OnlyEmptyCrashes`,
`NoLineLost`, `FirstTwoLeftInOrder` and `ComparedAsInDictionary`, for any
number of sorting threads and lines.

* *Access.* The inductive invariant joins `NoLostWakeup` to `StatusInv`:
  `sorting_count` is the number of threads that are inside, the status is
  `UPDATING` exactly while main is inside and `SORTING` exactly while a sorting
  thread is. Without it the two properties are not inductive: that main may
  enter at `FREE`, and that a thread turned away has somebody to wait for, is
  what the status stands for. All steps but the entries, exits and waits are
  quiet (`QuietStep`): they let nobody in or out. Nobody is left asleep at an
  exit, since both exits broadcast.
* *The list.* A thread walks only while it holds the head (`HeadHeld`), so that
  at most one is exchanging nodes. `DataInv` says that there is an order of
  all the nodes, each once, such that the pointers follow it (`Shape`), or
  follow it except as the three writes of an exchange, done in part, explain.
  From it come `ListIntact` and `CrashCause`: a null pointer is followed only
  in a list of no lines.
* *The order.* `OrderInv`: once a thread has finished a pass, the first two
  lines are in order, and the others, which wait for the head, cannot change
  that before it leaves.
* *The comparison.* Both versions of `str_comp` agree with dictionary order on
  strings of any length: where the loop stops is the first position at which
  the strings differ or one has ended.

**`ExercisesProofs`** has the theorems of the components that have no module of
proofs of their own: `SummedAsClaimed`, `ShownPageByPage`, `GivenBack` and
`LeftAsClaimed`. The last three are about the specification of `MCExercises`,
where a step is one of the program that was chosen, or leaves that program's
variables alone.

* *task9* (`TermsSummed`), for any number of workers, any distance of the stop
  points and any moment of the signal. `WorkerInv` says which terms a worker
  has added, by where it is: each up to its own count or, behind the barrier,
  also the one at which it stopped a second time (`StoppedAt`). `TogetherInv`
  says that nobody is past the barrier before all have come to it and that the
  greatest number of rounds is then somebody's own.
* *The pager* (`PagedFaithfully`), for any buffer and screen. `count_of_lines`
  adds up over parts (`EndsJoined`), and grows by at most one with each byte;
  so what `find_` returns never holds more lines than asked for, though it
  looks for exactly so many (`FoundBytes`). `PagesInv` has two halves:
  `PagesTyped`, which holds whatever fails, and `PagesInStep`, which holds as
  long as nothing has failed. Its heart is that a `write_` then writes once:
  its first turn is its last, so that looking for the lines from the start of
  the buffer again, which the code does in each turn, does no harm.
* *Buffers and map* (`StoredAsGiven`), for any reads, requests and responses.
  That the capacities a vector doubles through exist, and grow, is a lemma
  (`CapacitiesExist`, `CapacitiesGrow`), since `Alloc2` chooses the function
  that lists them. From it follows that the room asked for is there
  (`EnoughRoom`), for the zero behind the bytes too. `Holds` says that the
  bucket has one pair for each key with a response: the first that is found is
  the only one.
* *task17 and task18* (`SortsLeave`). A sort of task17 sees the list straight,
  as `main` has pushed it, up to its first exchange, and steps over pairs that
  are in order (`OddInOrder`). That exchange either follows a null pointer or
  leaves a `Ring`: the node the sort is at leads over two others back to
  itself, and every later pair is one of the three that this ring has. A ring
  has no end at which a round could be over. Hence a sort that ends has
  exchanged nothing, and has seen all the pairs it compares in order. For
  task18 it is what `SharedListProofs` proves (`ListLeaves`).

## 7. What is only model-checked

Every invariant, action property and refinement that a passing run checks has a
theorem. Left to TLC are:

* Liveness (`AllFinish`, `SomebodyEats`, `EveryRequestAnswered`, `AlwaysExits`,
  `AllGoOn`), which is outside the prover's reach.
* The properties that are violated (section 5): a counterexample is one.

Not modelled at all are the programs of section 1.9 and the socket utilities:
they share nothing between threads, do not compile, or are system calls whose
outcomes are choices in the models. The lookup in the response cache is not
modelled in the handler: it is compiled only with `CACHED`.

## 8. Keeping it true

A change of the code means a change of the definition that `PROJECT.json` maps
to its lines, then a run of TLC on the module's configuration, then `tlapm` on
its proofs: an invariant that no longer holds shows in the run first. Where
the findings of section 5 are corrected in the code, the runs that expect a
violation become passing ones, and the theorems whose statements make an
exception for them (`DestroyedTwice`, `ExitCause`, `CrashCause`, `SortsLeave`,
`TermsSummed`, `StuckCause`) can be stated without it.
