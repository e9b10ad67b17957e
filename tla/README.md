# A TLA+ model of pub-sub-crawl

The modules here model the C process under `src/c`: a simulated radio whose
producer thread feeds a bounded queue, whose worker pool publishes what comes
off it to topics, and whose transport thread serves the topics to a client over
a Unix socket. TLC checks the models on small instances. TLAPS proves their
safety properties for every value of the constants. `PROJECT.json` records which
source lines each definition stands for, every run, and a mutant of the code for
every property.

## 1. The system

| part | source | what it does | module |
|---|---|---|---|
| msg_queue | `msg_queue.c` | ring buffer, mutex, two condition variables; blocking and try_ calls, clear, shutdown | `MsgQueue`, abstractly `BoundedQueue` |
| pubsub | `pubsub.c` | topic registry; publish clones a message into every subscriber's queue | `Registry`, `PubSub`, abstractly `Broadcast` |
| worker_pool | `worker_pool.c` | threads that take raw items off the ingest queue, number them and publish them | `Pipeline`; numbering and publishing in `PubSub` |
| main | `main.c` | startup, producer, consumer, SIGINT, teardown | `Pipeline`; the producer's sleep in `Sampling` |
| transport | `transport.c` | listening socket; accept loop; one client at a time: handshake, subscribe, serve, clean up | `Transport`; its subscriptions in `PubSub` |
| handshake | `handshake.c` | version negotiation | `Transport` |
| command | `command.c` | a second thread per connection that reads commands | `Transport`; SET_INTERVAL in `Sampling`, TRIGGER_ALERT in `Pipeline` |
| radio_control | `radio_control.c` | the producer's interval, set by SET_INTERVAL | `Sampling` |
| shutdown | `shutdown.c` | the flag every thread polls | `Transport`, `Pipeline`, `Sampling` |
| log, radio_msg | `log.c`, `radio_msg.h` | output, payload layouts | not modelled |

Items flow producer (or command listener) -> ingest queue -> worker ->
`pubsub_publish` -> one queue per subscriber -> consumer or `serve_client`. SIGINT
is taken by `sigwait` in main, which sets the flag, shuts down three queues, and
joins and destroys everything in a fixed order.

The code's shared state is all under mutexes except two flags, `peer_alive` and
the shutdown flag. Both are `volatile sig_atomic_t`, which C does not call
atomic between threads. The build reads and writes them in one instruction, and
the models do the same.

## 2. The modules

**BoundedQueue** is what `msg_queue.h` promises: a FIFO with a capacity, on which
each call takes effect in one step. Blocking calls return false only when the
queue is closed and, for dequeue, empty.

**MsgQueue** is the implementation. An action is one critical section: from
`pthread_mutex_lock`, or the return of `pthread_cond_wait`, to the next wait or
unlock. `pc` says whether a thread is calling, asleep on a condition variable, or
woken and about to test again. Between the signal and the moment the woken thread
has the mutex others may barge in, and threads may wake up unsignalled.
`items`, `head`, `tail`, `size`, `shutting_down` are the fields of the struct.

**Registry** has the registry of `pubsub.c` as a sequence of entries and the
functions that look up, create, subscribe and unsubscribe (which moves the last
subscriber into the hole) as operators. `Cut` is what the fixed-size name field
does to a name.

**Broadcast** is what `pubsub.h` promises, without registry, array or loop: each
name has a set of listening queues, and a message is offered once to each queue
that listens when its publish begins. Nobody joins or leaves meanwhile. A full queue
misses what it is offered. One with room may miss it too, at any time: malloc may
fail on any clone, and the abstract state does not say whether it did.

**PubSub** has publishers (the workers) and sessions. A worker draws the sequence
number of its message under `seq_mutex` first and takes `ctx->mutex` later, so
numbers may be published out of order. `next_seq` is a `uint32_t` and comes round
(`Modulus`), so a number does not name a message for ever: a message is its place in
the order of the draws, and the history variable `seq` records the number each
one drew. A publish holds
`ctx->mutex` and offers the message to one subscriber per step, so that queue
owners run in between. Subscribe and unsubscribe are one step each, when the mutex
is free. A session follows `transport_routine` from creating its queues to
destroying them, through every failure of create and subscribe. A second session
stands for main's consumer, which makes the same calls. `heap` and `hand` follow
every clone of a payload from its malloc to its free. `msg_queue_destroy` frees no
payload: what is in a destroyed queue is leaked, and leaves `heap` there. A queue
here is a `BoundedQueue` of which only the try_ calls are used.

**Pipeline** has one action per step of the producer, the workers and the consumer,
and main as a script: every start, shutdown, join, unsubscribe and destroy in
order. Every startup step may fail. Queues are again those of `BoundedQueue`: a
blocked call is an action that is not enabled. The transport is a thread that may
trigger alerts until it ends.

**Sampling** has the producer's loop with `producer_sleep` in slices, the interval of
`radio_control`, and SET_INTERVAL with its cast to `uint32_t`. Time is counted in
milliseconds and passes only in `nanosleep()`. Main blocks SIGINT in every thread
and takes it with `sigwait`, so a slice is not interrupted. `elapsed`, `waited` and
`late` are clocks that the properties read and the code does not.

**Transport** has the server from `transport_create` to `transport_destroy`
(`server`, the descriptor `fd`, and `file` at the socket's path), with every failure
and its cleanup. The process may be killed at any moment and started again
(`Restart`), which leaves a stale socket file behind. Then come the two threads of
a connection, the flag they share, and a client that may connect, send, read,
close its sending half and close at any time (not: shut down its reading half alone).
One process uses the path at a time, and `unlink()` does not fail. The socket is a buffer of bytes one way and a
number of unread lines the other. What a complete line says is chosen when its
newline is read: for a command nothing depends on it here, for HELLO it is a
sequence of tokens that `ParseClientVersions` goes through as the code's loop does,
with its array `out` and the cast from long to int.

`MsgQueueProofs`, `MsgQueueRefinement`, `RegistryProofs`, `PubSubProofs`,
`PubSubFlowProofs`, `PipelineProofs`, `SamplingProofs` and `TransportProofs` hold the
proofs. The `MC` modules and the `.cfg` files are the instances for TLC. An operator
whose comment begins with "Mutant" is not part of a specification: it is the
form that the definition after it would take if the code had the bug it names.

## 3. What is checked

| run | instance | properties |
|---|---|---|
| queue_contract | 3 fair threads, 2 items, ring of 2 | `TypeOK`, `RingConsistent`, `NoLostWakeup`, `NobodySleepsAfterShutdown`, `ImplementsBoundedQueue` (refinement), `ShutdownReleasesCallers`, `SleepersAreServed` |
| fan_out | 2 fair publishers, 2 sessions that need not read, 2 messages, numbers modulo 2, queues of 1, registry of 2 topics, an over-long name | `TypeOK`, `NoDanglingSubscriber`, `RegistryExact`, `PayloadsAccounted`, `EveryoneOffered`, `ImplementsBroadcast` (refinement), `PublishReturns` |
| fan_out_order | the same with 3 messages, numbers modulo 2, queues of 3, no over-long name | `SameOrder`, `DisorderBounded` |
| teardown | 2 workers, ingest queue of 2, consumer queues of 1, alert every 2nd tick, 1 client alert, every thread but the transport fair | `TypeOK`, `NoUseAfterDestroy`, `AtMostOneTickLeft`, `NobodyWaitsInVain`, `ShutdownReachesTransport`, `BackPressureIsReleased`, `TeardownAdvances` |
| sampling | slices of 3 ms, default interval 5, integers modulo 8, arguments from -1 to 12 | `TypeOK`, `StopIsNoticed`, `TickOnTime`, `LastIntervalIsUsed` |
| connection | server versions 1, 2, lists with wrapped numbers, gaps and too many versions, lines of 2 bytes, buffers of 2, threads and main fair | `TypeOK`, `ListenerInsideConnection`, `SocketFollowsServer`, `ParserAgrees`, `AnswerMatchesConnection`, `SiblingIsTold`, `HangUpFreesTransport`, `QuietClientLetsGo`, `HangUpAdvances` |

Each property's comment says what it means and which lines it is about. In short:
the queue is a bounded FIFO and strands nobody. The registry never points to a
destroyed queue, whatever fails, and publishing is the broadcast of the header.
Each payload clone has one owner. Subscribers see messages in one order, and that
order is off the order of the draws by no more than the workers in flight; sequence
numbers show the order of the draws until they come round. Teardown
destroys nothing that is in use, joins nobody who is blocked, runs out of steps,
and gets as far as the transport. A connection whose client is gone runs out of
steps too. The producer sleeps its interval from tick to tick (its own work and a
blocked enqueue come on top) and notices shutdown within a slice. Socket file and
descriptor follow the server through failures, kills and restarts. A
listener stays inside its connection. Client and server agree on the handshake.

**Bounds.** A ring of two slots wraps with head and tail apart and together. Three
threads give a sleeper, a woken one and one that barges in between. Two publishers
and two sessions are what it takes for one to disturb the other's fan-out, and one
slot per queue makes full queues common. Three messages in queues of three are the
least that could break `DisorderBounded` with two workers, and with a `Modulus` of 2
they draw 1, 0, 1: the counter comes round and a number comes back. A registry of two topics
is filled by the over-long name, which `pubsub_publish` does not refuse, although no
caller in the repository passes one. A full list of subscribers is not reached here: a
session has one queue per topic, and two sessions do not fill two places. The proofs
cover it. Two workers suffice for one to leave while the other works. `MaxMessages`
and `MaxCommands` bound what happens in a behaviour; `StepsLeft` counts the commands
still allowed, so `TeardownAdvances` says that teardown is finite up to what clients
go on sending, for any bound. A `Modulus` of 8 in place of 2^32 lets arguments reach
both 0 and a wrapped value after a cast. `LINE_MAX` is 3 where the code has longer
buffers. The symmetry sets are used for safety runs only, on publishers, sessions
and workers, whose code is the same.

**Fairness.** `MsgQueue`: a thread that wants the mutex gets it, since critical
sections are finite. Nothing is assumed of callers. `PubSub`: a thread inside
`pubsub_publish` keeps running; sessions owe nothing, nor does malloc owe a failure.
`Pipeline`: producer, workers, consumer and main's teardown run when they can;
SIGINT, clients and the transport owe nothing. `Sampling`: the producer runs and
time passes; no command and no shutdown is owed. `Transport`: main gets on with
`transport_create` and `transport_destroy`, both threads run when they can, and
`accept` does not fail for ever (strong fairness). The client owes nothing, nor does
a system call that may fail, nor a kill. What `QuietClientLetsGo` asks of the client
is in its statement.

## 4. Where code and text disagree

Six runs show a statement of the repository violated; each checks one property.

- `producer_stops`: `main.c:64-65` has the producer run "until told to stop". When
  the alert of a fifth tick meets a full ingest queue, line 113 ends it for good.
- `exit_undrained`: `README.md:118-119` says that on SIGINT "queues are drained".
  The consumer takes one alert per telemetry message and leaves with telemetry, so
  alerts may remain. So may items on the ingest queue: a shut-down queue with room
  still accepts, and after `main.c:243` the workers may find it empty and leave
  before a client's last alert, as in the trace TLC prints, or before the last items
  of the producer, which is joined only in line 252. `AtMostOneTickLeft` says what does hold.
- `stale_interval`: `main.c:21-23` says that sleeping in slices lets the producer
  notice a fresh SET_INTERVAL. `producer_sleep` keeps the interval it was called
  with and sleeps it to the end. `LastIntervalIsUsed` says what does hold: the new
  interval is used from the next sleep on.
- `rejected_silently`: `handshake.h:34-36` promises a NACK on any I/O or parse
  failure. A line that is too long or ends without a newline gets none.
- `handshake_blocks_shutdown`: `transport.h:31-34` says `transport_destroy` returns
  after `shutdown_request()`. A client that is silent in the handshake keeps the
  thread in `read()`. The run's clients know no common version, so nothing but
  the handshake can be the cause.
- `busy_listener`: `command.h:32-34` says the listener stops when shutdown is
  requested. It looks at the flag only when `poll()` times out, so a client that
  keeps sending keeps it.

A smaller one, which no run is about: `README.md:27-28` speaks of a thread per
accepted connection, but one thread serves one client at a time.

## 5. What is proved

Every invariant, refinement and action property of the passing runs is a theorem for
every value of the constants.

**The queue**, for every finite set of threads, every set of items and every capacity
(`ThreadsAssumption`, `ItemsAssumption`, `CapacityAssumption`):

- `MsgQueueProofs!TypeCorrect`, inductive as it stands; the work is in the modular
  arithmetic of the indices (lemma `Wrap`).
- `RingCorrect`. `RingConsistent` is inductive together with the types. It is taken
  apart into `RingOK`, about the window of occupied slots, and `Carrying`, about
  the item a blocked enqueuer holds. `Shift` and `Distinct` say that moving the
  head shifts the window and that a push writes outside it.
- `ShutdownWakesAll`: a thread falls asleep only when it has seen the flag unset
  (`FallingAsleep`), and setting the flag wakes all.
- `WakeupsAreNotLost`. `NoLostWakeup` is one statement, `Covered(cond)`, for either
  condition variable: while somebody sleeps, the supply is at most the number of
  threads awake for it. A call changes the supply by one and at the same time
  signals a sleeper or retires an awake thread. `Transfer` and `Count` do this
  with cardinalities.
- `MsgQueueRefinement!MsgQueueRefinesFIFO`: with `Contents` read off the ring from
  `head`, every step is a step of `BoundedQueue` or a stutter (waiting, waking).
  `PushAppends` and `PopTakesHead` carry it; they need `RingConsistent`.

**Publish and subscribe**, for any number of workers, sessions, topics, messages,
every capacity, both limits of the registry and whatever names are cut
(`NamesAssumption`, `LimitsAssumption`, `TopicsAssumption`, `BoundsAssumption`).
`RegistryProofs` states what each registry function does: `SubscribeExact` and
`UnsubscribeExact` say that a call changes the one subscription it is about and
keeps the registry `Exact` (no duplicates, nobody in an entry that lookups skip).
The proofs then stack up:

- `TypeCorrect` and `FanOutIsComplete` from `TInv`: types, `Exact`, and for every
  worker how its loop index, entry and mutex go together (`Fanning`). It is what
  rules out that the array changes under a running loop.
- `RegistryIsExact` and `NothingDangles` from `RInv`, which adds `Registered`: the
  registry lists what the sessions were told, and what a session may still hold at
  each point of its life.
- `PubSubBroadcasts`, from `RInv` and `Locked` (whoever holds the mutex is inside the
  loop): with the queues that the loop has yet to come to as `pending`, every step
  is a step of `Broadcast` or a stutter. `EntryHeard` and `FromNext` carry it.
- `PubSubFlowProofs!ClonesHaveOneOwner` from `FInv`, which adds that a session holds
  payloads of its own queues only, that a queue holds no message twice, and that
  a message in flight has reached only queues it was offered to (`Numbers`). The last
  is why a delivered clone is new.
- `OneOrderForAll` from `OInv`, which adds that the message being published is the
  newest wherever it has arrived (`Newest`).
- `DisorderIsBounded` from `DInv`, for a finite set of workers (`PoolAssumption`). It
  adds `FewOvertaken`: the messages drawn before one on a queue that came after it, or
  are still with a worker (`Overtaken`), are fewer than the workers. When a message
  is put on the queue they are with other workers, and later none is added: a new
  message comes after all in the order of the draws, and one that arrives leaves its
  worker. The counting uses the library's facts on cardinalities, and no induction.
  That the numbers show this order is `Counting`: they rise from draw to draw
  except where they come round to 0. It holds for every `Modulus` above 1 and any
  number of messages, past any number of wraps.

**The process**, for any number of workers, all capacities and any number of alerts
(`PipelineAssumption`): `PipelineProofs!TypeCorrect`; `TeardownIsSafe`, from `Order`,
which says which threads have ended and what is destroyed at each step of main's
script; `LastTickOnly`, from `Drain`, which says that after the ingest queue is shut
down and the workers are gone only the tick the producer was in can still arrive.

- `WaitsAreServed` from `Drain` and `Shutting`, which says that the queues are shut
  down before the joins and that every thread that is waited for was started.
- `StepsRunOut`, for finitely many workers (`PoolAssumption`): after SIGINT each step
  lowers `StepsLeft`. What is left is the rest of main's script, of the producer's
  pass and of the consumer's turn, the workers, the items queued and the alerts
  clients may still send. One lemma per thread compares what it does away with to
  what it makes. It needs `Shutting`, by which the flag is up only in main's
  teardown.

**The producer's clock**, for every slice, interval width and set of arguments
(`SamplingAssumption`): `SamplingProofs!TypeCorrect` (the interval is never 0),
`StopNoticedInOneSlice` and `SlicesAddUp`, from `SleepInv`, which says how the clocks
and the variables of `producer_sleep` go together.

**The transport**, for every list of versions, HELLO line, line length, buffer size
and modulus (`TransportAssumption`, which asks that every nonempty subset of the
server's versions has a highest member, as a finite list does):

- `SocketCorrect` from `SInv`, which adds where the thread may be while main creates
  and destroys.
- `TransportProofs!TypeCorrect` and `ListenerStaysInside`, from
  `IInv == TypeOK /\ ListenerInsideConnection /\ RoomForByte`. The bound on `len`
  is not inductive alone: the listener tests it in one step and appends in the
  next, so one needs `RoomForByte`. That in turn needs that handshake and
  listener never read at the same time, which is `ListenerInsideConnection`.
- `HandshakeAgrees`: `AnswerMatchesConnection` is inductive, given what negotiation
  returns (`VersionType`).
- `SiblingsTellEachOther`: `SiblingIsTold` is inductive as it stands.
- `ConnectionsRunOut`: once the client is gone every step of the connection lowers
  `StepsToClose`, from `PInv` (`out` has a place left whenever the parser goes on,
  and is empty elsewhere), `IInv` and `SInv` (main is not creating or destroying
  meanwhile).
- `ParserCorrect` from `PInv`: after each pass of the loop, `out` holds the casts of
  the numbers before `pos`, and the line up to there is well formed.

Only model-checked: the liveness properties, which are out of the prover's reach
because of fairness and ENABLED. For three of them the theorems hold the argument
all the same. `NobodyWaitsInVain` says that a wait has somebody able to end it and
`TeardownAdvances` that nobody can go on for ever, which is what
`BackPressureIsReleased` and `ShutdownReachesTransport` add fairness to;
`SiblingIsTold` and `HangUpAdvances` do the same for `HangUpFreesTransport`. TLC
alone says that the two parts and the fairness make the whole.

## 6. Not modelled

- The text of messages and lines: the JSON written to clients is a line; which
  command a line holds is a choice; a HELLO line is its tokens.
- The time stamp a worker puts into a message, and the payloads' contents: no
  control depends on them.
- `msg_queue_size`, which only reads and which nobody calls.
- Time other than the producer's sleep: `poll()` time-outs are steps that may come
  whenever nothing is there to read.
- `log.c`: output under a mutex of its own that is held for no other call.
  `radio_msg.h`: layouts and names.
- The Python bridge, MQTT and protobuf, which `DESIGN.md` plans and nobody has
  written.
- The models are composed by their contracts: `PubSub` and `Pipeline` use queues as
  `BoundedQueue` describes them, `Pipeline` publishes to its consumer only, and
  `Transport` takes a subscription as something that succeeds or fails. One
  model of all threads at once is beyond what TLC can go through.
