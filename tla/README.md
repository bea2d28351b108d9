# A TLA+ model of yurei-jsonrpc-client

This directory holds TLA+ modules that model the client from the RPC node to the
tables: threads, queue, connection, poller, parser and decoder, writer, rate
limiter, metrics and configuration, the TLC configurations that check
them on small instances, and proofs, checked by TLAPS, of their safety
properties for every value of the constants. `PROJECT.json` maps every
definition to the lines it models and lists the runs, the findings, the hazards
and the theorems. File names without a directory are those of `src/` and
`include/` of the repository.

## 1. The system

    RPC endpoint --logsSubscribe--> ws_thread ---------\
                                                        push      pop
    RPC endpoint <--getLogs-- rate limiter              event queue ---> writer_thread --> PostgreSQL
                 ----------> poller_thread ------------/
                                    \--> metrics <-- main (every 60 s)
    main: starts, waits for SIGINT/SIGTERM, stops and joins the threads

The process has up to four threads. `main` creates the writer, the WebSocket
thread (mode `ws` or `dual`) and the poller (mode `http` or `dual`, or when the
WebSocket client could not be started). Network threads parse each message and
push one event for every `Program data:` line; the writer pops and inserts.

| component | state | operations | who calls | model |
|---|---|---|---|---|
| event queue (`event_queue.c`) | ring, head, tail, size, closed, mutex, two condition variables | push (blocks when full), pop (blocks when empty), close | both network threads, writer, main | `EventQueue`, `BoundedFifo` |
| lifecycle (`main.c`) | use_ws, use_http, g_should_exit | start, fall back, wait, stop, join, destroy | signals | `ClientLifecycle` |
| WebSocket client (`websocket_client.c`) | context, wsi, connected, backoff_ms, running; send_pending per session | loop, callbacks of libwebsockets, stop | its thread, libwebsockets, main | `WebsocketClient`, `WebsocketReceive`, `ClientLifecycle` |
| HTTP poller (`http_poller.c`) | last_slot, running | poll, stop | its thread, main | `HttpPoller`, `ClientLifecycle` |
| database writer (`db_writer.c`, `schema.sql`) | connection, running | connect with retry, insert, stop | its thread, main | `DbWriter`, `ClientLifecycle` |
| rate limiter (`rate_limiter.c`) | tokens, last_refill | wait, try_acquire | poller | `RateLimiter` |
| parser (`parser.c`) | base64_table (filled on first use) | decode, walk the JSON, push | both network threads | `Parser`, `Base64`, `Base64Table` |
| metrics (`metrics.c`) | atomic counters | add, min/max, log | poller, main | `Metrics` |
| configuration (`config.c`) | settings | defaults, file, environment | main, before the threads | `Config` |
| logging (`logging.c`) | level, colour | format and print | all | not modelled |
| scripts, build | - | - | - | not modelled |

### What is hard here

* Concurrency: one mutex and two condition variables with a single signal per
  push or pop; `running` flags and `client->context` shared without a lock.
* Ordering: what may still be pushed while main stops things one after another.
* Failure: threads that cannot be created, threads that end by themselves, a
  database that is away, an endpoint that stays silent.
* Asynchronous callbacks: a connection attempt fails long after the call that
  began it has returned success.
* Memory only: the poller's slot and the queue are gone after a crash; the tables
  stay, and whatever is read again meets them.
* Lost and repeated input: notifications come without confirmation, answers are
  cut off at 50 entries and overlap, both network threads bring the same lines,
  an INSERT may be applied although it failed.
* Lock-free sharing: atomic counters read one by one, and a lookup table filled
  in on first use without a lock.
* Numeric edges: ring indices, a token bucket with clamped sleeps, a
  shift-register decoder that tests its buffer byte by byte.

### What makes the components correct

* Queue: nothing lost, duplicated, reordered or accepted after the close; no
  thread asleep with something for it to do.
* Lifecycle: events are never refused while a producer runs; a blocked producer
  always has a writer; nothing is freed under a thread; a signal ends the process.
* WebSocket client: flags agree with the connection, never two connections, one
  subscription on each, a lost connection replaced.
* Rate limiter: a bounded burst over every window, no sleep past a token, no
  wait for ever.
* Decoder: a payload that fits comes back as it was, one that does not is refused.
* Poller: the slot cursor passes over nothing, and every entry within its reach
  is delivered, also after a restart.
* Writer: an accepted event is in its table (or an earlier one with its
  signature is), its INSERT has failed, it has no table, or it is still on the way.
* The whole: the tables only ever gain true rows, one for each signature.
* Metrics: no lost update of minimum and maximum; a printed line is off by no
  more than the requests in flight.

## 2. Modules

| module | what it is |
|---|---|
| `BoundedFifo` | abstract specification: what the queue promises its callers |
| `EventQueue` | the ring with mutex and condition variables; implements `BoundedFifo` |
| `ClientLifecycle` | composition: main, ws_thread, poller_thread, writer_thread around a `BoundedFifo` |
| `WebsocketClient` | loop, backoff and callbacks of the connection |
| `RateLimiter` | the token bucket in integer units |
| `Base64` | `decode_base64` against the encoding of RFC 4648 |
| `Base64Table` | the decoder's static table, filled in by two threads |
| `Parser` | the events of a message and their pushes; extended by the next three |
| `HttpPoller` | requests, answers and the slot cursor of the poller |
| `WebsocketReceive` | the notifications the WebSocket thread parses |
| `DbWriter` | the writer, its INSERTs and the tables |
| `EventStore` | abstract specification: what the tables promise their readers |
| `Pipeline` | composition: chain, poller, WebSocket thread, `BoundedFifo`, writer, shutdown, kills; implements `EventStore` |
| `Metrics` | the atomic counters, their updaters and the printed line |
| `Config` | defaults, file, environment |
| `MC*` | the sets TLC uses for the constants |
| `*Proofs` | theorems and proofs about the module they are named after; `PollerReachProofs` is about `Pipeline` too |

Definitions whose names begin with `Bug` are slips of the implementation; no
action uses them. Each property of a passing run is violated when the slip that
`PROJECT.json` names for it takes the place of the real definition.

### How state and steps correspond to the code

**EventQueue.** One step is what a thread does between acquiring the mutex and
releasing it, including the release inside `pthread_cond_wait`. A thread in a
call is asleep (`waitPush`, `waitPop`) or awake and queueing for the mutex
(`pushing`, `popping` without the wait set), so a woken thread can be overtaken.
`AfterSignal` picks any sleeper; `SpuriousWake` is what POSIX allows. A push or
pop that finds its loop condition true sleeps again, as the `while` does. The
slots keep their old content after a pop, as in C.

**ClientLifecycle.** `pc` is main's statement, `wsPc`, `httpPc` and `wrPc` those
of the threads. A step reaches to the next look at a variable that another
thread writes, or to the next wait. The queue is an instance of `BoundedFifo`,
so a push on a full open queue is simply not enabled. Every call that can fail
does so nondeterministically: initialisation, thread creation, libcurl and
libwebsockets setup, requests, INSERTs. `lws_cancel_service` has no effect of
its own (it ends the 100 ms wait early). The shutdown of the WebSocket client is
split where main reads `client->context`, which the thread clears concurrently.
`wait_for_connection` is its loop: an attempt (`WriterConnect`), and after a
failed one the sleep (`WriterRetry`) and the next attempt, whatever
`writer->running` says.

**WebsocketClient.** `connecting` and `open` count what libwebsockets holds, the
other variables are the client's own. `ConnectBegins` is
`lws_client_connect_via_info` succeeding (it also writes `client->wsi` through
`pwsi`), `ConnectFails` its failure or that of `parse_endpoint`, followed by the
sleep and the doubling. Between two passes of the loop, `lws_service` delivers
any number of callbacks. `Disconnected` is the pair of assignments that the
error and the close callbacks share. `writableAsked` is a request made with
`lws_callback_on_writable` and not answered yet; `Writeable` answers it, and may
also come unasked. `rested` is a history variable: whether the
thread has slept since its last attempt.

**RateLimiter.** A tick is a microsecond, and one token is `TicksPerSecond`
units, so the code's fractional tokens are integers and a tick refills `Rps`
units. `lag` is the time since `last_refill`, cut off at two seconds, where
the bucket is full anyway. `Wait` is one round of the loop of
`yurei_rate_limiter_wait`, `due` what remains of its `usleep`. `spent` is a
history variable that makes "at most so many in any window" a state property.

**Base64.** A character is its value in the alphabet, or padding, white space or
something else. A step handles one character. `bits` and `val` are the code's
accumulator; `IntValues` is the number of values of `int`.

**Parser.** A message is a record of its shape, its context slot and its values,
which are named by their place in the chain's log. `EventsOf` is the set of
events that the walk over the JSON comes to; their order is that of `data`,
the pair of transaction and line, which also stands for the payload. A text that
`decode_base64` refuses is a line `"refused"`.

**HttpPoller.** `Poll` is a request with its answer, or with something unusable;
`HttpPush` one push of `enqueue_event`; `FinishPoll` the assignments after
the parser has returned. The RPC node is external, and modelled as the poller's
request expects it: entries from `startSlot` on, oldest first, at most `Limit`,
each with its slot and program. While `last_slot` is 0 the request names no
`startSlot`; the model takes it to be answered from the first entry of the
chain on. Both are assumptions about the node: one that answers newest first, or
that answers a request without `startSlot` with recent entries only, lets the
cursor start behind entries nobody polled, and `NothingSkipped` and
`EverythingPolled` say nothing of it. `Limit` is 50 in the code.

**WebsocketReceive.** A notification has one entry, its slot in the context and
no program. `Receive` may jump over entries: they were sent while
there was no connection, or in pieces, which are parsed as whole messages.

**DbWriter.** `InsertDone` is an `insert_event` that returns true, `InsertFails`
one that returns false; the row may have been stored. A table is a set of
records with `signature` as the primary key of `schema.sql`.

**Pipeline.** The queue is the `BoundedFifo` that `EventQueue` implements.
`log` is everything the chain will ever show, `confirmed` how much of it
the RPC node shows already. `accepted`, `lost`, `failures` and
`kills` are history variables. `NewProcess` is a kill (or an exit) and the start
of a new process; it leaves the tables and the chain alone.

**Metrics.** Each atomic operation and each read of the printed line is a step.
`current` is the local `current_min`, then `current_max`. An exchange may fail
although the values agree, as the weak one of C11 may.

**Base64Table.** Each access to `base64_table` or to the flag is a step.

**Config.** A value has a text without blanks and quotes, a number if strtoul reads
it as a whole, and a mark for quotes (`""` counts as set, an empty
variable does not). `UInt32Values` is 2^32 in the code. The long default
texts are abbreviated.

## 3. Runs

Passing runs, with the distinct states TLC finds. Each checks the safety and the
liveness properties of its module together.

| run (`cfg`) | states | what it shows |
|---|---|---|
| queue (`MCEventQueue`) | 22569 | ring consistent, no lost wakeup in either direction, nobody asleep after a close, the ring implements the FIFO; a blocked push or pop goes on for ever only while others get through, and a close releases everybody |
| lifecycle (`MCClientLifecycle`) | 22920 | no event refused, writer outlives producers, resources outlive threads, only started threads joined; after a signal only PostgreSQL or an unanswered request can hold up the exit, and only PostgreSQL a blocked producer |
| limiter (`MCRateLimiter`) | 1732 | at most 2 Rps + w Rps requests in any w seconds, sleeps do not overshoot, a wait ends unless others are let through for ever |
| base64_decode (`MCBase64`) | 96588 | round trip, refusal of long payloads, what padding does |
| pipeline (`MCPipeline`) | 336491 | the cursor passes over nothing, accepted events do not vanish, the tables implement `EventStore`; the poller delivers everything within its reach and everything accepted is settled |
| metrics (`MCMetrics`) | 745043 | no lost extreme, a printed line off by the requests in flight at most, every report ends |
| ws_connection (`MCWebsocketClient`) | 216 | flags agree with the connection, one connection, one subscription; a lost connection is replaced, an open one subscribed because it asked for the callback; the backoff stays below its ceiling through a wrap |

Runs that TLC must find violated, each a disagreement between the code and what
the repository says of it:

* **lifecycle_fallback** - `HttpTakesOver`. `main.c:119` promises HTTP when the
  WebSocket client cannot start. `yurei_ws_client_start` returns 0 before the
  thread creates its libwebsockets context; when that fails the thread ends and
  nothing takes its place.
* **ws_backoff** - `BacksOffBetweenAttempts`. `.env.example:24` describes a
  reconnection backoff. It is applied only when `establish_connection` fails at
  once; an attempt that fails in a callback, and a close, are followed by an
  immediate attempt.
* **base64_padded** - `PaddedRoundTrip`. `README.md:14` promises decoding. The
  table gives `=` the value 0, so every `=` adds a zero byte to the payload.
* **base64_dual** - `WholeTextDecoded`. `README.md:106` keeps both threads active
  in mode `dual`. When their first texts come at once, one thread resets the
  table to -1 while the other decodes, and -1 ends the text: the payload is cut short.
* **config_api_key** - `ApiKeyAppended`. `.env.example:12` says the API key is
  appended to the address. It is stored and never used.

Three more remarks on what the modules show, without a run of their own.
`README.md:107` of the repository speaks of logs of backpressure: a full queue
blocks silently, and the warning at `parser.c:144` needs a refused push, of
which `PushNeverRefused` says that there is none. The exception in
`EverythingPolled`, `OutOfReach`, is real: at a slot that fills an answer, or
after a full answer without any event, the poller asks the same again for ever
(`LostForGood`, section 4).
And the refinement of `Pipeline` has to allow every row in PumpFun's table,
since a notification names no program and `enqueue_event` takes PumpFun's for it.

A printed line may show more successes than requests, an average above the
maximum, or a minimum above the maximum; `LineMakesSense` states what it may not.

### Bounds, and why they are enough

* Queue: two producers and two consumers are the threads of the program and one
  more consumer; with two slots the indices wrap, the ring fills and empties, and
  a slot is reused while others are still occupied. Two event values tell
  reordering and duplication apart. The proofs lift all these bounds.
* Lifecycle: two slots and messages of up to three events (`MaxBatch`) let a message overflow the queue, so that every shutdown step
  meets a producer in the middle of a message. The safety proofs hold for every
  capacity and message size.
* WebSocket: `UIntValues` = 65536 instead of 2^32. In `ws_connection` the backoff
  is 32771, 6, 12, 24, ..., 24576, 33000: the doubling wraps first, which nothing
  in the configuration prevents, and would later pass its maximum; in
  `ws_backoff` it is small. The module is otherwise finite by itself. The
  proofs hold for any two values.
* Rate limiter: a token every six ticks and clamps at two and four, so that both
  clamps and the computed sleep occur; two callers, so one can take the token
  another one slept for. Proved for every rate and every clamp.
* Base64: payloads of one to five bytes for a buffer of four: shorter than, equal to
  and longer than the buffer, every remainder modulo 3. `4` and the real
  `4096` leave the same remainder modulo 3, so the end of the buffer meets
  padding alike. Three byte values cover all-ones and mixed sextets.
  `IntValues` = 65536 instead of 2^32: 14 bits are all the decoder reads. The
  proofs lift these bounds.
* Pipeline: one slot in the queue, so that both threads are held up in it;
  answers of two entries and four logs of two or three. `CutBetween` has its
  first answer cut off between two slots and `CutInside` inside one, and in both
  the third entry comes only with the second answer, to which the cursor has to
  move: a cursor that stays loses it in both, one that moves past the last slot
  seen in `CutInside`. In `Crowded` the first slot fills an answer, and the third
  entry is out of reach. Two entries in one slot, of which the second may be
  confirmed after the first was polled; two events in one transaction; missing
  signatures; all three kinds of program; lines that are no events. One INSERT
  fails, with either outcome, and one kill comes anywhere, in the shutdown and
  after the exit included: after it the second process is a complete run, and
  what a third one could meet (rows of earlier ones) the second one meets. The
  safety proofs hold for every log, limit, failure and number of kills.
* Metrics: two updaters although the program has one, since the interface
  is written for several; three requests, two of one updater and one of the
  other, so that an outcome is counted while another one is in flight. The
  safety proofs hold for any number of either.
* Base64Table, Config: the smallest alphabet, files and environments that show
  the disagreement. A `uint32_t` of 16 bits is narrowed as one of 32.

### Fairness, and why the code justifies it

* Queue: weak fairness of a thread that queues for the mutex (held for the
  length of one step only) and of the consumer, which calls pop in a loop.
  Nothing makes a producer call. A woken producer may be overtaken again and
  again, so `PushReturns` says that a push is kept out for ever only while
  others get in; with one producer at work (modes `ws` and `http`) it returns.
  `PopReturns` says the same of the consumers, of which the program has one.
* Lifecycle: `ThreadFairness` is the scheduler. Blocked pushes get strong
  fairness: the other producer may take a freed slot, but it pauses after each
  message, and condition variables serve sleepers. That PostgreSQL
  accepts and answers, or that the endpoint answers a request, is *not* assumed:
  the code sets no timeout for either, and the liveness properties name the
  peer that is waited for instead. A signal or a WebSocket message never has to come.
* WebSocket: the loop runs and `lws_service` returns within 100 ms (weak
  fairness). Callbacks are enabled only inside `lws_service`, again and again,
  hence strong fairness: an attempt ends, by libwebsockets' own timeout at the latest;
  a socket of a healthy connection becomes writable, and libwebsockets tells so
  if it was asked (the fairness is that of `writableAsked /\ Writeable`: a callback
  nobody asked for need never come); a valid endpoint is not refused at once for
  ever. Closes and errors need never happen.
* Pipeline: here the peers work: the endpoint answers usably again and again
  (strong fairness, since requests may also fail), PostgreSQL accepts and
  answers. The properties are about what the client makes of that. Pushes have
  strong fairness as in the lifecycle. Confirmations, notifications, kills and
  the shutdown need never happen.
* Metrics: the updaters run, and a weak exchange that could succeed
  again and again does not fail for ever (strong fairness), which is what C11's
  recommended loop relies on.
* Rate limiter: time passes and a thread whose `usleep` is over goes on. As with
  the queue, another caller may take the token; the program has one caller.

## 4. Proofs

Each theorem holds for every value of the constants that the module's named
assumption admits.

* **EventQueueProofs**: types, `RingConsistent`, `NobodySleepsInClosedQueue`,
  both lost-wakeup invariants, and `ImplementsFifo`. Assumption: finite sets of
  threads, capacity at least 1. The wakeup invariants compare cardinalities:
  each stored event has an awake consumer while anybody sleeps. They are
  inductive only together with `NobodySleepsInClosedQueue`: when a closed queue
  could have sleepers, nothing would wake them. The refinement maps
  the `size` slots from `head` on to the abstract sequence; every step is shown
  to be a step of `BoundedFifo` or a stutter, using that a store lands behind
  the last slot in use (`RingConsistent`).
* **ClientLifecycleProofs**: `SafeLifecycle` is inductive. It says, for each
  thread, at which statements of main it may be alive (`WsPhase`, `HttpPhase`,
  `WriterPhase`) and ties `closed` and the resources to main's position
  (`QueuePhase`). `PushNeverRefused` alone is not inductive: that the
  queue is open follows from main's position, that from the joins before it.
  The other three properties follow from the phases.
  Three more theorems are the part of `ShutdownHeldUpOnlyByPeers` and
  `BackpressureRelieved` that does not rest on fairness: `JoinedHaveBeenTold`
  (a thread that main waits for has been told to stop), `JoinsCountDown` (such
  a network thread has at most `MaxBatch + 2` steps left, the writer 4, and each
  one it takes is one less: `JoinedComeNearer`; only the rounds of
  `wait_for_connection`, which no `running` flag ends, are not counted, so a
  PostgreSQL that refuses keeps the join of the writer waiting for as long as it
  does) and `WaitsMakeNoCircle` (a blocked
  producer has a writer that neither sleeps nor has been stopped, and main never
  joins a writer that sleeps).
* **WebsocketClientProofs**: `SafeConnection`, the three invariants with
  `NoSessionWithoutLink` and `PendingIsAsked`, is inductive. `OneConnection` needs
  `FlagsFollowLinks`, which in turn needs `OneConnection`: a callback clears both
  flags, which is right only if its connection was the only one.
  `SubscriptionIsAsked` is the part of `GetsSubscribed` that needs no fairness.
  The backoff may be any two values of `uint32_t`, in any order: the doubling may
  wrap, and the ceiling holds all the same; that it does not fall below its
  minimum is proved where `2 * BackoffMax` fits the type (`NoWrap`).
* **MetricsProofs**: three inductive invariants, for any updaters and reports.
  `SafeMetrics` is about the extremes. `NoLostExtreme` is
  not inductive: that an exchange only improves the extreme follows from what the
  updater knew when it entered the loop (`LoopsKeepTheirPromise`), and that a
  latency counts as reported only behind both loops. A step of one updater keeps
  the others' promises because the minimum never grows and the maximum never shrinks.
  `SafeLine` adds the sums. A single counter proves nothing about another one,
  since an updater may stand between its two additions; `SumsAgree` therefore
  counts the updaters that stand there (`total` is `success` plus `failed` plus
  those with an outcome due, and so on for events, latencies and the minimum).
  `LineSoFar` carries this over to the printed line, field by field: what has
  been read cannot be contradicted by what is still to be read, since counters
  only grow. That the average is not below the least latency needs the order of
  the reads, the count before the sum. `LogMakesSense` follows.
  `RetriesAreBounded` is what of `ReportsEnd` needs no fairness: the value an
  updater compares has been the extreme, which has only got better since
  (`SafeLoops`), so every failed exchange but a spurious one takes it a step
  further among the latencies. For the same reason a value found equal again has
  not changed in between.
* **RateLimiterProofs**: `SafeLimiter`. What was granted ahead of the rate is
  missing from the refilled bucket (`SpentIsMissing`), so it is at most a
  full bucket; a sleep above the minimum fits what its token still lacks
  (`SleepFits`), whatever the other callers do. `BucketLosesNothing` says what
  `WaitEnds` needs besides fairness: time adds exactly the rate, a grant takes
  exactly a token, and a call that finds none costs nothing.
* **Base64Proofs**: `SafeDecoder`, for payloads of every length, every buffer
  and every place of the blank. After m digits the output is the first
  `(6 * m) \div 8` bytes of the payload, and the accumulator ends with the
  leading bits of the next one (`Decoded`). No induction over the text is
  needed, since a step of the decoder is the induction step. `DigitDecodes` is
  its arithmetic, by cases over the remainder of m modulo 4; `ZerosFollow`
  says that the digits `=` stands for are those of zero bytes behind the
  payload, so that padding needs no case of its own. The blank at `k` (which
  the text hides) says which digit stands at `pos`. `RoundTrip`,
  `TooLongRefused` and `PaddingBecomesZeros` follow, with the bounds: the output
  never exceeds the buffer, every stored value is a byte, every shift distance
  is 0, 2 or 4. Assumption: `int` has at least 14 bits (it has 32), so that
  what overflows has been used.
* **PipelineProofs**: `SafePipeline`, for every set of logs with slots in
  order, every limit, capacity and number of failures and kills.
  `NothingSkipped` is not inductive. The cursor moves when a round ends, and
  what it passes then must have been accepted: `RoundComplete` says that
  what the round has passed is accepted or still to be pushed. That needs, at a
  confirmation, that late entries are not older than anything the poller knows
  (`LateIsLater`), and, at a push, that the queue is open
  (`QueueOutlivesPoller`: main closes it after joining the poller).
  `NothingVanishes` follows each event from the queue to the writer's hand to
  the table or the list of failures; it speaks of one process, since a new one
  has accepted nothing yet. For
  `ImplementsEventStore`, every step is a step of `EventStore` or a stutter:
  the row an INSERT adds is true because whatever is on its way to the tables
  tells the truth (`OnlyTruths`), and a signature is not stored twice because of
  the primary key. `TablesOnlyGrow` draws what a reader of the tables wants to
  know from it.
* **PollerReachProofs**: what the poller never gets to. A round stays in the
  window it asked for (`RoundStaysInWindow`), and a full window does not change
  when the chain grows: the visible entries have no gap, so one that has room for
  the next entry holds fewer than `Limit` (`FullWindow`, by counting). When no
  event of a full window is of a later slot than the cursor, no round can move
  the cursor, and nothing behind the window is polled any more by this process:
  `LostForGood`. `OutOfReach`, the exception that `EverythingPolled` makes, is
  therefore not temporary.

Every safety invariant, action property and refinement that a passing run checks
is a theorem, for every value of the constants. Only model-checked:

* the liveness properties: `PopReturns`, `PushReturns`, `CloseReleases`,
  `ShutdownHeldUpOnlyByPeers`, `BackpressureRelieved`, `WaitEnds`,
  `Reconnects`, `GetsSubscribed`, `EverythingPolled`, `AcceptedSettles` and
  `ReportsEnd`. They rest on fairness, hence on `ENABLED`, which this prover
  does not reason about;
* what the modules `Config` and `Base64Table` show, and the other
  counterexamples: a violation on one instance is all there is to say.

## 5. Not modelled

* The rounding of doubles in the rate limiter, and `Rps = 0`, which returns
  before anything happens.
* The overlap of `lws_cancel_service` with `lws_context_destroy` is in the model
  (`CancelService` after `WsDestroyContext`), but no property forbids it: the
  code does not exclude it and no document speaks of it.
* The unlocked `running` flags are read and written in single steps. The C
  standard calls that a data race; every loop calls opaque functions between
  two reads, so the build reads them each time.
* A signal before the handlers are installed ends the process as any program.
* A failed `lws_write`: the result is ignored by the code; libwebsockets then
  closes the connection, which the model has as `Closed`.
* The pieces of a fragmented WebSocket message: they are taken for
  broken messages and lost; that a piece parses by itself is left out.
* Values of an answer without a slot of their own under a context slot: the cursor
  would jump to the context's slot. The RPC node is taken to list slots, as the
  request by `startSlot` needs.
* The product `backoff_ms * 1000` given to `usleep`, which wraps from about 71
  minutes on: lengths of sleeps are not in the models of the threads.
* Slots above 2^53, which cJSON rounds, and slots beyond `BIGINT`, whose INSERT fails.
* Texts longer than their buffers (signatures, table names, lines of the file).
* Reading of endpoints, formatting of requests, logging, scripts, build.

## 6. Plan

Every component with behaviour of its own has a module, every safety property a
proof, and of each liveness property the part that needs no fairness is proved
too: the wakeup invariants for the queue, and the
theorems on joins, waits, retries, the bucket, the poller's reach and the
subscription named in section 4. (For `Reconnects` that part is
`FlagsFollowLinks`: a client without a connection finds both flags clear at the
top of its loop.) What could follow:

1. bounds in time, for which the models of the threads would need the clock that
   only the rate limiter has: how long a shutdown takes with
   `lws_service` at 100 ms and the poll interval;
2. the events of one transaction with several data lines: the tables
   keep one of them (one row for each signature), which the code leaves to
   the schema.
