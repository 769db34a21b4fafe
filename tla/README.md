# JustAPI: TLA+ specifications and proofs

JustAPI is a web framework with a Rust core (`src/crates/justapi-core`), Python
bindings (`justapi-py`), a command line with a prefork supervisor (`justapi-cli`) and an
LLM inference crate (`justapi-inference`). This directory holds TLA+ models of the parts
whose correctness depends on interleavings, cancellation, resource limits or long call
sequences, the TLC runs that check them, and TLAPS proofs of the results that matter most.

Each specification is written from the Rust source. `PROJECT.json` gives for every
definition the lines it models (`map`), for every run what it checks (`runs`), and the
places in the code that are hard to test (`hazards`).

## Parts of the system and how they interact

A client's bytes reach the **HTTP server** (accept loop, one task per connection, graceful
shutdown), started directly or as a worker of the **prefork supervisor**. A request passes
input limits, the **middleware chain** (coalescing, breaker, bulkhead, rate limits,
authentication, compression, gateway, ...) and the **router**, and ends in a handler: Rust
code, a static file, or Python code that the **native handler** runs through the **GIL
pool**, alone or in a **batch**. Handlers use the **database pool**, the **DAG executor**, the
**background executor** and the **job scheduler**. Because hyper drops the future of a
request whose client hangs up, and the request timeout does the same, every part can be
cancelled at each of its awaits; most of the behaviours below come from that. Panics abort
the process (`panic = "abort"` in the release profile), so no unwinding is modelled.

The inference crate has its own stack. The **gateway** and its **control plane** choose a
replica, the **replica supervisor** and **autoscaler** start and stop replicas. In a replica the
**completion endpoints** drive the **engine** (with **speculative decoding**) or the
**scheduler engine**, which drives the **continuous-batching scheduler**, which allocates from
the **KV block pool** and shares prefixes through the **radix cache**. With disaggregation, the
**PD scheduler** moves sequences from a prefill scheduler to a decode scheduler.

### Inventory

| part | source (under `src/crates`) | module | state |
| --- | --- | --- | --- |
| Request coalescing | `justapi-core/src/coalesce.rs` | `SingleFlight`, `RequestCoalescer` | modelled, proved |
| HTTP server, plugin hooks | `justapi-core/src/server/mod.rs`, `plugin.rs` | `HttpServer` | in part, proved |
| Server builder, request path | `justapi-core/src/server/mod.rs` | `RequestPath` | in part |
| Router, route cache | `justapi-core/src/router.rs` | `Router` | modelled |
| Middlewares, compression, gateway file | `justapi-core/src/middleware.rs` and others | `Middleware` | modelled; codecs external |
| Circuit breaker | `justapi-core/src/resilience.rs` | `CircuitBreaker` | modelled, proved |
| Bulkhead, timeout, fallback, chaos, per-route breakers | `justapi-core/src/resilience.rs` | `Resilience` | in part, proved |
| Static files, metrics, health | `justapi-core/src/` | `StaticFiles`, `Metrics`, `Health` | modelled; metrics in part; files and health proved |
| Database pool and bridge, migrations | `justapi-core/src/db/`, `justapi-py/src/` | `Database`, `Migrations` | in part; modelled, proved |
| Python application, native handler, GIL pool, batcher, CRUD | `justapi-py/src/`, `justapi-core/src/batching.rs` | `AppRegistry`, `PythonApp` | in part |
| WebSocket sessions | `justapi-py/src/` | `WebSocketSession` | in part, proved |
| Background executor | `justapi-py/src/background.rs` | `BackgroundTasks` | modelled, proved |
| Job scheduler, DAG executor | `justapi-py/src/scheduler.rs`, `dag.rs` | `JobScheduler`, `Dag` | modelled |
| Prefork supervisor | `justapi-cli/src/workers.rs` | `PreforkSupervisor` | modelled |
| Replica supervisor, autoscaler | `justapi-inference/src/` | `ReplicaFleet` | modelled |
| Control plane, model router, gateway | `justapi-inference/src/` | `ModelRouting`, `InferenceGateway` | modelled |
| Radix cache, KV block pool | `justapi-inference/src/radix_cache.rs`, `kv_cache.rs` | `RadixTree`, `RadixCache`, `KvPool`, `KvBlockPool` | modelled; pool in part |
| Scheduler, PD scheduler, scheduler engine | `justapi-inference/src/` | `Scheduler`, `SchedulerLoop`, `PdScheduler`, `SchedulerEngine` | modelled |
| Engine, speculative decoding, completion endpoints | both crates' `openai.rs`, `justapi-inference/src/` | `Completions` | modelled; engine in part |

What is left out is listed under *Not modelled*; `PROJECT.json` has every part with its files.

## The modules

A module `X` is a specification, `XProofs` its theorems (`CircuitBreaker` has its few at its end,
`ServicesProofs` those of three small modules). Definitions marked *Mutant* are wrong
variants of the definition that follows them; no specification uses them. Parts that share no
state are checked side by side by one `MC` module: a variable `pick`, fixed in the initial
state, says which of them moves, and the others stay in their initial states. This adds up their
state spaces and multiplies nothing.

### Server and request

**`SingleFlight`** is what coalescing promises: requests of one key form a flight, a flight is led
by one request and settled once, joiners get what it settled on. **`RequestCoalescer`** is the code:
the map `in_flight`, one watch channel per leader (`outcome` and `receivers`, because `send` stores
nothing without one), the fan-out body that publishes at its end or when it is dropped, and `Cancel`,
the drop of a request's future at any await. Its refinement mapping names a flight after its leader.

**`HttpServer`** follows `run`, `run_on` and `run_on_uds`: the gRPC listener that is spawned first,
start-up hooks, one accept loop per transport, one state per connection (`queued` for a permit,
`handshake`, `open`, `handling`, ...), the cancellation token, `graceful_shutdown`, the drain timeout
that aborts what is left, shutdown hooks that stop at the first error. The request counters and the
connection gauge are variables.

**`RequestPath`** is the server as a request sees it: builder calls in any order until `run` freezes
them, then `handle_request` with its limits, short cuts, chain position, dispatch, static fallback and
deadline. It composes **`Router`** (insertion, matching, 404 against 405, the FIFO route cache) and
**`Middleware`** (what each middleware does before and after the rest of the chain, and the reloaded
gateway table), which are operators on records.

**`CircuitBreaker`** has `try_acquire`, `record_success` and `record_failure` as atomic actions (each
runs under one lock) and keeps which requests are inside the chain, so that a result is recorded in
any later state of the breaker. **`Resilience`** is the chain of fallback, timeout, bulkhead, per-route
breaker and chaos; looking a breaker up and creating it are two steps, as the code's read and write
locks are, and the map evicts.

**`Database`** has the Python callers, the runtime's tasks and the pool's connections: statements, whole
transactions, streams, value conversions, and a runtime that goes away. `PoolWork` is what the process does by
itself (waiting for a connection, giving up after the pool's timeout, answering), `EngineWork` what the engine
does: it may refuse a connection, an isolation level, a statement or a commit, lose the connection, or not answer
at all. **`Migrations`** is several processes over one database; executing a script and booking it are two
steps, a process may crash between them, and a script of several statements may fail half-way. A process remembers the versions it found booked, the files it ran and the file it is at; files
are told apart by their place in the directory, because two of them may have one version and `run()` executes
both. **`StaticFiles`** reads metadata and content in two steps while the file is replaced, and a large
file in pieces (`StreamBody`). Its `serve_file` is what the server calls for a mount; `handle`, which adds ETag
and Range, has no caller in the server and is modelled as the function of the crate that it is. **`Metrics`** records and scrapes one atomic at a time. **`Health`** runs its probes concurrently, each
under its timeout.

### Python

**`AppRegistry`** is the application object: the router and the parallel tables that registrations
append to, each with the point at which it may raise. Its second half is `make_native_handler`: the
order of its checks and of its six ways to serve a route, and the test client's copy of it.
**`PythonApp`** composes both with `run`, the GIL worker's bounded queue, the batcher, and the asyncio
loop. A *ticket* names a request; one that was given up stays in whatever queue it had reached.

**`BackgroundTasks`** splits `enqueue`, `push`, `pop`, `process` and `shutdown` at every atomic operation
and lock. `active` wraps modulo `Wrap`, as the `usize` does. The GIL is a lock that Python callers hold
and workers take (`GilEnabled`). **`JobScheduler`** has the mutex of the job list and the GIL as two locks,
and clock readings that are old when they are used. **`Dag`** runs the rounds of `execute` for every graph.
**`WebSocketSession`** is the session object and the reader and writer of its bridge; `Readings` is what the
receive calls make of a message, and a write may fail at any time.

### Supervisors

**`PreforkSupervisor`** has three kinds of parties: the select loop of `supervise()`, whose every
iteration is one action with its drain check (`Iterate`), the worker processes, and the wait tasks that
reap them. `armed` remembers whether the token was cancelled when the iteration began, because that is
when the guard of the scale branch is evaluated. **`ReplicaFleet`** is reconciliation against an executor
whose reports arrive late and out of order.

### Inference

**`RadixTree`** is the tree algorithm (recursive operators on records), **`RadixCache`** the state machine
around it; `content` records the token run each block was computed for. FNV-1a is taken as injective.
**`KvPool`** holds the pool operations as operators on a record; a failed assertion clears `ok`.
**`KvBlockPool`** is any legal user of the pool. **`Scheduler`** adds admission, prefix reuse, eviction
under pressure, chunked prefill and completion. **`SchedulerLoop`** composes scheduler, pool and tree with
the engine's loop and records what the model has written into each block. **`PdScheduler`** composes two
schedulers. **`SchedulerEngine`** puts `generate()` on client threads on top of the scheduler: its four maps
are filled one lock at a time while the loop runs, and a forward pass may fail (`ItemFails`). **`ModelRouting`** is the registry of versions, aliases and
adapters and the replica table with its three strategies; **`InferenceGateway`** interleaves the calls on it,
two of which are not atomic. **`Completions`** has plain, draft-target and tree decoding as functions, and
the nine handlers and eight drivers, with the generating thread on the other end of a
channel, a model that may fail (`GenerateFails`) and a client who may leave.

## The runs

All passing runs explore their whole bounded state space.

| run | bounds | distinct states | what it checks |
| --- | --- | --- | --- |
| `coalescer` | 3 requests of one key, 1 of another, bodies of 1 frame | 77,220 | service of subscribed waiters, refinement of `SingleFlight` |
| `http_server` | 3 connections, 2 permits, 3 requests, 2 plugins, 4 transports; 2 WebSocket frames each way | 425,693 | books and hooks of the server, shutdown; order and end of a WebSocket session |
| `background` | 1 Python and 1 Rust caller, 2 workers, queue limit 1 | 366,716 | queue overshoot, wake-ups, counters, no task lost or run twice, accepted tasks run |
| `background_shutdown_gil` | 1 task per caller, GIL | | *violated*, see below |
| `supervisors` | 2 workers scaled 1 to 3 by 2, 4 processes; 1 to 2 replicas, 4 starts; 1 job, 2 starts of the loop; every graph of 3 nodes | 128,987 | both fleets keep their books and policy, shutdown returns, jobs and graphs |
| `supervisors_fixed` | 2 workers, no policy | | *violated*, see below |
| `scheduler` | 4 requests of 4 kinds, 4 blocks, a budget of 3 tokens, chunks, cancellation | 110,205 | ownership, protection, budget, validity of reused KV cache, progress |
| `scheduler_reuse` | 3 requests | | *violated*, see below |
| `request_path` | 3 builder calls, 8 middlewares, 2 requests, cache of 1, burst of 1; 6 edits of the gateway file, two less per builder call | 210,768 | what is served, cached, guarded and logged; every request is answered; the gateway file is followed |
| `python_app` | 3 programs and one further call out of 8, 2 runs, 2 clients with 2 and 1 requests, batches of 2, a GIL queue of 1 | 264,850 | routes as declared, answers to their askers, the test client; no waiting behind a coroutine that hangs |
| `services` | 4 breaker slots; 3 requests in the resilience chain; 2 callers of 1 connection; 2 migrating processes, 3 directories, 1 crash; files of up to 2 bytes, the longest streamed; 2 recorded requests; 3 probes | 251,129 | see below |
| `inference` | 3 prompts in the radix cache; 2 blocks in the pool; 3 requests in the PD scheduler; 2 in the engine, in one chunk or two, 1 failing pass; 2 pods with 3 loads; 27 drafts for 2 target models | 257,809 | see below |

### What the properties say

- *Coalescing.* `SubscribedWaiterServed`: a waiter that subscribed before its leader resolved is
  answered. `ImplementsSingleFlight`: handlers of one key never overlap, also when leaders are dropped,
  and no joiner is answered with anything but the outcome of the flight it joined.
- *Server.* `ServerIsSound`: on every path a connection or a request can end, permits, gauge and counters
  stay exact, and no connection task lives before the last start-up hook or after the first shutdown hook.
  `ShutdownTerminates`: a cancelled server stops although clients and handlers do nothing.
  `StreamsInOrder`, `EndsReachTheOtherSide`: in both directions of a WebSocket session nothing is lost, repeated or
  reordered (bytes that are read as text may be garbled), and the end of one side reaches the other unless a
  write failed.
- *Request path.* `PathIsSound`: a custom handler and routes exclude each other whatever the order of the
  builder calls; the route cache changes no answer; no content, static files included, goes to a request
  that an authentication middleware of the chain refuses; the access logger logs what it should once.
  `EveryRequestAnswered` holds also when a compressing chain waits for the end of an endless stream.
  `GatewayConverges`: edits that come during the 100 ms sleep, between the read and the store of a reload, or while
  events are piled up are not lost, and a half-written file does not end the watching.
- *Python application.* `ApplicationIsSound`: routes are served as declared; an answer was computed from
  the asker's own request, however batches are padded and cut and whatever was given up before; the test
  client's handler refuses and serves as the server does, apart from batches and CRUD, which its comment names,
  and from what `ReadAlike` leaves out (see *Deviations*). `ServedDespiteHanging`: a request for another handler is
  answered although a coroutine never ends and no deadline fires, unless the coroutine is that of a batch, which
  holds the GIL worker for good.
- *Resilience.* `OpensAfterConsecutiveFailures` relates an opening to the history of results, whatever
  state they were admitted in; `HalfOpenEnds`: a half-open breaker decides unless a probe was dropped.
  `PoliciesHold`: two requests that miss the breaker of a path at once still share one, permits come
  back, a path with a fallback shows no failure of its chain. `RefusalsAreEarned`: an open breaker refuses a request
  only for a recorded failure of its own path since the path's last eviction; no timeout, refusal, departed
  client or other path is held against it.
- *Data and endpoints.* `CallsAreSound`: transactions are atomic although a statement or the commit fails, a row
  cannot be rendered, or the connection or the runtime goes away (the last two leave open whether a commit on its
  way went through); an insert returns, and a query reads, the round trip of a bound value (`RoundTrip` says which
  kinds it changes); and every connection is free or with a task that waits for the engine. `CallersAreAnswered`:
  a statement that the engine never answers keeps its own caller and nobody else, because a wait for a connection
  has a timeout. `MigrationsAreSound`: the table tells the truth about the schema, and in order.
  `EndpointsAreExact`: a partial response declares the bytes it holds while its file is replaced; a snapshot of the
  metrics is off by no more than the requests it overlapped, and its percentiles are those of the latencies (how
  the buckets are printed is left open, see *Deviations*); a health report takes one timeout however many probes
  hang.
- *Background.* `QueueIsSound`: check and push are not atomic, and the queue exceeds its limit by less than
  the number of callers; no queued task is left beside sleeping workers; the wrapped `active` comes back to
  the true value; no task is lost or run twice. `AcceptedTaskRuns`: nor forgotten by `shutdown()`.
- *Supervisors.* `FleetIsKept`: every process that is not joined has exactly one slot, from the drain on no
  worker is left without SIGTERM, restarts and scaling together respect the policy. `ShutdownReturns`: a
  worker that ignores SIGTERM does not keep the supervisor alive. `FleetIsBooked`, `FleetConverges`: late
  reports do not corrupt the books of the replica supervisor, the cooldown is kept, and a calm fleet gets
  its wanted size. `TasksAreSound`: no interval job fires early, although a stopped loop may still be in
  its last round; no handler of a graph lacks an argument. `FiresUnlessDeadlocked`: jobs keep firing,
  except in the lock cycle described below. `OutcomeIsDetermined`: the result of a graph does not depend
  on the order of its threads.
- *Inference.* `CacheIsExact`, `ScheduleIsSound`: a block that is reused holds the KV cache of exactly the
  tokens it is reused for, has one owner, and what the tree refers to cannot be allocated. `PoolIsSound`,
  `OnePoolOneOwner`: the same for the pool alone and for two schedulers. `SequencesFinish`: every request leaves
  the scheduler, but for one that waits for ever behind a head that is too large or that the blocks not lost
  cannot hold. `RequestsFinish`, `StreamsEnd`, `CompletionEnds`: requests are served to their end; what the
  scheduler itself does not end is an alternative of the last, not an assumption. `StreamsAreWhole`: a client
  reads as many tokens as it asked for or one more, they continue its prompt, and one finish reason ends them,
  however the chunks of two requests alternate. `ResponsesAreExact`: a response carries the model's tokens in
  order, all of them unless the model failed, with one finish reason, and speculation changes nothing in them.
  `RoutingIsFaithful`, `TableFollowsCluster`: a request is routed to what it
  names although registry and table change between the two halves of `route`, and the table follows.

Several properties carry a condition on a history variable, because the code does not keep the
unconditional promise: `~swept` (no clock sweep took a block yet), `calm` (no sequence was cancelled yet, or ended
by its token limit before its last chunk), `DivergeAtBlocks` (prompts part at block boundaries), `HeadTooLarge` (the
head of the queue is estimated at more than two batches), `Starved` (so many blocks have leaked that the pool cannot
hold it), `lost` (a probe was dropped), `torn` (a crash or an overlapping call came between a script and its booking,
the script failed half-way, or two files have one version), `seen` (`overtaken`: the engine's loop was
faster than `generate()`; `failed`: a forward pass failed), `raised` (a registration raised), `WorkerIsHeld` (a batch
that never ends), `broken` (a write to the WebSocket failed), `LockCycle` (the scheduler's deadlock).
*Deviations* says what happens outside of these conditions, and the `note` of a hazard in `PROJECT.json` where
its own case is one of them.

### Why the bounds are enough

Interference in these protocols is between two or three parties; the instances have one more where that
is affordable. Four coalescer requests give a leader, a waiter, a request that arrives after the leader was
dropped, and one of another key. Two permits for three connections leave one waiting. The breaker's
thresholds are the smallest at which "in a row" and "one more than the counted probes" mean something. A
queue limit of one with two callers is the smallest overshoot. Four processes allow a restart or a scale-up
of two. Three builder calls put any two middlewares of the palette and a route or a mount together; a cache of one
evicts at the second path. `MaxActs` shares the edits of the gateway file out with the builder calls: the bare server
sees six of them, more than the watcher has steps in a reload. One further registration behind three makes every parallel table uneven if a
call forgets one. Two requests at a batched route and one at a GIL queue of one fill both. One connection for two
callers makes one wait. Blocks of two tokens separate divergence at a boundary from divergence inside a block;
four blocks for prompts of up to two make eviction, reuse and refusal happen within four requests. With a
budget of three tokens the prompt of four is prefilled in two passes and, with a limit of three, is estimated above two
batches, so that a head that blocks the queue occurs as well as one that a cached prefix makes small enough. In the
engine a prompt of three tokens takes two chunks and one of two a single one. The drafts
are all functions of three tokens, so every pattern of acceptance occurs. `MaxClock` counts scheduler passes
and is large enough that every request of the progress runs is finished before it is reached: reaching it
earlier would violate the liveness properties.

### Fairness

Only what the runtime guarantees: a task or thread that can run is scheduled, timers fire, the kernel
delivers SIGKILL, and loops do not stop. In `coalescer`, the breaker and `background` handlers and callables
return, and for the breaker requests keep coming. `http_server` asks nothing of clients or handlers,
`supervisors` nothing of a worker that is told to drain, `python_app` nothing of a coroutine that hangs and of
deadlines (the GIL worker, the batcher's window and the tasks run, and a coroutine outside `Hangs` ends). Of the
database only `PoolWork` is fair: the code sets no statement timeout (`pool.rs:508`, `:617` and `database.rs:240` wait
without bound), so nothing is assumed of the engine. The resilience chain has no fairness, and `Completions`
assumes that the engine's own thread runs (`ThreadRuns`) and nothing of the scheduler. Strong fairness is assumed in two places, where a
runnable thread competes for a lock or a queue slot: a round of the job scheduler's loop gets the mutex and
the GIL if they are free again and again, and a request's task gets a place in the GIL queue likewise. In
`Completions` and the scheduler specifications, and for the parts of `MCInference` and `MCSupervisors`, weak
fairness of X is written out with its enabling condition (`[]<>~CanX \/ []<><<X>>_vars`; just `[]<>~CanX` where
X disables itself or is taken finitely often), which is what TLC evaluates quickly. In the `MC` modules the fairness of a part is stated for the behaviours in which it moves.

`CHECK_DEADLOCK FALSE` appears where a run may end for good: all requests answered, server or supervisor
returned, process aborted by an assertion, or a named bound reached.

## Proofs

Proved with TLAPS for every value of the constants that satisfies the named assumptions.

- `RequestCoalescerProofs` (`CoalescerAssumption`: keys are keys, `NoChan` is no request, the body length is a
  natural number). That a second handler cannot start depends on `in_flight` naming the running leader. The
  inductive invariant `CoalescerInv` adds to the types `Stages` (what a request holds at each program point),
  `Registry` (an entry names an unanswered request that leads its own channel) and `Channels` (a stored outcome
  is what the leader answered); one lemma per conjunct. From it follow `TypeCorrect`, `SingleFlightHolds`,
  `OutcomesAreFinal` and, with one lemma per non-stuttering action, `CoalescerImplementsSingleFlight`: the
  refinement, for any number of requests and keys.
- `HttpServerProofs` (`ServerAssumption`: finitely many connections, at least one permit). `ServerStaysSound`
  is the whole of `ServerIsSound`. It is not inductive: `ServerInv` adds what holds in each phase of `run_on`
  (`PhaseInv`: no live task outside of accepting and draining, no gauge before, hooks done and not yet undone
  meanwhile). `MovesTo` is the common form of every connection step (a task moves and takes its permit, its
  place in the gauge and its request with it); the lemmas say that this form, an abort of all tasks and a step
  of `run_on` keep the invariant, and that each action has one of these forms.
- `CircuitBreaker` (`BreakerAssumption`: positive thresholds, the probe limit a natural number).
  `BreakerInv` bounds `failure_count` by the failures in a row, which gives `CountersStayBelow` and
  `OpeningIsJustified`; `ProbeInv` counts the probes by `half_open_used + 1`, which gives `ProbesStayBounded`.
- `BackgroundLedgerProofs` and `BackgroundTasksProofs` (`BackgroundAssumption`: finitely many threads, at least
  one caller, batches of at least one task, fewer tasks than `Wrap`, as there are fewer than 2^64).
  `QueueStaysSound` is the whole of `QueueIsSound`; `QueueStaysCovered` is its half about overshoot and wake-ups.
  For this half `QueueInv` counts callers that have passed the size check with the tasks they will push
  (`PushesFit`), and says that the queue is empty while a worker has decided to sleep and holds the lock
  (`SleepIsSafe`). For the books `PlacesInv` says that a task that was handed over is in exactly one place, so
  that a step moves it from one counted set to another, and `ActiveBalances` that `active` is off from the true
  value by the additions and subtractions still to come and by whole multiples of `Wrap`; with fewer tasks than
  `Wrap` that makes it exact once nothing is outstanding (`SameRemainder`). `OneMoves` is the common form of a
  thread's step, as it changes the size of a set of threads.
- `ResilienceProofs` (`ChainAssumption`: finitely many requests, a natural number of permits).
  `PoliciesAlwaysHold` is the action property `PoliciesHold`. That a trip holds is not inductive: a request carries
  the breaker it looked up through steps in which the map may evict it and create another. `BreakersInv` ties what
  is carried to the map by the number of evictions of its path: while this number (the era) is the same, the map
  still has this very breaker, and all requests of one era carry the same one.
- `WebSocketSessionProofs` (no assumption). `StreamsStayInOrder` is `StreamsInOrder`, for any number of frames and
  messages. The property speaks of the two ends of each direction, `SessionInv` of all that lies between: what the
  handler has got, what is in its channel and what is in the socket make up what the peer sent until the frame that
  ends the stream is read, and from then on there are only closes; the wire and the outgoing channel make up what
  was accepted until the loop is left. `ReadingsAreFaithful` says what the conversion of a receive call keeps.
- `ServicesProofs`. `RepliesStayExact` (`StaticAssumption`: range headers hold natural numbers) is
  `RepliesAreExact`: `RangeIsClamped` and `RangeIsAsked` say what `parse_range` and `into_abs_range` compute, and
  `StaticInv` that the metadata a request holds are of the present version of the file or of an earlier one.
  `HealthReportsInTime` (the timeout is a natural number) is `ReportsInTime`: every deadline is the start plus one
  timeout and time does not pass a deadline that is due. `MigrationsStaySound` (`DirectoriesAssumption`: what
  a directory may hold) is `MigrationsAreSound`: `MigrationsInv` says also of a version that is between its two
  statements that one process only is there, and what schema and table are meanwhile (`VersionIsBooked`).
  The first two are two of the three conjuncts of `EndpointsAreExact`.

`StaticAssumption` and the one on the timeout are hypotheses of their theorems, because `MCServices` includes these
modules by `INSTANCE`; the others are `ASSUME`s, which TLC evaluates in the runs.

Only model-checked, and why:

- all liveness properties: fairness and `ENABLED` are outside the prover;
- `ScheduleIsSound`, `OnePoolOneOwner`, `PoolIsSound`, `CacheIsExact`, `StreamsAreWhole` and `ResponsesAreExact` rest on
  the recursive operators of `RadixTree`, `KvPool`, `Scheduler` and `Completions`, and the prover has no induction
  over data;
- `FleetIsKept`, `FleetIsBooked`, `RoutingIsFaithful`, `CallsAreSound`, `PathIsSound`, `ApplicationIsSound`, the jobs of
  `TasksAreSound` and the scrape in `EndpointsAreExact` rest on folds and filters over sequences and sets, for which
  the same holds;
- the graphs of `TasksAreSound` (`ArgumentsComplete`), for which no proof has been written.

## Deviations met while modelling

Runs that end in a counterexample, each against a sentence of the repository:

- `supervisors_fixed`: without `--scale`, `supervise()` uses the default policy (1 to 4 workers) and a probe
  that always reports zero load, so `scaling_enabled` is true and the fleet shrinks to one worker, although
  the comment on `NoProbe` says it stays at its fixed size.
- `background_shutdown_gil`: `shutdown(wait=True)` joins workers that need the GIL it holds.
- `scheduler_reuse`: admission reclaims a prefix block another running sequence holds; the assertion in
  `reclaim` aborts the process.

Others, visible in the same models; where a property would be false, the conditions named above exclude them.

- *Coalescing.* A joiner subscribes after the lock is released, and a leader that resolves in between is not
  heard (`coalesce.rs:222`); a waiter holds a sender itself, so the drop of its leader never fails `changed()`
  (`:229`); a leader dropped mid-stream publishes the truncated body as a success (`:135`).
- *Breakers.* A dropped probe never gives `half_open_used` back; enough of them leave the breaker half-open for
  ever (`resilience.rs:89`). The map of per-route breakers evicts an arbitrary entry where the comment says
  the oldest (`:202`), and an evicted open breaker comes back closed. The fallback of several matching
  prefixes is an arbitrary one, not the longest. `RetryPolicy` has no caller.
- *Server.* Connections beyond the limit are accepted and wait inside their task (`server/mod.rs:1526`); a
  failing shutdown hook hides the shutdown from later plugins (`plugin.rs:84`). TLS over a Unix socket is refused
  after the start-up hooks and without shutdown hooks. A TLS handshake watches neither a timer nor the token. A
  gRPC listener that cannot bind is silent, and its connections are not drained.
- *Request path.* `with_handler` after `add_custom_route` drops the routes without the error its comment
  announces (`server/mod.rs:368`). Static files are served after the chain and so lack the headers it adds.
  The per-IP limiter looks for an extension of another type than the server inserts and puts all clients into
  one bucket. Compression collects a body before it sends it: an endless stream ends in a 504. A static file that
  cannot be read falls back to the 404 of the router (`server/mod.rs:1270`).
- *Endpoints.* An ETag is computed from the age of the file and changes every second; a range of an empty file is
  a 500, and one beyond the end yields the last byte as a 206. The histogram is stored per bucket and printed
  without summing, where `metrics.rs:32` says "Cumulative count per bucket" and a scraper expects `le` buckets to add
  up to `+Inf`: quantiles computed from them are wrong. No property depends on it. Requests refused by the input limits are not counted. A
  degraded health check answers 200, where `health.rs:120` says only healthy ones do.
- *Python application.* A registration that raises leaves the parallel tables uneven, although they are "Indexed
  by handler id" (`native/app.rs:54`). Authentication is added before CORS and refuses preflight requests. A
  start-up hook that fails leaves earlier plugins without their shutdown hook. Batched and CRUD routes skip
  validation. A route that the router refuses as a conflict has its index recorded before (`native/app.rs:955`).
  The test client's handler differs from the server's in more than its comment (`handlers.rs:1194`) lists: it does
  not convert XML; it limits the whole body (`:1272`, 50 MiB in `test_client.rs:137`), where the server counts
  only the file bytes of a form, so that a large text form is a 413 for one and is served by the other; and a form
  that breaks off gets another answer. A batched coroutine is awaited by the GIL worker itself (`native/app.rs:2004`):
  if it never ends, no Python handler runs any more, whereas a single coroutine never blocks the worker. Jobs of
  requests that were given up still run, also after `on_shutdown`.
- *Background, jobs.* `shutdown()` may fall between a worker's test of the flag and its wait, and the join never
  returns (`background.rs:283`); tasks of one batch run concurrently, not in registration order. The tick loop
  waits for the GIL with the job list locked, and Python callers do the opposite: `LockCycle` is reachable.
- *WebSocket.* A session whose peer has closed still reports the application side as connected; messages sent
  after `close()`, or still queued when a write fails, are discarded without an error. `receive()` gives a `str` for a
  binary message too, with what is not UTF-8 replaced, where its comment says "`str`/`bytes`" (`websocket.rs:193`).
- *Database.* An `INSERT ... RETURNING` whose row cannot be rendered reports an error although it is committed;
  NaN becomes null, integers beyond 64 bits become floats and those beyond the range of floats text
  (`database.rs:528` says values round-trip); an unknown isolation level is taken as the default. A statement that
  the engine does not answer keeps its caller and its connection for ever. Two overlapping migrations may run one
  script twice, and a script that fails half-way stays applied in part and unbooked.
- *Prefork.* A worker that could not be waited for is not restarted; a failing restart returns an error and leaves
  the other workers without a parent (`workers.rs:186`); a supervisor returns while workers that were being scaled
  down still drain, although `:13-15` promises a wait; with these, more than `max_workers` processes may be alive.
- *Gateway.* `set_ready` writes back the load it read and undoes a report that came in between.
- *Radix tree, KV pool.* An edge is split inside a block, after which nodes are not block-aligned and a lookup can
  return blocks of other positions (`radix_cache.rs:276`). A block handed out by the sweep of `alloc` stays on the
  free list (`kv_cache.rs:166`); `free_cached` does not decrease `allocated_count`.
- *Schedulers.* An unaligned tail block is never freed (`scheduler.rs:506`); a sequence cancelled or finished before
  its prefill is complete puts uncomputed blocks into the tree (`:555`, `:333`); the decode list is built after the
  prefill loop and may contain a sequence of this very pass (`:485`). A request estimated above twice the token
  budget blocks the queue behind it until enough of its prompt is cached, which may be never (`:371`). In the PD
  scheduler `cancel` uses one id for two numberings (`pd.rs:173`), and a transfer that the decode pool cannot hold is
  dropped without a word to its client (`scheduler.rs:615`).
- *Scheduler engine.* A batch that ends a prefill decodes the sequence too, so that a client may read one token more
  than `max_tokens`, which `model.rs:10` calls the "Maximum number of *new* tokens". Every chunk of a
  prompt delivers a token, and that of the last chunk is read twice. A forward pass that fails is skipped and
  counted, and the client is not told. A sequence that the loop finishes before `generate()` has registered
  its channel leaves its client waiting. Tokens of a cached prefix are missing from the context of the first forward
  pass, and a prompt that is cached as a whole yields no token but the empty one at the end.
- *Engine.* An error of a model's `generate` is dropped (`engine.rs:219`): the client reads the tokens up to it and then
  a regular end, with the finish reason `length` and the status 200.
- *Speculation.* Draft-target decoding goes on behind a stop token with which the target corrected the draft; the tree
  scheme's acceptance rate can exceed the 1 that its comment gives as the maximum.

## Not modelled

Within modelled parts: HTTP/2 multiplexing; the attributes of a WebSocket handshake; the rebuild of the GIL pool
after a fork and its parallel build; `PoolManager` and the query builders; `begin_request` of the pool, which has no
caller; columns whose type refuses the bound value, and MySQL's refusal of `SET TRANSACTION` inside a transaction,
other than as a refused level; the flat `PrefixCache` that only tests use; the stochastic samplers of speculative
decoding (the random default of the scheduler engine is one unknown token); the listings and weight loading of the
engine.

Whole parts, because they are pure conversions of one request or response without state that outlives it:
extractors, validation, serialization, multipart, XML, OpenAPI, error catalogue, client generator, SQL text.

Because they are adapters or output around external libraries: HTTP/3, gRPC services, GraphQL, WASM, server-sent
events, tracing, alerting, audit, secrets, SMTP, the Redis rate limiter (one atomic script inside Redis), the
command line, deployment files, benchmarks and examples.

Because TLC has nothing to say about them: Candle models, LoRA, quantisation and tokenizers (tensor arithmetic);
buffer pool and arena (a cache on which no answer depends); the stores of one-time codes (single maps with an
expiry); the Python package around the native module (registration and conversion on one thread per call).
