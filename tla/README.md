# Verification of maboo

TLA+ models of [maboo](../src/README.md), an application server that runs PHP
inside a Go process, checked with TLC on small instances and, where it matters
most, proved with TLAPS for every instance.  `PROJECT.json` lists the
components, the runs, the map from definitions to source lines, the findings,
the hazards and the theorems.

## 1. The system

| part | source | state | operations |
|---|---|---|---|
| embedded worker pool | `internal/worker/pool.go` | list of workers, channel of available ones, context, counters | `Start`, `Exec`, `Reload`, `Stop`, `replaceWorker`, `autoScale` |
| embedded worker, engine | `internal/worker/worker.go`, `internal/phpengine/engine.go` | state, job count, `started`, a read-write lock | `Exec`, `Start`, `Stop`, `NeedsRecycle`; `Execute`, `Startup`, `Shutdown` |
| process life cycle | `cmd/maboo/main.go`, `internal/server/server.go` | signals, listeners | serve, reload on SIGUSR1, shut down on SIGTERM within 30 s |
| response path | `internal/server/{router,middleware,compress,metrics,health}.go` | pooled response writers, one connection per request | `WriteHeader`, `Write`, `Close`, panic recovery, early hints |
| metrics | `internal/server/metrics.go` | counters, histogram | count, scrape |
| process pool, watcher | `internal/pool/*.go` | as the embedded pool, over PHP processes; file times | + request timeout, health check, stop with kill |
| wire protocol, PHP SDK | `internal/protocol/*.go`, `php-sdk/src/*` | pipes with frames | READY, REQUEST, RESPONSE, STOP, PING, STREAM |
| WebSocket | `internal/websocket/*.go`, `php-sdk/src/WebSocket/*` | connections, rooms | connect, message, close, join, leave, broadcast |
| configuration, version selection, entry detection | `internal/config`, `internal/phpengine/{selector,detector,context}.go` | none | validate, select |
| TLS, ACME, HTTP/2, HTTP/3, bridges, SAPI glue | | library servers, third-party frameworks | |

How they interact.  An HTTP handler goroutine runs through the middleware to
the router, which calls `Pool.Exec`.  `Exec` receives a worker from the channel
`available`, runs the script under the engine's read lock and sends the worker
back, or leaves it to a new goroutine that replaces it once it has done
`max_jobs` jobs.  A watchdog adds and removes workers every five seconds.
SIGUSR1 makes `Reload` spawn new workers and drain the old ones in the
background.  SIGTERM closes the listeners, waits up to 30 seconds for the
handlers, then stops the workers and closes the channel.  `main` uses the
embedded pool; the process pool, the WebSocket manager and the PHP SDK are in
the repository and not connected to it.

The process pool has the same structure over PHP processes.  `Exec` starts a
goroutine that writes a REQUEST to the process's stdin and reads its stdout, and
waits for its result or for `request_timeout`; after the RESPONSE it waits for
READY before the worker goes back.  The worker loop of the PHP SDK reads, calls
the handler, answers, and either announces READY or exits because of its own
count of requests or its memory.  A watchdog also looks for dead processes.  The
watcher walks the directories every interval and calls `Reload`.  The WebSocket
manager keeps clients and rooms under a lock and forwards each event, outside
the lock, to the PHP server, which keeps a table of connections of its own.

What is hard.  Every one of these goroutines touches the same list, channel and
engines, and the code relies on the channel alone to keep a worker with one
owner; the two ends of a pipe count and give up on their own, while processes
crash, hang and write noise; files change under the walk that compares them;
two tables of connections are kept by events that may be lost; counts and states
are read and acted on later; the shutdown closes a channel others may be sending
on; the response writers are used again for other requests.  The hazards in
`PROJECT.json` say where each of this bites.

What would make the parts correct: a worker serves one request at a time and is
never lost; no interpreter is shut down under a script or left running without
an owner; recycling, scaling, reloading and stopping are invisible to requests;
the pool keeps its bounds; `Exec` and a shutdown end; the client gets exactly
the bytes and the status the handler produced, and never those of another
request; no process outlives its pool; no edit goes unnoticed; the tables of
rooms and connections agree.

## 2. Modules

| module | models or proves |
|---|---|
| `WorkerPool`, `MCWorkerPool` | embedded pool, worker, engine and the signals of `main`; its model-checking instance (symmetry) |
| `WorkerPoolProofs` | its inductive invariant and its safety theorems |
| `WorkerPoolRefinement` | that it implements `Lease` |
| `Lease`, `LeaseProofs` | what both pools promise, and what follows from it |
| `ResponsePath`, `MCResponsePath` | middleware chain and response writers, instance |
| `ResponsePathProofs` | its theorems |
| `ProcessPool`, `MCProcessPool` | pool of PHP processes composed with the worker loop of the PHP SDK, instance (symmetry) |
| `ProcessPoolProofs` | its inductive invariant, its safety theorems and its refinement of `Lease` |
| `Watcher`, `MCWatcher`, `WatcherProofs` | file watcher, instance, theorems |
| `WebSocketRooms`, `MCWebSocketRooms`, `WebSocketRoomsProofs` | WebSocket manager, read loops and PHP server, instance, theorems |
| `Wire` | the sizes in a frame header, as written by `wire.go` and read by `Wire.php`; its theorem is in `ProcessPoolProofs` |
| `ChannelFacts` | lemmas about Go channels as sequences: what a send and a receive do to the length and to the set of workers in the channel |

### WorkerPool

A worker is its id; the variables `workers`, `available`, `closed`,
`cancelled`, `nextID` and `busyWorkers` are the fields of `Pool`, `state`,
`jobs` and `started` those of `Worker` and `Engine`.  The goroutines are

- the handlers `Clients`: `Call`, `Take`, `GiveUp`, `MarkBusy`, `Enter`,
  `Finish`, `MarkIdle`, `PutBack`, `Leave` are the statements of `Pool.Exec`,
  `Worker.Exec` and `Engine.Execute` that other goroutines can see;
- the set `routines`: goroutines started with `go` that run `w.Stop()`
  (`StoreStopped`, `ShutdownEngine`), `removeWorker` (`RemoveWorker`),
  `spawnWorker` (`SpawnReplacement`) and the send on the channel (`Send`), and
  the sends of the watchdog and of `Reload`;
- the watchdog (`Tick`, `Decide`, `ScaleUp`, `ScaleDown`, `WatchdogExit`), the
  SIGUSR1 loop (`ReloadBegin`, `ReloadSpawn`, `ReloadReturn`), one drain
  goroutine per reload (`DrainNext`), and `main` (`BeginShutdown`,
  `CancelPool`, `StopWorkers`, `CloseQueue`, `Exit`).

An action is one atomic load or store, one critical section or one channel
operation, except that the receive of `Exec` and the `busyWorkers.Add(1)` after it
are one: `Stats` reads the counter apart from everything else.  A send blocks while the channel is full and panics once it is
closed: in a handler `CoreMiddleware` recovers (`reply = "panic"`), elsewhere
the process dies (`crashed`).  Receiving from the closed channel yields nil.
The engine's lock is `Executing`: `Shutdown` waits while a script runs.

Abstractions.  Statements of one goroutine that no other can observe are
merged.  `spawnWorker` is one step, ended by the registration under the lock;
ids are compared for equality only.  The test of `p.ctx.Err()` in
`replaceWorker` is merged with `removeWorker`, which is the last moment before
it; the spawn that follows is a step of its own, so a cancellation in between
is possible, as in the code.  `jobs` is not counted when there is no limit.
Spawning never fails: `Startup` returns no error, and a configuration that
passed `Validate` selects a version `NewEngine` knows.  A request starts only
while the server serves: one that arrives on an open connection while `srv.Stop`
drains would be one more handler it waits for.  HTTP/3, whose listener closes
without waiting for its handlers, is left out.

### ResponsePath

A response is a record of a `compressWriter`, a connection and the
Content-Encoding header; `CompressWriteHeader`, `CompressWrite`,
`CompressClose` transform it as the methods do, and `NetWriteHeader`,
`NetWrite` are net/http as the code uses it (external).  Bodies are sequences
of chunk sizes, so that losing, repeating or keeping a chunk of another request
shows; each chunk is sent in a form, gzip or identity.  The pools of
`compressWriter`s and `mabooResponseWriter`s are sets of identities whose
fields persist between requests.  `Answers` are what the router's handlers can
answer: PHP (status 200 or another, any type, a body of one chunk, an error of
`Exec`, a panic; 1xx and invalid codes are left out), static files,
health, and the metrics page, which is the one that never calls `WriteHeader`.
What PHP answers is an input, because `engine.Execute` still returns a
placeholder page; `Hints` says whether it may contain a preload Link.

### Lease

An abstract specification in two variables: the `place` of a worker in its life
(new, free, leased, retired) and the worker each request holds.  A worker is
created once, leased to one request at a time, and never leased again once it
is retired.  `WorkerPool` and `ProcessPool` define `Place` from their channel,
handlers and goroutines and instantiate `Lease` with it; `ImplementsLease` is
its specification under that mapping.  A worker that the drain of a reload has
stopped and left in the channel counts as free, which is what the code does with
it (`find_reload` is about the consequence).

### ProcessPool

`worker[w]` has the fields of `Worker` with its two pipes as sequences of
frames, `php[w]` is the process: where it is in `run()` and how many requests it
has counted.  `call[r]` is a caller of `Pool.Exec`, `run[r]` the goroutine it
started for `w.Exec`, which survives a timeout of its caller and may still read
from, or write to, the pipes of a worker that is being stopped.

- callers: `Take`, `GiveUp`, `TakeNil`, `Receive`, `Timeout`, `Abandon`,
  `AwaitReady`, `PutBack`; their goroutines: `RunWrite`, `RunRead`;
- PHP: `PHPRead`, `PHPRespond`, `PHPNext`; `Fault` is a crash, a hang or output
  that is not the frame expected (a handler that calls `send()` itself and so
  answers twice has the same effect);
- goroutines that stop, remove, spawn and send: `SendStop`, `StopReturns` (the
  process exits, or is killed after five seconds), `RemoveWorker`,
  `SpawnReplacement`, `Register`, `Send`;
- watchdog (`Tick`, `HealthCheck`, `Decide`, `ScaleUp`, `ScaleDown`,
  `WatchdogExit`), `Reload` (`ReloadBegin`, `ReloadSpawn`, `ReloadReturn`,
  `DrainNext`, and the abort after a failed spawn), `Stop` (`Cancel`,
  `StopWorkers`, `CloseQueue`).

`spawnWorker` takes two steps, for replacers, the watchdog and `Reload` alike.
`Spawn` is `cmd.Start`: the process is in `"boot"`, and one goroutine at `"boot"`
knows of it, waiting in `NewWorker`.  `Register` is the arrival of READY and the
registration.  In between the process may hang for good (`BootHangs`, `"stuck"`),
since that wait has no timeout, or end or write something else, and then
`NewWorker` kills it and the spawn fails (`BootFails`); a process may also not
start at all (`SpawnFails`).

Abstractions.  A frame is written and read in one step, so its encoding does
not show, nor does its size (`Wire` says for which sizes that is sound); a read fails on noise, at the end of the stream and after the
pipe was closed.  Frames carry the name of their request, which the code's do
not: it is there for `AnswerIsMine`.  `IsAlive` looks at `ProcessState`, which
only the `cmd.Wait` in `Stop` sets.  `SendStop` is one step; the code's write of
the STOP frame has no timeout and would wait on a pipe that is full, which takes
more than 64 KiB of unread input and is left out.  The module's header lists what
else is merged.

### Wire

Pure operators: `PutUint24` and `PutUint32` are the size fields `WriteFrame`
fills, byte by byte, `Uint24` and `Uint32` what `readFrame` makes of them,
`Written` and `Consumed` the number of bytes either side counts for the frame.
The Go reader and the PHP writer compute the same.  Contents are left out; the
reference definition is that a size is read as it was written (`CutAsComposed`).
Frames in `ProcessPool` carry no sizes; this module is the argument for it, proved
for all sizes (`FramesApart`) and evaluated by TLC at the edges, as the assumption
`WireEdges` of `MCProcessPool`.

### Watcher

`Scan` and `Visit` are the two walks, file by file in any order, with `Write`
and `Delete` of anybody in between; `WalkEnds` looks for deleted files and
replaces `mtimes`; `OnChange` is the reload, from which on workers read the
files as they are (`covered`); the callback has no result, so a reload that failed
inside it counts as well.  `Backdating` and `Fleeting` allow the two kinds of edits
the watcher cannot notice; without `Backdating` every write leaves a later time,
also later than a write within the same tick of a coarse clock.

### WebSocketRooms

`clients`, `rooms` and `clientRooms` are the manager's, one action per critical
section.  The goroutine of a connection registers it, forwards connect, reads
messages, answers what PHP returns (broadcasts to a copy of the members), and on
an error or the end of the connection removes it and forwards close.  `job` is
the copy a goroutine is still writing to, outside the lock; a peer that does not
read makes the write wait.  `phpForward` is a parameter of the manager
(external): it delivers the event to the PHP server, or fails, which the code
logs or ignores.  `connections` is the table of `WebSocket\Server`; `events` and
`lost` are history.

## 3. Runs

Passing runs:

| run | instance | shows |
|---|---|---|
| `pool_reload` | 2 handlers, 1..2 workers, recycled after 1 job, 3 spawns, 1 reload | `TypeOK`, `SoleCustody`, `NoWorkerLost`, `NoOrphanEngine`, `EngineUpWhileRunning`, `RecycleBound`, `ImplementsLease` |
| `pool_shutdown` | 2 handlers, recycling, SIGTERM, the deadline may expire | `EngineUpWhileRunning`, `NoFailedRequest`; custody and loss during a shutdown are left to the theorems |
| `pool_scaling` | 3 handlers, 1..3 workers, no recycling, fair | `SizeWithinBounds`, `SendsNeverBlock`, `ExecReturns`, no deadlock |
| `pool_stop_live` | 1 handler, 1 worker, 1 reload, SIGTERM, fair | `ShutdownCompletes`, `StopReachesAll` |
| `process_pool` | 2 requests, 1..2 workers of 2 jobs, timeouts, the memory limit, 1 fault, ticks | `TypeOK`, `AnswerIsMine`, `InStep`, `NoWorkerLost`, `NoOrphanProcess`, `LimitsAreInvisible`, `ImplementsLease` |
| `process_live` | 1 request, 1 worker, timeout, 1 fault, 1 reload, `Stop`, fair | `NoWorkerLost`, `NoOrphanProcess`, `ExecReturns`, `PoolRecovers`, `StopEndsProcess` |
| `watcher` | 2 watched files and another, 5 edits, fair | `TypeOK`, `NoMissedChange`, `ChangesAreLoaded`, `ReloadsEnd` |
| `websocket` | 2 connections, 2 rooms, events may be lost, peers stall and go, fair | `TypeOK`, `RoomsMirror`, `EventsInOrder`, `TablesAgree`, `DisconnectNoticed` |
| `response` | 3 requests on 2 goroutines | `TypeOK`, `WritersUnshared`, `ResponseIntact`, `StatusDelivered` |

Runs that TLC refutes, each against a promise of the documentation:

| run | promise | what happens |
|---|---|---|
| `find_reload` | zero-downtime reload | the drain stops an idle worker that stays in the channel, where a waiting `Exec` is offered it: the request that receives it fails with "engine not started" (so does one that has received a worker and not yet marked it busy) |
| `find_crash` | graceful shutdown | a replacer sends on the closed channel and the process panics |
| `find_hints` | the main response follows a 103 | `compressWriter` takes 103 for the status and drops the real one; the client sees 200 |

What TLC also shows of these models, and no run is kept for:

- embedded pool: a scale-down during a reload takes a new worker and the drain
  then removes the old ones, so that fewer than `min_workers` are left, even
  none; with `min_workers = max_workers` a reload fills the channel and a
  handler waits to give its worker back until another request comes; in request
  mode (`Mode = "request"`) nothing starts an engine and every request fails;
  the pool exceeds `max_workers` when the watchdog counts between a replacer's
  removal and its spawn; `IdleWorkers` is -1 between the removal of a recycled
  worker and the end of its request; a worker spawned after `Stop` copied the
  list is not stopped;
- responses: the router writes the header first, after which `compressWriter`
  never compresses;
- process pool: a process that dies while idle is not found by the health check,
  since nothing has called `cmd.Wait`; the next request takes the worker and
  fails, and only then is it replaced.  Neither wait for READY has a timeout: a
  process that hangs after its answer holds its caller for ever, and one that
  hangs before its first READY holds the goroutine that spawned it, unregistered,
  so that neither `Stop` nor `Reload` finds it.  When the spawn that should replace
  the last worker fails, the pool stays empty, because `autoScale` only looks at a
  pool with workers.  Once `Stop` has closed the channel a request still in the
  select gets a nil worker, and the process panics.
  `Reload`, the full channel and `Stop` behave as in the embedded pool;
- watcher: with `Backdating` a file replaced by one with an older time, with
  `Fleeting` a file that was loaded and deleted between two walks, is missed;
- WebSocket: after a close that was lost, PHP keeps the connection.

Bounds.  `MaxID` bounds the spawns, `MaxReloads` the SIGUSR1s, `MaxServed` the
requests.  Two handlers are enough for every race between requests: the pool's
code never looks at more than one other request; `pool_scaling` has as many as
workers, so that the pool is fully busy at its maximum.  Three ids with one initial
worker let a worker be recycled, scaled and reloaded in one behaviour; the
channel is both full and empty in every run.  `MaxWorkers` of the liveness runs
is small so that the channel fills.  The theorems below hold without bounds.
The process pool has two requests, the one whose
answer is late and the one that could get it; two ids, so that a replaced worker
and its replacement are in the pool together; two jobs, so that a worker is
used again before both ends give it up; and one fault (`MaxFaults`), which may
hit a process at any point, with one goroutine at a time that replaces a worker
(`MaxReplacers`; with two the run takes more than five minutes, so what two
replacers of one worker do is left to the theorems).  Reload and `Stop` come with one request in `process_live`,
because with two the state space is out of reach.  `MaxEdits` lets both watched
files be created, changed and deleted within one walk and the next.
`MaxMessages` and `MaxCalls` are 1: with two connections there are broadcasts of
both and of the program at once.
`EdgeSizes` of `Wire` are the sizes at which a byte of a field turns over, up to
those that no longer fit 24 bits; TLC's integers end before the 32 bits of the
payload do, so that edge is left to the theorem.
`MinSize` of `response` stands for 1024 bytes; chunks just below and at it, one
or two of them, reach the threshold exactly, by addition, or not at all.

`PromptStop` in `pool_scaling` says that a scale-down is over before the next
tick, five seconds later.  The worker it stops came out of the channel, so
without reloads nobody runs a script in it and the goroutine does not wait.

Deadlock is checked in `pool_scaling`.  In the other runs the bounds, or the
exit of the process, end a behaviour.

Fairness.  `FairSpec` assumes weak fairness of each handler once it is in
`Exec`, of the goroutines in `routines`, the watchdog after a tick, the reload
loop, each drain, and `main` after the signal: Go runs every goroutine that can
run, timers fire, and scripts end (`max_execution_time`; the placeholder
returns at once).  Nothing is assumed of what comes from outside: requests,
ticks, signals.  `ProcessPool` assumes the same of its goroutines, that timers
fire, the watchdog's included, that a PHP handler returns and a script says READY
unless it hangs, which is a fault; faults need not happen.  `Watcher` assumes that its goroutine
and its ticker go on, not that anybody edits a file or calls `Stop`.
`WebSocketRooms` assumes that goroutines go on and calls of `phpForward` return;
nothing of peers, which may stop reading for ever.

## 4. Theorems

Every invariant, every refinement and the safety property `StopReachesAll` that
the passing runs check are theorems, for all values of the constants, and two more
that no run checks, `CrashIsLate` and `CutAsComposed`:

| module | theorem | property |
|---|---|---|
| `WorkerPoolProofs` | `Invariance` | `IndInv` |
| | `TypeCorrect` | `TypeOK` |
| | `CustodyIsExclusive` | `SoleCustody` |
| | `NothingLost` | `NoWorkerLost` |
| | `NoOrphans` | `NoOrphanEngine` |
| | `EngineStaysUp` | `EngineUpWhileRunning` |
| | `JobsBounded` | `RecycleBound` |
| | `RequestsServed` | `NoFailedRequest` |
| | `SizeBounded` | `SizeWithinBounds` |
| | `RoomInQueue` | `SendsNeverBlock` |
| | `StopReaches` | `StopReachesAll` |
| | `CrashComesLate` | `CrashIsLate` |
| `WorkerPoolRefinement` | `PoolImplementsLease` | `ImplementsLease` |
| `LeaseProofs` | `LeaseIsExclusive` | `Exclusive` of `Lease` |
| `ProcessPoolProofs` | `PoolTypeOK` | `TypeOK` |
| | `ExecReturnsOwnAnswer` | `AnswerIsMine` |
| | `QueuedWorkersInStep` | `InStep` |
| | `PoolKeepsWorkers` | `NoWorkerLost` |
| | `PoolLeavesNoOrphan` | `NoOrphanProcess` |
| | `LimitsHidden` | `LimitsAreInvisible` |
| | `ProcessPoolImplementsLease` | `ImplementsLease` |
| | `FramesApart` | `CutAsComposed` for all sizes |
| `ResponsePathProofs` | `PathTypeOK` | `TypeOK` |
| | `PooledWritersUnshared` | `WritersUnshared` |
| | `ResponsesIntact` | `ResponseIntact` |
| | `StatusReaches` | `StatusDelivered`, if `~Hints` |
| `WebSocketRoomsProofs` | `RoomsTypeOK` | `TypeOK` |
| | `RoomsMirrorAlways` | `RoomsMirror` |
| | `TablesAgreeAlways` | `TablesAgree` |
| | `EventsInOrderAlways` | `EventsInOrder` |
| `WatcherProofs` | `WatcherTypeOK` | `TypeOK` |
| | `NoMissedChangeAlways` | `NoMissedChange`, if `OrderlyEdits` |

Assumptions.  Each rests on the assumptions of its module alone: what `Validate`
accepts, that the bounds are numbers and that the sets of handlers, requests,
connections and files are finite; `LeaseIsExclusive` on `NoWorker` not being a
worker.  Two hold under a condition that the code needs: `~Hints`, since
`find_hints` refutes `StatusDelivered` with early hints, and `OrderlyEdits`, the
negation of `Backdating` and `Fleeting`.

**Embedded pool.**  None of the properties is inductive alone.  `SoleCustody`
needs to know which handlers hold a worker (`HandlerState`) and that a new worker
is nowhere yet (`Fresh`).  `NoOrphanEngine` needs that a worker is removed after
its engine was shut down and that nothing starts it again
(`StopBeforeRemove`).  `RecycleBound` needs that a worker which can still be
handed out has jobs left, in the channel, with a handler or on its way to a
send (`JobsLeft`), and `SoleCustody` for two handlers not to count on one
worker.  `TypeOK` needs `HandlerState` for `busyWorkers`.  Their conjunction
`IndInv` is inductive; each part has a lemma with a case per action of `Next`.
`NoFailedRequest` is proved from `IndInv` and `QuietInv`: without reloads only
the owner of a worker shuts its engine down, so what can be handed out is up;
`Stop` begins when the last handler has left, or after the deadline.
`SizeWithinBounds` is proved from `IndInv` and `SizeInv`: `autoScale` acts on a
number it read earlier, but in its scenario nobody else changes the size, there
is one scale-down at most, it is over before the next tick reads the number, and
while it is under way the pool has a worker to spare.  A shutdown stops workers
without removing them, so the theorem covers it as well.

Three theorems are about what a goroutine that waits, or is late, may rely on.
`RoomInQueue`: in the scenario of `SizeWithinBounds` what is in the channel or in
somebody's hands is registered (`Registered`); the channel holds no worker twice
(`SoleCustody`), so its length is the cardinality of a set of workers that lacks
the one about to be sent, and that is less than `max_workers`.  With a reload
this is false, and the send waits.  `StopReaches` is a temporal formula but a safety property,
so it is within the prover's reach: from the moment `Stop` has the list, a worker
in it has a stop goroutine for as long as its engine is up, and `CloseQueue` waits
for those (`Reached`, kept by every step; nothing starts an engine twice).
`CrashComesLate` bounds the finding of `find_crash`: `LateInv` says that the
channel is closed last and that, without the deadline, every handler has left
by then, so the panic costs an exit code and no request.

**Refinement of `Lease`.**  A step of a pool maps to `Create` (a spawn), `Grant`
(a receive of `Exec`), `Release` (`Exec` hands its worker to the channel or to a
replacer), `Retire` (a worker taken out of circulation) or a stutter.  The lemmas say what a step does to the places a
worker can be in (channel, caller, sender, goroutine that retires it), from which
its `Place` follows; that at most one worker changes its place per step is
`SoleCustody` (`Custody` in the process pool).  With `LeaseIsExclusive` both
pools have exclusive leases as a consequence of their refinement.

**Process pool.**  `IndInv` has the parts of the embedded pool, for callers and
the goroutines of `w.Exec` that outlive them: `CallState`, `Fresh`, `Custody`,
`ExclusiveRuns` (a `w.Exec` whose caller timed out has its worker for itself),
`Kept`, `StopBeforeRemove`, `Shutdown`.  `Starts` is about `NewWorker`: each
process that has not said READY has one goroutine that waits for it, and each
such goroutine a process; `NoOrphanProcess` is kept because of it and of
`StopBeforeRemove`.  What is new is `Protocol`, which says how
far the two ends of a worker's pipes are with the request: rested, asked,
handling, answered, replied, or spoilt by noise that the next read will fail on.
It is stated on the records of one worker and one process, and so are the lemmas:
everything that can happen to one worker (`Progress`, and the write and the read
of `w.Exec`) takes each stage to itself or the next.  Only then do the proofs
about actions say which worker is touched.  `Counts` keeps the two ends' counts of
requests equal, and `Results` carries what was read to `AnswerIsMine`.
`LimitsAreInvisible` is proved from `IndInv` and `Quiet`: while nothing disturbs
the pool, only the owner of a worker stops it, so a process that can be handed
out runs its loop, and exits only after an answer, which ends its circulation.

**Wire.**  `FramesApart` is arithmetic: a number is 256 times its quotient plus
its byte (`Splits`), so the bytes of a field put together give the number back
except for what is above the field (`Kept24`, `Kept32`).  The reader and the
writer therefore agree if and only if the headers are shorter than 2^24 bytes and
the payload than 2^32; beyond that the reader takes less than was written and
finds the rest where it expects the next frame.  `WriteFrame` checks neither.

**Response path.**  `PathInv` says of each request: what its compressWriter has
buffered or its connection has received (`Passed`), followed by what the handler
has still to write, is the body; the response is `Consistent` (nothing is sent
before a status, all of it in the form committed, a compressWriter that has not
started holds everything); before `WriteHeader` the writers are as `reset` makes
them (`Untouched`); and after it, without hints, the status is committed
(`Committed`).  Lemmas about `SendHeader`, `SendChunk` and `CompressClose` on one
response do the work.  `WritersUnshared` gives that no step of another request
touches a writer in use.

**WebSocket.**  `RoomsMirror` needs that a connection that is not yet added is
in no room of either table (`NewIsNowhere`; the two and the types are
`RoomsInv`).  `TablesAgree` needs the phase of each connection's goroutine
(`PhaseInv`): only that goroutine forwards its events, so between connect and
close the two tables change together.  `EventsInOrder` needs in addition what
each phase says about the events so far (`StoryInv`).

**Watcher.**  `NoMissedChangeAlways` has to speak about the middle of a walk:
`WatchInv` says that a change not yet loaded is noticeable during the walk as
well, that a walk has flagged the changes of the files behind it (`Flagged`), and
that recorded times are never later than the disk's (`DiskIsLater`), which is
what `OrderlyEdits` is needed for.  `TypeOK` is inductive as it stands.

Every inductive invariant was model-checked before it was proved.

Only model-checked: the liveness properties `ExecReturns`, `ShutdownCompletes`,
`PoolRecovers`, `StopEndsProcess`, `ChangesAreLoaded`, `ReloadsEnd` and `DisconnectNoticed`, since
fairness and ENABLED are out of the prover's reach; and the three findings, which
are counterexamples.

## 5. Not modelled, and the plan

Not modelled: YAML parsing, version and entry point selection, request
contexts, TLS, ACME, HTTP/2 and HTTP/3 set-up, the bridges to frameworks (pure
functions, configuration of libraries, or state that lives elsewhere), the SAPI
stubs that nothing calls; msgpack and stream ids; the counters of `Metrics`;
`ExecStream` and `Ping` of a worker, which nothing calls; `Connection::close` of
the PHP SDK, whose frame no Go code reads.  `WebSocket\Server` answers without
the RESPONSE and READY that `Pool.Exec` waits for, so the two do not fit as they
are and are not composed.

Order of work:

1. `WorkerPool`: runs, inductive invariant, theorems and refinement (done).
2. `ResponsePath` (done).
3. `ProcessPool` and `Watcher` (done).
4. `WebSocketRooms` (done).
5. `Lease`: refinement by both pools (done).
6. `Wire`: the sizes of a frame (done).  Left: the metrics histogram as operators
   against a reference definition.
7. What a goroutine that waits may rely on, as safety theorems: `SendsNeverBlock`,
   `StopReachesAll`, `CrashIsLate` (done for the embedded pool).  Left: the same
   for the stop goroutines of the process pool, whose `Stop` kills a process after
   five seconds, and for a drain goroutine, which never waits for a worker it owns.
