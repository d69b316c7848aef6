----------------------------- MODULE WorkerPool -----------------------------
(***************************************************************************)
(* The embedded PHP worker pool of maboo: internal/worker/pool.go,         *)
(* internal/worker/worker.go and internal/phpengine/engine.go, driven by   *)
(* the HTTP handlers that call Pool.Exec and by cmd/maboo/main.go, which   *)
(* reloads the pool on SIGUSR1 and stops it on SIGTERM.                    *)
(*                                                                         *)
(* Every goroutine of the code is a process here: one per HTTP handler     *)
(* (Clients), the watchdog, the SIGUSR1 loop, main, and the short-lived    *)
(* goroutines started with `go` (the set routines).  One action is one     *)
(* access to state another goroutine can see: an atomic load or store, a   *)
(* critical section of p.mu or of the engine's lock, a channel operation.  *)
(* The receive of Exec and the busyWorkers.Add after it are one: only      *)
(* Stats reads the counter, at a moment of its own anyway.                 *)
(*                                                                         *)
(* A worker is its id.  Ids are compared for equality only, so giving the  *)
(* smaller id to the spawn that registers first loses nothing: p.workers   *)
(* is then always sorted by id and is modelled as a set.                   *)
(*                                                                         *)
(* Left out: totalRequests and activeWorkers (written, never read by the   *)
(* pool), logging, and the error returns of spawnWorker: Startup has none, *)
(* and NewEngine accepts every version SelectVersion can return for a      *)
(* configuration that passed Validate.                                     *)
(***************************************************************************)
EXTENDS Integers, Sequences, FiniteSets, Functions

CONSTANTS
    Clients,         \* the HTTP handler goroutines
    MinWorkers,      \* pool.min_workers
    MaxWorkers,      \* pool.max_workers, the capacity of p.available
    MaxJobs,         \* pool.max_jobs; 0 means workers are never recycled
    Mode,            \* php.mode
    MaxID,           \* bound: how many workers a behaviour may spawn
    MaxReloads,      \* bound: how many SIGUSR1 a behaviour handles
    ShutdownSignal,  \* does a behaviour receive SIGINT or SIGTERM?
    DeadlineExpires, \* may the 30 s given to srv.Stop run out?
    PromptStop       \* does a scale-down end before the next 5 s tick?

\* What config.Validate accepts.
ASSUME PoolConfig ==
    /\ MinWorkers \in Nat /\ MinWorkers >= 1
    /\ MaxWorkers \in Nat /\ MaxWorkers >= MinWorkers
    /\ MaxJobs \in Nat
    /\ Mode \in {"worker", "request"}

\* The bounds and the switches that select a scenario.
ASSUME Scenario ==
    /\ MaxID \in Nat /\ MaxID >= MinWorkers
    /\ MaxReloads \in Nat
    /\ {ShutdownSignal, DeadlineExpires, PromptStop} \subseteq BOOLEAN

ASSUME ClientsFinite == IsFiniteSet(Clients)

Worker == 1 .. MaxID
NoWorker == 0

VARIABLES
    \* Pool
    workers,      \* p.workers, the registered workers
    available,    \* the buffered channel p.available, oldest first
    closed,       \* has p.available been closed?
    cancelled,    \* has p.ctx been cancelled?
    nextID,       \* p.nextID
    busyWorkers,  \* p.busyWorkers
    \* Worker and Engine, by worker id
    state,        \* w.state
    jobs,         \* w.jobs
    started,      \* w.engine.started
    \* HTTP handler goroutines
    pc,           \* where in Pool.Exec the handler is
    held,         \* the worker it received, or NoWorker
    reply,        \* how its last Exec ended
    \* The other goroutines
    routines,     \* goroutines stopping a worker or blocked on a send
    watchdog,     \* where the watchdog is
    seenTotal,    \* stats.TotalWorkers(), as autoScale read it
    reloading,    \* is the SIGUSR1 loop inside Reload?
    reloads,      \* how many times it has called Reload
    toSpawn,      \* turns of the spawn loop of Reload that are left
    oldWorkers,   \* the copy of p.workers that Reload took
    draining,     \* per reload, the old workers its drain goroutine has left
    main,         \* how far main has got with the shutdown
    crashed       \* did a panic that nobody recovers kill the process?

queueVars == <<available, closed>>
engineVars == <<state, jobs, started>>
clientVars == <<pc, held, reply>>
watchdogVars == <<watchdog, seenTotal>>
reloadVars == <<reloading, reloads, toSpawn, oldWorkers, draining>>
controlVars == <<watchdogVars, reloadVars, main, crashed>>
vars == <<workers, queueVars, cancelled, nextID, busyWorkers, engineVars,
          clientVars, routines, controlVars>>

-----------------------------------------------------------------------------
(***************************************************************************)
(* A goroutine of the set routines.  It runs w.Stop() (store, then         *)
(* shutdown), then p.removeWorker(w), then, for a replacement, spawns, and *)
(* last sends the new worker on p.available.  A send belongs to the        *)
(* goroutine that spawned: a replacer, the watchdog or the SIGUSR1 loop.   *)
(* `by` tells the drain goroutines of successive reloads apart.            *)
(***************************************************************************)
Stage == {"store", "shutdown", "remove", "spawn", "send"}
Job == {"replace", "scaleUp", "scaleDown", "reload", "drain", "stop"}
Routine == [job : Job, by : 0 .. MaxReloads, w : Worker, at : Stage]

Stopper(j, k, w) == [job |-> j, by |-> k, w |-> w, at |-> "store"]
At(g, stage) == [g EXCEPT !.at = stage]
Sender(j, w) == [job |-> j, by |-> 0, w |-> w, at |-> "send"]
Running == ~crashed /\ main # "stopped"
Pending(j) == \E g \in routines : g.job = j
Full == Len(available) >= MaxWorkers
Total == Cardinality(workers)

\* Mutant: scripts run without the engine's lock.
ExecutingUnlocked(w) == FALSE

\* w.Exec holds the engine's read lock while the script runs.
Executing(w) == \E c \in Clients : pc[c] = "running" /\ held[c] = w

TypeOK ==
    /\ workers \subseteq Worker
    /\ available \in Seq(Worker) /\ Len(available) <= MaxWorkers
    /\ closed \in BOOLEAN
    /\ cancelled \in BOOLEAN
    /\ nextID \in 0 .. MaxID
    /\ busyWorkers \in 0 .. Cardinality(Clients)
    /\ state \in [Worker -> {"Idle", "Busy", "Stopped"}]
    /\ jobs \in [Worker -> Nat]
    /\ started \in [Worker -> BOOLEAN]
    /\ pc \in [Clients -> {"out", "select", "took", "marked", "running",
                           "ran", "put", "leave"}]
    /\ held \in [Clients -> Worker \cup {NoWorker}]
    /\ reply \in [Clients -> {"none", "ok", "engine", "timeout",
                              "shutdown", "panic"}]
    /\ routines \subseteq Routine
    /\ watchdog \in {"wait", "stats", "up", "down", "exit"}
    /\ seenTotal \in Nat
    /\ reloading \in BOOLEAN
    /\ reloads \in 0 .. MaxReloads
    /\ toSpawn \in 0 .. MinWorkers
    /\ oldWorkers \subseteq Worker
    /\ draining \in [1 .. MaxReloads -> SUBSET Worker]
    /\ main \in {"serving", "draining", "cancelled", "stopping", "closed",
                 "stopped"}
    /\ crashed \in BOOLEAN

\* The pool as Start leaves it: MinWorkers workers spawned and queued.
Init ==
    /\ workers = 1 .. MinWorkers
    /\ available = [i \in 1 .. MinWorkers |-> i]
    /\ closed = FALSE
    /\ cancelled = FALSE
    /\ nextID = MinWorkers
    /\ busyWorkers = 0
    /\ state = [w \in Worker |-> "Idle"]
    /\ jobs = [w \in Worker |-> 0]
    /\ started = [w \in Worker |-> Mode = "worker" /\ w <= MinWorkers]
    /\ pc = [c \in Clients |-> "out"]
    /\ held = [c \in Clients |-> NoWorker]
    /\ reply = [c \in Clients |-> "none"]
    /\ routines = {}
    /\ watchdog = "wait"
    /\ seenTotal = 0
    /\ reloading = FALSE
    /\ reloads = 0
    /\ toSpawn = 0
    /\ oldWorkers = {}
    /\ draining = [k \in 1 .. MaxReloads |-> {}]
    /\ main = "serving"
    /\ crashed = FALSE

-----------------------------------------------------------------------------
(* Pool.Exec, in the goroutine of the HTTP handler c.                      *)

\* A request reaches the PHP handler, which calls Exec.
Call(c) ==
    /\ Running /\ main = "serving"
    /\ pc[c] = "out"
    /\ pc' = [pc EXCEPT ![c] = "select"]
    /\ reply' = [reply EXCEPT ![c] = "none"]
    /\ UNCHANGED <<workers, queueVars, cancelled, nextID, busyWorkers,
                   engineVars, held, routines, controlVars>>

\* w = <-p.available, then busyWorkers.Add(1).
Take(c) ==
    /\ Running
    /\ pc[c] = "select"
    /\ available # <<>>
    /\ held' = [held EXCEPT ![c] = Head(available)]
    /\ available' = Tail(available)
    /\ busyWorkers' = busyWorkers + 1
    /\ pc' = [pc EXCEPT ![c] = "took"]
    /\ UNCHANGED <<workers, closed, cancelled, nextID, engineVars, reply,
                   routines, controlVars>>

\* Mutant: Exec waits for a worker without allocate_timeout.
GiveUpUntimed(c) ==
    /\ Running
    /\ pc[c] = "select"
    /\ \E r \in {"shutdown", "panic"} :
          /\ r = "shutdown" => cancelled
          /\ r = "panic" => closed /\ available = <<>>
          /\ reply' = [reply EXCEPT ![c] = r]
    /\ pc' = [pc EXCEPT ![c] = "out"]
    /\ UNCHANGED <<workers, queueVars, cancelled, nextID, busyWorkers,
                   engineVars, held, routines, controlVars>>

\* Exec ends early: nothing was received within allocate_timeout, or p.ctx is
\* done, or the closed channel yields nil and w.Exec panics (recovered by
\* CoreMiddleware, after the deferred busyWorkers.Add(-1)).
GiveUp(c) ==
    /\ Running
    /\ pc[c] = "select"
    /\ \E r \in {"timeout", "shutdown", "panic"} :
          /\ r = "shutdown" => cancelled
          /\ r = "panic" => closed /\ available = <<>>
          /\ reply' = [reply EXCEPT ![c] = r]
    /\ pc' = [pc EXCEPT ![c] = "out"]
    /\ UNCHANGED <<workers, queueVars, cancelled, nextID, busyWorkers,
                   engineVars, held, routines, controlVars>>

\* w.state.Store(StateBusy).
MarkBusy(c) ==
    /\ Running
    /\ pc[c] = "took"
    /\ state' = [state EXCEPT ![held[c]] = "Busy"]
    /\ pc' = [pc EXCEPT ![c] = "marked"]
    /\ UNCHANGED <<workers, queueVars, cancelled, nextID, busyWorkers, jobs,
                   started, held, reply, routines, controlVars>>

\* engine.Execute takes the read lock and looks at started.
Enter(c) ==
    /\ Running
    /\ pc[c] = "marked"
    /\ IF started[held[c]]
       THEN pc' = [pc EXCEPT ![c] = "running"] /\ UNCHANGED reply
       ELSE /\ pc' = [pc EXCEPT ![c] = "ran"]
            /\ reply' = [reply EXCEPT ![c] = "engine"]
    /\ UNCHANGED <<workers, queueVars, cancelled, nextID, busyWorkers,
                   engineVars, held, routines, controlVars>>

\* engine.Execute returns a response and w.jobs.Add(1).  Only NeedsRecycle
\* reads jobs, so they are not counted when there is no limit.
Finish(c) ==
    /\ Running
    /\ pc[c] = "running"
    /\ jobs' = [jobs EXCEPT ![held[c]] = IF MaxJobs > 0 THEN @ + 1 ELSE @]
    /\ reply' = [reply EXCEPT ![c] = "ok"]
    /\ pc' = [pc EXCEPT ![c] = "ran"]
    /\ UNCHANGED <<workers, queueVars, cancelled, nextID, busyWorkers, state,
                   started, held, routines, controlVars>>

\* Mutant: one job too many.
NeedsRecycleLate(w) == MaxJobs > 0 /\ jobs[w] > MaxJobs

NeedsRecycle(w) == MaxJobs > 0 /\ jobs[w] >= MaxJobs

\* Mutant: the worker is put back and replaced.
MarkIdlePutBack(c) ==
    /\ Running
    /\ pc[c] = "ran"
    /\ state' = [state EXCEPT ![held[c]] = "Idle"]
    /\ pc' = [pc EXCEPT ![c] = "put"]
    /\ routines' = IF NeedsRecycle(held[c])
                   THEN routines \cup {Stopper("replace", 0, held[c])}
                   ELSE routines
    /\ UNCHANGED <<workers, queueVars, cancelled, nextID, busyWorkers, jobs,
                   started, held, reply, controlVars>>

\* The deferred w.state.Store(StateIdle), then the test of NeedsRecycle: a
\* worn-out worker is left to a replacer, another goes back to the channel.
MarkIdle(c) ==
    /\ Running
    /\ pc[c] = "ran"
    /\ state' = [state EXCEPT ![held[c]] = "Idle"]
    /\ IF NeedsRecycle(held[c])
       THEN /\ routines' = routines \cup {Stopper("replace", 0, held[c])}
            /\ held' = [held EXCEPT ![c] = NoWorker]
            /\ pc' = [pc EXCEPT ![c] = "leave"]
       ELSE /\ pc' = [pc EXCEPT ![c] = "put"]
            /\ UNCHANGED <<held, routines>>
    /\ UNCHANGED <<workers, queueVars, cancelled, nextID, busyWorkers, jobs,
                   started, reply, controlVars>>

\* p.available <- w: blocks while the channel is full, panics once it is
\* closed (recovered by CoreMiddleware; the worker is dropped).
PutBack(c) ==
    /\ Running
    /\ pc[c] = "put"
    /\ \/ /\ closed
          /\ reply' = [reply EXCEPT ![c] = "panic"]
          /\ UNCHANGED available
       \/ /\ ~closed /\ ~Full
          /\ available' = Append(available, held[c])
          /\ UNCHANGED reply
    /\ held' = [held EXCEPT ![c] = NoWorker]
    /\ pc' = [pc EXCEPT ![c] = "leave"]
    /\ UNCHANGED <<workers, closed, cancelled, nextID, busyWorkers,
                   engineVars, routines, controlVars>>

\* Mutant: busyWorkers is decremented here and by a defer.
LeaveTwice(c) ==
    /\ Running
    /\ pc[c] = "leave"
    /\ busyWorkers' = busyWorkers - 2
    /\ pc' = [pc EXCEPT ![c] = "out"]
    /\ UNCHANGED <<workers, queueVars, cancelled, nextID, engineVars, held,
                   reply, routines, controlVars>>

\* The deferred busyWorkers.Add(-1); the handler writes its response.
Leave(c) ==
    /\ Running
    /\ pc[c] = "leave"
    /\ busyWorkers' = busyWorkers - 1
    /\ pc' = [pc EXCEPT ![c] = "out"]
    /\ UNCHANGED <<workers, queueVars, cancelled, nextID, engineVars, held,
                   reply, routines, controlVars>>

-----------------------------------------------------------------------------
(* spawnWorker, Worker.Stop, removeWorker and the goroutines that run them.*)

\* Moving goroutine g on: it is replaced by the goroutines in new.
Become(g, new) == routines' = (routines \ {g}) \cup new

\* A new worker: NewWorker, engine.Startup in worker mode only, registration
\* under p.mu.  The caller then sends it on p.available.
Spawn(g, job) ==
    LET w == nextID + 1
    IN  /\ nextID < MaxID
        /\ nextID' = w
        /\ started' = [started EXCEPT ![w] = (Mode = "worker")]
        /\ workers' = workers \cup {w}
        /\ routines' = (routines \ g) \cup {Sender(job, w)}

\* w.Stop(): w.state.Store(StateStopped).
StoreStopped(g) ==
    /\ Running
    /\ g.at = "store"
    /\ state' = [state EXCEPT ![g.w] = "Stopped"]
    /\ Become(g, {At(g, "shutdown")})
    /\ UNCHANGED <<workers, queueVars, cancelled, nextID, busyWorkers, jobs,
                   started, clientVars, controlVars>>

\* Mutant: the engine of a stopped worker is not shut down.
ShutdownForgotten(g) ==
    /\ Running
    /\ g.at = "shutdown"
    /\ Become(g, IF g.job = "stop" THEN {} ELSE {At(g, "remove")})
    /\ UNCHANGED <<workers, queueVars, cancelled, nextID, busyWorkers,
                   engineVars, clientVars, controlVars>>

\* w.Stop(): engine.Shutdown waits for the write lock.  The goroutines of
\* Pool.Stop end here.
ShutdownEngine(g) ==
    /\ Running
    /\ g.at = "shutdown"
    /\ ~Executing(g.w)
    /\ started' = [started EXCEPT ![g.w] = FALSE]
    /\ Become(g, IF g.job = "stop" THEN {} ELSE {At(g, "remove")})
    /\ UNCHANGED <<workers, queueVars, cancelled, nextID, busyWorkers, state,
                   jobs, clientVars, controlVars>>

\* Mutant: the stopped worker stays registered.
RemoveForgotten(g) ==
    /\ Running
    /\ g.at = "remove"
    /\ Become(g, IF g.job = "replace" /\ ~cancelled
                 THEN {At(g, "spawn")} ELSE {})
    /\ UNCHANGED <<workers, queueVars, cancelled, nextID, busyWorkers,
                   engineVars, clientVars, controlVars>>

\* p.removeWorker(w).  Scale-down and drain goroutines end here; a replacer
\* goes on to spawn unless p.ctx is done.
RemoveWorker(g) ==
    /\ Running
    /\ g.at = "remove"
    /\ workers' = workers \ {g.w}
    /\ Become(g, IF g.job = "replace" /\ ~cancelled
                 THEN {At(g, "spawn")} ELSE {})
    /\ UNCHANGED <<queueVars, cancelled, nextID, busyWorkers, engineVars,
                   clientVars, controlVars>>

\* The replacer spawns the replacement.
SpawnReplacement(g) ==
    /\ Running
    /\ g.at = "spawn"
    /\ Spawn({g}, "replace")
    /\ UNCHANGED <<queueVars, cancelled, busyWorkers, state, jobs, clientVars,
                   controlVars>>

\* p.available <- w outside Exec: nothing recovers the panic of a send on a
\* closed channel, which ends the process.
Send(g) ==
    /\ Running
    /\ g.at = "send"
    /\ \/ closed /\ crashed' = TRUE /\ UNCHANGED <<available, routines>>
       \/ /\ ~closed /\ ~Full
          /\ available' = Append(available, g.w)
          /\ Become(g, {})
          /\ UNCHANGED crashed
    /\ UNCHANGED <<workers, closed, cancelled, nextID, busyWorkers,
                   engineVars, clientVars, watchdogVars, reloadVars, main>>

-----------------------------------------------------------------------------
(* watchdog and autoScale.                                                 *)

\* A tick; Stats reads len(p.workers) under the lock.  The previous autoScale
\* has returned, its send on p.available included.
Tick ==
    /\ Running
    /\ watchdog = "wait"
    /\ ~Pending("scaleUp")
    /\ PromptStop => ~Pending("scaleDown")
    /\ watchdog' = "stats"
    /\ seenTotal' = Total
    /\ UNCHANGED <<workers, queueVars, cancelled, nextID, busyWorkers,
                   engineVars, clientVars, routines, reloadVars, main, crashed>>

\* Mutant: autoScale compares with <=.
ScaleDecisionOverMax(busy, total) ==
    IF total > 0 /\ 100 * busy >= 80 * total /\ total <= MaxWorkers THEN "up"
    ELSE IF total > 0 /\ 100 * busy <= 20 * total /\ total > MinWorkers
         THEN "down" ELSE "wait"

\* The two conditions of autoScale, which exclude each other.
ScaleDecision(busy, total) ==
    IF total > 0 /\ 100 * busy >= 80 * total /\ total < MaxWorkers THEN "up"
    ELSE IF total > 0 /\ 100 * busy <= 20 * total /\ total > MinWorkers
         THEN "down" ELSE "wait"

\* Stats then reads busyWorkers, and autoScale decides on the two numbers.
Decide ==
    /\ Running
    /\ watchdog = "stats"
    /\ watchdog' = ScaleDecision(busyWorkers, seenTotal)
    /\ seenTotal' = 0
    /\ UNCHANGED <<workers, queueVars, cancelled, nextID, busyWorkers,
                   engineVars, clientVars, routines, reloadVars, main, crashed>>

ScaleUp ==
    /\ Running
    /\ watchdog = "up"
    /\ Spawn({}, "scaleUp")
    /\ watchdog' = "wait"
    /\ UNCHANGED <<queueVars, cancelled, busyWorkers, state, jobs, clientVars,
                   seenTotal, reloadVars, main, crashed>>

\* A non-blocking receive; the worker is stopped and removed by a goroutine.
\* A closed and drained channel yields nil, whose Stop panics there.
ScaleDown ==
    /\ Running
    /\ watchdog = "down"
    /\ watchdog' = "wait"
    /\ \/ /\ available # <<>>
          /\ available' = Tail(available)
          /\ routines' = routines
                            \cup {Stopper("scaleDown", 0, Head(available))}
          /\ UNCHANGED crashed
       \/ /\ available = <<>>
          /\ crashed' = closed
          /\ UNCHANGED <<available, routines>>
    /\ UNCHANGED <<workers, closed, cancelled, nextID, busyWorkers,
                   engineVars, clientVars, seenTotal, reloadVars, main>>

\* The watchdog sees p.ctx.Done().
WatchdogExit ==
    /\ Running
    /\ cancelled
    /\ watchdog = "wait"
    /\ ~Pending("scaleUp")
    /\ watchdog' = "exit"
    /\ UNCHANGED <<workers, queueVars, cancelled, nextID, busyWorkers,
                   engineVars, clientVars, routines, seenTotal, reloadVars,
                   main, crashed>>

-----------------------------------------------------------------------------
(* Pool.Reload, called by the SIGUSR1 loop of main one signal at a time.   *)

\* SIGUSR1; Reload copies p.workers.
ReloadBegin ==
    /\ Running
    /\ ~reloading
    /\ reloads < MaxReloads
    /\ reloading' = TRUE
    /\ reloads' = reloads + 1
    /\ toSpawn' = MinWorkers
    /\ oldWorkers' = workers
    /\ UNCHANGED <<workers, queueVars, cancelled, nextID, busyWorkers,
                   engineVars, clientVars, routines, watchdogVars, draining,
                   main, crashed>>

\* One turn of the loop that spawns MinWorkers new workers; the previous
\* turn's send has gone through.
ReloadSpawn ==
    /\ Running
    /\ reloading /\ toSpawn > 0
    /\ ~Pending("reload")
    /\ Spawn({}, "reload")
    /\ toSpawn' = toSpawn - 1
    /\ UNCHANGED <<queueVars, cancelled, busyWorkers, state, jobs, clientVars,
                   watchdogVars, reloading, reloads, oldWorkers, draining,
                   main, crashed>>

\* Reload starts the goroutine that drains the old workers, and returns.
ReloadReturn ==
    /\ Running
    /\ reloading /\ toSpawn = 0
    /\ ~Pending("reload")
    /\ draining' = [draining EXCEPT ![reloads] = oldWorkers]
    /\ reloading' = FALSE
    /\ oldWorkers' = {}
    /\ UNCHANGED <<workers, queueVars, cancelled, nextID, busyWorkers,
                   engineVars, clientVars, routines, watchdogVars, reloads,
                   toSpawn, main, crashed>>

\* The drain goroutine of reload k takes its old workers in slice order; it
\* has waited until w.State() is not StateBusy and now calls w.Stop().
DrainNext(k) ==
    /\ Running
    /\ \A g \in routines : ~(g.job = "drain" /\ g.by = k)
    /\ \E w \in draining[k] :
          /\ \A v \in draining[k] : w <= v
          /\ state[w] # "Busy"
          /\ draining' = [draining EXCEPT ![k] = @ \ {w}]
          /\ routines' = routines \cup {Stopper("drain", k, w)}
    /\ UNCHANGED <<workers, queueVars, cancelled, nextID, busyWorkers,
                   engineVars, clientVars, watchdogVars, reloading, reloads,
                   toSpawn, oldWorkers, main, crashed>>

-----------------------------------------------------------------------------
(* The shutdown of main: srv.Stop, then Pool.Stop, then the process ends.  *)

\* SIGINT or SIGTERM; srv.Stop closes the listeners.
BeginShutdown ==
    /\ Running
    /\ ShutdownSignal
    /\ main = "serving"
    /\ main' = "draining"
    /\ UNCHANGED <<workers, queueVars, cancelled, nextID, busyWorkers,
                   engineVars, clientVars, routines, watchdogVars, reloadVars,
                   crashed>>

\* Mutant: srv.Stop is given a context without a deadline.
CancelPoolUnbounded ==
    /\ Running
    /\ main = "draining"
    /\ \A c \in Clients : pc[c] = "out"
    /\ main' = "cancelled"
    /\ cancelled' = TRUE
    /\ UNCHANGED <<workers, queueVars, nextID, busyWorkers, engineVars,
                   clientVars, routines, watchdogVars, reloadVars, crashed>>

\* srv.Stop returns when every handler has, or when its 30 s are over;
\* Pool.Stop cancels p.ctx.
CancelPool ==
    /\ Running
    /\ main = "draining"
    /\ DeadlineExpires \/ \A c \in Clients : pc[c] = "out"
    /\ main' = "cancelled"
    /\ cancelled' = TRUE
    /\ UNCHANGED <<workers, queueVars, nextID, busyWorkers, engineVars,
                   clientVars, routines, watchdogVars, reloadVars, crashed>>

\* Mutant: Pool.Stop stops the workers it finds in the channel.
StopWorkersQueued ==
    /\ Running
    /\ main = "cancelled"
    /\ main' = "stopping"
    /\ routines' = routines
                      \cup {Stopper("stop", 0, w) : w \in Range(available)}
    /\ UNCHANGED <<workers, queueVars, cancelled, nextID, busyWorkers,
                   engineVars, clientVars, watchdogVars, reloadVars, crashed>>

\* Pool.Stop copies p.workers and starts one goroutine per worker.
StopWorkers ==
    /\ Running
    /\ main = "cancelled"
    /\ main' = "stopping"
    /\ routines' = routines \cup {Stopper("stop", 0, w) : w \in workers}
    /\ UNCHANGED <<workers, queueVars, cancelled, nextID, busyWorkers,
                   engineVars, clientVars, watchdogVars, reloadVars, crashed>>

\* wg.Wait() returns and Pool.Stop closes p.available.
CloseQueue ==
    /\ Running
    /\ main = "stopping"
    /\ ~Pending("stop")
    /\ closed' = TRUE
    /\ main' = "closed"
    /\ UNCHANGED <<workers, available, cancelled, nextID, busyWorkers,
                   engineVars, clientVars, routines, watchdogVars, reloadVars,
                   crashed>>

\* serve returns: the process exits and every goroutine with it.
Exit ==
    /\ Running
    /\ main = "closed"
    /\ main' = "stopped"
    /\ UNCHANGED <<workers, queueVars, cancelled, nextID, busyWorkers,
                   engineVars, clientVars, routines, watchdogVars, reloadVars,
                   crashed>>

-----------------------------------------------------------------------------
\* What a handler does once it is in Exec, Call left out.
Exec(c) ==
    \/ Take(c)
    \/ GiveUp(c)
    \/ MarkBusy(c)
    \/ Enter(c)
    \/ Finish(c)
    \/ MarkIdle(c)
    \/ PutBack(c)
    \/ Leave(c)

RoutineStep(g) ==
    \/ StoreStopped(g)
    \/ ShutdownEngine(g)
    \/ RemoveWorker(g)
    \/ SpawnReplacement(g)
    \/ Send(g)

AutoScale == Decide \/ ScaleUp \/ ScaleDown \/ WatchdogExit

Reload == ReloadSpawn \/ ReloadReturn

Stop == CancelPool \/ StopWorkers \/ CloseQueue \/ Exit

Next ==
    \/ \E c \in Clients : Call(c) \/ Exec(c)
    \/ \E g \in routines : RoutineStep(g)
    \/ Tick \/ AutoScale
    \/ ReloadBegin \/ Reload
    \/ \E k \in 1 .. MaxReloads : DrainNext(k)
    \/ BeginShutdown \/ Stop

Spec == Init /\ [][Next]_vars

(***************************************************************************)
(* The Go scheduler runs every goroutine that can run, the allocation and  *)
(* shutdown timers fire, and scripts end.  Requests, ticks and signals     *)
(* come from outside and are not assumed to.  One condition covers all of  *)
(* routines: MaxID and MaxReloads bound how many there can be.             *)
(***************************************************************************)
Fairness ==
    /\ \A c \in Clients : WF_vars(Exec(c))
    /\ WF_vars(\E g \in routines : RoutineStep(g))
    /\ WF_vars(AutoScale)
    /\ WF_vars(Reload)
    /\ \A k \in 1 .. MaxReloads : WF_vars(DrainNext(k))
    /\ WF_vars(Stop)

FairSpec == Spec /\ Fairness

-----------------------------------------------------------------------------
(* Properties that hold of the code.                                       *)

\* The goroutines that own the worker they name: it came out of the channel
\* and is to be stopped, or is new and not in the channel yet.  Drain and stop
\* goroutines act on workers that are somewhere else.
Owner(g) ==
    \/ g.at = "send"
    \/ g.job \in {"replace", "scaleDown"} /\ g.at # "spawn"

Queued(w) == w \in Range(available)
HeldByClient(w) == \E c \in Clients : held[c] = w
Owned(w) == \E g \in routines : Owner(g) /\ g.w = w

\* p.available is a baton: whatever reloads, scaling and recycling do, a worker
\* is in one slot of the channel, or with one handler, or with one goroutine
\* that owns it, and never in two of these places.
SoleCustody ==
    /\ IsInjective(available)
    /\ \A c, d \in Clients : held[c] = held[d] /\ held[c] # NoWorker => c = d
    /\ \A g, h \in routines :
          Owner(g) /\ Owner(h) /\ g.w = h.w => g = h
    /\ \A w \in Worker : /\ ~(Queued(w) /\ HeldByClient(w))
                         /\ ~(Queued(w) /\ Owned(w))
                         /\ ~(HeldByClient(w) /\ Owned(w))

\* Until Stop closes the channel, every worker in p.workers is in somebody's
\* hands or in the channel: the pool never counts capacity it has lost.
NoWorkerLost ==
    ~closed => \A w \in workers : Queued(w) \/ HeldByClient(w) \/ Owned(w)

\* Every running PHP engine belongs to a registered worker: removeWorker never
\* drops the last reference Stop could use to an engine that is still up.
NoOrphanEngine == \A w \in Worker : started[w] => w \in workers

\* engine.Shutdown never pulls the interpreter from under a running script,
\* not even when a drain found the worker idle just before Exec marked it busy.
EngineUpWhileRunning ==
    \A c \in Clients : pc[c] = "running" => started[held[c]]

\* max_jobs is exact: no worker runs more scripts, and one that has run them
\* all is not in the channel, where another request would pick it up.
RecycleBound ==
    MaxJobs > 0 =>
        /\ \A w \in Worker : jobs[w] <= MaxJobs
        /\ \A w \in Range(available) : jobs[w] < MaxJobs

\* Without reloads, recycling, scaling and shutdown are invisible to requests:
\* in worker mode none fails with "engine not started" and none panics, unless
\* it is still running when the deadline of srv.Stop expires.
NoFailedRequest ==
    /\ MaxReloads = 0 /\ Mode = "worker"
    /\ DeadlineExpires => main \in {"serving", "draining"}
    => \A c \in Clients : reply[c] \notin {"engine", "panic"}

\* Without reloads and recycling, autoScale keeps the pool between min_workers
\* and max_workers although it acts on numbers it read earlier.
SizeWithinBounds ==
    MaxReloads = 0 /\ MaxJobs = 0 /\ PromptStop =>
        MinWorkers <= Total /\ Total <= MaxWorkers

\* Under the same conditions the channel always has room: no handler that puts
\* its worker back, and no goroutine that sends a new one, ever waits for a
\* receiver, so nobody can block on p.available <- w.
SendsNeverBlock ==
    MaxReloads = 0 /\ MaxJobs = 0 /\ PromptStop =>
        /\ (\E c \in Clients : pc[c] = "put") => ~Full
        /\ (\E g \in routines : g.at = "send") => ~Full

\* Pool.Stop reaches every worker that is registered when it copies the list:
\* none has its engine up once the channel is closed, whatever replacers, the
\* watchdog and Reload add and remove meanwhile.
StopReachesAll ==
    \A w \in Worker :
        [](main = "cancelled" /\ w \in workers =>
              [](main \in {"closed", "stopped"} => ~started[w]))

\* The send that panics comes late: the process can only die of it between the
\* close of the channel and the exit of main, and then no request is lost,
\* unless srv.Stop gave up on it at the deadline.
CrashIsLate ==
    crashed => /\ main = "closed" /\ cancelled
               /\ DeadlineExpires \/ \A c \in Clients : pc[c] = "out"

\* What the pool promises (module Lease).  A worker is retired once a goroutine
\* owns it to stop it, leased while a handler holds it, free in the channel or on
\* its way there, and retired again when nobody has it.
Place(w) ==
    IF w > nextID THEN "new"
    ELSE IF \E g \in routines : Owner(g) /\ g.at # "send" /\ g.w = w THEN "retired"
    ELSE IF HeldByClient(w) THEN "leased"
    ELSE IF Queued(w) \/ \E g \in routines : g.at = "send" /\ g.w = w THEN "free"
    ELSE "retired"

L == INSTANCE Lease WITH Client <- Clients, holder <- held,
                         place <- [w \in Worker |-> Place(w)]

\* The pool implements Lease: recycling, scaling, reload and shutdown never lease
\* a worker twice, nor one that was taken out of circulation.
ImplementsLease == L!Spec

\* Every Exec returns (or the process is over): no handler waits forever for a
\* worker or for room in the channel.
ExecReturns ==
    \A c \in Clients : pc[c] # "out" ~> (pc[c] = "out" \/ ~Running)

\* A shutdown ends: once the listeners are closed, the process exits, whatever
\* replacers, reloads and scripts are under way.
ShutdownCompletes == main = "draining" ~> ~Running

-----------------------------------------------------------------------------
(* What the documentation promises and the code does not keep.             *)

\* README.md: "Zero-downtime Reload": a reload makes no request fail.  The worker
\* that p.available holds out to a waiting Exec has its engine up; Execute of one
\* that is down answers "engine not started".
ReloadIsInvisible ==
    main = "serving" /\ available # <<>> /\ (\E c \in Clients : pc[c] = "select") =>
        started[Head(available)]

\* README.md: SIGTERM is a graceful shutdown: the process does not panic.
GracefulShutdown == ~crashed

-----------------------------------------------------------------------------
(* The strengthening that makes the invariants above inductive; each part  *)
(* is a fact about the code that no single statement shows.                *)

InExec == {"took", "marked", "running", "ran", "put", "leave"}
WithWorker == InExec \ {"leave"}

\* A handler has a worker exactly between its receive and its hand-over, and
\* busyWorkers counts the handlers that have received and not left.
HandlerState ==
    /\ \A c \in Clients : held[c] # NoWorker <=> pc[c] \in WithWorker
    /\ busyWorkers = Cardinality({c \in Clients : pc[c] \in InExec})

\* Nothing refers to a worker that has not been spawned, and such a worker is
\* as NewWorker will make it.
Spawned == 1 .. nextID
Fresh ==
    /\ workers \cup Range(available) \cup oldWorkers \subseteq Spawned
    /\ \A c \in Clients : held[c] \in Spawned \cup {NoWorker}
    /\ \A g \in routines : g.w \in Spawned
    /\ \A k \in 1 .. MaxReloads : draining[k] \subseteq Spawned
    /\ \A w \in Worker \ Spawned : ~started[w] /\ jobs[w] = 0

\* A goroutine removes its worker after it has shut the engine down, and only a
\* replacer goes on to spawn.
StopBeforeRemove ==
    \A g \in routines :
        /\ g.at = "remove" => ~started[g.w]
        /\ g.at = "spawn" => g.job = "replace"
        /\ g.at \in {"store", "shutdown", "remove"} =>
              g.job \in {"replace", "scaleDown", "drain", "stop"}

\* While jobs are limited, a worker that can still be handed out has some left.
JobsLeft ==
    MaxJobs > 0 =>
        /\ \A c \in Clients : pc[c] \in WithWorker \ {"ran"} =>
              jobs[held[c]] < MaxJobs
        /\ \A g \in routines : g.at = "send" => jobs[g.w] < MaxJobs

IndInv ==
    /\ TypeOK
    /\ HandlerState
    /\ Fresh
    /\ SoleCustody
    /\ NoWorkerLost
    /\ StopBeforeRemove
    /\ NoOrphanEngine
    /\ EngineUpWhileRunning
    /\ JobsLeft
    /\ RecycleBound

\* What makes NoFailedRequest inductive.  Without reloads, while requests are
\* served nobody stops an engine but its owner, so every engine that can be
\* handed out is up; without the deadline, the pool is stopped when no handler
\* is left.
QuietInv ==
    MaxReloads = 0 /\ Mode = "worker" =>
        /\ (DeadlineExpires => main \in {"serving", "draining"}) =>
              \A c \in Clients : reply[c] \notin {"engine", "panic"}
        /\ closed => main \in {"closed", "stopped"}
        /\ ~DeadlineExpires /\ main \notin {"serving", "draining"} =>
              \A c \in Clients : pc[c] = "out"
        /\ \A g \in routines : /\ g.job # "drain"
                               /\ main \in {"serving", "draining", "cancelled"}
                                     => g.job # "stop"
        /\ main \in {"serving", "draining"} =>
              /\ \A w \in Range(available) : started[w]
              /\ \A c \in Clients : pc[c] \in WithWorker => started[held[c]]
              /\ \A g \in routines : g.at = "send" => started[g.w]

=============================================================================
