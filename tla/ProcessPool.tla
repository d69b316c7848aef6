---------------------------- MODULE ProcessPool ----------------------------
(***************************************************************************)
(* The pool of external PHP processes, internal/pool/pool.go and           *)
(* internal/pool/worker.go, composed with the other end of its pipes: the  *)
(* worker loop of php-sdk/src/Worker.php.  The two talk in frames          *)
(* (internal/protocol/wire.go, php-sdk/src/Protocol/Wire.php; module Wire  *)
(* says for which sizes a frame is one item of a pipe):                    *)
(*                                                                         *)
(*   Go -> PHP  REQUEST, STOP          PHP -> Go  READY, RESPONSE          *)
(*                                                                         *)
(* A request is one call of Pool.Exec, and its frames carry its name, so   *)
(* that an answer to another request would show.  The goroutines are the   *)
(* callers of Exec, the goroutine each of them starts to run w.Exec        *)
(* (which survives a timeout of its caller), the watchdog, Reload and its  *)
(* drain, Stop, and the goroutines in the set routines.  PHP processes     *)
(* exit at their limits, crash, hang and write noise to stdout.            *)
(*                                                                         *)
(* A worker is its id, and p.workers is a set, as in WorkerPool.           *)
(* spawnWorker starts a process, waits for its READY and registers it: in  *)
(* between the process runs and only the goroutine that waits knows of it. *)
(* The read of that READY and the registration are one step.               *)
(* Statements are taken together where no other goroutine can tell: the    *)
(* deferred ones with the statement before them, a store to w.state with   *)
(* the write to the pipe after it (readers only ask whether it is          *)
(* StateBusy, and look before they act), and the return of cmd.Wait with   *)
(* the end of the process it waits for.                                    *)
(* Left out: counters that are written and never read (totalRequests,      *)
(* activeWorkers, lastUsed), logging, the environment of a process, and    *)
(* ExecStream and Ping, which nothing calls.                               *)
(***************************************************************************)
EXTENDS Integers, Sequences, FiniteSets, Functions

CONSTANTS
    Requests,       \* the calls of Pool.Exec
    NoReq,          \* the request of a frame that has none
    MinWorkers,     \* pool.min_workers
    MaxWorkers,     \* pool.max_workers, the capacity of p.available
    MaxJobs,        \* pool.max_jobs, MAX_REQUESTS of the PHP worker; 0: no limit
    RequestTimeout, \* is pool.request_timeout > 0?
    MemoryLimit,    \* can PHP come to use more than maxMemory?
    MaxID,          \* bound: how many workers a behaviour may spawn
    MaxReloads,     \* bound: how many calls of Reload
    MaxFaults,      \* bound: how many crashes, hangs, noises, failed spawns
    MaxReplacers,   \* bound: how many goroutines may replace one worker at once
    Ticking,        \* does the watchdog's ticker fire?
    StopCalled      \* is Pool.Stop called?

\* What config.Validate accepts.
ASSUME PoolConfig ==
    /\ MinWorkers \in Nat /\ MinWorkers >= 1
    /\ MaxWorkers \in Nat /\ MaxWorkers >= MinWorkers
    /\ MaxJobs \in Nat

\* The bounds and the switches that select a scenario.
ASSUME Scenario ==
    /\ MaxID \in Nat /\ MaxID >= MinWorkers
    /\ {MaxReloads, MaxFaults, MaxReplacers} \subseteq Nat
    /\ {RequestTimeout, MemoryLimit, Ticking, StopCalled} \subseteq BOOLEAN

ASSUME RequestNames == IsFiniteSet(Requests) /\ NoReq \notin Requests

Worker == 1 .. MaxID
NoWorker == 0

Frame == [type : {"REQUEST", "RESPONSE", "READY", "STOP", "NOISE"},
          req : Requests \cup {NoReq}]
Msg(t, r) == [type |-> t, req |-> r]
Control(t) == Msg(t, NoReq)
Error == Control("ERROR")
NoResult == Control("NONE")

VARIABLES
    \* Pool
    workers,      \* p.workers
    available,    \* the buffered channel p.available, oldest first
    closed,       \* has p.available been closed?
    cancelled,    \* has p.ctx been cancelled?
    nextID,       \* p.nextID
    busyWorkers,  \* p.busyWorkers
    \* by worker id
    worker,       \* Worker: its fields and its pipes
    php,          \* the process: how far it is, and its requestCount
    \* by request
    call,         \* the caller of Pool.Exec
    run,          \* the goroutine it started for w.Exec
    \* the other goroutines
    routines,     \* goroutines stopping a worker or blocked on a send
    watchdog,     \* where the watchdog is, and what it has read
    reload,       \* Reload: its copy of p.workers and what it has spawned
    draining,     \* per reload, the workers it has still to stop
    stopping,     \* how far Stop has got
    crashed,      \* did a panic that nobody recovers kill the Go process?
    faults        \* how many faults there were

poolVars == <<workers, available, closed, cancelled, nextID, busyWorkers>>
processVars == <<worker, php>>
callVars == <<call, run>>
controlVars == <<watchdog, reload, draining, stopping>>
vars == <<poolVars, processVars, callVars, routines, controlVars, crashed,
          faults>>

-----------------------------------------------------------------------------
(***************************************************************************)
(* A goroutine of the set routines runs w.Stop() (signal, wait), then      *)
(* removeWorker, then spawns (boot: NewWorker waits for READY) and sends,  *)
(* as far as its job goes.  `by` tells goroutines with the same job and    *)
(* worker apart.                                                           *)
(***************************************************************************)
Stage == {"signal", "wait", "remove", "spawn", "boot", "send"}
Job == {"replace", "scaleUp", "scaleDown", "reload", "drain", "abort", "stop"}
Routine == [job : Job, by : 0 .. MaxReloads + MaxReplacers, w : Worker,
            at : Stage]

Stopper(j, k, w) == [job |-> j, by |-> k, w |-> w, at |-> "signal"]
Starter(j, w) == [job |-> j, by |-> 0, w |-> w, at |-> "boot"]
At(g, stage) == [g EXCEPT !.at = stage]
Become(g, new) == routines' = (routines \ {g}) \cup new

\* go p.replaceWorker(w), told apart by the first number that is free.
Replacing(w, k) ==
    \E g \in routines : g.job = "replace" /\ g.by = k /\ g.w = w
GoReplace(w) ==
    \E k \in 1 .. MaxReplacers :
        /\ ~Replacing(w, k)
        /\ \A i \in 1 .. k - 1 : Replacing(w, i)
        /\ routines' = routines \cup {Stopper("replace", k, w)}

Full == Len(available) >= MaxWorkers
Total == Cardinality(workers)
Pending(j) == \E g \in routines : g.job = j

\* The process has not said READY yet, or never will.
Booting(w) == php[w].at \in {"boot", "stuck"}

\* The process has not ended.
Alive(w) == Booting(w) \/ php[w].at \in {"loop", "handling", "hung", "after"}

\* cmd.Wait has returned: ProcessState is set and stdout is closed.
Reaped(w) == worker[w].waiting /\ ~Alive(w)

\* Worker.IsAlive: ProcessState is nil until cmd.Wait returns, and Exited() is
\* false for a process that a signal ended.
IsAlive(w) == ~Reaped(w) \/ php[w].at # "exited"

\* A worker as NewWorker returns it: WORKER_READY has been read.
NewWorker == [state |-> "Idle", jobs |-> 0, stdin |-> <<>>, open |-> TRUE,
              stdout |-> <<>>, waiting |-> FALSE]
NewProcess == [at |-> "loop", req |-> NoReq, count |-> 0]

Init ==
    /\ workers = 1 .. MinWorkers
    /\ available = [i \in 1 .. MinWorkers |-> i]
    /\ closed = FALSE
    /\ cancelled = FALSE
    /\ nextID = MinWorkers
    /\ busyWorkers = 0
    /\ worker = [w \in Worker |-> NewWorker]
    /\ php = [w \in Worker |-> IF w <= MinWorkers THEN NewProcess
                               ELSE [NewProcess EXCEPT !.at = "none"]]
    /\ call = [r \in Requests |-> [at |-> "select", held |-> NoWorker,
                                   reply |-> "none"]]
    /\ run = [r \in Requests |-> [at |-> "none", on |-> NoWorker,
                                  result |-> NoResult]]
    /\ routines = {}
    /\ watchdog = [at |-> "wait", toCheck |-> {}]
    /\ reload = [n |-> 0, active |-> FALSE, old |-> {}, new |-> {}]
    /\ draining = [k \in 1 .. MaxReloads |-> [job |-> "drain", left |-> {}]]
    /\ stopping = "no"
    /\ crashed = FALSE
    /\ faults = 0

-----------------------------------------------------------------------------
(* Pool.Exec, in the goroutine of its caller.                              *)

\* w = <-p.available; the goroutine that runs w.Exec is started.
Take(r) ==
    /\ call[r].at = "select"
    /\ available # <<>>
    /\ available' = Tail(available)
    /\ busyWorkers' = busyWorkers + 1
    /\ call' = [call EXCEPT ![r].at = "exec", ![r].held = Head(available)]
    /\ run' = [run EXCEPT ![r].at = "write", ![r].on = Head(available)]
    /\ UNCHANGED <<workers, closed, cancelled, nextID, processVars, routines,
                   controlVars, crashed, faults>>

\* Nothing was received within allocate_timeout, or p.ctx is done.
GiveUp(r) ==
    /\ call[r].at = "select"
    /\ \E why \in {"exhausted", "shutdown"} :
          /\ why = "shutdown" => cancelled
          /\ call' = [call EXCEPT ![r].at = "done", ![r].reply = why]
    /\ UNCHANGED <<poolVars, processVars, run, routines, controlVars, crashed,
                   faults>>

\* The closed channel yields nil, and w.Exec panics in a goroutine of its own,
\* where nobody recovers.
TakeNil(r) ==
    /\ call[r].at = "select"
    /\ closed /\ available = <<>>
    /\ crashed' = TRUE
    /\ UNCHANGED <<poolVars, processVars, callVars, routines, controlVars, faults>>

\* Mutant: busyWorkers is decremented both on the way out and by the defer.
ReturnTwice(r, why) ==
    /\ call' = [call EXCEPT ![r] = [at |-> "done", held |-> NoWorker,
                                    reply |-> why]]
    /\ busyWorkers' = busyWorkers - 2

\* Exec returns: its worker has been handed on.
Return(r, why) ==
    /\ call' = [call EXCEPT ![r] = [at |-> "done", held |-> NoWorker,
                                    reply |-> why]]
    /\ busyWorkers' = busyWorkers - 1

NeedsRecycle(w) == MaxJobs > 0 /\ worker[w].jobs >= MaxJobs

\* Mutant: the worker is queued before its READY has been read.
ReceivePutEarly(r) ==
    /\ call[r].at = "exec" /\ run[r].at = "ended"
    /\ IF run[r].result = Error
       THEN GoReplace(call[r].held) /\ Return(r, "failed") /\ UNCHANGED available
       ELSE /\ available' = Append(available, call[r].held)
            /\ call' = [call EXCEPT ![r].at = "ready"]
            /\ UNCHANGED <<routines, busyWorkers>>
    /\ UNCHANGED <<workers, closed, cancelled, nextID, processVars, run,
                   controlVars, crashed, faults>>

\* result := <-done: an error or a worn-out worker is left to a replacer.
Receive(r) ==
    /\ call[r].at = "exec" /\ run[r].at = "ended"
    /\ \/ /\ run[r].result = Error
          /\ GoReplace(call[r].held)
          /\ Return(r, "failed")
       \/ /\ run[r].result # Error /\ NeedsRecycle(call[r].held)
          /\ GoReplace(call[r].held)
          /\ Return(r, "ok")
       \/ /\ run[r].result # Error /\ ~NeedsRecycle(call[r].held)
          /\ call' = [call EXCEPT ![r].at = "ready"]
          /\ UNCHANGED <<routines, busyWorkers>>
    /\ UNCHANGED <<workers, available, closed, cancelled, nextID, processVars,
                   run, controlVars, crashed, faults>>

\* Mutants: after a timeout the worker is forgotten, or goes back to the channel;
\* or there is no timeout.
TimeoutForgotten(r) ==
    /\ call[r].at = "exec" /\ RequestTimeout
    /\ Return(r, "timeout")
    /\ UNCHANGED <<workers, available, closed, cancelled, nextID, processVars,
                   run, routines, controlVars, crashed, faults>>

TimeoutPutBack(r) ==
    /\ call[r].at = "exec" /\ RequestTimeout /\ ~Full
    /\ available' = Append(available, call[r].held)
    /\ Return(r, "timeout")
    /\ UNCHANGED <<workers, closed, cancelled, nextID, processVars, run,
                   routines, controlVars, crashed, faults>>

TimeoutMissing(r) == FALSE

\* request_timeout is over: the worker is replaced while w.Exec still runs.
Timeout(r) ==
    /\ call[r].at = "exec" /\ RequestTimeout
    /\ GoReplace(call[r].held)
    /\ Return(r, "timeout")
    /\ UNCHANGED <<workers, available, closed, cancelled, nextID, processVars,
                   run, controlVars, crashed, faults>>

\* p.ctx is done while w.Exec runs: the worker is left to Stop.
Abandon(r) ==
    /\ call[r].at = "exec" /\ RequestTimeout /\ cancelled
    /\ Return(r, "shutdown")
    /\ UNCHANGED <<workers, available, closed, cancelled, nextID, processVars,
                   run, routines, controlVars, crashed, faults>>

\* What a read of w's stdout gives: the next frame, or an error for noise, at
\* the end of the file, and once cmd.Wait has closed the pipe.
CanRead(w) == worker[w].stdout # <<>> \/ ~Alive(w)
ReadFrame(w) ==
    IF Reaped(w) \/ worker[w].stdout = <<>> THEN Error
    ELSE IF Head(worker[w].stdout).type = "NOISE" THEN Error
    ELSE Head(worker[w].stdout)
AfterRead(w) ==
    IF Reaped(w) \/ worker[w].stdout = <<>> THEN worker
    ELSE [worker EXCEPT ![w].stdout = Tail(@)]

\* Mutants: READY is not read, or what was read instead of it is not looked at.
AwaitReadySkipped(r) ==
    /\ call[r].at = "ready"
    /\ call' = [call EXCEPT ![r].at = "put"]
    /\ UNCHANGED <<poolVars, processVars, run, routines, controlVars, crashed,
                   faults>>

AwaitReadyUnchecked(r) ==
    /\ call[r].at = "ready" /\ CanRead(call[r].held)
    /\ worker' = AfterRead(call[r].held)
    /\ call' = [call EXCEPT ![r].at = "put"]
    /\ UNCHANGED <<poolVars, php, run, routines, controlVars, crashed, faults>>

\* w.ReadFrame(): a worker that says READY goes back to the channel, any other
\* is replaced.  The caller has its answer in both cases.
AwaitReady(r) ==
    LET w == call[r].held
    IN  /\ call[r].at = "ready"
        /\ CanRead(w)
        /\ worker' = AfterRead(w)
        /\ IF ReadFrame(w).type = "READY"
           THEN /\ call' = [call EXCEPT ![r].at = "put"]
                /\ UNCHANGED <<routines, busyWorkers>>
           ELSE GoReplace(w) /\ Return(r, "ok")
        /\ UNCHANGED <<workers, available, closed, cancelled, nextID, php, run,
                       controlVars, crashed, faults>>

\* p.available <- w: blocks while the channel is full, panics once it is closed
\* (net/http recovers in the handler's goroutine).
PutBack(r) ==
    /\ call[r].at = "put"
    /\ \/ /\ closed
          /\ Return(r, "panic")
          /\ UNCHANGED available
       \/ /\ ~closed /\ ~Full
          /\ available' = Append(available, call[r].held)
          /\ Return(r, "ok")
    /\ UNCHANGED <<workers, closed, cancelled, nextID, processVars, run,
                   routines, controlVars, crashed, faults>>

-----------------------------------------------------------------------------
(* w.Exec, in the goroutine started for request r.                         *)

\* The deferred statements, which make even a stopped worker Idle, the unlock of
\* w.mu, and done <- execResult.
Ended(r, wk, answer) ==
    /\ worker' = [wk EXCEPT ![run[r].on].state = "Idle",
                            ![run[r].on].jobs = IF MaxJobs > 0 THEN @ + 1 ELSE @]
    /\ run' = [run EXCEPT ![r].at = "ended", ![r].result = answer]

\* w.mu is free; StateBusy, then WriteFrame, which fails on a pipe that Stop has
\* closed or whose reader is gone.
RunWrite(r) ==
    LET w == run[r].on
    IN  /\ run[r].at = "write"
        /\ \A q \in Requests : run[q].at = "read" => run[q].on # w
        /\ IF worker[w].open /\ Alive(w)
           THEN /\ worker' = [worker EXCEPT
                                ![w].stdin = Append(@, Msg("REQUEST", r)),
                                ![w].state = "Busy"]
                /\ run' = [run EXCEPT ![r].at = "read"]
           ELSE Ended(r, worker, Error)
        /\ UNCHANGED <<poolVars, php, call, routines, controlVars, crashed,
                       faults>>

RunRead(r) ==
    /\ run[r].at = "read"
    /\ CanRead(run[r].on)
    /\ Ended(r, AfterRead(run[r].on), ReadFrame(run[r].on))
    /\ UNCHANGED <<poolVars, php, call, routines, controlVars, crashed, faults>>

-----------------------------------------------------------------------------
(* Worker::run() of the PHP SDK, in the process of worker w.               *)

PHPEnds(w, how) == php' = [php EXCEPT ![w].at = how]

\* Wire::readFrame(): a request is handled, STOP and the end of stdin end run().
PHPRead(w) ==
    /\ php[w].at = "loop"
    /\ \/ /\ worker[w].stdin = <<>> /\ ~worker[w].open
          /\ PHPEnds(w, "exited")
          /\ UNCHANGED worker
       \/ /\ worker[w].stdin # <<>>
          /\ worker' = [worker EXCEPT ![w].stdin = Tail(@)]
          /\ IF Head(worker[w].stdin).type = "STOP"
             THEN PHPEnds(w, "exited")
             ELSE php' = [php EXCEPT ![w].at = "handling",
                                     ![w].req = Head(worker[w].stdin).req]
    /\ UNCHANGED <<poolVars, callVars, routines, controlVars, crashed, faults>>

\* handleRequest(): the handler's response, or the 500 of an exception, is sent.
PHPRespond(w) ==
    /\ php[w].at = "handling"
    /\ worker' = [worker EXCEPT ![w].stdout =
                     Append(@, Msg("RESPONSE", php[w].req))]
    /\ php' = [php EXCEPT ![w] = [at |-> "after", req |-> NoReq,
                                  count |-> IF MaxJobs > 0 THEN @.count + 1 ELSE 0]]
    /\ UNCHANGED <<poolVars, callVars, routines, controlVars, crashed, faults>>

\* The limits end run() without a word; otherwise sendReady().
PHPNext(w) ==
    /\ php[w].at = "after"
    /\ \/ /\ MemoryLimit \/ (MaxJobs > 0 /\ php[w].count >= MaxJobs)
          /\ PHPEnds(w, "exited")
          /\ UNCHANGED worker
       \/ /\ ~(MaxJobs > 0 /\ php[w].count >= MaxJobs)
          /\ worker' = [worker EXCEPT ![w].stdout = Append(@, Control("READY"))]
          /\ PHPEnds(w, "loop")
    /\ UNCHANGED <<poolVars, callVars, routines, controlVars, crashed, faults>>

\* What can go wrong in a process: it ends by a fatal error or a signal, a
\* handler never returns, or something is echoed to STDOUT between the frames (a
\* handler that calls send() itself has the same effect: its second RESPONSE is
\* read in READY's place).
Fault(w) ==
    /\ faults < MaxFaults
    /\ faults' = faults + 1
    /\ \/ /\ Alive(w) /\ ~Booting(w)
          /\ \E how \in {"exited", "killed"} : PHPEnds(w, how)
          /\ UNCHANGED worker
       \/ /\ php[w].at \in {"handling", "after"}
          /\ PHPEnds(w, "hung")
          /\ UNCHANGED worker
       \/ /\ php[w].at \in {"handling", "after"}
          /\ worker' = [worker EXCEPT ![w].stdout = Append(@, Control("NOISE"))]
          /\ UNCHANGED php
    /\ UNCHANGED <<poolVars, callVars, routines, controlVars, crashed>>

-----------------------------------------------------------------------------
(* Worker.Stop, removeWorker, spawnWorker, and the goroutines that run them.*)

\* StateStopped; the STOP frame, if the pipe still takes it; stdin is closed and
\* cmd.Wait called.
SendStop(g) ==
    /\ g.at = "signal"
    /\ worker' = [worker EXCEPT
          ![g.w].state = "Stopped",
          ![g.w].stdin = IF worker[g.w].open /\ Alive(g.w)
                         THEN Append(@, Control("STOP")) ELSE @,
          ![g.w].open = FALSE,
          ![g.w].waiting = TRUE]
    /\ Become(g, {At(g, "wait")})
    /\ UNCHANGED <<poolVars, php, callVars, controlVars, crashed, faults>>

\* Mutants: the process is not killed after five seconds; or Stop has no timer.
StopReturnsUnkilled(g) ==
    /\ g.at = "wait"
    /\ Become(g, IF g.job \in {"stop", "abort"} THEN {} ELSE {At(g, "remove")})
    /\ UNCHANGED <<poolVars, processVars, callVars, controlVars, crashed, faults>>

StopReturnsUntimed(g) ==
    /\ g.at = "wait" /\ ~Alive(g.w)
    /\ Become(g, IF g.job \in {"stop", "abort"} THEN {} ELSE {At(g, "remove")})
    /\ UNCHANGED <<poolVars, processVars, callVars, controlVars, crashed, faults>>

\* cmd.Wait has returned, or five seconds are over and the process is killed.
\* Stop returns: Pool.Stop and a failed Reload have nothing more to do with it.
StopReturns(g) ==
    /\ g.at = "wait"
    /\ IF Alive(g.w) THEN PHPEnds(g.w, "killed") ELSE UNCHANGED php
    /\ Become(g, IF g.job \in {"stop", "abort"} THEN {} ELSE {At(g, "remove")})
    /\ UNCHANGED <<poolVars, worker, callVars, controlVars, crashed, faults>>

\* Mutant: replaceWorker ends with the removal.
RemoveWorkerOnly(g) ==
    /\ g.at = "remove"
    /\ workers' = workers \ {g.w}
    /\ Become(g, {})
    /\ UNCHANGED <<available, closed, cancelled, nextID, busyWorkers,
                   processVars, callVars, controlVars, crashed, faults>>

\* removeWorker; replaceWorker then looks at p.ctx.
RemoveWorker(g) ==
    /\ g.at = "remove"
    /\ workers' = workers \ {g.w}
    /\ Become(g, IF g.job = "replace" /\ ~cancelled THEN {At(g, "spawn")} ELSE {})
    /\ UNCHANGED <<available, closed, cancelled, nextID, busyWorkers,
                   processVars, callVars, controlVars, crashed, faults>>

\* spawnWorker begins: cmd.Start, and `job` waits for READY in NewWorker.
Spawn(g, job) ==
    LET w == nextID + 1
    IN  /\ nextID < MaxID
        /\ nextID' = w
        /\ php' = [php EXCEPT ![w].at = "boot"]
        /\ routines' = (routines \ g) \cup {Starter(job, w)}
        /\ UNCHANGED <<worker, faults>>

\* The process does not even start (the id it would have had stays unused).
SpawnFails(g) ==
    /\ faults < MaxFaults
    /\ faults' = faults + 1
    /\ routines' = routines \ g
    /\ UNCHANGED <<nextID, processVars>>

SpawnReplacement(g) ==
    /\ g.at = "spawn"
    /\ Spawn({g}, "replace") \/ SpawnFails({g})
    /\ UNCHANGED <<workers, available, closed, cancelled, busyWorkers, callVars,
                   controlVars, crashed>>

\* READY has come: the worker is registered, and will be sent.
Register(g) ==
    /\ g.at = "boot" /\ php[g.w].at = "boot"
    /\ php' = [php EXCEPT ![g.w].at = "loop"]
    /\ workers' = workers \cup {g.w}
    /\ Become(g, {At(g, "send")})
    /\ reload' = IF g.job = "reload" THEN [reload EXCEPT !.new = @ \cup {g.w}]
                 ELSE reload
    /\ UNCHANGED <<available, closed, cancelled, nextID, busyWorkers, worker,
                   callVars, watchdog, draining, stopping, crashed, faults>>

\* A script that never comes to run(): nothing limits the wait for its READY.
BootHangs(w) ==
    /\ php[w].at = "boot" /\ faults < MaxFaults
    /\ faults' = faults + 1
    /\ PHPEnds(w, "stuck")
    /\ UNCHANGED <<poolVars, worker, callVars, routines, controlVars, crashed>>

\* p.available <- w: blocks while full; a panic on the closed channel is fatal.
Send(g) ==
    /\ g.at = "send"
    /\ \/ closed /\ crashed' = TRUE /\ UNCHANGED <<available, routines>>
       \/ /\ ~closed /\ ~Full
          /\ available' = Append(available, g.w)
          /\ Become(g, {})
          /\ UNCHANGED crashed
    /\ UNCHANGED <<workers, closed, cancelled, nextID, busyWorkers,
                   processVars, callVars, controlVars, faults>>

-----------------------------------------------------------------------------
(* watchdog: checkHealth, then autoScale, every five seconds.              *)

\* A tick: checkHealth copies p.workers.
Tick ==
    /\ Ticking
    /\ watchdog.at = "wait" /\ ~Pending("scaleUp")
    /\ watchdog' = [watchdog EXCEPT !.at = "health", !.toCheck = workers]
    /\ UNCHANGED <<poolVars, processVars, callVars, routines, reload, draining,
                   stopping, crashed, faults>>

\* The next worker of the copy, in the order of the slice.
HealthCheck ==
    /\ watchdog.at = "health"
    /\ \E w \in watchdog.toCheck :
          /\ \A v \in watchdog.toCheck : w <= v
          /\ watchdog' = [watchdog EXCEPT !.toCheck = @ \ {w}]
          /\ IF worker[w].state # "Busy" /\ ~IsAlive(w)
             THEN GoReplace(w) ELSE UNCHANGED routines
    /\ UNCHANGED <<poolVars, processVars, callVars, reload, draining, stopping,
                   crashed, faults>>

\* The two conditions of autoScale, which exclude each other.
ScaleDecision(busy, total) ==
    IF total > 0 /\ 100 * busy >= 80 * total /\ total < MaxWorkers THEN "up"
    ELSE IF total > 0 /\ 100 * busy <= 20 * total /\ total > MinWorkers
         THEN "down" ELSE "wait"

\* Stats, at one moment (WorkerPool models the gap between its two reads).
Decide ==
    /\ watchdog.at = "health" /\ watchdog.toCheck = {}
    /\ watchdog' = [watchdog EXCEPT !.at = ScaleDecision(busyWorkers, Total)]
    /\ UNCHANGED <<poolVars, processVars, callVars, routines, reload, draining,
                   stopping, crashed, faults>>

ScaleUp ==
    /\ watchdog.at = "up"
    /\ watchdog' = [watchdog EXCEPT !.at = "wait"]
    /\ Spawn({}, "scaleUp") \/ SpawnFails({})
    /\ UNCHANGED <<workers, available, closed, cancelled, busyWorkers, callVars, reload,
                   draining, stopping, crashed>>

\* A non-blocking receive; a closed channel yields nil, whose Stop panics.
ScaleDown ==
    /\ watchdog.at = "down"
    /\ watchdog' = [watchdog EXCEPT !.at = "wait"]
    /\ \/ /\ available # <<>>
          /\ available' = Tail(available)
          /\ routines' = routines \cup {Stopper("scaleDown", 0, Head(available))}
          /\ UNCHANGED crashed
       \/ /\ available = <<>>
          /\ crashed' = closed
          /\ UNCHANGED <<available, routines>>
    /\ UNCHANGED <<workers, closed, cancelled, nextID, busyWorkers,
                   processVars, callVars, reload, draining, stopping, faults>>

WatchdogExit ==
    /\ cancelled
    /\ watchdog.at = "wait" /\ ~Pending("scaleUp")
    /\ watchdog' = [watchdog EXCEPT !.at = "exit"]
    /\ UNCHANGED <<poolVars, processVars, callVars, routines, reload, draining,
                   stopping, crashed, faults>>

-----------------------------------------------------------------------------
(* Reload: new workers first, then the old ones are drained.               *)

Aborting == Pending("abort") \/ \E k \in 1 .. MaxReloads :
                                   draining[k].job = "abort" /\ draining[k].left # {}

ReloadBegin ==
    /\ ~reload.active /\ ~Aborting
    /\ reload.n < MaxReloads
    /\ reload' = [n |-> reload.n + 1, active |-> TRUE, old |-> workers, new |-> {}]
    /\ UNCHANGED <<poolVars, processVars, callVars, routines, watchdog, draining,
                   stopping, crashed, faults>>

\* Reload is over; a goroutine of its own, or Reload itself after a failed
\* spawn, stops the workers in `left`.
ReloadEnds(job, left) ==
    /\ draining' = [draining EXCEPT ![reload.n] = [job |-> job, left |-> left]]
    /\ reload' = [reload EXCEPT !.active = FALSE, !.old = {}, !.new = {}]

\* One turn of the loop; the previous turn's send has gone through.  If a spawn
\* fails, the workers spawned so far are stopped, and stay where they are.
ReloadSpawn ==
    /\ reload.active /\ Cardinality(reload.new) < MinWorkers
    /\ ~Pending("reload")
    /\ \/ Spawn({}, "reload") /\ UNCHANGED <<reload, draining>>
       \/ SpawnFails({}) /\ ReloadEnds("abort", reload.new)
    /\ UNCHANGED <<workers, available, closed, cancelled, busyWorkers, callVars, watchdog,
                   stopping, crashed>>

\* Mutant: the process of a failed NewWorker is left alone.
BootFailsUnkilled(g) ==
    /\ g.at = "boot" /\ Booting(g.w) /\ faults < MaxFaults
    /\ faults' = faults + 1
    /\ Become(g, {})
    /\ IF g.job = "reload" THEN ReloadEnds("abort", reload.new)
       ELSE UNCHANGED <<reload, draining>>
    /\ UNCHANGED <<poolVars, processVars, callVars, watchdog, stopping, crashed>>

\* The first read of stdout fails, since the process ended or wrote something
\* else: NewWorker kills the process and spawnWorker returns the error.
BootFails(g) ==
    /\ g.at = "boot" /\ Booting(g.w) /\ faults < MaxFaults
    /\ faults' = faults + 1
    /\ PHPEnds(g.w, "failed")
    /\ Become(g, {})
    /\ IF g.job = "reload" THEN ReloadEnds("abort", reload.new)
       ELSE UNCHANGED <<reload, draining>>
    /\ UNCHANGED <<poolVars, worker, callVars, watchdog, stopping, crashed>>

ReloadReturn ==
    /\ reload.active /\ Cardinality(reload.new) = MinWorkers
    /\ ~Pending("reload")
    /\ ReloadEnds("drain", reload.old)
    /\ UNCHANGED <<poolVars, processVars, callVars, routines, watchdog, stopping,
                   crashed, faults>>

\* The next worker to stop; the drain has waited while it was busy.
DrainNext(k) ==
    LET d == draining[k]
    IN  /\ ~\E g \in routines : g.job = d.job /\ g.by = k
        /\ \E w \in d.left :
              /\ \A v \in d.left : w <= v
              /\ d.job = "drain" => worker[w].state # "Busy"
              /\ draining' = [draining EXCEPT ![k].left = @ \ {w}]
              /\ routines' = routines \cup {Stopper(d.job, k, w)}
        /\ UNCHANGED <<poolVars, processVars, callVars, watchdog, reload,
                       stopping, crashed, faults>>

-----------------------------------------------------------------------------
(* Stop.                                                                   *)

Cancel ==
    /\ StopCalled /\ stopping = "no"
    /\ cancelled' = TRUE
    /\ stopping' = "cancelled"
    /\ UNCHANGED <<workers, available, closed, nextID, busyWorkers, processVars,
                   callVars, routines, watchdog, reload, draining, crashed, faults>>

StopWorkers ==
    /\ stopping = "cancelled"
    /\ stopping' = "stopping"
    /\ routines' = routines \cup {Stopper("stop", 0, w) : w \in workers}
    /\ UNCHANGED <<poolVars, processVars, callVars, watchdog, reload, draining,
                   crashed, faults>>

\* wg.Wait() returns; close(p.available).
CloseQueue ==
    /\ stopping = "stopping" /\ ~Pending("stop")
    /\ closed' = TRUE
    /\ stopping' = "closed"
    /\ UNCHANGED <<workers, available, cancelled, nextID, busyWorkers,
                   processVars, callVars, routines, watchdog, reload, draining,
                   crashed, faults>>

-----------------------------------------------------------------------------
Exec(r) ==
    \/ Take(r) \/ GiveUp(r) \/ TakeNil(r) \/ Receive(r) \/ Timeout(r)
    \/ Abandon(r) \/ AwaitReady(r) \/ PutBack(r)

WorkerExec(r) == RunWrite(r) \/ RunRead(r)

PHP(w) == PHPRead(w) \/ PHPRespond(w) \/ PHPNext(w)

RoutineStep(g) ==
    \/ SendStop(g) \/ StopReturns(g)
    \/ RemoveWorker(g) \/ SpawnReplacement(g) \/ Register(g) \/ Send(g)

Watchdog == HealthCheck \/ Decide \/ ScaleUp \/ ScaleDown
            \/ WatchdogExit

Next ==
    /\ ~crashed
    /\ \/ \E r \in Requests : Exec(r) \/ WorkerExec(r)
       \/ \E w \in Worker : PHP(w) \/ Fault(w) \/ BootHangs(w)
       \/ \E g \in routines : RoutineStep(g) \/ BootFails(g)
       \/ Tick \/ Watchdog
       \/ ReloadBegin \/ ReloadSpawn \/ ReloadReturn
       \/ \E k \in 1 .. MaxReloads : DrainNext(k)
       \/ Cancel \/ StopWorkers \/ CloseQueue

Spec == Init /\ [][Next]_vars

(***************************************************************************)
(* Fairness: the Go scheduler runs every goroutine that can run, a select  *)
(* whose timer has fired is not blocked (GiveUp, Timeout), the five        *)
(* seconds in Stop end, and the ticker fires.  Of the PHP processes it     *)
(* assumes that a handler that does not hang returns, and a script that    *)
(* does not hang says READY; faults, and the calls of Reload and Stop,     *)
(* need not happen.  The goroutines that handle one worker share a         *)
(* condition: each takes at most six steps, and the first to remove the    *)
(* worker ends their supply.                                               *)
(***************************************************************************)
Fairness ==
    /\ \A r \in Requests : WF_vars(Exec(r)) /\ WF_vars(WorkerExec(r))
    /\ \A w \in Worker : WF_vars(PHP(w))
    /\ \A w \in Worker : WF_vars(\E g \in routines : g.w = w /\ RoutineStep(g))
    /\ WF_vars(Tick \/ Watchdog)
    /\ WF_vars(ReloadSpawn \/ ReloadReturn)
    /\ \A k \in 1 .. MaxReloads : WF_vars(DrainNext(k))
    /\ WF_vars(StopWorkers \/ CloseQueue)

FairSpec == Spec /\ Fairness

-----------------------------------------------------------------------------
Queued(w) == w \in Range(available)
Holds(w) == \E r \in Requests : call[r].held = w
Handled(w) == \E g \in routines : g.w = w
Starting(w) == \E g \in routines : g.at = "boot" /\ g.w = w

\* NewWorker has returned the worker: its process has said READY.
Created(w) == php[w].at \notin {"none", "boot", "stuck", "failed"}

WorkerRecord ==
    [state : {"Idle", "Busy", "Stopped"}, jobs : Nat, open : BOOLEAN,
     waiting : BOOLEAN, stdin : Seq(Frame), stdout : Seq(Frame)]
ProcessRecord ==
    [at : {"none", "boot", "stuck", "failed",
           "loop", "handling", "hung", "after", "exited", "killed"},
     req : Requests \cup {NoReq}, count : 0 .. MaxJobs]
CallRecord ==
    [at : {"select", "exec", "ready", "put", "done"},
     held : Worker \cup {NoWorker},
     reply : {"none", "ok", "failed", "timeout", "exhausted", "shutdown", "panic"}]
RunRecord ==
    [at : {"none", "write", "read", "ended"}, on : Worker \cup {NoWorker},
     result : Frame \cup {Error, NoResult}]

TypeOK ==
    /\ workers \subseteq Worker
    /\ available \in Seq(Worker) /\ Len(available) <= MaxWorkers
    /\ {closed, cancelled, crashed} \subseteq BOOLEAN
    /\ nextID \in 0 .. MaxID /\ busyWorkers \in 0 .. Cardinality(Requests)
    /\ worker \in [Worker -> WorkerRecord] /\ php \in [Worker -> ProcessRecord]
    /\ call \in [Requests -> CallRecord] /\ run \in [Requests -> RunRecord]
    /\ routines \subseteq Routine
    /\ watchdog \in [at : {"wait", "health", "up", "down", "exit"},
                     toCheck : SUBSET Worker]
    /\ reload \in [n : 0 .. MaxReloads, active : BOOLEAN,
                   old : SUBSET Worker, new : SUBSET Worker]
    /\ draining \in [1 .. MaxReloads ->
                     [job : {"drain", "abort"}, left : SUBSET Worker]]
    /\ stopping \in {"no", "cancelled", "stopping", "closed"}
    /\ faults \in 0 .. MaxFaults

\* What the pool promises (module Lease): a worker serves one request at a
\* time, and one that was given up (a timeout, an error, max_jobs, no READY) is
\* never handed out again.
Place(w) ==
    IF ~Created(w) THEN "new"
    ELSE IF Holds(w) THEN "leased"
    ELSE IF Queued(w) \/ \E g \in routines : g.at = "send" /\ g.w = w THEN "free"
    ELSE "retired"

L == INSTANCE Lease WITH
        Client <- Requests,
        holder <- [r \in Requests |-> call[r].held],
        place <- [w \in Worker |-> Place(w)]

ImplementsLease == L!Spec

\* The answer that Exec returns is the answer to its own request, whatever
\* earlier requests timed out, crashed or left in the pipes of the worker.
AnswerIsMine ==
    \A r \in Requests : call[r].reply = "ok" => run[r].result = Msg("RESPONSE", r)

\* The two ends of a queued worker are in step: its process, unless it has died,
\* waits for a request (or has been told to stop), no answer of an earlier
\* request is in its stdout, and the jobs that Go counts are the requests that
\* PHP counts, below the limit at which both give the worker up.
InStep ==
    \A w \in Range(available) : Alive(w) =>
        /\ php[w].at = "loop" /\ worker[w].stdout = <<>>
        /\ Range(worker[w].stdin) \subseteq {Control("STOP")}
        /\ worker[w].jobs = php[w].count
        /\ MaxJobs > 0 => php[w].count < MaxJobs

\* No worker leaks: until the shutdown every registered worker is queued, serves
\* a request, or is in the hands of a goroutine that stops or sends it.
NoWorkerLost ==
    ~cancelled => \A w \in workers : Queued(w) \/ Holds(w) \/ Handled(w)

\* No process is left behind: a process that runs belongs to a registered
\* worker, which Stop and Reload find, or NewWorker still waits for its READY,
\* and then it is nowhere else: NewWorker kills it or it is registered.
NoOrphanProcess ==
    \A w \in Worker :
        /\ Alive(w) => w \in workers \/ Starting(w)
        /\ Starting(w) => Alive(w) /\ w \notin workers /\ ~Queued(w) /\ ~Holds(w)

\* The limits of PHP are not the client's problem: without faults, reloads and a
\* shutdown no call of Exec fails, although workers exit at max_jobs and at the
\* memory limit and the pool is scaled in the meantime.
LimitsAreInvisible ==
    (faults = 0 /\ reload.n = 0 /\ stopping = "no") =>
        \A r \in Requests : call[r].reply # "failed"

-----------------------------------------------------------------------------
\* Exec returns, except where the code can wait for ever: for READY from a
\* process that hangs after its answer, and for room in a channel that is full.
Stuck(r) ==
    \/ call[r].at = "ready" /\ php[call[r].held].at = "hung"
    \/ call[r].at = "put" /\ Full
ExecReturns ==
    \A r \in Requests : <>(call[r].at = "done" \/ crashed \/ Stuck(r))

\* The capacity of the pool comes back: however requests time out, processes
\* crash or hang and reloads rotate workers, p.available offers a worker again and
\* again.  Excepted are a shutdown, a process whose READY never comes, a caller
\* that is Stuck, a pool whose last spawn failed, and the bound on spawns.
Offers ==
    \/ available # <<>> \/ stopping # "no" \/ crashed
    \/ (\E w \in Worker : php[w].at = "stuck") \/ (\E r \in Requests : Stuck(r))
    \/ workers = {} /\ faults > 0
    \/ nextID = MaxID /\ (reload.active \/ \E g \in routines : g.at = "spawn")
PoolRecovers == []<>Offers

\* Stop ends a process, even one that hangs and does not read the STOP frame.
StopEndsProcess ==
    \A w \in Worker : worker[w].state = "Stopped" ~> (~Alive(w) \/ crashed)

=============================================================================
