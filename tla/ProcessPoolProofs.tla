------------------------- MODULE ProcessPoolProofs -------------------------
(***************************************************************************)
(* Proofs about the pool of external PHP processes, for any number of      *)
(* requests, any configuration and any bound on spawns, reloads and        *)
(* faults.                                                                 *)
(*                                                                         *)
(* The inductive invariant IndInv is proved part by part: the lemma XStep  *)
(* says that every step keeps X, given the parts X rests on.  The heart is *)
(* Protocol: how far the two ends of a worker's pipes are with a request,  *)
(* and that everything that happens to one worker keeps them in step.      *)
(***************************************************************************)
EXTENDS ProcessPool, Wire, ChannelFacts, FiniteSetTheorems, TLAPS

-----------------------------------------------------------------------------
(* The inductive invariant.                                                *)

\* The workers that NewWorker has returned, and the ends of a process.
Spawned == {w \in Worker : Created(w)}
Dead == {"exited", "killed"}

\* Where a caller of Exec has a worker, and a goroutine of w.Exec uses one.
Holding == {"exec", "ready", "put"}
Active == {"write", "read"}
Sending(w) == \E g \in routines : g.at = "send" /\ g.w = w

\* A caller has a worker from its receive until it hands the worker on, the
\* goroutine it starts works on that one, and busyWorkers counts the callers.
CallState ==
    /\ \A r \in Requests :
          /\ call[r].held # NoWorker <=> call[r].at \in Holding
          /\ call[r].at = "select" => run[r].at = "none"
          /\ run[r].at # "none" => run[r].on \in Worker
          /\ call[r].at \in Holding => /\ run[r].on = call[r].held
                                       /\ run[r].at # "none"
          /\ call[r].at \in {"ready", "put"} => run[r].at = "ended"
    /\ busyWorkers = Cardinality({r \in Requests : call[r].at \in Holding})

\* Nothing refers to a worker that NewWorker has not returned, but the goroutine
\* that waits for it; it is as NewWorker will make it.  Ids grow.
Fresh ==
    /\ workers \cup Range(available) \subseteq Spawned
    /\ reload.old \cup reload.new \cup watchdog.toCheck \subseteq Spawned
    /\ \A r \in Requests : {call[r].held, run[r].on} \subseteq Spawned \cup {NoWorker}
    /\ \A g \in routines : g.at = "boot" \/ g.w \in Spawned
    /\ \A k \in 1 .. MaxReloads : draining[k].left \subseteq Spawned
    /\ \A w \in Worker \ Spawned : /\ worker[w] = NewWorker
                                   /\ php[w].req = NoReq /\ php[w].count = 0
    /\ \A w \in Worker : w > nextID => php[w].at = "none"

\* A process that has not said READY has one goroutine that waits for it, and a
\* goroutine that waits has such a process.
Starts ==
    /\ \A g \in routines : g.at = "boot" => Booting(g.w)
    /\ \A w \in Worker : Booting(w) => Starting(w)
    /\ \A g, h \in routines : g.at = "boot" /\ h.at = "boot" /\ g.w = h.w => g = h

\* The channel is a baton: a worker that can be handed out is in one slot of
\* p.available, or with one caller, or with one goroutine that will send it.
Custody ==
    /\ IsInjective(available)
    /\ \A q, r \in Requests :
          call[q].held = call[r].held /\ call[q].held # NoWorker => q = r
    /\ \A g, h \in routines :
          g.at = "send" /\ h.at = "send" /\ g.w = h.w => g = h
    /\ \A w \in Worker : /\ ~(Queued(w) /\ Holds(w))
                         /\ ~(Queued(w) /\ Sending(w))
                         /\ ~(Holds(w) /\ Sending(w))

\* A w.Exec that outlives the Pool.Exec which started it has its worker for
\* itself: the worker never goes to another caller.
ExclusiveRuns ==
    \A q \in Requests : run[q].at \in Active =>
        /\ ~Queued(run[q].on) /\ ~Sending(run[q].on)
        /\ \A r \in Requests : call[r].held = run[q].on => r = q

\* Until the shutdown a registered worker can be handed out, or is on its way
\* out in the hands of a replacer or of autoScale.
Leaving(w) ==
    \E g \in routines : /\ g.job \in {"replace", "scaleDown"} /\ g.w = w
                        /\ g.at \in {"signal", "wait", "remove"}
\* NoWorkerLost, strengthened by who is taking the worker out of the pool.
Kept ==
    ~cancelled => \A w \in workers :
        Queued(w) \/ Holds(w) \/ Sending(w) \/ Leaving(w)

\* A worker is removed after its process has ended.
StopBeforeRemove == \A g \in routines : g.at = "remove" => ~Alive(g.w)

\* Stop closes the channel last.
Shutdown ==
    /\ closed => stopping = "closed"
    /\ stopping = "no" <=> ~cancelled

\* PHP counts its requests up to the limit and then leaves run().
Counts ==
    \A w \in Worker :
        /\ MaxJobs = 0 => php[w].count = 0
        /\ MaxJobs > 0 /\ php[w].at \in {"none", "boot", "loop", "handling"} =>
              php[w].count < MaxJobs

(***************************************************************************)
(* How far the two ends of the pipes of a worker are: wk are the fields of *)
(* the Worker, p is the process.                                           *)
(***************************************************************************)
REQUEST(r) == Msg("REQUEST", r)
RESPONSE(r) == Msg("RESPONSE", r)
READY == Control("READY")
STOP == Control("STOP")
NOISE == Control("NOISE")

\* No request is in stdin, and STOP only once stdin is closed.
NoRequest(wk) == wk.stdin = <<>> \/ (wk.stdin = <<STOP>> /\ ~wk.open)

\* PHP serves at least one more request before its limit.
JobsLeft(p) == MaxJobs > 0 => p.count < MaxJobs

\* Both ends wait for the next request.
Rested(wk, p) ==
    /\ NoRequest(wk) /\ wk.stdout = <<>>
    /\ wk.jobs = p.count /\ JobsLeft(p)
    /\ p.at \in {"loop"} \cup Dead

\* The request has been written and not read.
Asked(r, wk, p) ==
    /\ \/ wk.stdin = <<REQUEST(r)>>
       \/ wk.stdin = <<REQUEST(r), STOP>> /\ ~wk.open
    /\ wk.stdout = <<>>
    /\ wk.jobs = p.count /\ JobsLeft(p)
    /\ p.at \in {"loop"} \cup Dead

\* The handler runs, or never ends, or has ended its process.
Handling(r, wk, p) ==
    /\ NoRequest(wk) /\ wk.stdout = <<>>
    /\ wk.jobs = p.count /\ JobsLeft(p)
    /\ p.at \in {"handling", "hung"} \cup Dead
    /\ p.req = r

\* The next read fails: there is noise before the frame.
Spoilt(wk) == wk.stdout # <<>> /\ Head(wk.stdout) = NOISE

\* After the answer PHP says nothing (yet), or READY when it will serve another
\* request.
Silent(p) == p.at \in {"after", "hung"} \cup Dead
WillServe(p) == p.at \in {"loop"} \cup Dead /\ JobsLeft(p)

\* The answer is in stdout.
Answered(r, wk, p) ==
    \/ /\ NoRequest(wk)
       /\ p.count = IF MaxJobs > 0 THEN wk.jobs + 1 ELSE wk.jobs
       /\ \/ wk.stdout = <<RESPONSE(r)>> /\ Silent(p)
          \/ wk.stdout = <<RESPONSE(r), READY>> /\ WillServe(p)
    \/ Len(wk.stdout) > 1 /\ wk.stdout[1] = RESPONSE(r) /\ wk.stdout[2] = NOISE

\* w.Exec has read the answer.
Replied(wk, p) ==
    \/ /\ NoRequest(wk) /\ wk.jobs = p.count
       /\ \/ wk.stdout = <<>> /\ Silent(p)
          \/ wk.stdout = <<READY>> /\ WillServe(p)
    \/ Spoilt(wk)

\* w.Exec waits for the answer to r.
Reading(r, wk, p) ==
    Asked(r, wk, p) \/ Handling(r, wk, p) \/ Answered(r, wk, p) \/ Spoilt(wk)

\* The two ends of every worker that can be handed out are in step.
Protocol ==
    /\ \A w \in Worker : Queued(w) \/ Sending(w) => Rested(worker[w], php[w])
    /\ \A r \in Requests, w \in Worker : call[r].held = w =>
          /\ call[r].at = "put" \/ run[r].at = "write" => Rested(worker[w], php[w])
          /\ run[r].at = "read" => Reading(r, worker[w], php[w])
          /\ run[r].at = "ended" /\ call[r].at # "put" /\ run[r].result # Error =>
                Replied(worker[w], php[w])

\* What w.Exec has read, while somebody waits for it.
Results ==
    \A r \in Requests :
        /\ call[r].at \in Holding /\ run[r].at = "ended" =>
              run[r].result \in {Error, RESPONSE(r)}
        /\ call[r].at \in {"ready", "put"} => run[r].result = RESPONSE(r)
        /\ call[r].reply = "ok" =>
              call[r].at = "done" /\ run[r].at = "ended" /\ run[r].result = RESPONSE(r)

\* The inductive invariant: the safety properties and what they rest on.
IndInv ==
    /\ TypeOK /\ CallState /\ Fresh /\ Starts /\ Custody /\ ExclusiveRuns /\ Kept
    /\ StopBeforeRemove /\ NoOrphanProcess /\ Shutdown /\ Counts /\ Protocol
    /\ Results

(***************************************************************************)
(* Without faults, reloads and a shutdown only the owner of a worker stops *)
(* it, so a process that can be handed out runs, and ends only after an    *)
(* answer.                                                                 *)
(***************************************************************************)
Undisturbed == faults = 0 /\ reload.n = 0 /\ stopping = "no"

\* The worker can be handed out, or has been.
Circulating(w) == Queued(w) \/ Holds(w) \/ Sending(w)

\* An undisturbed worker that was given the request r and whose answer was not read.
QuietAsked(r, wk, p) ==
    \/ wk.stdin # <<>> /\ wk.stdout = <<>> /\ p.at = "loop"
    \/ wk.stdin = <<>> /\ wk.stdout = <<>> /\ p.at = "handling"
    \/ wk.stdout = <<RESPONSE(r)>> /\ p.at \in {"after", "exited"}
    \/ wk.stdout = <<RESPONSE(r), READY>> /\ p.at = "loop"

\* An undisturbed worker whose answer was read: READY comes, or its limit was reached.
QuietReplied(wk, p) ==
    \/ wk.stdout = <<>> /\ p.at \in {"after", "exited"}
    \/ wk.stdout = <<READY>> /\ p.at = "loop"

\* The worker w of the call r serves it, or has served it, without an error.
Calm(r, w) ==
    /\ call[r].at = "put" \/ run[r].at = "write" => php[w].at = "loop"
    /\ run[r].at = "read" => QuietAsked(r, worker[w], php[w])
    /\ run[r].at = "ended" => run[r].result # Error
    /\ run[r].at = "ended" /\ call[r].at # "put" => QuietReplied(worker[w], php[w])

\* While nothing disturbs the pool no call has failed, only replacers and autoScale stop
\* workers, and those that can be handed out are up.
QuietPool ==
    /\ \A r \in Requests : call[r].reply # "failed"
    /\ ~reload.active /\ \A k \in 1 .. MaxReloads : draining[k].left = {}
    /\ \A g \in routines : /\ g.job \in {"replace", "scaleUp", "scaleDown"}
                           /\ g.at # "send" => ~Circulating(g.w)
    /\ \A w \in Worker : Circulating(w) => worker[w].open /\ ~worker[w].waiting
    /\ \A w \in Worker : Queued(w) \/ Sending(w) => php[w].at = "loop"
    /\ \A r \in Requests, w \in Worker : call[r].held = w => Calm(r, w)

\* What makes LimitsAreInvisible inductive, relative to IndInv.
Quiet == Undisturbed => QuietPool

-----------------------------------------------------------------------------
(* Facts about the values the model is built from.                         *)

\* The records of the set routines.
LEMMA RoutineFields ==
    /\ \A g \in Routine : g.w \in Worker /\ g.at \in Stage /\ g.job \in Job
    /\ \A g \in Routine, a \in Stage :
          /\ At(g, a).at = a /\ At(g, a).w = g.w /\ At(g, a).job = g.job
    /\ \A j, k, w : /\ Stopper(j, k, w).at = "signal" /\ Stopper(j, k, w).w = w
                    /\ Stopper(j, k, w).job = j
    /\ \A j, w : /\ Starter(j, w).at = "boot" /\ Starter(j, w).w = w
                 /\ Starter(j, w).job = j
  BY DEF Routine, At, Stopper, Starter, Stage

\* The constructors of goroutines build goroutines.
LEMMA RoutineTypes ==
    /\ \A g \in Routine, a \in Stage : At(g, a) \in Routine
    /\ \A j \in Job, k \in 0 .. MaxReloads, w \in Worker :
          Stopper(j, k, w) \in Routine
    /\ \A k \in 1 .. MaxReplacers, w \in Worker :
          Stopper("replace", k, w) \in Routine
    /\ \A j \in Job, w \in Worker : Starter(j, w) \in Routine
  BY Scenario DEF Routine, At, Stopper, Starter, Stage, Job

\* go p.replaceWorker(w) adds one goroutine.
LEMMA ReplaceFacts ==
    ASSUME NEW w \in Worker, GoReplace(w)
    PROVE  \E h \in Routine :
              /\ h.job = "replace" /\ h.w = w /\ h.at = "signal"
              /\ routines' = routines \cup {h}
  BY RoutineFields, RoutineTypes DEF GoReplace

\* The frames are frames, and differ.
LEMMA FrameFacts ==
    /\ \A r \in Requests : REQUEST(r) \in Frame /\ RESPONSE(r) \in Frame
    /\ {READY, STOP, NOISE} \subseteq Frame
    /\ Error \notin Frame
    /\ \A r \in Requests :
          /\ REQUEST(r).type = "REQUEST" /\ REQUEST(r).req = r
          /\ RESPONSE(r).type = "RESPONSE"
    /\ READY.type = "READY" /\ STOP.type = "STOP" /\ NOISE.type = "NOISE"
  BY DEF REQUEST, RESPONSE, READY, STOP, NOISE, Error, Control, Msg, Frame

\* The channel stays within its capacity.
LEMMA QueueSend ==
    ASSUME TypeOK, ~Full, NEW w \in Worker
    PROVE  /\ Append(available, w) \in Seq(Worker)
           /\ Len(Append(available, w)) <= MaxWorkers
<1>1. available \in Seq(Worker) /\ Len(available) \in Nat
  BY DEF TypeOK
<1>2. QED
  BY <1>1, AppendFacts, PoolConfig DEF Full

\* A receive leaves a channel of workers within its capacity.
LEMMA QueueReceive ==
    ASSUME TypeOK, available # <<>>
    PROVE  /\ Head(available) \in Worker
           /\ Tail(available) \in Seq(Worker)
           /\ Len(Tail(available)) <= MaxWorkers
<1>1. available \in Seq(Worker)
  BY DEF TypeOK
<1>2. QED
  BY <1>1, TailFacts, PoolConfig DEF TypeOK

\* A caller that has a worker has a worker.
LEMMA HasWorker ==
    ASSUME TypeOK, CallState, NEW r \in Requests, call[r].at \in Holding
    PROVE  call[r].held \in Worker
  BY DEF TypeOK, CallRecord, CallState

\* A goroutine of w.Exec that has started has a worker.
LEMMA RunsOn ==
    ASSUME CallState, NEW r \in Requests, run[r].at # "none"
    PROVE  run[r].on \in Worker
  BY DEF CallState

\* What a read of stdout returns and leaves.
LEMMA ReadFacts ==
    ASSUME TypeOK, NEW w \in Worker
    PROVE  /\ ReadFrame(w) \in Frame \cup {Error}
           /\ AfterRead(w) = worker \/ /\ worker[w].stdout # <<>>
                                       /\ AfterRead(w) = [worker EXCEPT ![w].stdout = Tail(@)]
<1>1. worker[w].stdout \in Seq(Frame)
  BY DEF TypeOK, WorkerRecord
<1>2. worker[w].stdout # <<>> => Head(worker[w].stdout) \in Frame
  BY <1>1, TailFacts
<1>3. QED
  BY <1>2 DEF ReadFrame, AfterRead

-----------------------------------------------------------------------------
(* Every step keeps the types.                                             *)

\* The fields of a worker after a read of its stdout.
LEMMA AfterReadType ==
    ASSUME TypeOK, NEW w \in Worker
    PROVE  /\ AfterRead(w) \in [Worker -> WorkerRecord]
           /\ \A v \in Worker : v # w => AfterRead(w)[v] = worker[v]
           /\ \A v \in Worker : AfterRead(w)[v].jobs = worker[v].jobs
<1>1. worker[w].stdout \in Seq(Frame)
  BY DEF TypeOK, WorkerRecord
<1>2. worker[w].stdout # <<>> => Tail(worker[w].stdout) \in Seq(Frame)
  BY <1>1, TailFacts
<1>3. worker[w] \in WorkerRecord
  BY DEF TypeOK
<1>4. worker[w].stdout # <<>> =>
         /\ [worker[w] EXCEPT !.stdout = Tail(@)] \in WorkerRecord
         /\ [worker[w] EXCEPT !.stdout = Tail(@)].jobs = worker[w].jobs
  BY <1>2, <1>3 DEF WorkerRecord
<1>5. QED
  BY <1>4 DEF AfterRead, TypeOK

\* The fields of a worker after w.Exec.
LEMMA EndedType ==
    ASSUME NEW wk \in [Worker -> WorkerRecord], NEW w \in Worker
    PROVE  [wk EXCEPT ![w].state = "Idle",
                      ![w].jobs = IF MaxJobs > 0 THEN @ + 1 ELSE @]
              \in [Worker -> WorkerRecord]
<1>1. wk[w].jobs \in Nat
  BY DEF WorkerRecord
<1>2. PICK n \in Nat : n = IF MaxJobs > 0 THEN wk[w].jobs + 1 ELSE wk[w].jobs
  BY <1>1
<1>3. [wk EXCEPT ![w].state = "Idle", ![w].jobs = n] \in [Worker -> WorkerRecord]
  BY ZenonT(40) DEF WorkerRecord
<1>4. QED
  BY <1>2, <1>3

\* What the start of a spawn does.
LEMMA SpawnFacts ==
    ASSUME TypeOK, NEW G, NEW j \in Job, Spawn(G, j)
    PROVE  /\ nextID' \in Worker /\ nextID' = nextID + 1 /\ nextID \in Nat
           /\ routines' = (routines \ G) \cup {Starter(j, nextID')}
           /\ Starter(j, nextID') \in Routine
           /\ worker' = worker /\ faults' = faults
           /\ php' = [php EXCEPT ![nextID'].at = "boot"]
  BY Scenario, RoutineTypes DEF TypeOK, Worker, Spawn

\* The types of what the start of a spawn changes.
LEMMA SpawnTypes ==
    ASSUME TypeOK, NEW G, NEW j \in Job, Spawn(G, j) \/ SpawnFails(G)
    PROVE  /\ nextID' \in 0 .. MaxID
           /\ routines' \subseteq Routine /\ worker' = worker
           /\ php' \in [Worker -> ProcessRecord]
           /\ faults' \in 0 .. MaxFaults
<1>1. CASE Spawn(G, j)
  <2>1. php \in [Worker -> ProcessRecord] /\ nextID' \in Worker
    BY <1>1, SpawnFacts DEF TypeOK
  <2>2. php' \in [Worker -> ProcessRecord]
    BY <1>1, <2>1, SpawnFacts DEF ProcessRecord
  <2>3. nextID' \in 0 .. MaxID
    BY <2>1, Scenario DEF Worker
  <2>4. routines' \subseteq Routine
    BY <1>1, SpawnFacts DEF TypeOK
  <2>5. worker' = worker /\ faults' \in 0 .. MaxFaults
    BY <1>1, SpawnFacts DEF TypeOK
  <2>6. QED
    BY <2>2, <2>3, <2>4, <2>5
<1>2. CASE SpawnFails(G)
  BY <1>2, Scenario DEF SpawnFails, TypeOK, processVars
<1>3. QED
  BY <1>1, <1>2

\* The types after Reload has ended.
LEMMA ReloadEndsTypes ==
    ASSUME TypeOK, NEW job \in {"drain", "abort"}, NEW left \in SUBSET Worker,
           ReloadEnds(job, left)
    PROVE  /\ reload' \in [n : 0 .. MaxReloads, active : BOOLEAN,
                           old : SUBSET Worker, new : SUBSET Worker]
           /\ draining' \in [1 .. MaxReloads ->
                                [job : {"drain", "abort"}, left : SUBSET Worker]]
  BY DEF ReloadEnds, TypeOK

\* Every step keeps the types.  busyWorkers stays between 0 and the number of
\* callers because it counts callers (CallState), and the count of a process
\* stays within max_jobs because PHP leaves run() there (Counts).
LEMMA TypeStep ==
    /\ TypeOK /\ CallState /\ Counts /\ [Next]_vars
    /\ busyWorkers' \in 0 .. Cardinality(Requests)
    => TypeOK'
<1> SUFFICES ASSUME TypeOK, CallState, Counts, [Next]_vars,
                    busyWorkers' \in 0 .. Cardinality(Requests)
             PROVE  TypeOK'
  OBVIOUS
<1> USE DEF poolVars, processVars, callVars, controlVars
<1>0. /\ worker \in [Worker -> WorkerRecord] /\ php \in [Worker -> ProcessRecord]
      /\ call \in [Requests -> CallRecord] /\ run \in [Requests -> RunRecord]
  BY DEF TypeOK
<1>1. CASE UNCHANGED vars
  BY <1>1 DEF TypeOK, vars
<1>2. ASSUME NEW r \in Requests, Take(r)
      PROVE  TypeOK'
  <2>1. call' \in [Requests -> CallRecord]
    BY ZenonT(40), <1>0, <1>2, QueueReceive DEF Take, CallRecord
  <2>2. run' \in [Requests -> RunRecord]
    BY ZenonT(40), <1>0, <1>2, QueueReceive DEF Take, RunRecord
  <2>3. QED
    BY <1>2, <2>1, <2>2, QueueReceive DEF Take, TypeOK
<1>3. ASSUME NEW r \in Requests, GiveUp(r)
      PROVE  TypeOK'
  <2>1. PICK why \in {"exhausted", "shutdown"} :
           call' = [call EXCEPT ![r].at = "done", ![r].reply = why]
    BY <1>3 DEF GiveUp
  <2>2. call' \in [Requests -> CallRecord]
    BY ZenonT(40), <1>0, <2>1 DEF CallRecord
  <2>3. QED
    BY <1>3, <2>2 DEF GiveUp, TypeOK
<1>4. ASSUME NEW r \in Requests, TakeNil(r)
      PROVE  TypeOK'
  BY <1>4 DEF TakeNil, TypeOK
<1>5. ASSUME NEW r \in Requests, Receive(r)
      PROVE  TypeOK'
  <2>1. call[r].held \in Worker
    BY <1>5, HasWorker DEF Receive, Holding
  <2>2. routines' \subseteq Routine
    BY <1>5, <2>1, ReplaceFacts DEF Receive, TypeOK
  <2>3. call' \in [Requests -> CallRecord]
    BY <1>0, <1>5 DEF Receive, Return, CallRecord
  <2>4. QED
    BY <1>5, <2>2, <2>3 DEF Receive, TypeOK
<1>6. ASSUME NEW r \in Requests, Timeout(r)
      PROVE  TypeOK'
  <2>1. call[r].held \in Worker
    BY <1>6, HasWorker DEF Timeout, Holding
  <2>2. routines' \subseteq Routine
    BY <1>6, <2>1, ReplaceFacts DEF Timeout, TypeOK
  <2>3. call' \in [Requests -> CallRecord]
    BY <1>0, <1>6 DEF Timeout, Return, CallRecord
  <2>4. QED
    BY <1>6, <2>2, <2>3 DEF Timeout, TypeOK
<1>7. ASSUME NEW r \in Requests, Abandon(r)
      PROVE  TypeOK'
  <2>1. call' \in [Requests -> CallRecord]
    BY <1>0, <1>7 DEF Abandon, Return, CallRecord
  <2>2. QED
    BY <1>7, <2>1 DEF Abandon, TypeOK
<1>8. ASSUME NEW r \in Requests, AwaitReady(r)
      PROVE  TypeOK'
  <2>1. call[r].held \in Worker
    BY <1>8, HasWorker DEF AwaitReady, Holding
  <2>2. routines' \subseteq Routine
    BY <1>8, <2>1, ReplaceFacts DEF AwaitReady, TypeOK
  <2>3. call' \in [Requests -> CallRecord]
    BY SMTT(40), <1>0, <1>8 DEF AwaitReady, Return, CallRecord
  <2>4. worker' \in [Worker -> WorkerRecord]
    BY <1>0, <1>8, <2>1, AfterReadType DEF AwaitReady
  <2>5. QED
    BY <1>8, <2>2, <2>3, <2>4 DEF AwaitReady, TypeOK
<1>9. ASSUME NEW r \in Requests, PutBack(r)
      PROVE  TypeOK'
  <2>1. call[r].held \in Worker
    BY <1>9, HasWorker DEF PutBack, Holding
  <2>2. available' \in Seq(Worker) /\ Len(available') <= MaxWorkers
    BY <1>9, <2>1, QueueSend DEF PutBack, TypeOK
  <2>3. call' \in [Requests -> CallRecord]
    BY <1>0, <1>9 DEF PutBack, Return, CallRecord
  <2>4. QED
    BY <1>9, <2>2, <2>3 DEF PutBack, TypeOK
<1>10. ASSUME NEW r \in Requests, RunWrite(r)
       PROVE  TypeOK'
  <2>1. run[r].on \in Worker
    BY <1>10, RunsOn DEF RunWrite
  <2>2. worker[run[r].on].stdin \in Seq(Frame) /\ REQUEST(r) \in Frame
    BY <2>1, FrameFacts DEF TypeOK, WorkerRecord
  <2>3. Append(worker[run[r].on].stdin, REQUEST(r)) \in Seq(Frame)
    BY <2>2, AppendFacts
  <2>4. worker' \in [Worker -> WorkerRecord]
    <3>1. CASE worker' = [worker EXCEPT
                             ![run[r].on].stdin = Append(@, REQUEST(r)),
                             ![run[r].on].state = "Busy"]
      <4> DEFINE rec == [worker[run[r].on] EXCEPT
                             !.stdin = Append(@, REQUEST(r)), !.state = "Busy"]
      <4>1. rec \in WorkerRecord
        <5>1. worker[run[r].on] \in WorkerRecord
          BY <1>0, <2>1
        <5>2. QED
          BY ZenonT(40), <2>3, <5>1 DEF WorkerRecord
      <4>2. worker' = [worker EXCEPT ![run[r].on] = rec]
        BY <1>0, <2>1, <3>1
      <4> HIDE DEF rec
      <4>3. QED
        BY <1>0, <2>1, <4>1, <4>2
    <3>2. CASE Ended(r, worker, Error)
      BY <1>0, <2>1, <3>2, EndedType DEF Ended
    <3>3. QED
      BY <1>10, <3>1, <3>2 DEF RunWrite, REQUEST
  <2>5. run' \in [Requests -> RunRecord]
    BY <1>0, <1>10 DEF RunWrite, Ended, RunRecord
  <2>6. QED
    BY <1>10, <2>4, <2>5 DEF RunWrite, TypeOK
<1>11. ASSUME NEW r \in Requests, RunRead(r)
       PROVE  TypeOK'
  <2>1. run[r].on \in Worker
    BY <1>11, RunsOn DEF RunRead
  <2>2. worker' \in [Worker -> WorkerRecord]
    BY <1>11, <2>1, AfterReadType, EndedType DEF RunRead, Ended
  <2>3. ReadFrame(run[r].on) \in Frame \cup {Error}
    BY <2>1, ReadFacts
  <2>4. run' = [run EXCEPT ![r].at = "ended", ![r].result = ReadFrame(run[r].on)]
    BY <1>11 DEF RunRead, Ended
  <2>5. run' \in [Requests -> RunRecord]
    BY ZenonT(40), <1>0, <2>3, <2>4 DEF RunRecord
  <2>6. QED
    BY <1>11, <2>2, <2>5 DEF RunRead, TypeOK
<1>12. ASSUME NEW w \in Worker, PHPRead(w)
       PROVE  TypeOK'
  <2>1. worker[w].stdin \in Seq(Frame)
    BY DEF TypeOK, WorkerRecord
  <2>2. worker[w].stdin # <<>> => /\ Tail(worker[w].stdin) \in Seq(Frame)
                                  /\ Head(worker[w].stdin) \in Frame
    BY <2>1, TailFacts
  <2>3. worker[w].stdin # <<>> => Head(worker[w].stdin).req \in Requests \cup {NoReq}
    BY <2>2 DEF Frame
  <2>4. worker' \in [Worker -> WorkerRecord]
    <3>1. CASE worker' = worker
      BY <1>0, <3>1
    <3>2. CASE worker[w].stdin # <<>>
               /\ worker' = [worker EXCEPT ![w].stdin = Tail(@)]
      BY ZenonT(40), <1>0, <2>2, <3>2 DEF WorkerRecord
    <3>3. QED
      BY <1>12, <3>1, <3>2 DEF PHPRead
  <2>5. php' \in [Worker -> ProcessRecord]
    <3>1. CASE php' = [php EXCEPT ![w].at = "exited"]
      BY <1>0, <3>1 DEF ProcessRecord
    <3>2. ASSUME NEW r \in Requests \cup {NoReq},
                 php' = [php EXCEPT ![w].at = "handling", ![w].req = r]
          PROVE  php' \in [Worker -> ProcessRecord]
      BY ZenonT(40), <1>0, <3>2 DEF ProcessRecord
    <3>3. QED
      BY <1>12, <2>3, <3>1, <3>2 DEF PHPRead, PHPEnds
  <2>6. QED
    BY <1>12, <2>4, <2>5 DEF PHPRead, TypeOK
<1>13. ASSUME NEW w \in Worker, PHPRespond(w)
       PROVE  TypeOK'
  <2>1. worker[w].stdout \in Seq(Frame) /\ php[w].req \in Requests \cup {NoReq}
    BY DEF TypeOK, WorkerRecord, ProcessRecord
  <2>2. Msg("RESPONSE", php[w].req) \in Frame
    BY <2>1 DEF Msg, Frame
  <2>3. Append(worker[w].stdout, Msg("RESPONSE", php[w].req)) \in Seq(Frame)
    BY <2>1, <2>2, AppendFacts
  <2>4. (IF MaxJobs > 0 THEN php[w].count + 1 ELSE 0) \in 0 .. MaxJobs
    BY <1>13, PoolConfig DEF PHPRespond, Counts, TypeOK, ProcessRecord
  <2>5. worker' \in [Worker -> WorkerRecord]
    BY ZenonT(40), <1>0, <1>13, <2>3 DEF PHPRespond, WorkerRecord
  <2>6. php' \in [Worker -> ProcessRecord]
    BY <1>0, <1>13, <2>4 DEF PHPRespond, ProcessRecord
  <2>7. QED
    BY <1>13, <2>5, <2>6 DEF PHPRespond, TypeOK
<1>14. ASSUME NEW w \in Worker, PHPNext(w)
       PROVE  TypeOK'
  <2>1. worker[w].stdout \in Seq(Frame) /\ READY \in Frame
    BY FrameFacts DEF TypeOK, WorkerRecord
  <2>2. Append(worker[w].stdout, READY) \in Seq(Frame)
    BY <2>1, AppendFacts
  <2>3. worker' \in [Worker -> WorkerRecord]
    BY ZenonT(40), <1>0, <1>14, <2>2 DEF PHPNext, WorkerRecord, READY
  <2>4. php' \in [Worker -> ProcessRecord]
    <3>1. \E how \in {"loop", "exited"} : php' = [php EXCEPT ![w].at = how]
      BY <1>14 DEF PHPNext, PHPEnds
    <3>2. QED
      BY <1>0, <3>1 DEF ProcessRecord
  <2>5. QED
    BY <1>14, <2>3, <2>4 DEF PHPNext, TypeOK
<1>15. ASSUME NEW w \in Worker, Fault(w)
       PROVE  TypeOK'
  <2>1. worker[w].stdout \in Seq(Frame) /\ NOISE \in Frame
    BY FrameFacts DEF TypeOK, WorkerRecord
  <2>2. Append(worker[w].stdout, NOISE) \in Seq(Frame)
    BY <2>1, AppendFacts
  <2>3. faults' \in 0 .. MaxFaults
    BY SMTT(40), <1>15, Scenario DEF Fault, TypeOK
  <2>4. worker' \in [Worker -> WorkerRecord]
    BY ZenonT(40), <1>0, <1>15, <2>2 DEF Fault, WorkerRecord, NOISE
  <2>5. php' \in [Worker -> ProcessRecord]
    BY <1>0, <1>15 DEF Fault, PHPEnds, ProcessRecord
  <2>6. QED
    BY <1>15, <2>3, <2>4, <2>5 DEF Fault, TypeOK
<1>16. ASSUME NEW g \in routines, SendStop(g)
       PROVE  TypeOK'
  <2>1. g \in Routine /\ g.w \in Worker
    BY RoutineFields DEF TypeOK
  <2>2. worker[g.w].stdin \in Seq(Frame) /\ STOP \in Frame
    BY <2>1, FrameFacts DEF TypeOK, WorkerRecord
  <2>3. Append(worker[g.w].stdin, STOP) \in Seq(Frame)
    BY <2>2, AppendFacts
  <2>4. routines' \subseteq Routine
    BY SMTT(40), <1>16, <2>1, RoutineTypes DEF SendStop, Become, TypeOK, Stage
  <2>5. PICK in \in Seq(Frame) :
           worker' = [worker EXCEPT ![g.w].state = "Stopped", ![g.w].stdin = in,
                                    ![g.w].open = FALSE, ![g.w].waiting = TRUE]
    BY <1>0, <1>16, <2>1, <2>2, <2>3 DEF SendStop, STOP
  <2>6. worker' \in [Worker -> WorkerRecord]
    <3>1. [worker EXCEPT ![g.w].state = "Stopped", ![g.w].stdin = in]
             \in [Worker -> WorkerRecord]
      BY ZenonT(40), <1>0, <2>1 DEF WorkerRecord
    <3>2. \A wk \in [Worker -> WorkerRecord] :
             [wk EXCEPT ![g.w].open = FALSE, ![g.w].waiting = TRUE]
                \in [Worker -> WorkerRecord]
      BY ZenonT(40), <2>1 DEF WorkerRecord
    <3>3. QED
      BY <2>5, <3>1, <3>2
  <2>7. QED
    BY <1>16, <2>4, <2>6 DEF SendStop, TypeOK
<1>17. ASSUME NEW g \in routines, StopReturns(g)
       PROVE  TypeOK'
  <2>1. g \in Routine /\ g.w \in Worker
    BY RoutineFields DEF TypeOK
  <2>2. routines' \subseteq Routine
    BY <1>17, <2>1, RoutineTypes DEF StopReturns, Become, TypeOK, Stage
  <2>3. php' \in [Worker -> ProcessRecord]
    BY <1>0, <1>17, <2>1 DEF StopReturns, PHPEnds, ProcessRecord
  <2>4. QED
    BY <1>17, <2>2, <2>3 DEF StopReturns, TypeOK
<1>18. ASSUME NEW g \in routines, RemoveWorker(g)
       PROVE  TypeOK'
  <2>1. g \in Routine /\ g.w \in Worker
    BY RoutineFields DEF TypeOK
  <2>2. routines' \subseteq Routine
    BY <1>18, <2>1, RoutineTypes DEF RemoveWorker, Become, TypeOK, Stage
  <2>3. QED
    BY <1>18, <2>1, <2>2 DEF RemoveWorker, TypeOK
<1>19. ASSUME NEW g \in routines, SpawnReplacement(g)
       PROVE  TypeOK'
  <2>1. Spawn({g}, "replace") \/ SpawnFails({g})
    BY <1>19 DEF SpawnReplacement
  <2>2. QED
    BY <1>19, <2>1, SpawnTypes DEF SpawnReplacement, TypeOK, Job
<1>20. ASSUME NEW g \in routines, Send(g)
       PROVE  TypeOK'
  <2>1. g \in Routine /\ g.w \in Worker
    BY RoutineFields DEF TypeOK
  <2>2. available' \in Seq(Worker) /\ Len(available') <= MaxWorkers
    BY <1>20, <2>1, QueueSend DEF Send, TypeOK
  <2>3. QED
    BY <1>20, <2>2 DEF Send, Become, TypeOK
<1>21. CASE Tick
  BY <1>21 DEF Tick, TypeOK
<1>22. CASE HealthCheck
  <2>1. PICK w \in watchdog.toCheck :
           /\ watchdog' = [watchdog EXCEPT !.toCheck = @ \ {w}]
           /\ GoReplace(w) \/ routines' = routines
    BY <1>22 DEF HealthCheck
  <2>2. w \in Worker
    BY DEF TypeOK
  <2>3. routines' \subseteq Routine
    BY <2>1, <2>2, ReplaceFacts DEF TypeOK
  <2>4. QED
    BY <1>22, <2>1, <2>3 DEF HealthCheck, TypeOK
<1>23. CASE Decide
  BY <1>23 DEF Decide, ScaleDecision, TypeOK
<1>24. CASE ScaleUp
  <2>1. Spawn({}, "scaleUp") \/ SpawnFails({})
    BY <1>24 DEF ScaleUp
  <2>2. QED
    BY <1>24, <2>1, SpawnTypes DEF ScaleUp, TypeOK, Job
<1>25. CASE ScaleDown
  <2>1. /\ available' \in Seq(Worker) /\ Len(available') <= MaxWorkers
        /\ available # <<>> => Head(available) \in Worker
    BY <1>25, QueueReceive DEF ScaleDown, TypeOK
  <2>2. routines' \subseteq Routine
    BY <1>25, <2>1, RoutineTypes, Scenario DEF ScaleDown, TypeOK, Job
  <2>3. QED
    BY <1>25, <2>1, <2>2 DEF ScaleDown, TypeOK
<1>26. CASE WatchdogExit
  BY <1>26 DEF WatchdogExit, TypeOK
<1>27. CASE ReloadBegin
  BY <1>27, Scenario DEF ReloadBegin, TypeOK
<1>28. CASE ReloadSpawn
  <2>1. Spawn({}, "reload") \/ SpawnFails({})
    BY <1>28 DEF ReloadSpawn
  <2>2. /\ nextID' \in 0 .. MaxID
        /\ routines' \subseteq Routine /\ worker' = worker
        /\ php' \in [Worker -> ProcessRecord] /\ faults' \in 0 .. MaxFaults
    BY <2>1, SpawnTypes DEF Job
  <2>3. /\ reload' \in [n : 0 .. MaxReloads, active : BOOLEAN,
                       old : SUBSET Worker, new : SUBSET Worker]
        /\ draining' \in [1 .. MaxReloads ->
                            [job : {"drain", "abort"}, left : SUBSET Worker]]
    <3>1. CASE UNCHANGED <<reload, draining>>
      BY <3>1 DEF TypeOK
    <3>2. CASE ReloadEnds("abort", reload.new)
      BY <3>2, ReloadEndsTypes DEF TypeOK
    <3>3. QED
      BY <1>28, <3>1, <3>2 DEF ReloadSpawn
  <2>4. QED
    BY <1>28, <2>2, <2>3 DEF ReloadSpawn, TypeOK
<1>29. CASE ReloadReturn
  BY <1>29 DEF ReloadReturn, ReloadEnds, TypeOK
<1>30. ASSUME NEW k \in 1 .. MaxReloads, DrainNext(k)
       PROVE  TypeOK'
  <2>1. draining[k].job \in Job
    BY DEF TypeOK, Job
  <2>2. routines' \subseteq Routine
    BY <1>30, <2>1, RoutineTypes, Scenario DEF DrainNext, TypeOK
  <2>3. QED
    BY <1>30, <2>2 DEF DrainNext, TypeOK
<1>31. CASE Cancel
  BY <1>31 DEF Cancel, TypeOK
<1>32. CASE StopWorkers
  <2>1. \A w \in workers : Stopper("stop", 0, w) \in Routine
    BY RoutineTypes, Scenario DEF TypeOK, Job
  <2>2. \A h \in routines' : h \in Routine
    BY <1>32, <2>1 DEF StopWorkers, TypeOK
  <2>3. QED
    BY <1>32, <2>2 DEF StopWorkers, TypeOK
<1>33. CASE CloseQueue
  BY <1>33 DEF CloseQueue, TypeOK
<1>34. ASSUME NEW g \in routines, Register(g)
       PROVE  TypeOK'
  <2>1. g \in Routine /\ g.w \in Worker
    BY RoutineFields DEF TypeOK
  <2>2. routines' \subseteq Routine
    BY <1>34, <2>1, RoutineTypes DEF Register, Become, TypeOK, Stage
  <2>3. php' \in [Worker -> ProcessRecord]
    BY <1>0, <1>34, <2>1 DEF Register, ProcessRecord
  <2>4. reload' \in [n : 0 .. MaxReloads, active : BOOLEAN,
                     old : SUBSET Worker, new : SUBSET Worker]
    BY <1>34, <2>1 DEF Register, TypeOK
  <2>5. QED
    BY <1>34, <2>1, <2>2, <2>3, <2>4 DEF Register, TypeOK
<1>35. ASSUME NEW w \in Worker, BootHangs(w)
       PROVE  TypeOK'
  <2>1. php' \in [Worker -> ProcessRecord]
    BY <1>0, <1>35 DEF BootHangs, PHPEnds, ProcessRecord
  <2>2. faults' \in 0 .. MaxFaults
    BY <1>35, Scenario DEF BootHangs, TypeOK
  <2>3. QED
    BY <1>35, <2>1, <2>2 DEF BootHangs, TypeOK
<1>36. ASSUME NEW g \in routines, BootFails(g)
       PROVE  TypeOK'
  <2>1. g.w \in Worker
    BY RoutineFields DEF TypeOK
  <2>2. php' \in [Worker -> ProcessRecord]
    BY <1>0, <1>36, <2>1 DEF BootFails, PHPEnds, ProcessRecord
  <2>3. faults' \in 0 .. MaxFaults
    BY <1>36, Scenario DEF BootFails, TypeOK
  <2>4. /\ reload' \in [n : 0 .. MaxReloads, active : BOOLEAN,
                        old : SUBSET Worker, new : SUBSET Worker]
        /\ draining' \in [1 .. MaxReloads ->
                             [job : {"drain", "abort"}, left : SUBSET Worker]]
    <3>1. CASE UNCHANGED <<reload, draining>>
      BY <3>1 DEF TypeOK
    <3>2. CASE ReloadEnds("abort", reload.new)
      BY <3>2, ReloadEndsTypes DEF TypeOK
    <3>3. QED
      BY <1>36, <3>1, <3>2 DEF BootFails
  <2>5. routines' \subseteq routines
    BY <1>36 DEF BootFails, Become
  <2>6. QED
    BY <1>36, <2>2, <2>3, <2>4, <2>5 DEF BootFails, TypeOK
<1>37. QED
  BY <1>1, <1>2, <1>3, <1>4, <1>5, <1>6, <1>7, <1>8, <1>9, <1>10, <1>11,
     <1>12, <1>13, <1>14, <1>15, <1>16, <1>17, <1>18, <1>19, <1>20, <1>21,
     <1>22, <1>23, <1>24, <1>25, <1>26, <1>27, <1>28, <1>29, <1>30, <1>31,
     <1>32, <1>33, <1>34, <1>35, <1>36
  DEF Next, Exec, WorkerExec, PHP, RoutineStep, Watchdog

-----------------------------------------------------------------------------
(* The steps of Pool.Exec and w.Exec, field by field.                      *)

\* A send puts w into one slot of the channel.
Added(w) ==
    /\ Range(available') = Range(available) \cup {w}
    /\ IsInjective(available) /\ w \notin Range(available) =>
          IsInjective(available')

\* A receive takes the one slot of w out of the channel.
Removed(w) ==
    /\ Range(available) = Range(available') \cup {w}
    /\ IsInjective(available) =>
          IsInjective(available') /\ w \notin Range(available')

\* The other calls of Exec.
Others(r) == \A q \in Requests \ {r} : call'[q] = call[q] /\ run'[q] = run[q]

\* The receive of Exec.
LEMMA TakeFacts ==
    ASSUME TypeOK, NEW r \in Requests, Take(r)
    PROVE  \E w \in Worker :
              /\ Removed(w) /\ Others(r)
              /\ call[r].at = "select"
              /\ call'[r].at = "exec" /\ call'[r].held = w
              /\ call'[r].reply = call[r].reply
              /\ run'[r].at = "write" /\ run'[r].on = w
              /\ busyWorkers' = busyWorkers + 1
<1>1. available \in Seq(Worker) /\ available # <<>>
  BY DEF Take, TypeOK
<1>2. Head(available) \in Worker /\ Removed(Head(available))
  BY <1>1, RangeTail DEF Take, Removed
<1>3. call \in [Requests -> CallRecord] /\ run \in [Requests -> RunRecord]
  BY DEF TypeOK
<1>4. QED
  BY <1>2, <1>3 DEF Take, Others, CallRecord, RunRecord

\* The return of Exec.
LEMMA ReturnFacts ==
    ASSUME TypeOK, NEW r \in Requests, NEW why, Return(r, why), run' = run
    PROVE  /\ call'[r].at = "done" /\ call'[r].held = NoWorker
           /\ call'[r].reply = why
           /\ Others(r) /\ run'[r] = run[r] /\ busyWorkers' = busyWorkers - 1
  BY DEF TypeOK, Return, Others

\* The next step of Exec.
LEMMA AdvanceFacts ==
    ASSUME TypeOK, NEW r \in Requests, NEW a,
           call' = [call EXCEPT ![r].at = a], run' = run
    PROVE  /\ call'[r].at = a /\ call'[r].held = call[r].held
           /\ call'[r].reply = call[r].reply
           /\ Others(r) /\ run'[r] = run[r]
  BY DEF TypeOK, CallRecord, Others

\* The write of w.Exec, if the pipe takes it.
LEMMA WriteFacts ==
    ASSUME TypeOK, CallState, NEW r \in Requests, RunWrite(r),
           worker[run[r].on].open, Alive(run[r].on)
    PROVE  /\ run[r].on \in Worker /\ call' = call /\ Others(r)
           /\ run'[r].at = "read" /\ run'[r].on = run[r].on
           /\ run'[r].result = run[r].result
           /\ \A w \in Worker \ {run[r].on} : worker'[w] = worker[w]
           /\ LET old == worker[run[r].on]
                  new == worker'[run[r].on]
              IN  /\ new.stdin = Append(old.stdin, REQUEST(r))
                  /\ new.stdout = old.stdout /\ new.open = old.open
                  /\ new.waiting = old.waiting /\ new.jobs = old.jobs
<1>1. /\ worker \in [Worker -> WorkerRecord] /\ run \in [Requests -> RunRecord]
      /\ run[r].on \in Worker
  BY RunsOn DEF TypeOK, RunWrite
<1>2. /\ worker' = [worker EXCEPT ![run[r].on].stdin = Append(@, REQUEST(r)),
                                  ![run[r].on].state = "Busy"]
      /\ run' = [run EXCEPT ![r].at = "read"]
      /\ call' = call
  BY DEF RunWrite, REQUEST, callVars
<1>3. /\ Others(r) /\ run'[r].at = "read" /\ run'[r].on = run[r].on
      /\ run'[r].result = run[r].result
  BY <1>1, <1>2 DEF RunRecord, Others
<1>4. QED
  BY ZenonT(40), <1>1, <1>2, <1>3 DEF WorkerRecord

\* The end of w.Exec.
LEMMA EndedFacts ==
    ASSUME TypeOK, CallState, NEW r \in Requests, run[r].on \in Worker,
           NEW wk \in [Worker -> WorkerRecord], NEW answer,
           Ended(r, wk, answer), call' = call
    PROVE  /\ Others(r)
           /\ run'[r].at = "ended" /\ run'[r].on = run[r].on
           /\ run'[r].result = answer
           /\ \A w \in Worker \ {run[r].on} : worker'[w] = wk[w]
           /\ LET old == wk[run[r].on]
                  new == worker'[run[r].on]
              IN  /\ new.stdin = old.stdin /\ new.stdout = old.stdout
                  /\ new.open = old.open /\ new.waiting = old.waiting
                  /\ new.jobs = IF MaxJobs > 0 THEN old.jobs + 1 ELSE old.jobs
<1>1. run \in [Requests -> RunRecord]
  BY DEF TypeOK
<1>2. Others(r) /\ run'[r].at = "ended" /\ run'[r].on = run[r].on
      /\ run'[r].result = answer
  BY <1>1 DEF Ended, Others, RunRecord
<1>3. QED
  BY <1>2 DEF Ended, WorkerRecord

\* Both ways w.Exec ends: the write fails, or something is read.
LEMMA RunEnds ==
    ASSUME TypeOK, CallState, NEW r \in Requests,
           \/ RunRead(r)
           \/ RunWrite(r) /\ ~(worker[run[r].on].open /\ Alive(run[r].on))
    PROVE  /\ run[r].on \in Worker /\ run[r].at \in Active /\ call' = call
           /\ Others(r) /\ run'[r].at = "ended" /\ run'[r].on = run[r].on
           /\ run'[r].result = IF run[r].at = "read" THEN ReadFrame(run[r].on)
                               ELSE Error
           /\ \A w \in Worker \ {run[r].on} : worker'[w] = worker[w]
           /\ worker'[run[r].on].open = worker[run[r].on].open
           /\ worker'[run[r].on].waiting = worker[run[r].on].waiting
<1>1. run[r].on \in Worker /\ run[r].at \in Active /\ call' = call
  BY RunsOn DEF RunRead, RunWrite, Active, callVars
<1>2. CASE RunRead(r)
  <2>1. Ended(r, AfterRead(run[r].on), ReadFrame(run[r].on)) /\ run[r].at = "read"
    BY <1>2 DEF RunRead
  <2>2. AfterRead(run[r].on) \in [Worker -> WorkerRecord]
    BY <1>1, AfterReadType
  <2>3. worker[run[r].on] \in WorkerRecord
    BY <1>1 DEF TypeOK
  <2>4. /\ AfterRead(run[r].on)[run[r].on].open = worker[run[r].on].open
        /\ AfterRead(run[r].on)[run[r].on].waiting = worker[run[r].on].waiting
    BY <1>1, <2>3 DEF AfterRead, TypeOK, WorkerRecord
  <2>5. QED
    BY <1>1, <2>1, <2>2, <2>4, EndedFacts, AfterReadType
<1>3. CASE RunWrite(r) /\ ~(worker[run[r].on].open /\ Alive(run[r].on))
  <2>1. Ended(r, worker, Error) /\ run[r].at = "write"
    BY <1>3 DEF RunWrite
  <2>2. worker \in [Worker -> WorkerRecord]
    BY DEF TypeOK
  <2>3. QED
    BY <1>1, <2>1, <2>2, EndedFacts
<1>4. QED
  BY <1>2, <1>3

-----------------------------------------------------------------------------
(* CallState.                                                              *)

\* What CallState says of one caller.
CallOf(r) ==
    /\ call[r].held # NoWorker <=> call[r].at \in Holding
    /\ call[r].at = "select" => run[r].at = "none"
    /\ run[r].at # "none" => run[r].on \in Worker
    /\ call[r].at \in Holding => run[r].on = call[r].held /\ run[r].at # "none"
    /\ call[r].at \in {"ready", "put"} => run[r].at = "ended"

\* busyWorkers is decremented once for each caller that leaves.
LEMMA CallReturns ==
    ASSUME TypeOK, CallState, NEW r \in Requests, call[r].at \in Holding,
           NEW why, Return(r, why), run' = run
    PROVE  CallState'
<1> DEFINE S == {q \in Requests : call[q].at \in Holding}
<1>1. /\ call'[r].at = "done" /\ call'[r].held = NoWorker
      /\ Others(r) /\ run'[r] = run[r] /\ busyWorkers' = busyWorkers - 1
  BY ReturnFacts
<1>2. {q \in Requests : call'[q].at \in Holding} = S \ {r}
  BY <1>1 DEF Others, Holding
<1>3. IsFiniteSet(S) /\ r \in S
  BY RequestNames, FS_Subset
<1>4. Cardinality(S \ {r}) = Cardinality(S) - 1
  BY <1>3, FS_RemoveElement
<1>5. busyWorkers' = Cardinality({q \in Requests : call'[q].at \in Holding})
  BY <1>1, <1>2, <1>4 DEF CallState
<1>6. QED
  BY <1>1, <1>5 DEF CallState, Others, Holding

\* A caller that goes on keeps its worker.
LEMMA CallAdvances ==
    ASSUME TypeOK, CallState, NEW r \in Requests, call[r].at \in Holding,
           run[r].at = "ended", NEW a \in {"ready", "put"}, run' = run,
           call' = [call EXCEPT ![r].at = a], busyWorkers' = busyWorkers
    PROVE  CallState'
<1>1. /\ call'[r].at = a /\ call'[r].held = call[r].held
      /\ Others(r) /\ run'[r] = run[r]
  BY AdvanceFacts
<1>2. {q \in Requests : call'[q].at \in Holding} =
         {q \in Requests : call[q].at \in Holding}
  BY <1>1 DEF Others, Holding
<1>3. busyWorkers' = Cardinality({q \in Requests : call'[q].at \in Holding})
  BY <1>2 DEF CallState
<1>4. ASSUME NEW q \in Requests PROVE CallOf(q)'
  <2>1. CASE q = r
    BY <1>1, <2>1 DEF CallState, CallOf, Holding
  <2>2. CASE q # r
    BY <1>1, <2>2 DEF CallState, CallOf, Others
  <2>3. QED
    BY <2>1, <2>2
<1>5. QED
  BY <1>3, <1>4 DEF CallState, CallOf

\* Every step keeps CallState.
LEMMA CallStep ==
    TypeOK /\ CallState /\ [Next]_vars => CallState'
<1> SUFFICES ASSUME TypeOK, CallState, [Next]_vars
             PROVE  CallState'
  OBVIOUS
<1>1. ASSUME UNCHANGED <<call, run, busyWorkers>>
      PROVE  CallState'
  BY <1>1 DEF CallState
<1>2. ASSUME \/ UNCHANGED vars
             \/ \E r \in Requests : TakeNil(r)
             \/ \E w \in Worker : PHP(w) \/ Fault(w) \/ BootHangs(w)
             \/ \E g \in routines : RoutineStep(g) \/ BootFails(g)
             \/ Tick \/ Watchdog
             \/ ReloadBegin \/ ReloadSpawn \/ ReloadReturn
             \/ \E k \in 1 .. MaxReloads : DrainNext(k)
             \/ Cancel \/ StopWorkers \/ CloseQueue
      PROVE  UNCHANGED <<call, run, busyWorkers>>
  BY ZenonT(40), <1>2
  DEF vars, poolVars, callVars, TakeNil, PHP, PHPRead, PHPRespond, PHPNext,
      Fault, RoutineStep, SendStop, StopReturns, RemoveWorker,
      SpawnReplacement, Register, BootHangs, BootFails, Send, Tick, Watchdog,
      HealthCheck, Decide, ScaleUp,
      ScaleDown, WatchdogExit, ReloadBegin, ReloadSpawn, ReloadReturn,
      DrainNext, Cancel, StopWorkers, CloseQueue
<1>3. ASSUME NEW r \in Requests, Take(r)
      PROVE  CallState'
  <2> DEFINE S == {q \in Requests : call[q].at \in Holding}
  <2>1. PICK w \in Worker :
           /\ Others(r) /\ call[r].at = "select"
           /\ call'[r].at = "exec" /\ call'[r].held = w
           /\ run'[r].at = "write" /\ run'[r].on = w
           /\ busyWorkers' = busyWorkers + 1
    BY <1>3, TakeFacts
  <2>2. {q \in Requests : call'[q].at \in Holding} = S \cup {r}
    BY <2>1 DEF Others, Holding
  <2>3. IsFiniteSet(S) /\ r \notin S
    BY <2>1, RequestNames, FS_Subset DEF Holding
  <2>4. Cardinality(S \cup {r}) = Cardinality(S) + 1
    BY <2>3, FS_AddElement
  <2>5. busyWorkers' = Cardinality({q \in Requests : call'[q].at \in Holding})
    BY <2>1, <2>2, <2>4 DEF CallState
  <2>6. w # NoWorker
    BY DEF Worker, NoWorker
  <2>7. QED
    BY <2>1, <2>5, <2>6 DEF CallState, Others, Holding
<1>4. ASSUME NEW r \in Requests, GiveUp(r)
      PROVE  CallState'
  <2>1. /\ call[r].at = "select" /\ call'[r].at = "done"
        /\ call'[r].held = call[r].held
        /\ Others(r) /\ run' = run /\ busyWorkers' = busyWorkers
    BY <1>4 DEF GiveUp, Others, TypeOK, CallRecord, poolVars, callVars
  <2>2. {q \in Requests : call'[q].at \in Holding} =
           {q \in Requests : call[q].at \in Holding}
    BY <2>1 DEF Others, Holding
  <2>3. QED
    BY ZenonT(40), <2>1, <2>2 DEF CallState, Others, Holding
<1>5. ASSUME NEW r \in Requests, Receive(r)
      PROVE  CallState'
  <2>1. call[r].at \in Holding /\ run[r].at = "ended" /\ run' = run
    BY <1>5 DEF Receive, Holding
  <2>2. \/ \E why : Return(r, why)
        \/ call' = [call EXCEPT ![r].at = "ready"] /\ busyWorkers' = busyWorkers
    BY <1>5 DEF Receive
  <2>3. QED
    BY <2>1, <2>2, CallReturns, CallAdvances
<1>6. ASSUME NEW r \in Requests, Timeout(r) \/ Abandon(r) \/ PutBack(r)
      PROVE  CallState'
  <2>1. /\ call[r].at \in Holding /\ run' = run
        /\ \E why : Return(r, why)
    BY <1>6 DEF Timeout, Abandon, PutBack, Holding
  <2>2. QED
    BY <2>1, CallReturns
<1>7. ASSUME NEW r \in Requests, AwaitReady(r)
      PROVE  CallState'
  <2>1. call[r].at = "ready" /\ run' = run
    BY <1>7 DEF AwaitReady
  <2>2. call[r].at \in Holding /\ run[r].at = "ended"
    BY <2>1 DEF CallState, Holding
  <2>3. \/ \E why : Return(r, why)
        \/ call' = [call EXCEPT ![r].at = "put"] /\ busyWorkers' = busyWorkers
    BY <1>7 DEF AwaitReady
  <2>4. QED
    BY <2>1, <2>2, <2>3, CallReturns, CallAdvances
<1>8. ASSUME NEW r \in Requests, RunWrite(r) \/ RunRead(r)
      PROVE  CallState'
  <2>1. /\ run[r].on \in Worker /\ call' = call /\ Others(r)
        /\ run[r].at \in Active /\ run'[r].at \in {"read", "ended"}
        /\ run'[r].on = run[r].on
    <3>1. run[r].at \in Active
      BY <1>8 DEF RunWrite, RunRead, Active
    <3>2. CASE RunWrite(r) /\ worker[run[r].on].open /\ Alive(run[r].on)
      BY <3>1, <3>2, WriteFacts
    <3>3. QED
      BY <1>8, <3>1, <3>2, RunEnds
  <2>2. call[r].at \notin {"select", "ready", "put"}
    BY <2>1 DEF CallState, Active
  <2>3. busyWorkers' = busyWorkers
    BY <1>8 DEF RunWrite, RunRead, poolVars
  <2>4. QED
    BY <2>1, <2>2, <2>3 DEF CallState, Others
<1>9. QED
  BY <1>1, <1>2, <1>3, <1>4, <1>5, <1>6, <1>7, <1>8
  DEF Next, Exec, WorkerExec

-----------------------------------------------------------------------------
(***************************************************************************)
(* Hand-overs: what a step does to the three places where a worker that    *)
(* can be handed out may be.                                               *)
(***************************************************************************)
Sends == {g \in routines : g.at = "send"}

\* No caller receives a worker or hands one on.
SameHeld == \A r \in Requests : call'[r].held = call[r].held

\* No worker changes hands.
Stays ==
    available' = available /\ Spawned' = Spawned /\ Sends' = Sends /\ SameHeld

\* Exec receives the worker w.
Takes(r, w) ==
    /\ Removed(w) /\ Spawned' = Spawned /\ Sends' = Sends /\ Others(r)
    /\ call[r].at = "select" /\ call'[r].held = w /\ call'[r].at = "exec"
    /\ run'[r].on = w /\ run'[r].at = "write"

\* Exec gives its worker up.
Drops(r) ==
    /\ available' = available /\ Spawned' = Spawned /\ Sends' = Sends
    /\ call[r].at \in Holding /\ call'[r].held = NoWorker /\ Others(r)
    /\ run'[r] = run[r]

\* Exec queues its worker.
Puts(r) ==
    /\ Added(call[r].held) /\ Spawned' = Spawned /\ Sends' = Sends
    /\ call[r].at = "put" /\ call'[r].held = NoWorker /\ Others(r)
    /\ run'[r] = run[r]

\* NewWorker has returned a worker, which will be sent.
Creates(g) ==
    /\ g.w \in Worker \ Spawned /\ Spawned' = Spawned \cup {g.w}
    /\ g.at = "send" /\ Sends' = Sends \cup {g}
    /\ available' = available /\ call' = call /\ run' = run
    /\ php' = [php EXCEPT ![g.w] = NewProcess] /\ worker' = worker

\* A goroutine queues its worker.
Queues(g) ==
    /\ g \in Sends /\ Added(g.w) /\ Sends' = Sends \ {g}
    /\ Spawned' = Spawned /\ call' = call /\ run' = run

\* autoScale takes the worker w out.
Scales(w) ==
    /\ Removed(w) /\ Spawned' = Spawned /\ Sends' = Sends
    /\ call' = call /\ run' = run

\* A new goroutine that stops a worker sends nothing.
LEMMA StopperSendsNot ==
    /\ \A w \in Worker : GoReplace(w) => Sends' = Sends
    /\ \A j, k, w : routines' = routines \cup {Stopper(j, k, w)} => Sends' = Sends
<1>1. ASSUME NEW w \in Worker, GoReplace(w)
      PROVE  Sends' = Sends
  <2>1. PICK h \in Routine : h.at = "signal" /\ routines' = routines \cup {h}
    BY <1>1, ReplaceFacts
  <2>2. QED
    BY <2>1 DEF Sends
<1>2. QED
  BY <1>1, RoutineFields DEF Sends

\* The registration of a worker whose READY was read: its goroutine will send it.
LEMMA RegisterCreates ==
    ASSUME TypeOK, Fresh, NEW g \in routines, Register(g)
    PROVE  /\ Creates(At(g, "send"))
           /\ routines' = (routines \ {g}) \cup {At(g, "send")}
           /\ At(g, "send").w = g.w /\ g.at = "boot" /\ g.w \in Worker
           /\ workers' = workers \cup {g.w} /\ UNCHANGED <<nextID, worker>>
<1>1. g \in Routine /\ g.w \in Worker
  BY RoutineFields DEF TypeOK
<1>2. /\ At(g, "send").w = g.w /\ At(g, "send").at = "send" /\ g.at = "boot"
      /\ routines' = (routines \ {g}) \cup {At(g, "send")}
      /\ worker' = worker /\ UNCHANGED <<available, nextID, call, run>>
      /\ php' = [php EXCEPT ![g.w].at = "loop"] /\ php[g.w].at = "boot"
      /\ workers' = workers \cup {g.w}
  BY <1>1, RoutineFields DEF Register, Become, Stage, callVars
<1>3. php[g.w] \in ProcessRecord /\ g.w \notin Spawned
  BY <1>1, <1>2 DEF TypeOK, Spawned, Created
<1>4. php[g.w].req = NoReq /\ php[g.w].count = 0
  BY <1>1, <1>3 DEF Fresh
<1>5. [php[g.w] EXCEPT !.at = "loop"] = NewProcess
  BY <1>3, <1>4 DEF ProcessRecord, NewProcess
<1>6. php' = [php EXCEPT ![g.w] = NewProcess]
  BY <1>1, <1>2, <1>5 DEF TypeOK
<1>7. Spawned' = Spawned \cup {g.w}
  BY <1>1, <1>6 DEF Spawned, Created, NewProcess, TypeOK
<1>8. Sends' = Sends \cup {At(g, "send")}
  BY <1>2 DEF Sends
<1>9. QED
  BY <1>1, <1>2, <1>3, <1>6, <1>7, <1>8 DEF Creates

\* Only a registration makes a worker one that NewWorker has returned.
LEMMA SpawnedSteps ==
    ASSUME TypeOK, Fresh, [Next]_vars, ~\E g \in routines : Register(g)
    PROVE  Spawned' = Spawned
<1> USE DEF poolVars, callVars, processVars, controlVars
<1>1. ASSUME php' = php PROVE Spawned' = Spawned
  BY <1>1 DEF Spawned, Created
<1>2. ASSUME NEW w \in Worker, NEW a, php'[w].at = a,
             \A v \in Worker \ {w} : php'[v] = php[v],
             Created(w) <=> a \notin {"none", "boot", "stuck", "failed"}
      PROVE  Spawned' = Spawned
  BY <1>2 DEF Spawned, Created
<1>3. ASSUME \/ UNCHANGED vars
             \/ \E r \in Requests : Exec(r) \/ WorkerExec(r)
             \/ \E g \in routines : SendStop(g) \/ RemoveWorker(g) \/ Send(g)
             \/ Tick \/ HealthCheck \/ Decide \/ ScaleDown \/ WatchdogExit
             \/ ReloadBegin \/ ReloadReturn
             \/ \E k \in 1 .. MaxReloads : DrainNext(k)
             \/ Cancel \/ StopWorkers \/ CloseQueue
      PROVE  php' = php
  BY ZenonT(40), <1>3
  DEF vars, Exec, Take, GiveUp, TakeNil, Receive, Timeout, Abandon, AwaitReady,
      PutBack, WorkerExec, RunWrite, RunRead, SendStop, RemoveWorker, Send, Tick,
      HealthCheck, Decide, ScaleDown, WatchdogExit, ReloadBegin, ReloadReturn,
      DrainNext, Cancel, StopWorkers, CloseQueue
<1>4. php \in [Worker -> ProcessRecord] /\ \A g \in routines : g.w \in Worker
  BY RoutineFields DEF TypeOK
<1>5. ASSUME NEW w \in Worker, NEW a, PHPEnds(w, a)
      PROVE  php'[w].at = a /\ \A v \in Worker \ {w} : php'[v] = php[v]
  BY <1>4, <1>5 DEF PHPEnds, ProcessRecord
<1>6. ASSUME NEW w \in Worker, PHP(w)
      PROVE  Spawned' = Spawned
  <2>1. Created(w)
    BY <1>6 DEF PHP, PHPRead, PHPRespond, PHPNext, Created
  <2>2. php'[w].at \notin {"none", "boot", "stuck", "failed"}
    BY <1>4, <1>6 DEF PHP, PHPRead, PHPRespond, PHPNext, PHPEnds, ProcessRecord
  <2>3. \A v \in Worker \ {w} : php'[v] = php[v]
    BY <1>4, <1>6 DEF PHP, PHPRead, PHPRespond, PHPNext, PHPEnds
  <2>4. QED
    BY <1>2, <2>1, <2>2, <2>3
<1>7. ASSUME NEW w \in Worker, Fault(w)
      PROVE  Spawned' = Spawned
  <2>1. CASE php' = php
    BY <1>1, <2>1
  <2>2. CASE \E a \in {"exited", "killed", "hung"} : PHPEnds(w, a)
    <3>1. Created(w) \/ php' = php
      BY <1>7 DEF Fault, Alive, Booting, Created
    <3>2. QED
      BY <1>1, <1>2, <1>5, <2>2, <3>1
  <2>3. QED
    BY <1>7, <2>1, <2>2 DEF Fault
<1>8. ASSUME NEW w \in Worker, BootHangs(w)
      PROVE  Spawned' = Spawned
  <2>1. ~Created(w) /\ PHPEnds(w, "stuck")
    BY <1>8 DEF BootHangs, Created
  <2>2. QED
    BY <1>2, <1>5, <2>1
<1>9. ASSUME NEW g \in routines, BootFails(g)
      PROVE  Spawned' = Spawned
  <2>1. ~Created(g.w) /\ PHPEnds(g.w, "failed")
    BY <1>9 DEF BootFails, Booting, Created
  <2>2. QED
    BY <1>2, <1>4, <1>5, <2>1
<1>10. ASSUME NEW g \in routines, StopReturns(g)
      PROVE  Spawned' = Spawned
  <2>1. CASE php' = php
    BY <1>1, <2>1
  <2>2. CASE PHPEnds(g.w, "killed")
    <3>1. Created(g.w)
      BY <1>4, <1>10 DEF StopReturns, Fresh, Spawned
    <3>2. QED
      BY <1>2, <1>4, <1>5, <2>2, <3>1
  <2>3. QED
    BY <1>10, <2>1, <2>2 DEF StopReturns
<1>11. ASSUME NEW G, NEW j \in Job, Spawn(G, j) \/ SpawnFails(G)
       PROVE  Spawned' = Spawned
  <2>1. CASE Spawn(G, j)
    <3>1. /\ nextID' \in Worker /\ nextID' > nextID
          /\ php' = [php EXCEPT ![nextID'].at = "boot"]
      BY <2>1, SpawnFacts
    <3>2. ~Created(nextID')
      BY <3>1 DEF Fresh, Created
    <3>3. PHPEnds(nextID', "boot")
      BY <3>1 DEF PHPEnds
    <3>4. QED
      BY <1>2, <1>5, <3>1, <3>2, <3>3
  <2>2. CASE SpawnFails(G)
    BY <1>1, <2>2 DEF SpawnFails
  <2>3. QED
    BY <1>11, <2>1, <2>2
<1>12. ASSUME (\E g \in routines : SpawnReplacement(g)) \/ ScaleUp \/ ReloadSpawn
       PROVE  \E G, j : j \in Job /\ (Spawn(G, j) \/ SpawnFails(G))
  BY <1>12 DEF SpawnReplacement, ScaleUp, ReloadSpawn, Job
<1>13. QED
  BY <1>1, <1>3, <1>6, <1>7, <1>8, <1>9, <1>10, <1>11, <1>12
  DEF Next, RoutineStep, Watchdog

\* NewWorker's workers grow, by the worker that is registered.
LEMMA SpawnedGrows ==
    ASSUME TypeOK, Fresh, [Next]_vars
    PROVE  /\ Spawned \subseteq Spawned'
           /\ \A g \in routines : Register(g) => g.w \in Spawned'
<1>1. \A g \in routines : Register(g) => Spawned' = Spawned \cup {g.w}
  BY RegisterCreates DEF Creates
<1>2. QED
  BY <1>1, SpawnedSteps

\* Every step is one of these hand-overs.
LEMMA HandOver ==
    ASSUME TypeOK, CallState, Fresh, [Next]_vars
    PROVE  \/ Stays
           \/ \E r \in Requests, w \in Worker : Takes(r, w)
           \/ \E r \in Requests : Drops(r) \/ Puts(r)
           \/ \E g \in routines' : Creates(g)
           \/ \E g \in routines : Queues(g)
           \/ \E w \in Worker : Scales(w)
<1> USE DEF poolVars, callVars, processVars, controlVars
<1>0. CASE \E g \in routines : Register(g)
  BY <1>0, RegisterCreates
<1> SUFFICES ASSUME ~\E g \in routines : Register(g)
             PROVE  \/ Stays
                    \/ \E r \in Requests, w \in Worker : Takes(r, w)
                    \/ \E r \in Requests : Drops(r) \/ Puts(r)
                    \/ \E g \in routines : Queues(g)
                    \/ \E w \in Worker : Scales(w)
  BY <1>0
<1> Spawned' = Spawned
  BY SpawnedSteps
<1>1. ASSUME \/ UNCHANGED vars
             \/ \E r \in Requests : TakeNil(r)
             \/ \E r \in Requests : RunWrite(r) \/ RunRead(r)
             \/ \E w \in Worker : PHP(w) \/ Fault(w) \/ BootHangs(w)
             \/ Tick \/ Decide \/ WatchdogExit
             \/ ReloadBegin \/ ReloadReturn \/ Cancel \/ CloseQueue
      PROVE  Stays
  BY ZenonT(40), <1>1
  DEF Stays, SameHeld, Sends, vars, TakeNil, RunWrite, RunRead, PHP, PHPRead,
      PHPRespond, PHPNext, Fault, BootHangs, Tick, Decide, WatchdogExit, ReloadBegin,
      ReloadReturn, Cancel, CloseQueue
<1>2. ASSUME NEW r \in Requests, Take(r)
      PROVE  \E w \in Worker : Takes(r, w)
  <2>1. Sends' = Sends
    BY <1>2 DEF Take, Sends
  <2>2. QED
    BY <1>2, <2>1, TakeFacts DEF Takes
<1>3. ASSUME NEW r \in Requests, GiveUp(r)
      PROVE  Stays
  BY <1>3 DEF GiveUp, Stays, SameHeld, Sends, TypeOK, CallRecord
<1>4. ASSUME NEW r \in Requests, call[r].at \in Holding, NEW why, Return(r, why),
             run' = run, Sends' = Sends, available' = available
      PROVE  Drops(r)
  BY <1>4, ReturnFacts DEF Drops
<1>5. ASSUME NEW r \in Requests, NEW a, call' = [call EXCEPT ![r].at = a],
             run' = run, UNCHANGED <<available, routines>>
      PROVE  Stays
  BY <1>5, AdvanceFacts DEF Stays, SameHeld, Sends, Others
<1>6. ASSUME NEW r \in Requests, Receive(r)
      PROVE  Stays \/ Drops(r)
  <2>1. call[r].held \in Worker /\ call[r].at \in Holding
    BY <1>6, HasWorker DEF Receive, Holding
  <2>2. run' = run /\ available' = available
    BY <1>6 DEF Receive
  <2>3. \/ GoReplace(call[r].held) /\ \E why : Return(r, why)
        \/ UNCHANGED routines /\ call' = [call EXCEPT ![r].at = "ready"]
    BY <1>6 DEF Receive
  <2>4. QED
    BY <1>4, <1>5, <2>1, <2>2, <2>3, StopperSendsNot
<1>7. ASSUME NEW r \in Requests, Timeout(r) \/ Abandon(r)
      PROVE  Drops(r)
  <2>1. call[r].held \in Worker /\ call[r].at \in Holding
    BY <1>7, HasWorker DEF Timeout, Abandon, Holding
  <2>2. run' = run /\ available' = available /\ \E why : Return(r, why)
    BY <1>7 DEF Timeout, Abandon
  <2>3. GoReplace(call[r].held) \/ UNCHANGED routines
    BY <1>7 DEF Timeout, Abandon
  <2>4. Sends' = Sends
    BY <2>1, <2>3, StopperSendsNot DEF Sends
  <2>5. QED
    BY <1>4, <2>1, <2>2, <2>4
<1>8. ASSUME NEW r \in Requests, AwaitReady(r)
      PROVE  Stays \/ Drops(r)
  <2>1. call[r].held \in Worker /\ call[r].at \in Holding
    BY <1>8, HasWorker DEF AwaitReady, Holding
  <2>2. run' = run /\ available' = available
    BY <1>8 DEF AwaitReady
  <2>3. \/ GoReplace(call[r].held) /\ \E why : Return(r, why)
        \/ UNCHANGED routines /\ call' = [call EXCEPT ![r].at = "put"]
    BY <1>8 DEF AwaitReady
  <2>4. QED
    BY <1>4, <1>5, <2>1, <2>2, <2>3, StopperSendsNot
<1>9. ASSUME NEW r \in Requests, PutBack(r)
      PROVE  Drops(r) \/ Puts(r)
  <2>1. call[r].held \in Worker /\ call[r].at = "put" /\ call[r].at \in Holding
    BY <1>9, HasWorker DEF PutBack, Holding
  <2>2. /\ run' = run /\ Sends' = Sends
        /\ \E why : Return(r, why)
    BY <1>9 DEF PutBack, Sends
  <2>3. CASE available' = available
    BY <1>4, <2>1, <2>2, <2>3
  <2>4. CASE available' = Append(available, call[r].held)
    <3>1. available \in Seq(Worker)
      BY DEF TypeOK
    <3>2. Added(call[r].held)
      BY <2>1, <2>4, <3>1, RangeAppend DEF Added
    <3>3. QED
      BY <2>1, <2>2, <3>2, ReturnFacts DEF Puts
  <2>5. QED
    BY <1>9, <2>3, <2>4 DEF PutBack
<1>10. ASSUME NEW g \in routines, SendStop(g) \/ StopReturns(g) \/ RemoveWorker(g)
       PROVE  Stays
  <2>1. g \in Routine
    BY DEF TypeOK
  <2>2. /\ routines \ {g} \subseteq routines'
        /\ \A h \in routines' : h \in routines \/ h.at # "send"
    <3>1. \A a \in {"wait", "remove", "spawn"} : At(g, a).at # "send"
      BY <2>1, RoutineFields DEF Stage
    <3>2. QED
      BY <1>10, <3>1 DEF SendStop, StopReturns, RemoveWorker, Become
  <2>3. g.at # "send"
    BY <1>10 DEF SendStop, StopReturns, RemoveWorker
  <2>4. Sends' = Sends
    BY <2>2, <2>3 DEF Sends
  <2>5. UNCHANGED <<available, call>>
    BY <1>10 DEF SendStop, StopReturns, RemoveWorker
  <2>6. QED
    BY <2>4, <2>5 DEF Stays, SameHeld
<1>11. ASSUME NEW G, \A g \in G : g.at # "send", NEW j \in Job,
              Spawn(G, j) \/ SpawnFails(G), UNCHANGED <<available, call, run>>
       PROVE  Stays
  <2>1. CASE Spawn(G, j)
    <3>1. routines' = (routines \ G) \cup {Starter(j, nextID')}
      BY <2>1, SpawnFacts
    <3>2. Sends' = Sends
      BY <1>11, <3>1, RoutineFields DEF Sends
    <3>3. QED
      BY <1>11, <3>2 DEF Stays, SameHeld
  <2>2. CASE SpawnFails(G)
    BY <1>11, <2>2 DEF SpawnFails, Stays, SameHeld, Sends
  <2>3. QED
    BY <1>11, <2>1, <2>2
<1>12. ASSUME NEW g \in routines, SpawnReplacement(g)
       PROVE  Stays
  <2>1. /\ Spawn({g}, "replace") \/ SpawnFails({g})
        /\ UNCHANGED <<available, call, run>> /\ g.at = "spawn"
    BY <1>12 DEF SpawnReplacement
  <2>2. QED
    BY <1>11, <2>1 DEF Job
<1>13. ASSUME NEW g \in routines, Send(g)
       PROVE  Stays \/ Queues(g)
  <2>1. g.w \in Worker /\ available \in Seq(Worker)
    BY RoutineFields DEF TypeOK
  <2>2. CASE available' = available /\ routines' = routines
    BY <1>13, <2>2 DEF Send, Stays, SameHeld, Sends
  <2>3. CASE available' = Append(available, g.w) /\ routines' = routines \ {g}
    <3>1. Added(g.w)
      BY <2>1, <2>3, RangeAppend DEF Added
    <3>2. g \in Sends /\ Sends' = Sends \ {g}
      BY <1>13, <2>3 DEF Send, Sends
    <3>3. QED
      BY <1>13, <3>1, <3>2 DEF Send, Queues
  <2>4. QED
    BY <1>13, <2>2, <2>3 DEF Send, Become
<1>14. CASE HealthCheck
  <2>1. \A w \in watchdog.toCheck : w \in Worker
    BY DEF TypeOK
  <2>2. Sends' = Sends
    BY <1>14, <2>1, StopperSendsNot DEF HealthCheck, Sends
  <2>3. QED
    BY <1>14, <2>2 DEF HealthCheck, Stays, SameHeld
<1>15. CASE ScaleUp
  <2>1. /\ Spawn({}, "scaleUp") \/ SpawnFails({})
        /\ UNCHANGED <<available, call, run>>
    BY <1>15 DEF ScaleUp
  <2>2. QED
    BY <1>11, <2>1 DEF Job
<1>16. CASE ScaleDown
  <2>1. CASE available = <<>>
    BY <1>16, <2>1 DEF ScaleDown, Stays, SameHeld, Sends
  <2>2. CASE available # <<>>
    <3>1. available \in Seq(Worker)
      BY DEF TypeOK
    <3>2. /\ available' = Tail(available)
          /\ routines' = routines \cup {Stopper("scaleDown", 0, Head(available))}
          /\ UNCHANGED <<call, run>>
      BY <1>16, <2>2 DEF ScaleDown
    <3>3. Sends' = Sends
      BY <3>2, StopperSendsNot
    <3>4. Head(available) \in Worker /\ Removed(Head(available))
      BY <2>2, <3>1, <3>2, RangeTail DEF Removed
    <3>5. QED
      BY <3>2, <3>3, <3>4 DEF Scales
  <2>3. QED
    BY <2>1, <2>2
<1>17. CASE ReloadSpawn
  <2>1. /\ Spawn({}, "reload") \/ SpawnFails({})
        /\ UNCHANGED <<available, call, run>>
    BY <1>17 DEF ReloadSpawn
  <2>2. QED
    BY <1>11, <2>1 DEF Job
<1>18. ASSUME NEW k \in 1 .. MaxReloads, DrainNext(k)
       PROVE  Stays
  <2>1. \E w : routines' = routines \cup {Stopper(draining[k].job, k, w)}
    BY <1>18 DEF DrainNext
  <2>2. QED
    BY <1>18, <2>1, StopperSendsNot DEF DrainNext, Stays, SameHeld
<1>19. CASE StopWorkers
  <2>1. \A w : Stopper("stop", 0, w).at # "send"
    BY RoutineFields
  <2>2. Sends' = Sends
    BY <1>19, <2>1 DEF StopWorkers, Sends
  <2>3. QED
    BY <1>19, <2>2 DEF StopWorkers, Stays, SameHeld
<1>20. ASSUME NEW g \in routines, BootFails(g)
       PROVE  Stays
  <2>1. g.at = "boot" /\ routines' = routines \ {g} /\ UNCHANGED <<available, call>>
    BY <1>20 DEF BootFails, Become
  <2>2. Sends' = Sends
    BY <2>1 DEF Sends
  <2>3. QED
    BY <2>1, <2>2 DEF Stays, SameHeld
<1>21. QED
  BY SMTT(40), <1>1, <1>2, <1>3, <1>6, <1>7, <1>8, <1>9, <1>10, <1>12, <1>13, <1>14,
     <1>15, <1>16, <1>17, <1>18, <1>19, <1>20
  DEF Next, Exec, WorkerExec, RoutineStep, Watchdog

-----------------------------------------------------------------------------
(* Custody: a worker that can be handed out is in one place.               *)

\* The workers that a goroutine will send, before and after a step.
LEMMA SendingDef ==
    /\ \A w : Sending(w) <=> \E g \in Sends : g.w = w
    /\ \A w : Sending(w)' <=> \E g \in Sends' : g.w = w
  BY DEF Sending, Sends

\* A worker that NewWorker returns is not in any of the three places yet.
LEMMA NewIsFresh ==
    ASSUME TypeOK, Fresh, NEW g, Creates(g)
    PROVE  /\ ~Queued(g.w) /\ ~Holds(g.w) /\ ~Sending(g.w)
           /\ \A q \in Requests : call[q].held # g.w /\ run[q].on # g.w
           /\ \A h \in routines : h.w = g.w => h.at = "boot"
           /\ g.w \notin workers
           /\ worker[g.w] = NewWorker /\ ~Created(g.w)
           /\ g.w \in Worker
<1>1. g.w \in Worker /\ g.w \notin Spawned /\ g.w # NoWorker
  BY DEF Creates, Worker, NoWorker
<1>2. ~Created(g.w)
  BY <1>1 DEF Spawned
<1>3. QED
  BY <1>1, <1>2 DEF Fresh, Queued, Holds, Sending

\* Every step keeps Custody.
LEMMA CustodyStep ==
    TypeOK /\ CallState /\ Fresh /\ Custody /\ [Next]_vars => Custody'
<1> SUFFICES ASSUME TypeOK, CallState, Fresh, Custody, [Next]_vars
             PROVE  Custody'
  OBVIOUS
<1>0. /\ \A w \in Worker : w # NoWorker
      /\ \A g \in Sends : g.w \in Worker
  BY RoutineFields DEF Worker, NoWorker, TypeOK, Sends
<1>1. CASE Stays
  BY <1>1, SendingDef DEF Stays, SameHeld, Custody, Queued, Holds, Sends
<1>2. ASSUME NEW r \in Requests, NEW w \in Worker, Takes(r, w)
      PROVE  Custody'
  <2>1. Queued(w)
    BY <1>2 DEF Takes, Removed, Queued
  <2>2. ~Holds(w) /\ ~Sending(w)
    BY <2>1 DEF Custody
  <2>3. IsInjective(available') /\ w \notin Range(available')
        /\ Range(available') \subseteq Range(available)
    BY <1>2 DEF Takes, Removed, Custody
  <2>4. \A q \in Requests : call'[q].held = IF q = r THEN w ELSE call[q].held
    BY <1>2 DEF Takes, Others
  <2>5. \A v : Sending(v)' <=> Sending(v)
    BY <1>2, SendingDef DEF Takes
  <2>6. QED
    BY <1>0, <1>2, <2>2, <2>3, <2>4, <2>5 DEF Takes, Custody, Queued, Holds, Sends
<1>3. ASSUME NEW r \in Requests, Drops(r) \/ Puts(r)
      PROVE  Custody'
  <2>1. call[r].held \in Worker /\ call[r].held # NoWorker
    BY <1>3, HasWorker, <1>0 DEF Drops, Puts, Holding
  <2>2. ~Queued(call[r].held) /\ ~Sending(call[r].held)
    BY <2>1 DEF Custody, Holds
  <2>3. /\ IsInjective(available')
        /\ Range(available') \subseteq Range(available) \cup {call[r].held}
    BY <1>3, <2>2 DEF Drops, Puts, Added, Custody, Queued
  <2>4. \A q \in Requests : call'[q].held = IF q = r THEN NoWorker ELSE call[q].held
    BY <1>3 DEF Drops, Puts, Others
  <2>5. \A v : Sending(v)' <=> Sending(v)
    BY <1>3, SendingDef DEF Drops, Puts
  <2>6. \A q \in Requests : call'[q].held # call[r].held
    BY <2>1, <2>4 DEF Custody
  <2>7. Sends' = Sends
    BY <1>3 DEF Drops, Puts
  <2>8. \A w \in Worker : Holds(w)' => Holds(w) /\ w # call[r].held
    BY <1>0, <2>4, <2>6 DEF Holds
  <2>9. QED
    BY <2>2, <2>3, <2>4, <2>5, <2>7, <2>8 DEF Custody, Queued, Sends
<1>4. ASSUME NEW g \in routines', Creates(g)
      PROVE  Custody'
  <2>1. ~Queued(g.w) /\ ~Holds(g.w) /\ ~Sending(g.w)
    BY <1>4, NewIsFresh
  <2>2. \A v : Sending(v)' <=> Sending(v) \/ v = g.w
    BY <1>4, SendingDef DEF Creates
  <2>3. \A h, k \in Sends' : h.w = k.w => h = k
    BY <1>4, <2>1, SendingDef DEF Creates, Custody, Sends
  <2>4. QED
    BY <1>4, <2>1, <2>2, <2>3 DEF Creates, Custody, Queued, Holds, Sends
<1>5. ASSUME NEW g \in routines, Queues(g)
      PROVE  Custody'
  <2>1. g \in Sends /\ g.w \in Worker /\ Sending(g.w)
    BY <1>5, <1>0, SendingDef DEF Queues
  <2>2. ~Queued(g.w) /\ ~Holds(g.w)
    BY <2>1 DEF Custody
  <2>3. \A v : Sending(v)' <=> Sending(v) /\ v # g.w
    BY <1>5, <2>1, SendingDef DEF Queues, Custody, Sends
  <2>4. \A v : Queued(v)' <=> Queued(v) \/ v = g.w
    BY <1>5 DEF Queues, Added, Queued
  <2>5. IsInjective(available')
    BY <1>5, <2>2 DEF Queues, Added, Custody, Queued
  <2>6. \A h, k \in Sends' : h.w = k.w => h = k
    BY <1>5 DEF Queues, Custody, Sends
  <2>7. QED
    BY <1>5, <2>2, <2>3, <2>4, <2>5, <2>6 DEF Queues, Custody, Holds, Sends
<1>6. ASSUME NEW w \in Worker, Scales(w)
      PROVE  Custody'
  <2>1. IsInjective(available') /\ Range(available') \subseteq Range(available)
    BY <1>6 DEF Scales, Removed, Custody
  <2>2. QED
    BY <1>6, <2>1, SendingDef DEF Scales, Custody, Queued, Holds, Sends
<1>7. QED
  BY <1>1, <1>2, <1>3, <1>4, <1>5, <1>6, HandOver

\* Only a receive starts a w.Exec; every other step leaves the running ones
\* where they are, or ends one.
LEMMA RunsGoOn ==
    ASSUME TypeOK, CallState, [Next]_vars
    PROVE  \/ \E r \in Requests : Take(r)
           \/ \A q \in Requests :
                 /\ run'[q].at \in Active => run[q].at \in Active
                 /\ run'[q].on = run[q].on
<1>1. ASSUME NEW r \in Requests, RunWrite(r) \/ RunRead(r)
      PROVE  /\ Others(r) /\ run[r].at \in Active
             /\ run'[r].on = run[r].on
  <2>1. run[r].at \in Active
    BY <1>1 DEF RunWrite, RunRead, Active
  <2>2. CASE RunWrite(r) /\ worker[run[r].on].open /\ Alive(run[r].on)
    BY SMTT(40), <2>1, <2>2, WriteFacts
  <2>3. QED
    BY <1>1, <2>1, <2>2, RunEnds
<1>2. ASSUME \/ UNCHANGED vars
             \/ \E r \in Requests : Exec(r) /\ ~Take(r)
             \/ \E w \in Worker : PHP(w) \/ Fault(w) \/ BootHangs(w)
             \/ \E g \in routines : RoutineStep(g) \/ BootFails(g)
             \/ Tick \/ Watchdog
             \/ ReloadBegin \/ ReloadSpawn \/ ReloadReturn
             \/ \E k \in 1 .. MaxReloads : DrainNext(k)
             \/ Cancel \/ StopWorkers \/ CloseQueue
      PROVE  run' = run
  BY ZenonT(40), <1>2
  DEF vars, callVars, Exec, GiveUp, TakeNil, Receive, Timeout, Abandon,
      AwaitReady, PutBack, PHP, PHPRead, PHPRespond, PHPNext,
      Fault, RoutineStep, SendStop, StopReturns, RemoveWorker,
      SpawnReplacement, Register, BootHangs, BootFails, Send, Tick, Watchdog,
      HealthCheck, Decide, ScaleUp,
      ScaleDown, WatchdogExit, ReloadBegin, ReloadSpawn, ReloadReturn,
      DrainNext, Cancel, StopWorkers, CloseQueue
<1>3. QED
  BY <1>1, <1>2 DEF Next, WorkerExec, Others

\* A step that moves no worker between the places is not a receive.
LEMMA StaysIsNoTake ==
    ASSUME TypeOK, CallState, Stays, NEW r \in Requests
    PROVE  ~Take(r)
<1>1. SUFFICES ASSUME Take(r) PROVE FALSE
  OBVIOUS
<1>2. call'[r].held \in Worker /\ call[r].at = "select"
  BY <1>1, TakeFacts
<1>3. QED
  BY <1>2 DEF Stays, SameHeld, CallState, Holding, Worker, NoWorker

\* Every step keeps ExclusiveRuns.
LEMMA ExclusiveStep ==
    /\ TypeOK /\ CallState /\ Fresh /\ Custody /\ ExclusiveRuns /\ [Next]_vars
    => ExclusiveRuns'
<1> SUFFICES ASSUME TypeOK, CallState, Fresh, Custody, ExclusiveRuns, [Next]_vars
             PROVE  ExclusiveRuns'
  OBVIOUS
<1>0. /\ \A w \in Worker : w # NoWorker
      /\ \A q \in Requests : run[q].at \in Active => run[q].on \in Worker
  BY RunsOn DEF Worker, NoWorker, Active
<1>1. CASE Stays
  <2>1. \A q \in Requests : run'[q].at \in Active =>
           run[q].at \in Active /\ run'[q].on = run[q].on
    BY <1>1, RunsGoOn, StaysIsNoTake
  <2>2. QED
    BY <1>1, <2>1, SendingDef DEF Stays, SameHeld, ExclusiveRuns, Queued
<1>2. ASSUME NEW r \in Requests, NEW w \in Worker, Takes(r, w)
      PROVE  ExclusiveRuns'
  <2>1. Queued(w)
    BY <1>2 DEF Takes, Removed, Queued
  <2>2. ~Holds(w) /\ ~Sending(w)
    BY <2>1 DEF Custody
  <2>3. w \notin Range(available') /\ Range(available') \subseteq Range(available)
    BY <1>2 DEF Takes, Removed, Custody
  <2>4. \A v : Sending(v)' <=> Sending(v)
    BY <1>2, SendingDef DEF Takes
  <2>5. \A q \in Requests \ {r} : run[q].at \in Active => run[q].on # w
    BY <2>1 DEF ExclusiveRuns
  <2>6. QED
    BY <1>2, <2>2, <2>3, <2>4, <2>5 DEF Takes, Others, ExclusiveRuns, Queued, Holds
<1>3. ASSUME NEW r \in Requests, Drops(r) \/ Puts(r)
      PROVE  ExclusiveRuns'
  <2>1. \A q \in Requests : /\ run'[q] = run[q]
                            /\ call'[q].held = IF q = r THEN NoWorker ELSE call[q].held
    BY <1>3 DEF Drops, Puts, Others
  <2>2. \A v : Sending(v)' <=> Sending(v)
    BY <1>3, SendingDef DEF Drops, Puts
  <2>3. \A q \in Requests : run[q].at \in Active =>
           run[q].on \notin Range(available')
    <3>1. CASE Drops(r)
      BY <3>1 DEF Drops, ExclusiveRuns, Queued
    <3>2. CASE Puts(r)
      <4>1. run[r].at = "ended"
        BY <3>2 DEF Puts, CallState
      <4>2. \A q \in Requests : run[q].at \in Active => run[q].on # call[r].held
        BY <4>1 DEF ExclusiveRuns, Active
      <4>3. QED
        BY <3>2, <4>2 DEF Puts, Added, ExclusiveRuns, Queued
    <3>3. QED
      BY <1>3, <3>1, <3>2
  <2>4. QED
    BY <1>0, <2>1, <2>2, <2>3 DEF ExclusiveRuns, Queued
<1>4. ASSUME NEW g \in routines', Creates(g)
      PROVE  ExclusiveRuns'
  <2>1. \A q \in Requests : run[q].on # g.w
    BY <1>4, NewIsFresh
  <2>2. \A v : Sending(v)' <=> Sending(v) \/ v = g.w
    BY <1>4, SendingDef DEF Creates
  <2>3. QED
    BY <1>4, <2>1, <2>2 DEF Creates, ExclusiveRuns, Queued
<1>5. ASSUME NEW g \in routines, Queues(g)
      PROVE  ExclusiveRuns'
  <2>1. Sending(g.w)
    BY <1>5, SendingDef DEF Queues
  <2>2. \A v : Sending(v)' => Sending(v)
    BY <1>5, SendingDef DEF Queues
  <2>3. \A v : Queued(v)' <=> Queued(v) \/ v = g.w
    BY <1>5 DEF Queues, Added, Queued
  <2>4. QED
    BY <1>5, <2>1, <2>2, <2>3 DEF Queues, ExclusiveRuns
<1>6. ASSUME NEW w \in Worker, Scales(w)
      PROVE  ExclusiveRuns'
  BY <1>6, SendingDef DEF Scales, Removed, ExclusiveRuns, Queued
<1>7. QED
  BY <1>1, <1>2, <1>3, <1>4, <1>5, <1>6, HandOver

-----------------------------------------------------------------------------
(***************************************************************************)
(* The pool implements Lease.  A receive of Exec is Grant; an answer or an *)
(* error after which the worker is replaced, a timeout and a shutdown are  *)
(* Release to "retired", the send of Exec is Release to "free"; a spawn is *)
(* Create, a receive of autoScale is Retire, all else stutters.            *)
(***************************************************************************)

\* Place in terms of the three places, before and after a step.
LEMMA PlaceDef ==
    ASSUME NEW w \in Worker
    PROVE  /\ Place(w) = IF w \notin Spawned THEN "new" ELSE IF Holds(w) THEN "leased"
                         ELSE IF Queued(w) \/ Sending(w) THEN "free" ELSE "retired"
           /\ Place(w)' = IF w \notin Spawned' THEN "new" ELSE IF Holds(w)' THEN "leased"
                          ELSE IF Queued(w)' \/ Sending(w)' THEN "free"
                          ELSE "retired"
  BY DEF Place, Sending, Spawned

\* One worker moves.
LEMMA PlaceMoves ==
    ASSUME NEW w \in Worker, NEW p, Place(w)' = p,
           \A v \in Worker : v # w => Place(v)' = Place(v)
    PROVE  [v \in Worker |-> Place(v)]' = [[v \in Worker |-> Place(v)] EXCEPT ![w] = p]
<1>1. \A v \in Worker : Place(v)' = [[u \in Worker |-> Place(u)] EXCEPT ![w] = p][v]
  OBVIOUS
<1>2. QED
  BY <1>1

\* Every step is a step of Lease.
LEMMA LeaseStep ==
    TypeOK /\ CallState /\ Fresh /\ Custody /\ [Next]_vars => [L!Next]_(L!leaseVars)
<1> SUFFICES ASSUME TypeOK, CallState, Fresh, Custody, [Next]_vars
             PROVE  [L!Next]_(L!leaseVars)
  OBVIOUS
<1>0. /\ \A w \in Worker : w # NoWorker
      /\ \A g \in Sends : g.w \in Worker
      /\ \A w \in Worker : Queued(w) \/ Holds(w) \/ Sending(w) => w \in Spawned
  BY RoutineFields DEF Worker, NoWorker, TypeOK, Sends, Fresh, Queued,
     Holds, Sending
<1>1. CASE Stays
  <2>1. \A w \in Worker : Place(w)' = Place(w)
    BY <1>1, PlaceDef, SendingDef DEF Stays, SameHeld, Queued, Holds
  <2>2. QED
    BY <1>1, <2>1 DEF Stays, SameHeld, L!leaseVars
<1>2. ASSUME NEW r \in Requests, NEW w \in Worker, Takes(r, w)
      PROVE  L!Grant(r, w)
  <2>1. \A q \in Requests : call'[q].held = IF q = r THEN w ELSE call[q].held
    BY <1>2 DEF Takes, Others
  <2>2. /\ call[r].held = NoWorker /\ Spawned' = Spawned
        /\ \A v : Sending(v)' <=> Sending(v)
        /\ \A v : Queued(v) <=> Queued(v)' \/ v = w
    BY <1>2, SendingDef DEF Takes, Removed, Queued, CallState, Holding
  <2>3. Queued(w) /\ ~Holds(w) /\ ~Sending(w)
    BY <2>2 DEF Custody
  <2>4. \A v \in Worker : Holds(v)' <=> Holds(v) \/ v = w
    BY <1>0, <2>1, <2>2 DEF Holds
  <2>5. Place(w) = "free" /\ Place(w)' = "leased"
    BY <1>0, <2>2, <2>3, <2>4, PlaceDef
  <2>6. \A v \in Worker : v # w => Place(v)' = Place(v)
    BY <2>2, <2>4, PlaceDef
  <2>7. [q \in Requests |-> call[q].held]' =
           [[q \in Requests |-> call[q].held] EXCEPT ![r] = w]
    BY <2>1
  <2>8. QED
    BY <2>2, <2>5, <2>6, <2>7, PlaceMoves DEF L!Grant
<1>3. ASSUME NEW r \in Requests, NEW w \in Worker, w = call[r].held,
             Drops(r) \/ Puts(r)
      PROVE  \E next \in {"free", "retired"} : L!Release(r, next)
  <2>1. \A q \in Requests : call'[q].held = IF q = r THEN NoWorker ELSE call[q].held
    BY <1>3 DEF Drops, Puts, Others
  <2>2. /\ Spawned' = Spawned /\ \A v : Sending(v)' <=> Sending(v)
    BY <1>3, SendingDef DEF Drops, Puts
  <2>3. \A v \in Worker : Queued(v)' => Queued(v) \/ v = w
    BY <1>3 DEF Drops, Puts, Added, Queued
  <2>4. \A v \in Worker : Queued(v) => Queued(v)'
    BY <1>3 DEF Drops, Puts, Added, Queued
  <2>5. \A v \in Worker : Holds(v)' <=> Holds(v) /\ v # w
    BY <1>0, <1>3, <2>1 DEF Holds, Custody
  <2>6. Holds(w)
    BY <1>3 DEF Holds
  <2>7. \A v \in Worker : v # w => Place(v)' = Place(v)
    BY <2>2, <2>3, <2>4, <2>5, PlaceDef
  <2>8. Place(w)' \in {"free", "retired"}
    BY <1>0, <2>2, <2>5, <2>6, PlaceDef
  <2>9. [q \in Requests |-> call[q].held]' =
           [[q \in Requests |-> call[q].held] EXCEPT ![r] = NoWorker]
    BY <2>1
  <2>10. PICK next \in {"free", "retired"} : next = Place(w)'
    BY <2>8
  <2>11. [v \in Worker |-> Place(v)]' =
            [[v \in Worker |-> Place(v)] EXCEPT ![w] = next]
    BY <2>7, <2>10, PlaceMoves
  <2>12. L!Release(r, next)
    BY <1>0, <1>3, <2>9, <2>11 DEF L!Release
  <2>13. QED
    BY <2>12
<1>4. ASSUME NEW g \in routines', Creates(g)
      PROVE  \E w \in Worker : L!Create(w)
  <2>1. PICK w \in Worker : w = g.w
    BY <1>4, NewIsFresh DEF Creates
  <2>2. /\ Spawned' = Spawned \cup {w} /\ w \notin Spawned
        /\ \A v : Sending(v)' <=> Sending(v) \/ v = w
        /\ \A v : (Queued(v)' <=> Queued(v)) /\ (Holds(v)' <=> Holds(v))
        /\ call' = call
    BY <1>4, <2>1, SendingDef DEF Creates, Queued, Holds
  <2>3. ~Queued(w) /\ ~Holds(w)
    BY <1>4, <2>1, NewIsFresh
  <2>4. Place(w) = "new" /\ Place(w)' = "free"
    BY <2>1, <2>2, <2>3, PlaceDef
  <2>5. \A v \in Worker : v # w => Place(v)' = Place(v)
    BY <2>2, PlaceDef
  <2>6. QED
    BY <2>2, <2>4, <2>5, PlaceMoves DEF L!Create
<1>5. ASSUME NEW g \in routines, Queues(g)
      PROVE  UNCHANGED L!leaseVars
  <2>1. g \in Sends /\ g.w \in Worker /\ Sending(g.w)
    BY <1>5, <1>0, SendingDef DEF Queues
  <2>2. \A v : Sending(v)' <=> Sending(v) /\ v # g.w
    BY <1>5, <2>1, SendingDef DEF Queues, Custody, Sends
  <2>3. \A v : /\ Queued(v)' <=> Queued(v) \/ v = g.w
               /\ Holds(v)' <=> Holds(v)
    BY <1>5 DEF Queues, Added, Queued, Holds
  <2>4. Spawned' = Spawned /\ call' = call
    BY <1>5 DEF Queues
  <2>5. \A v \in Worker : Place(v)' = Place(v)
    BY <2>1, <2>2, <2>3, <2>4, PlaceDef
  <2>6. QED
    BY <2>4, <2>5 DEF L!leaseVars
<1>6. ASSUME NEW w \in Worker, Scales(w)
      PROVE  L!Retire(w)
  <2>1. /\ Spawned' = Spawned /\ call' = call
        /\ \A v : Sending(v)' <=> Sending(v)
        /\ \A v : Queued(v) <=> Queued(v)' \/ v = w
        /\ \A v : Holds(v)' <=> Holds(v)
    BY <1>6, SendingDef DEF Scales, Removed, Queued, Holds
  <2>2. ~Queued(w)'
    BY <1>6 DEF Scales, Removed, Custody, Queued
  <2>3. Queued(w) /\ ~Holds(w) /\ ~Sending(w)
    BY <2>1 DEF Custody
  <2>4. Place(w) = "free" /\ Place(w)' = "retired"
    BY <1>0, <2>1, <2>2, <2>3, PlaceDef
  <2>5. \A v \in Worker : v # w => Place(v)' = Place(v)
    BY <2>1, PlaceDef
  <2>6. QED
    BY <2>1, <2>4, <2>5, PlaceMoves DEF L!Retire
<1>7. \A r \in Requests : Drops(r) \/ Puts(r) => call[r].held \in Worker
  BY HasWorker DEF Drops, Puts, Holding
<1>8. QED
  BY <1>1, <1>2, <1>3, <1>4, <1>5, <1>6, <1>7, HandOver DEF L!Next

\* The pool starts as Lease does: its workers are free, nobody holds one.
LEMMA LeaseInit == Init => L!Init
<1> SUFFICES ASSUME Init PROVE L!Init
  OBVIOUS
<1>1. \A w \in Worker : ~Holds(w)
  BY DEF Init, Holds, Worker, NoWorker
<1>2. \A w \in Worker : w <= MinWorkers => Queued(w)
  <2>1. \A w \in Worker : w <= MinWorkers => w \in 1 .. MinWorkers
    BY Scenario, PoolConfig DEF Worker
  <2>2. QED
    BY <2>1, PoolConfig DEF Queued, Range, Init
<1>3. \A w \in Worker : Place(w) \in {"new", "free"}
  <2> SUFFICES ASSUME NEW w \in Worker PROVE Place(w) \in {"new", "free"}
    OBVIOUS
  <2>1. w \notin Spawned \/ w <= MinWorkers
    BY Scenario, PoolConfig DEF Init, Worker, Spawned, Created
  <2>2. QED
    BY <1>1, <1>2, <2>1, PlaceDef
<1>4. QED
  BY <1>3 DEF Init, L!Init

-----------------------------------------------------------------------------
(* Fresh: ids grow, and nothing refers to one that is not in use.          *)

\* A step starts at most one process and registers at most one worker.
LEMMA Registers ==
    ASSUME TypeOK, CallState, [Next]_vars
    PROVE  /\ nextID' = nextID \/ (nextID' = nextID + 1 /\ nextID' \in Worker)
           /\ workers' \subseteq workers \/ \E g \in routines : Register(g)
<1> USE DEF poolVars, callVars, processVars, controlVars
<1>1. ASSUME NEW G, NEW j \in Job, Spawn(G, j) \/ SpawnFails(G)
      PROVE  nextID' = nextID \/ (nextID' = nextID + 1 /\ nextID' \in Worker)
  BY <1>1, SpawnFacts DEF SpawnFails
<1>2. ASSUME (\E g \in routines : SpawnReplacement(g)) \/ ScaleUp \/ ReloadSpawn
      PROVE  /\ workers' = workers
             /\ \E G, j : j \in Job /\ (Spawn(G, j) \/ SpawnFails(G))
  BY <1>2 DEF SpawnReplacement, ScaleUp, ReloadSpawn, Job
<1>3. ASSUME \/ UNCHANGED vars
             \/ \E r \in Requests : Exec(r) \/ WorkerExec(r)
             \/ \E w \in Worker : PHP(w) \/ Fault(w) \/ BootHangs(w)
             \/ \E g \in routines : SendStop(g) \/ StopReturns(g)
                                    \/ RemoveWorker(g) \/ Send(g) \/ BootFails(g)
             \/ Tick \/ HealthCheck \/ Decide \/ ScaleDown \/ WatchdogExit
             \/ ReloadBegin \/ ReloadReturn
             \/ \E k \in 1 .. MaxReloads : DrainNext(k)
             \/ Cancel \/ StopWorkers \/ CloseQueue
      PROVE  nextID' = nextID /\ workers' \subseteq workers
  BY ZenonT(40), <1>3
  DEF vars, Exec, Take, GiveUp, TakeNil, Receive, Timeout, Abandon,
      AwaitReady, PutBack, WorkerExec, RunWrite, RunRead, PHP, PHPRead,
      PHPRespond, PHPNext, Fault, BootHangs, SendStop, StopReturns, RemoveWorker,
      Send, BootFails, Tick, HealthCheck, Decide, ScaleDown, WatchdogExit,
      ReloadBegin, ReloadReturn, DrainNext, Cancel, StopWorkers, CloseQueue
<1>4. ASSUME NEW g \in routines, Register(g)
      PROVE  nextID' = nextID
  BY <1>4 DEF Register
<1>5. QED
  BY <1>1, <1>2, <1>3, <1>4 DEF Next, RoutineStep, Watchdog

\* Where the goroutines of the set routines come from: each one was there, or
\* has gone on with its worker, or handles a worker that somebody referred to.
LEMMA RoutineOrigin ==
    ASSUME TypeOK, CallState, [Next]_vars, NEW h \in routines'
    PROVE  \/ h \in routines
           \/ \E g \in routines : h.w = g.w /\ (g.at # "boot" \/ Register(g))
           \/ h.w \in workers \cup Range(available) \cup watchdog.toCheck
           \/ \E r \in Requests : call[r].at \in Holding /\ h.w = call[r].held
           \/ \E k \in 1 .. MaxReloads : h.w \in draining[k].left
           \/ h.at = "boot"
<1> USE DEF poolVars, callVars, processVars, controlVars
<1>1. ASSUME \/ UNCHANGED vars
             \/ \E r \in Requests : Take(r) \/ GiveUp(r) \/ TakeNil(r)
                                    \/ Abandon(r) \/ PutBack(r)
             \/ \E r \in Requests : WorkerExec(r)
             \/ \E w \in Worker : PHP(w) \/ Fault(w) \/ BootHangs(w)
             \/ \E g \in routines : Send(g) \/ BootFails(g)
             \/ Tick \/ Decide \/ WatchdogExit \/ ReloadBegin \/ ReloadReturn
             \/ Cancel \/ CloseQueue
      PROVE  h \in routines
  BY ZenonT(40), <1>1
  DEF vars, Take, GiveUp, TakeNil, Abandon, PutBack, WorkerExec, RunWrite,
      RunRead, PHP, PHPRead, PHPRespond, PHPNext, Fault, BootHangs, Send,
      BootFails, Become, Tick,
      Decide, WatchdogExit, ReloadBegin, ReloadReturn, Cancel, CloseQueue
<1>2. ASSUME NEW w \in Worker, GoReplace(w)
      PROVE  h \in routines \/ h.w = w
  BY <1>2, ReplaceFacts
<1>3. ASSUME NEW r \in Requests, Receive(r) \/ Timeout(r) \/ AwaitReady(r)
      PROVE  h \in routines \/ (call[r].at \in Holding /\ h.w = call[r].held)
  <2>1. call[r].at \in Holding
    BY <1>3 DEF Receive, Timeout, AwaitReady, Holding
  <2>2. call[r].held \in Worker
    BY <2>1, HasWorker
  <2>3. GoReplace(call[r].held) \/ routines' = routines
    BY <1>3 DEF Receive, Timeout, AwaitReady
  <2>4. QED
    BY <1>2, <2>1, <2>2, <2>3
<1>4. ASSUME NEW g \in routines, SendStop(g) \/ StopReturns(g) \/ RemoveWorker(g)
      PROVE  h \in routines \/ (h.w = g.w /\ g.at # "boot")
  <2>1. \A a \in {"wait", "remove", "spawn"} : At(g, a).w = g.w
    BY RoutineFields DEF Stage, TypeOK
  <2>2. QED
    BY <1>4, <2>1 DEF SendStop, StopReturns, RemoveWorker, Become
<1>5. ASSUME NEW G, NEW j \in Job, Spawn(G, j) \/ SpawnFails(G)
      PROVE  h \in routines \/ h.at = "boot"
  <2>1. CASE Spawn(G, j)
    BY <2>1, SpawnFacts, RoutineFields
  <2>2. CASE SpawnFails(G)
    BY <2>2 DEF SpawnFails
  <2>3. QED
    BY <1>5, <2>1, <2>2
<1>6. ASSUME (\E g \in routines : SpawnReplacement(g)) \/ ScaleUp \/ ReloadSpawn
      PROVE  \E G, j : j \in Job /\ (Spawn(G, j) \/ SpawnFails(G))
  BY <1>6 DEF SpawnReplacement, ScaleUp, ReloadSpawn, Job
<1>7. CASE HealthCheck
  <2>1. PICK w \in watchdog.toCheck : GoReplace(w) \/ routines' = routines
    BY <1>7 DEF HealthCheck
  <2>2. w \in Worker
    BY DEF TypeOK
  <2>3. QED
    BY <1>2, <2>1, <2>2
<1>8. CASE ScaleDown
  <2>1. available \in Seq(Worker)
    BY DEF TypeOK
  <2>2. available # <<>> => Head(available) \in Range(available)
    BY <2>1, RangeTail
  <2>3. QED
    BY <1>8, <2>2, RoutineFields DEF ScaleDown
<1>9. ASSUME NEW k \in 1 .. MaxReloads, DrainNext(k)
      PROVE  h \in routines \/ h.w \in draining[k].left
  BY <1>9, RoutineFields DEF DrainNext
<1>10. CASE StopWorkers
  BY <1>10, RoutineFields DEF StopWorkers
<1>11. ASSUME NEW g \in routines, Register(g)
       PROVE  h \in routines \/ h.w = g.w
  <2>1. At(g, "send").w = g.w
    BY RoutineFields DEF Stage, TypeOK
  <2>2. QED
    BY <1>11, <2>1 DEF Register, Become
<1>12. QED
  BY <1>1, <1>3, <1>4, <1>5, <1>6, <1>7, <1>8, <1>9, <1>10, <1>11
  DEF Next, Exec, RoutineStep, Watchdog

\* A step of one worker leaves the others as they are.
Touches(w) ==
    \A v \in Worker \ {w} : worker'[v] = worker[v] /\ php'[v] = php[v]

\* A process starts, says READY, or fails before that: no more happens to it.
Boots(w) ==
    /\ worker' = worker /\ w <= nextID'
    /\ php'[w].req = php[w].req /\ php'[w].count = php[w].count

\* Whatever happens to a worker happens to one, which NewWorker has returned or
\* whose process is starting.
LEMMA TouchesOne ==
    ASSUME TypeOK, CallState, Fresh, [Next]_vars
    PROVE  \/ worker' = worker /\ php' = php
           \/ \E w \in Worker : Touches(w) /\ (w \in Spawned \/ Boots(w))
<1> USE DEF poolVars, callVars, processVars, controlVars
<1>1. ASSUME \/ UNCHANGED vars
             \/ \E r \in Requests : Exec(r) /\ ~AwaitReady(r)
             \/ \E g \in routines : RemoveWorker(g) \/ Send(g)
             \/ Tick \/ HealthCheck \/ Decide \/ ScaleDown \/ WatchdogExit
             \/ ReloadBegin \/ ReloadReturn
             \/ \E k \in 1 .. MaxReloads : DrainNext(k)
             \/ Cancel \/ StopWorkers \/ CloseQueue
      PROVE  worker' = worker /\ php' = php
  BY <1>1
  DEF vars, Exec, Take, GiveUp, TakeNil, Receive, Timeout, Abandon, PutBack,
      RemoveWorker, Send, Tick, HealthCheck, Decide, ScaleDown, WatchdogExit,
      ReloadBegin, ReloadReturn, DrainNext, Cancel, StopWorkers, CloseQueue
<1>2. ASSUME NEW r \in Requests, AwaitReady(r)
      PROVE  call[r].held \in Spawned \cap Worker /\ Touches(call[r].held)
  <2>1. call[r].held \in Spawned \cap Worker
    BY <1>2, HasWorker DEF AwaitReady, Holding, Fresh, CallState
  <2>2. QED
    BY <1>2, <2>1, AfterReadType DEF AwaitReady, Touches
<1>3. ASSUME NEW r \in Requests, RunWrite(r) \/ RunRead(r)
      PROVE  run[r].on \in Spawned \cap Worker /\ Touches(run[r].on)
  <2>1. run[r].on \in Worker
    BY <1>3, RunsOn DEF RunWrite, RunRead
  <2>2. run[r].on \in Spawned
    BY <2>1 DEF Fresh, Worker, NoWorker
  <2>3. php' = php
    BY <1>3 DEF RunWrite, RunRead
  <2>4. CASE RunWrite(r) /\ worker[run[r].on].open /\ Alive(run[r].on)
    BY <2>1, <2>2, <2>3, <2>4, WriteFacts DEF Touches
  <2>5. QED
    BY <1>3, <2>1, <2>2, <2>3, <2>4, RunEnds DEF Touches
<1>4. ASSUME NEW w \in Worker, PHP(w) \/ Fault(w)
      PROVE  w \in Spawned /\ Touches(w)
  <2>1. Created(w)
    BY <1>4 DEF PHP, PHPRead, PHPRespond, PHPNext, Fault, Alive, Booting, Created
  <2>2. w \in Spawned
    BY <2>1 DEF Spawned
  <2>3. QED
    BY <1>4, <2>2 DEF PHP, PHPRead, PHPRespond, PHPNext, Fault, PHPEnds, Touches,
       TypeOK
<1>5. ASSUME NEW g \in routines, SendStop(g) \/ StopReturns(g)
      PROVE  g.w \in Spawned \cap Worker /\ Touches(g.w)
  <2>1. g.w \in Spawned \cap Worker
    BY <1>5, RoutineFields DEF Fresh, TypeOK, SendStop, StopReturns
  <2>2. QED
    BY <1>5, <2>1 DEF SendStop, StopReturns, PHPEnds, Touches, TypeOK
<1>6. php \in [Worker -> ProcessRecord]
  BY DEF TypeOK
<1>7. ASSUME NEW w \in Worker, NEW a, php' = [php EXCEPT ![w].at = a],
             worker' = worker, ~(w > nextID')
      PROVE  Touches(w) /\ Boots(w)
  <2>1. php'[w].req = php[w].req /\ php'[w].count = php[w].count
    BY <1>6, <1>7 DEF ProcessRecord
  <2>2. w \in Nat /\ nextID' \in Int => w <= nextID'
    BY <1>7 DEF Worker
  <2>3. nextID' \in Int
    BY Registers DEF TypeOK, Worker
  <2>4. QED
    BY <1>6, <1>7, <2>1, <2>2, <2>3, Scenario DEF Touches, Boots, Worker
<1>8. \A w \in Worker : Booting(w) => ~(w > nextID)
  BY DEF Fresh, Booting
<1>9. ASSUME NEW w \in Worker, BootHangs(w)
      PROVE  Touches(w) /\ Boots(w)
  BY <1>7, <1>8, <1>9 DEF BootHangs, PHPEnds, Booting
<1>10. ASSUME NEW g \in routines, BootFails(g) \/ Register(g)
       PROVE  g.w \in Worker /\ Touches(g.w) /\ Boots(g.w)
  <2>1. g.w \in Worker
    BY RoutineFields DEF TypeOK
  <2>2. Booting(g.w) /\ nextID' = nextID /\ worker' = worker
    BY <1>10 DEF BootFails, Register, Booting
  <2>3. \E a : php' = [php EXCEPT ![g.w].at = a]
    BY <1>10 DEF BootFails, Register, PHPEnds
  <2>4. QED
    BY <1>7, <1>8, <2>1, <2>2, <2>3
<1>11. ASSUME (\E g \in routines : SpawnReplacement(g)) \/ ScaleUp \/ ReloadSpawn
       PROVE  \/ worker' = worker /\ php' = php
              \/ nextID' \in Worker /\ Touches(nextID') /\ Boots(nextID')
  <2>1. PICK G, j : j \in Job /\ (Spawn(G, j) \/ SpawnFails(G))
    BY <1>11 DEF SpawnReplacement, ScaleUp, ReloadSpawn, Job
  <2>2. CASE SpawnFails(G)
    BY <2>2 DEF SpawnFails
  <2>3. CASE Spawn(G, j)
    <3>1. /\ nextID' \in Worker /\ worker' = worker
          /\ php' = [php EXCEPT ![nextID'].at = "boot"]
      BY <2>1, <2>3, SpawnFacts
    <3>2. ~(nextID' > nextID')
      BY <3>1 DEF Worker
    <3>3. QED
      BY <1>7, <3>1, <3>2
  <2>4. QED
    BY <2>1, <2>2, <2>3
<1>12. QED
  BY <1>1, <1>2, <1>3, <1>4, <1>5, <1>9, <1>10, <1>11
  DEF Next, WorkerExec, RoutineStep, Watchdog

\* Every step keeps Fresh.
LEMMA FreshStep ==
    TypeOK /\ CallState /\ Fresh /\ [Next]_vars => Fresh'
<1> SUFFICES ASSUME TypeOK, CallState, Fresh, [Next]_vars
             PROVE  Fresh'
  OBVIOUS
<1>0. nextID \in Nat /\ (nextID' = nextID \/ (nextID' = nextID + 1 /\ nextID' \in Worker))
  BY Registers DEF TypeOK
<1>1. /\ Spawned \subseteq Spawned'
      /\ \A g \in routines : Register(g) => g.w \in Spawned'
  BY SpawnedGrows
<1>2. workers' \subseteq Spawned'
  <2>1. \A g \in routines : Register(g) => workers' = workers \cup {g.w}
    BY DEF Register
  <2>2. QED
    BY <1>1, <2>1, Registers DEF Fresh
<1>3. Range(available') \subseteq Spawned'
  <2>1. \A r \in Requests : call[r].at \in Holding => call[r].held \in Spawned
    BY DEF Fresh, CallState
  <2>2. \A g \in Sends : g.w \in Spawned
    BY DEF Fresh, Sends
  <2>3. Range(available) \subseteq Spawned
    BY DEF Fresh
  <2>4. \/ available' = available
        \/ Range(available') \subseteq Range(available)
        \/ \E r \in Requests : call[r].at \in Holding /\ Added(call[r].held)
        \/ \E g \in Sends : Added(g.w)
    BY HandOver
    DEF Stays, Takes, Drops, Puts, Creates, Queues, Scales, Removed, Holding
  <2>5. QED
    BY <1>1, <2>1, <2>2, <2>3, <2>4 DEF Added
<1>4. \A r \in Requests : {call'[r].held, run'[r].on} \subseteq Spawned' \cup {NoWorker}
  <2>1. CASE \E r \in Requests : Take(r)
    <3>1. PICK r \in Requests, w \in Worker :
             /\ Removed(w) /\ Others(r) /\ call'[r].held = w /\ run'[r].on = w
      BY <2>1, TakeFacts
    <3>2. w \in Spawned
      BY <3>1 DEF Removed, Fresh
    <3>3. QED
      BY <1>1, <3>1, <3>2 DEF Others, Fresh
  <2>2. CASE ~\E r \in Requests : Take(r)
    <3>1. \A r \in Requests : run'[r].on = run[r].on
      BY <2>2, RunsGoOn
    <3>2. \A r \in Requests : call'[r].held \in {call[r].held, NoWorker}
                              \/ call'[r].held \in Range(available)
      BY HandOver DEF Stays, SameHeld, Takes, Removed, Drops, Puts, Creates,
         Queues, Scales, Others
    <3>3. QED
      BY <1>1, <3>1, <3>2 DEF Fresh
  <2>3. QED
    BY <2>1, <2>2
<1>5. \A g \in routines' : g.at = "boot" \/ g.w \in Spawned'
  BY <1>1, RoutineOrigin DEF Fresh, CallState
<1>6. /\ \A w \in Worker \ Spawned' : /\ worker'[w] = NewWorker
                                     /\ php'[w].req = NoReq /\ php'[w].count = 0
      /\ \A w \in Worker : w > nextID' => php'[w].at = "none"
  <2>1. \A w \in Worker : w > nextID' => w > nextID
    BY <1>0 DEF Worker
  <2>2. \A w \in Spawned : ~(w > nextID')
    BY <2>1 DEF Fresh, Spawned, Created
  <2>3. CASE worker' = worker /\ php' = php
    BY <1>1, <2>1, <2>3 DEF Fresh
  <2>4. ASSUME NEW v \in Worker, Touches(v), v \in Spawned
        PROVE  <1>6!1 /\ <1>6!2
    BY <1>1, <2>1, <2>2, <2>4 DEF Touches, Fresh
  <2>5. ASSUME NEW v \in Worker, Touches(v), Boots(v)
        PROVE  <1>6!1 /\ <1>6!2
    <3>1. ~(v > nextID')
      BY <1>0, <2>5 DEF Boots, Worker
    <3>2. QED
      BY <1>1, <2>1, <2>5, <3>1 DEF Touches, Boots, Fresh
  <2>6. QED
    BY <2>3, <2>4, <2>5, TouchesOne
<1>7. /\ reload'.old \cup reload'.new \cup watchdog'.toCheck \subseteq Spawned'
      /\ \A k \in 1 .. MaxReloads : draining'[k].left \subseteq Spawned'
  <2> USE DEF poolVars, callVars, processVars, controlVars
  <2>1. ASSUME \/ UNCHANGED vars
               \/ \E r \in Requests : Exec(r) \/ WorkerExec(r)
               \/ \E w \in Worker : PHP(w) \/ Fault(w) \/ BootHangs(w)
               \/ \E g \in routines : RoutineStep(g) /\ ~Register(g)
               \/ Cancel \/ StopWorkers \/ CloseQueue
        PROVE  UNCHANGED <<reload, watchdog, draining>>
    BY ZenonT(40), <2>1
    DEF vars, Exec, Take, GiveUp, TakeNil, Receive, Timeout, Abandon,
        AwaitReady, PutBack, WorkerExec, RunWrite, RunRead, PHP, PHPRead,
        PHPRespond, PHPNext, Fault, RoutineStep, SendStop, StopReturns,
        RemoveWorker, SpawnReplacement, BootHangs, Send, Cancel, StopWorkers, CloseQueue
  <2>2. ASSUME UNCHANGED <<reload, watchdog, draining>>
        PROVE  <1>7!1 /\ <1>7!2
    BY <1>1, <2>2 DEF Fresh
  <2>3. CASE Tick \/ Watchdog
    <3>1. UNCHANGED <<reload, draining>>
      BY <2>3 DEF Tick, Watchdog, HealthCheck, Decide, ScaleUp, ScaleDown,
         WatchdogExit
    <3>2. watchdog'.toCheck \subseteq workers \cup watchdog.toCheck
      <4>1. watchdog \in [at : {"wait", "health", "up", "down", "exit"},
                          toCheck : SUBSET Worker]
        BY DEF TypeOK
      <4>2. CASE Tick
        BY <4>1, <4>2 DEF Tick
      <4>3. CASE HealthCheck
        BY <4>1, <4>3 DEF HealthCheck
      <4>4. CASE Decide \/ ScaleUp \/ ScaleDown \/ WatchdogExit
        BY <4>1, <4>4 DEF Decide, ScaleUp, ScaleDown, WatchdogExit
      <4>5. QED
        BY <2>3, <4>2, <4>3, <4>4 DEF Watchdog
    <3>3. QED
      BY <1>1, <3>1, <3>2 DEF Fresh
  <2>4. CASE ReloadBegin
    BY <1>1, <2>4 DEF ReloadBegin, Fresh
  <2>5. ASSUME NEW job, NEW left, left \subseteq Spawned, ReloadEnds(job, left),
               watchdog' = watchdog
        PROVE  <1>7!1 /\ <1>7!2
    <3>1. reload'.old = {} /\ reload'.new = {}
      BY <2>5 DEF ReloadEnds, TypeOK
    <3>2. \A k \in 1 .. MaxReloads : draining'[k].left \in {draining[k].left, left}
      BY <2>5 DEF ReloadEnds, TypeOK
    <3>3. QED
      BY <1>1, <2>5, <3>1, <3>2 DEF Fresh
  <2>6. ASSUME \/ ReloadSpawn
               \/ \E g \in routines : BootFails(g)
        PROVE  <1>7!1 /\ <1>7!2
    <3>1. watchdog' = watchdog
      BY <2>6 DEF ReloadSpawn, BootFails
    <3>2. CASE ReloadEnds("abort", reload.new)
      BY <2>5, <3>1, <3>2 DEF Fresh
    <3>3. CASE UNCHANGED <<reload, draining>>
      BY <2>2, <3>1, <3>3
    <3>4. QED
      BY <2>6, <3>2, <3>3 DEF ReloadSpawn, BootFails
  <2>7. CASE ReloadReturn
    BY <2>5, <2>7 DEF ReloadReturn, Fresh
  <2>8. ASSUME NEW k \in 1 .. MaxReloads, DrainNext(k)
        PROVE  <1>7!1 /\ <1>7!2
    <3>1. UNCHANGED <<reload, watchdog>>
      BY <2>8 DEF DrainNext
    <3>2. \A i \in 1 .. MaxReloads : draining'[i].left \subseteq draining[i].left
      BY <2>8 DEF DrainNext, TypeOK
    <3>3. QED
      BY <1>1, <3>1, <3>2 DEF Fresh
  <2>9. ASSUME NEW g \in routines, Register(g)
        PROVE  <1>7!1 /\ <1>7!2
    <3>1. UNCHANGED <<watchdog, draining>>
      BY <2>9 DEF Register
    <3>2. reload'.old = reload.old /\ reload'.new \subseteq reload.new \cup {g.w}
      BY <2>9 DEF Register, TypeOK
    <3>3. QED
      BY <1>1, <2>9, <3>1, <3>2 DEF Fresh
  <2>10. QED
    BY SMTT(40), <2>1, <2>2, <2>3, <2>4, <2>6, <2>7, <2>8, <2>9 DEF Next
<1>8. QED
  BY <1>2, <1>3, <1>4, <1>5, <1>6, <1>7 DEF Fresh

-----------------------------------------------------------------------------
(* Starts: a process that has not said READY has one goroutine.            *)

\* The goroutines that wait for READY.
Waiting == {g \in routines : g.at = "boot"}

\* The same processes have not said READY, or all but that of w.
SameBooting == \A v \in Worker : Booting(v)' <=> Booting(v)
OthersBooting(w) == \A v \in Worker \ {w} : Booting(v)' <=> Booting(v)

\* A goroutine that does not spawn waits for no READY, and a new one that stops a
\* worker neither.
LEMMA SameWaiting ==
    /\ routines' = routines => Waiting' = Waiting
    /\ \A w \in Worker : GoReplace(w) => Waiting' = Waiting
    /\ \A j, k, w : routines' = routines \cup {Stopper(j, k, w)} => Waiting' = Waiting
<1>1. ASSUME NEW w \in Worker, GoReplace(w)
      PROVE  Waiting' = Waiting
  <2>1. PICK h \in Routine : h.at = "signal" /\ routines' = routines \cup {h}
    BY <1>1, ReplaceFacts
  <2>2. QED
    BY <2>1 DEF Waiting
<1>2. QED
  BY <1>1, RoutineFields DEF Waiting

\* A step leaves the goroutines that wait for READY and their processes alone,
\* starts one of each, or ends the wait of one.
LEMMA BootSteps ==
    ASSUME TypeOK, CallState, Fresh, Starts, [Next]_vars
    PROVE  \/ Waiting' = Waiting /\ SameBooting
           \/ \E g \in Routine : /\ g.w = nextID' /\ g.at = "boot"
                                 /\ nextID' \in Worker /\ nextID' > nextID
                                 /\ Waiting' = Waiting \cup {g}
                                 /\ Booting(g.w)' /\ OthersBooting(g.w)
           \/ \E g \in Waiting : /\ Waiting' = Waiting \ {g}
                                 /\ ~Booting(g.w)' /\ OthersBooting(g.w)
<1> USE DEF poolVars, callVars, processVars, controlVars
<1>0. /\ php \in [Worker -> ProcessRecord]
      /\ \A g \in routines : g \in Routine /\ g.w \in Worker
  BY RoutineFields DEF TypeOK
<1>1. ASSUME php' = php PROVE SameBooting
  BY <1>1 DEF SameBooting, Booting
<1>2. ASSUME NEW w \in Worker, NEW a, php' = [php EXCEPT ![w].at = a]
      PROVE  /\ OthersBooting(w) /\ (Booting(w)' <=> a \in {"boot", "stuck"})
             /\ (Booting(w) <=> a \in {"boot", "stuck"}) => SameBooting
  <2>1. php'[w].at = a /\ \A v \in Worker \ {w} : php'[v] = php[v]
    BY <1>0, <1>2 DEF ProcessRecord
  <2>2. OthersBooting(w)
    BY <2>1 DEF OthersBooting, Booting
  <2>3. Booting(w)' <=> a \in {"boot", "stuck"}
    BY <2>1 DEF Booting
  <2>4. QED
    BY <2>2, <2>3 DEF OthersBooting, SameBooting
<1>3. ASSUME \/ UNCHANGED vars
             \/ \E r \in Requests : \/ Take(r) \/ GiveUp(r) \/ TakeNil(r)
                                    \/ Abandon(r) \/ PutBack(r) \/ WorkerExec(r)
             \/ Tick \/ Decide \/ WatchdogExit
             \/ ReloadBegin \/ ReloadReturn \/ Cancel \/ CloseQueue
      PROVE  Waiting' = Waiting /\ SameBooting
  <2>1. php' = php /\ routines' = routines
    BY ZenonT(40), <1>3
    DEF vars, Take, GiveUp, TakeNil, Abandon, PutBack, WorkerExec, RunWrite,
        RunRead, Tick, Decide, WatchdogExit, ReloadBegin, ReloadReturn, Cancel,
        CloseQueue
  <2>2. QED
    BY <1>1, <2>1, SameWaiting
<1>4. ASSUME NEW r \in Requests, Receive(r) \/ Timeout(r) \/ AwaitReady(r)
      PROVE  Waiting' = Waiting /\ SameBooting
  <2>1. call[r].held \in Worker /\ php' = php
    BY <1>4, HasWorker DEF Receive, Timeout, AwaitReady, Holding
  <2>2. GoReplace(call[r].held) \/ routines' = routines
    BY <1>4 DEF Receive, Timeout, AwaitReady
  <2>3. QED
    BY <1>1, <2>1, <2>2, SameWaiting
<1>5. ASSUME NEW w \in Worker, PHP(w)
      PROVE  Waiting' = Waiting /\ SameBooting
  <2>1. routines' = routines /\ ~Booting(w)
    BY <1>5 DEF PHP, PHPRead, PHPRespond, PHPNext, Booting
  <2>2. /\ ~Booting(w)'
        /\ \A v \in Worker \ {w} : php'[v] = php[v]
    BY <1>0, <1>5 DEF PHP, PHPRead, PHPRespond, PHPNext, PHPEnds, ProcessRecord,
       Booting
  <2>3. SameBooting
    BY <2>1, <2>2 DEF SameBooting, Booting
  <2>4. QED
    BY <2>1, <2>3, SameWaiting
<1>6. ASSUME NEW w \in Worker, Fault(w) \/ BootHangs(w)
      PROVE  Waiting' = Waiting /\ SameBooting
  <2>1. routines' = routines
    BY <1>6 DEF Fault, BootHangs
  <2>2. \/ php' = php
        \/ \E a : /\ php' = [php EXCEPT ![w].at = a]
                  /\ Booting(w) <=> a \in {"boot", "stuck"}
    <3>1. CASE BootHangs(w)
      BY <3>1 DEF BootHangs, PHPEnds, Booting
    <3>2. CASE Fault(w)
      <4>1. \/ php' = php
            \/ ~Booting(w) /\ \E a \in {"exited", "killed", "hung"} : PHPEnds(w, a)
        BY <3>2 DEF Fault, Booting
      <4>2. QED
        BY <4>1 DEF PHPEnds
    <3>3. QED
      BY <1>6, <3>1, <3>2
  <2>3. QED
    BY <1>1, <1>2, <2>1, <2>2, SameWaiting
<1>7. ASSUME NEW g \in routines,
             SendStop(g) \/ StopReturns(g) \/ RemoveWorker(g) \/ Send(g)
      PROVE  Waiting' = Waiting /\ SameBooting
  <2>1. /\ routines \ {g} \subseteq routines' /\ g.at # "boot"
        /\ \A h \in routines' : h \in routines \/ h.at # "boot"
    <3>1. \A a \in {"wait", "remove", "spawn"} : At(g, a).at # "boot"
      BY <1>0, RoutineFields DEF Stage
    <3>2. QED
      BY <1>7, <3>1 DEF SendStop, StopReturns, RemoveWorker, Send, Become
  <2>2. Waiting' = Waiting
    BY <2>1 DEF Waiting
  <2>3. g.w \in Worker /\ ~Booting(g.w)
    BY <1>0, <2>1 DEF Fresh, Spawned, Created, Booting
  <2>4. php' = php \/ php' = [php EXCEPT ![g.w].at = "killed"]
    BY <1>7 DEF SendStop, StopReturns, RemoveWorker, Send, PHPEnds
  <2>5. QED
    BY <1>1, <1>2, <2>2, <2>3, <2>4
<1>8. ASSUME NEW g \in routines, Register(g) \/ BootFails(g)
      PROVE  g \in Waiting /\ Waiting' = Waiting \ {g}
             /\ ~Booting(g.w)' /\ OthersBooting(g.w)
  <2>1. g.at = "boot" /\ At(g, "send").at # "boot"
    BY <1>0, <1>8, RoutineFields DEF Register, BootFails, Stage
  <2>2. routines' = routines \ {g} \/ routines' = (routines \ {g}) \cup {At(g, "send")}
    BY <1>8 DEF Register, BootFails, Become
  <2>3. \E a \in {"loop", "failed"} : php' = [php EXCEPT ![g.w].at = a]
    BY <1>8 DEF Register, BootFails, PHPEnds
  <2>4. g \in Waiting /\ Waiting' = Waiting \ {g}
    BY <2>1, <2>2 DEF Waiting
  <2>5. QED
    BY <1>0, <1>2, <2>3, <2>4
<1>9. ASSUME NEW G, NEW j \in Job, \A g \in G : g.at # "boot",
             Spawn(G, j) \/ SpawnFails(G)
      PROVE  \/ Waiting' = Waiting /\ SameBooting
             \/ \E g \in Routine : /\ g.w = nextID' /\ g.at = "boot"
                                   /\ nextID' \in Worker /\ nextID' > nextID
                                   /\ Waiting' = Waiting \cup {g}
                                   /\ Booting(g.w)' /\ OthersBooting(g.w)
  <2>1. CASE Spawn(G, j)
    <3>1. PICK n \in Worker :
             /\ n = nextID' /\ n > nextID /\ Starter(j, n) \in Routine
             /\ routines' = (routines \ G) \cup {Starter(j, n)}
             /\ php' = [php EXCEPT ![n].at = "boot"]
      BY <2>1, SpawnFacts
    <3>2. Waiting' = Waiting \cup {Starter(j, n)}
      BY <1>9, <3>1, RoutineFields DEF Waiting
    <3>3. OthersBooting(n) /\ Booting(n)'
      BY <1>2, <3>1
    <3>4. Starter(j, n).w = n /\ Starter(j, n).at = "boot"
      BY RoutineFields
    <3>5. QED
      BY <3>1, <3>2, <3>3, <3>4
  <2>2. CASE SpawnFails(G)
    <3>1. php' = php /\ routines' = routines \ G
      BY <2>2 DEF SpawnFails
    <3>2. QED
      BY <1>1, <1>9, <3>1 DEF Waiting
  <2>3. QED
    BY <1>9, <2>1, <2>2
<1>10. ASSUME (\E g \in routines : SpawnReplacement(g)) \/ ScaleUp \/ ReloadSpawn
       PROVE  \/ Waiting' = Waiting /\ SameBooting
              \/ \E g \in Routine : /\ g.w = nextID' /\ g.at = "boot"
                                    /\ nextID' \in Worker /\ nextID' > nextID
                                    /\ Waiting' = Waiting \cup {g}
                                    /\ Booting(g.w)' /\ OthersBooting(g.w)
  <2>1. {"replace", "scaleUp", "reload"} \subseteq Job /\ \A g \in {} : g.at # "boot"
    BY DEF Job
  <2>2. CASE ScaleUp
    BY <1>9, <2>1, <2>2 DEF ScaleUp
  <2>3. CASE ReloadSpawn
    BY <1>9, <2>1, <2>3 DEF ReloadSpawn
  <2>4. CASE \E g \in routines : SpawnReplacement(g)
    <3>1. PICK g \in routines : SpawnReplacement(g)
      BY <2>4
    <3>2. PICK G : /\ Spawn(G, "replace") \/ SpawnFails(G)
                   /\ \A h \in G : h.at # "boot"
      BY <3>1 DEF SpawnReplacement
    <3>3. QED
      BY <1>9, <2>1, <3>2
  <2>5. QED
    BY <1>10, <2>2, <2>3, <2>4
<1>11. CASE HealthCheck
  <2>1. PICK w \in watchdog.toCheck : GoReplace(w) \/ routines' = routines
    BY <1>11 DEF HealthCheck
  <2>2. w \in Worker /\ php' = php
    BY <1>11 DEF TypeOK, HealthCheck
  <2>3. QED
    BY <1>1, <2>1, <2>2, SameWaiting
<1>12. CASE ScaleDown \/ \E k \in 1 .. MaxReloads : DrainNext(k)
  <2>1. /\ php' = php
        /\ \/ routines' = routines
           \/ \E j, k, w : routines' = routines \cup {Stopper(j, k, w)}
    BY <1>12 DEF ScaleDown, DrainNext
  <2>2. QED
    BY <1>1, <2>1, SameWaiting
<1>13. CASE StopWorkers
  <2>1. \A w : Stopper("stop", 0, w).at # "boot"
    BY RoutineFields
  <2>2. Waiting' = Waiting
    BY <1>13, <2>1 DEF StopWorkers, Waiting
  <2>3. QED
    BY <1>1, <1>13, <2>2 DEF StopWorkers
<1>14. QED
  BY SMTT(40), <1>3, <1>4, <1>5, <1>6, <1>7, <1>8, <1>10, <1>11, <1>12, <1>13
  DEF Next, Exec, RoutineStep, Watchdog

\* Every step keeps Starts.
LEMMA StartsStep ==
    TypeOK /\ CallState /\ Fresh /\ Starts /\ [Next]_vars => Starts'
<1> SUFFICES ASSUME TypeOK, CallState, Fresh, Starts, [Next]_vars
             PROVE  Starts'
  OBVIOUS
<1>1. /\ \A g \in Waiting : g.w \in Worker /\ Booting(g.w)
      /\ \A w \in Worker : Booting(w) => \E g \in Waiting : g.w = w
      /\ \A g, h \in Waiting : g.w = h.w => g = h
  BY RoutineFields DEF Starts, Starting, Waiting, TypeOK
<1> DEFINE Goal == /\ \A g \in Waiting' : Booting(g.w)'
                   /\ \A w \in Worker : Booting(w)' => \E g \in Waiting' : g.w = w
                   /\ \A g, h \in Waiting' : g.w = h.w => g = h
<1>2. SUFFICES Goal
  BY DEF Starts, Starting, Waiting
<1>3. CASE Waiting' = Waiting /\ SameBooting
  BY <1>1, <1>3 DEF SameBooting
<1>4. ASSUME NEW g \in Routine, g.w = nextID', nextID' \in Worker, nextID' > nextID,
             Waiting' = Waiting \cup {g}, Booting(g.w)', OthersBooting(g.w)
      PROVE  Goal
  <2>1. ~Booting(g.w)
    BY <1>4 DEF Fresh, Booting
  <2>2. \A h \in Waiting : h.w # g.w
    BY <1>1, <2>1
  <2>3. QED
    BY <1>1, <1>4, <2>2 DEF OthersBooting
<1>5. ASSUME NEW g \in Waiting, Waiting' = Waiting \ {g},
             ~Booting(g.w)', OthersBooting(g.w)
      PROVE  Goal
  BY <1>1, <1>5 DEF OthersBooting
<1>6. QED
  BY <1>3, <1>4, <1>5, BootSteps

-----------------------------------------------------------------------------
(* Registration: no worker is lost and no process left behind.             *)

\* What becomes of a goroutine that stops a worker.
LEMMA RoutineGoesOn ==
    ASSUME TypeOK, CallState, [Next]_vars, NEW g \in routines
    PROVE  \/ g \in routines'
           \/ g.at = "signal" /\ At(g, "wait") \in routines'
           \/ /\ g.at = "wait"
              /\ g.job \notin {"stop", "abort"} => At(g, "remove") \in routines'
           \/ g.at = "remove" /\ g.w \notin workers'
           \/ g.at \in {"spawn", "boot", "send"}
<1> USE DEF poolVars, callVars, processVars, controlVars
<1>1. ASSUME \/ UNCHANGED vars
             \/ \E r \in Requests : Exec(r) \/ WorkerExec(r)
             \/ \E w \in Worker : PHP(w) \/ Fault(w) \/ BootHangs(w)
             \/ \E h \in routines : h # g /\ (RoutineStep(h) \/ BootFails(h))
             \/ Tick \/ Watchdog
             \/ ReloadBegin \/ ReloadSpawn \/ ReloadReturn
             \/ \E k \in 1 .. MaxReloads : DrainNext(k)
             \/ Cancel \/ StopWorkers \/ CloseQueue
      PROVE  g \in routines'
  BY ZenonT(40), <1>1
  DEF vars, Exec, Take, GiveUp, TakeNil, Receive, Timeout, Abandon,
      AwaitReady, PutBack, GoReplace, WorkerExec, RunWrite, RunRead, PHP,
      PHPRead, PHPRespond, PHPNext, Fault, RoutineStep, SendStop,
      StopReturns, RemoveWorker, SpawnReplacement, Register, BootHangs,
      BootFails, Spawn, SpawnFails, Send,
      Become, Tick, Watchdog, HealthCheck, Decide, ScaleUp, ScaleDown,
      WatchdogExit, ReloadBegin, ReloadSpawn, ReloadReturn, DrainNext, Cancel,
      StopWorkers, CloseQueue
<1>2. ASSUME RoutineStep(g) \/ BootFails(g)
      PROVE  \/ g \in routines'
             \/ g.at = "signal" /\ At(g, "wait") \in routines'
             \/ /\ g.at = "wait"
                /\ g.job \notin {"stop", "abort"} => At(g, "remove") \in routines'
             \/ g.at = "remove" /\ g.w \notin workers'
             \/ g.at \in {"spawn", "boot", "send"}
  BY <1>2
  DEF RoutineStep, SendStop, StopReturns, RemoveWorker, SpawnReplacement,
      Register, BootHangs, BootFails, Send,
      Become
<1>3. QED
  BY SMTT(40), <1>1, <1>2 DEF Next

\* cancelled is never taken back.
LEMMA CancelledStays ==
    ASSUME TypeOK, [Next]_vars
    PROVE  cancelled => cancelled'
  BY ZenonT(40) DEF Next, vars, poolVars, Exec, Take, GiveUp, TakeNil, Receive, Timeout,
     Abandon, AwaitReady, PutBack, WorkerExec, RunWrite, RunRead, PHP, PHPRead,
     PHPRespond, PHPNext, Fault, RoutineStep, SendStop, StopReturns,
     RemoveWorker, SpawnReplacement, Register, BootHangs, BootFails, Send,
     Tick, Watchdog, HealthCheck, Decide,
     ScaleUp, ScaleDown, WatchdogExit, ReloadBegin, ReloadSpawn, ReloadReturn,
     DrainNext, Cancel, StopWorkers, CloseQueue

\* A caller that gives its worker up before a shutdown leaves it to a replacer.
LEMMA DropsToReplacer ==
    ASSUME TypeOK, CallState, Shutdown, [Next]_vars, NEW r \in Requests, Drops(r),
           ~cancelled
    PROVE  \E h \in routines' : /\ h.job = "replace" /\ h.w = call[r].held
                                /\ h.at = "signal"
<1> USE DEF poolVars, callVars, processVars, controlVars
<1>1. call[r].held \in Worker /\ call'[r] # call[r]
  BY HasWorker DEF Drops, CallState, Worker, NoWorker
<1>2. ASSUME GoReplace(call[r].held)
      PROVE  \E h \in routines' : /\ h.job = "replace" /\ h.w = call[r].held
                                  /\ h.at = "signal"
  BY <1>1, <1>2, ReplaceFacts
<1>3. ASSUME \/ UNCHANGED vars
             \/ \E q \in Requests : TakeNil(q) \/ WorkerExec(q)
             \/ \E w \in Worker : PHP(w) \/ Fault(w) \/ BootHangs(w)
             \/ \E g \in routines : RoutineStep(g) \/ BootFails(g)
             \/ Tick \/ Watchdog
             \/ ReloadBegin \/ ReloadSpawn \/ ReloadReturn
             \/ \E k \in 1 .. MaxReloads : DrainNext(k)
             \/ Cancel \/ StopWorkers \/ CloseQueue
      PROVE  call' = call
  BY ZenonT(40), <1>3
  DEF vars, TakeNil, WorkerExec, RunWrite, RunRead, PHP, PHPRead, PHPRespond,
      PHPNext, Fault, RoutineStep, SendStop, StopReturns, RemoveWorker,
      SpawnReplacement, Register, BootHangs, BootFails, Send, Tick, Watchdog,
      HealthCheck, Decide, ScaleUp,
      ScaleDown, WatchdogExit, ReloadBegin, ReloadSpawn, ReloadReturn,
      DrainNext, Cancel, StopWorkers, CloseQueue
<1>4. ASSUME NEW q \in Requests, q # r, Exec(q)
      PROVE  call'[r] = call[r]
  BY <1>4
  DEF Exec, Take, GiveUp, TakeNil, Receive, Timeout, Abandon, AwaitReady,
      PutBack, Return, TypeOK
<1>5. CASE Exec(r)
  <2>1. CASE Take(r) \/ GiveUp(r) \/ TakeNil(r)
    BY <2>1 DEF Drops, Holding, Take, GiveUp, TakeNil
  <2>2. CASE Receive(r) \/ Timeout(r) \/ AwaitReady(r)
    <3>1. GoReplace(call[r].held) \/ \E a : call' = [call EXCEPT ![r].at = a]
      BY <2>2 DEF Receive, Timeout, AwaitReady
    <3>2. ASSUME NEW a, call' = [call EXCEPT ![r].at = a]
          PROVE  FALSE
      BY <1>1, <3>2 DEF TypeOK, CallRecord, Drops, Worker, NoWorker
    <3>3. QED
      BY <1>2, <3>1, <3>2
  <2>3. CASE Abandon(r)
    BY <2>3 DEF Abandon
  <2>4. CASE PutBack(r)
    <3>1. ~closed
      BY DEF Shutdown
    <3>2. available' = Append(available, call[r].held)
      BY <2>4, <3>1 DEF PutBack
    <3>3. available \in Seq(Worker) /\ available' = available
      BY DEF TypeOK, Drops
    <3>4. Len(available) \in Nat
          /\ Len(Append(available, call[r].held)) = Len(available) + 1
      BY <1>1, <3>3, AppendFacts
    <3>5. QED
      BY <3>2, <3>3, <3>4
  <2>5. QED
    BY <1>5, <2>1, <2>2, <2>3, <2>4 DEF Exec
<1>6. QED
  BY <1>1, <1>3, <1>4, <1>5 DEF Next

\* A worker that autoScale took out has a goroutine that stops it.
LEMMA ScalesToStopper ==
    ASSUME TypeOK, CallState, Custody, [Next]_vars, NEW w \in Worker, Scales(w)
    PROVE  \E h \in routines' : h.job = "scaleDown" /\ h.w = w /\ h.at = "signal"
<1> USE DEF poolVars, callVars, processVars, controlVars
<1>1. Range(available') # Range(available) /\ w \in Range(available)
      /\ w \notin Range(available')
  BY SMTT(40) DEF Scales, Removed, Custody
<1>2. ASSUME \/ UNCHANGED vars
             \/ \E q \in Requests : Exec(q) /\ ~Take(q) /\ ~PutBack(q)
             \/ \E q \in Requests : WorkerExec(q)
             \/ \E v \in Worker : PHP(v) \/ Fault(v) \/ BootHangs(v)
             \/ \E g \in routines : (RoutineStep(g) /\ ~Send(g)) \/ BootFails(g)
             \/ Tick \/ HealthCheck \/ Decide \/ ScaleUp \/ WatchdogExit
             \/ ReloadBegin \/ ReloadSpawn \/ ReloadReturn
             \/ \E k \in 1 .. MaxReloads : DrainNext(k)
             \/ Cancel \/ StopWorkers \/ CloseQueue
      PROVE  available' = available
  BY ZenonT(40), <1>2
  DEF vars, Exec, GiveUp, TakeNil, Receive, Timeout, Abandon, AwaitReady,
      WorkerExec, RunWrite, RunRead, PHP, PHPRead, PHPRespond, PHPNext, Fault,
      RoutineStep, SendStop, StopReturns, RemoveWorker, SpawnReplacement,
      Register, BootHangs, BootFails, Tick,
      HealthCheck, Decide, ScaleUp, WatchdogExit, ReloadBegin, ReloadSpawn,
      ReloadReturn, DrainNext, Cancel, StopWorkers, CloseQueue
<1>3. \A q \in Requests : ~Take(q)
  <2>1. ASSUME NEW q \in Requests, Take(q) PROVE FALSE
    <3>1. call'[q].at = "exec" /\ call[q].at = "select"
      BY <2>1, TakeFacts
    <3>2. QED
      BY <3>1 DEF Scales
  <2>2. QED
    BY <2>1
<1>4. ASSUME NEW v \in Worker, available' = Append(available, v)
      PROVE  FALSE
  <2>1. available \in Seq(Worker)
    BY DEF TypeOK
  <2>2. QED
    BY <1>1, <1>4, <2>1, RangeAppend
<1>5. ASSUME NEW q \in Requests, PutBack(q)
      PROVE  available' = available
  BY <1>4, <1>5, HasWorker DEF PutBack, Holding
<1>6. ASSUME NEW g \in routines, Send(g)
      PROVE  available' = available
  BY <1>4, <1>6, RoutineFields DEF Send, TypeOK
<1>7. CASE ScaleDown
  <2>1. available # <<>>
    BY <1>1, <1>7 DEF ScaleDown
  <2>2. /\ available' = Tail(available) /\ available \in Seq(Worker)
        /\ routines' = routines \cup {Stopper("scaleDown", 0, Head(available))}
    BY <1>7, <2>1 DEF ScaleDown, TypeOK
  <2>3. Head(available) = w
    BY <1>1, <2>1, <2>2, RangeTail
  <2>4. QED
    BY <2>2, <2>3, RoutineFields
<1>8. QED
  BY <1>1, <1>2, <1>3, <1>5, <1>6, <1>7 DEF Next, RoutineStep, Watchdog

\* Every step keeps Kept.
LEMMA KeptStep ==
    /\ TypeOK /\ CallState /\ Fresh /\ Custody /\ Shutdown /\ Kept /\ [Next]_vars
    => Kept'
<1> SUFFICES ASSUME TypeOK, CallState, Fresh, Custody, Shutdown, Kept, [Next]_vars,
                    ~cancelled', NEW w \in workers'
             PROVE  (Queued(w) \/ Holds(w) \/ Sending(w) \/ Leaving(w))'
  BY DEF Kept
<1>0. ~cancelled
  BY CancelledStays
<1>1. ASSUME Leaving(w) PROVE Leaving(w)'
  <2>1. PICK g \in routines : /\ g.job \in {"replace", "scaleDown"} /\ g.w = w
                              /\ g.at \in {"signal", "wait", "remove"}
    BY <1>1 DEF Leaving
  <2>2. g \in Routine
    BY DEF TypeOK
  <2>3. \E h \in routines' : /\ h.job = g.job /\ h.w = w
                             /\ h.at \in {"signal", "wait", "remove"}
    BY <2>1, <2>2, RoutineGoesOn, RoutineFields DEF Stage
  <2>4. QED
    BY <2>1, <2>3 DEF Leaving
<1>2. ASSUME w \in workers, Queued(w) \/ Holds(w) \/ Sending(w)
      PROVE  (Queued(w) \/ Holds(w) \/ Sending(w) \/ Leaving(w))'
  <2>0. w \in Worker
    BY <1>2 DEF TypeOK
  <2>1. CASE Stays
    BY <1>2, <2>1, SendingDef DEF Stays, SameHeld, Queued, Holds
  <2>2. ASSUME NEW r \in Requests, NEW v \in Worker, Takes(r, v)
        PROVE  (Queued(w) \/ Holds(w) \/ Sending(w))'
    <3>1. call[r].held # w
      BY <2>0, <2>2 DEF Takes, CallState, Holding, Worker, NoWorker
    <3>2. QED
      BY <1>2, <2>2, <3>1, SendingDef DEF Takes, Removed, Others, Queued, Holds
  <2>3. ASSUME NEW r \in Requests, Drops(r)
        PROVE  (Queued(w) \/ Holds(w) \/ Sending(w) \/ Leaving(w))'
    <3>1. CASE call[r].held = w
      BY <1>0, <2>3, <3>1, DropsToReplacer DEF Leaving
    <3>2. CASE call[r].held # w
      BY <1>2, <2>3, <3>2, SendingDef DEF Drops, Others, Queued, Holds
    <3>3. QED
      BY <3>1, <3>2
  <2>4. ASSUME NEW r \in Requests, Puts(r)
        PROVE  (Queued(w) \/ Holds(w) \/ Sending(w))'
    BY <1>2, <2>4, SendingDef DEF Puts, Added, Others, Queued, Holds
  <2>5. ASSUME NEW g \in routines', Creates(g)
        PROVE  (Queued(w) \/ Holds(w) \/ Sending(w))'
    BY <1>2, <2>5, SendingDef DEF Creates, Queued, Holds
  <2>6. ASSUME NEW g \in routines, Queues(g)
        PROVE  (Queued(w) \/ Holds(w) \/ Sending(w))'
    BY <1>2, <2>6, SendingDef DEF Queues, Added, Queued, Holds
  <2>7. ASSUME NEW v \in Worker, Scales(v)
        PROVE  (Queued(w) \/ Holds(w) \/ Sending(w) \/ Leaving(w))'
    <3>1. CASE v = w
      BY <2>7, <3>1, ScalesToStopper DEF Leaving
    <3>2. CASE v # w
      BY <1>2, <2>7, <3>2, SendingDef DEF Scales, Removed, Queued, Holds
    <3>3. QED
      BY <3>1, <3>2
  <2>8. QED
    BY <2>1, <2>2, <2>3, <2>4, <2>5, <2>6, <2>7, HandOver
<1>3. ASSUME w \notin workers
      PROVE  Sending(w)'
  <2>1. PICK g \in routines : Register(g)
    BY <1>3, Registers
  <2>2. /\ At(g, "send") \in Sends' /\ At(g, "send").w = g.w
        /\ workers' = workers \cup {g.w}
    BY <2>1, RegisterCreates DEF Creates
  <2>3. QED
    BY <1>3, <2>2, SendingDef
<1>4. QED
  BY <1>0, <1>1, <1>2, <1>3 DEF Kept

\* A process that does not run is not revived; a new one starts for a new worker.
LEMMA EndedStays ==
    ASSUME TypeOK, CallState, [Next]_vars, NEW w \in Worker, ~Alive(w)
    PROVE  ~Alive(w)' \/ Booting(w)'
<1> USE DEF poolVars, callVars, processVars, controlVars
<1>1. ASSUME \/ UNCHANGED vars
             \/ \E r \in Requests : Exec(r) \/ WorkerExec(r)
             \/ \E g \in routines : SendStop(g) \/ RemoveWorker(g) \/ Send(g)
             \/ Tick \/ HealthCheck \/ Decide \/ ScaleDown \/ WatchdogExit
             \/ ReloadBegin \/ ReloadReturn
             \/ \E k \in 1 .. MaxReloads : DrainNext(k)
             \/ Cancel \/ StopWorkers \/ CloseQueue
      PROVE  php' = php
  BY ZenonT(40), <1>1
  DEF vars, Exec, Take, GiveUp, TakeNil, Receive, Timeout, Abandon,
      AwaitReady, PutBack, WorkerExec, RunWrite, RunRead, SendStop,
      RemoveWorker, Send, Tick, HealthCheck, Decide, ScaleDown, WatchdogExit,
      ReloadBegin, ReloadReturn, DrainNext, Cancel, StopWorkers, CloseQueue
<1>2. ASSUME php' = php PROVE ~Alive(w)'
  BY <1>2 DEF Alive, Booting
<1>3. ASSUME NEW v \in Worker, PHP(v) \/ Fault(v) \/ BootHangs(v)
      PROVE  ~Alive(w)'
  <2>1. CASE v = w
    BY <1>3, <2>1 DEF PHP, PHPRead, PHPRespond, PHPNext, Fault, BootHangs, Alive,
       Booting
  <2>2. CASE v # w
    <3>1. php'[w] = php[w]
      BY <1>3, <2>2 DEF PHP, PHPRead, PHPRespond, PHPNext, Fault, BootHangs, PHPEnds,
         TypeOK
    <3>2. QED
      BY <3>1 DEF Alive, Booting
  <2>3. QED
    BY <2>1, <2>2
<1>4. ASSUME NEW g \in routines, StopReturns(g)
      PROVE  ~Alive(w)'
  <2>1. php' = php \/ (Alive(g.w) /\ php' = [php EXCEPT ![g.w].at = "killed"])
    BY <1>4 DEF StopReturns, PHPEnds
  <2>2. php'[w] = php[w]
    BY <2>1 DEF TypeOK
  <2>3. QED
    BY <2>2 DEF Alive, Booting
<1>5. ASSUME (\E g \in routines : SpawnReplacement(g)) \/ ScaleUp \/ ReloadSpawn
      PROVE  ~Alive(w)' \/ Booting(w)'
  <2>1. PICK G, j : j \in Job /\ (Spawn(G, j) \/ SpawnFails(G))
    BY <1>5 DEF SpawnReplacement, ScaleUp, ReloadSpawn, Job
  <2>2. php' = php \/ /\ nextID' \in Worker
                      /\ php' = [php EXCEPT ![nextID'].at = "boot"]
    BY <2>1, SpawnFacts DEF SpawnFails
  <2>3. CASE w # nextID' \/ php' = php
    <3>1. php'[w] = php[w]
      BY <2>2, <2>3 DEF TypeOK
    <3>2. QED
      BY <3>1 DEF Alive, Booting
  <2>4. CASE w = nextID' /\ php' = [php EXCEPT ![nextID'].at = "boot"]
    BY <2>4 DEF Booting, TypeOK, ProcessRecord
  <2>5. QED
    BY <2>2, <2>3, <2>4
<1>6. ASSUME NEW g \in routines, Register(g) \/ BootFails(g)
      PROVE  ~Alive(w)'
  <2>1. Alive(g.w) /\ \E a : php' = [php EXCEPT ![g.w].at = a]
    BY <1>6 DEF Register, BootFails, PHPEnds, Alive, Booting
  <2>2. php'[w] = php[w]
    BY <2>1 DEF TypeOK
  <2>3. QED
    BY <2>2 DEF Alive, Booting
<1>7. QED
  BY SMTT(40), <1>1, <1>2, <1>3, <1>4, <1>5, <1>6 DEF Next, RoutineStep, Watchdog

\* Every step keeps StopBeforeRemove and NoOrphanProcess.
LEMMA OrphanStep ==
    /\ TypeOK /\ CallState /\ Fresh /\ Starts /\ StopBeforeRemove
    /\ NoOrphanProcess /\ [Next]_vars
    => StopBeforeRemove' /\ NoOrphanProcess'
<1> SUFFICES ASSUME TypeOK, CallState, Fresh, Starts, StopBeforeRemove,
                    NoOrphanProcess, [Next]_vars
             PROVE  StopBeforeRemove' /\ NoOrphanProcess'
  OBVIOUS
<1>0. Fresh' /\ Starts' /\ Spawned \subseteq Spawned'
  BY FreshStep, StartsStep, SpawnedGrows
<1> USE DEF poolVars, callVars, processVars, controlVars
<1>1. ASSUME NEW g \in routines', g.at = "remove"
      PROVE  ~Alive(g.w)'
  <2>1. ASSUME g \in routines
        PROVE  ~Alive(g.w)'
    <3>1. g.w \in Worker /\ g.w \in Spawned /\ ~Alive(g.w)
      BY <1>1, <2>1, RoutineFields DEF StopBeforeRemove, Fresh, TypeOK
    <3>2. ~Booting(g.w)'
      BY <1>0, <3>1 DEF Spawned, Created, Booting
    <3>3. QED
      BY <3>1, <3>2, EndedStays
  <2>2. ASSUME NEW h \in routines, StopReturns(h), g \notin routines
        PROVE  ~Alive(g.w)'
    <3>1. h \in Routine /\ h.w \in Worker /\ php[h.w] \in ProcessRecord
      BY RoutineFields DEF TypeOK
    <3>2. g = At(h, "remove")
      BY <2>2 DEF StopReturns, Become
    <3>3. g.w = h.w
      BY <3>1, <3>2, RoutineFields DEF Stage
    <3>4. ~Alive(h.w)'
      BY SMTT(40), <2>2, <3>1 DEF StopReturns, PHPEnds, Alive, Booting, TypeOK,
         ProcessRecord
    <3>5. QED
      BY <3>3, <3>4
  <2>3. ASSUME \/ UNCHANGED vars
               \/ \E r \in Requests : Take(r) \/ GiveUp(r) \/ TakeNil(r)
                                      \/ Abandon(r) \/ PutBack(r)
               \/ \E r \in Requests : WorkerExec(r)
               \/ \E w \in Worker : PHP(w) \/ Fault(w) \/ BootHangs(w)
               \/ \E h \in routines : Send(h) \/ BootFails(h)
               \/ Tick \/ Decide \/ WatchdogExit \/ ReloadBegin \/ ReloadReturn
               \/ Cancel \/ CloseQueue
        PROVE  g \in routines
    BY ZenonT(40), <2>3
    DEF vars, Take, GiveUp, TakeNil, Abandon, PutBack, WorkerExec, RunWrite,
        RunRead, PHP, PHPRead, PHPRespond, PHPNext, Fault, BootHangs, Send,
        BootFails, Become, Tick,
        Decide, WatchdogExit, ReloadBegin, ReloadReturn, Cancel, CloseQueue
  <2>4. ASSUME NEW w \in Worker, GoReplace(w)
        PROVE  g \in routines
    BY <1>1, <2>4, ReplaceFacts
  <2>5. ASSUME NEW r \in Requests, Receive(r) \/ Timeout(r) \/ AwaitReady(r)
        PROVE  g \in routines
    <3>1. call[r].held \in Worker
      BY <2>5, HasWorker DEF Receive, Timeout, AwaitReady, Holding
    <3>2. GoReplace(call[r].held) \/ routines' = routines
      BY <2>5 DEF Receive, Timeout, AwaitReady
    <3>3. QED
      BY <2>4, <3>1, <3>2
  <2>6. ASSUME NEW h \in routines, SendStop(h) \/ RemoveWorker(h) \/ Register(h)
        PROVE  g \in routines
    <3>1. \A a \in {"wait", "spawn", "send"} : At(h, a).at # "remove"
      BY RoutineFields DEF Stage, TypeOK
    <3>2. QED
      BY <1>1, <2>6, <3>1 DEF SendStop, RemoveWorker, Register, Become
  <2>7. ASSUME (\E h \in routines : SpawnReplacement(h)) \/ ScaleUp \/ ReloadSpawn
        PROVE  g \in routines
    <3>1. PICK G, j : j \in Job /\ (Spawn(G, j) \/ SpawnFails(G))
      BY <2>7 DEF SpawnReplacement, ScaleUp, ReloadSpawn, Job
    <3>2. QED
      BY <1>1, <3>1, SpawnFacts, RoutineFields DEF SpawnFails
  <2>8. CASE HealthCheck
    <3>1. PICK w \in watchdog.toCheck : GoReplace(w) \/ routines' = routines
      BY <2>8 DEF HealthCheck
    <3>2. w \in Worker
      BY DEF TypeOK
    <3>3. QED
      BY <2>1, <2>4, <3>1, <3>2
  <2>9. CASE ScaleDown \/ StopWorkers \/ \E k \in 1 .. MaxReloads : DrainNext(k)
    <3>1. \A j, k, w : Stopper(j, k, w).at # "remove"
      BY RoutineFields
    <3>2. g \in routines
      BY <1>1, <2>9, <3>1 DEF ScaleDown, StopWorkers, DrainNext
    <3>3. QED
      BY <2>1, <3>2
  <2>10. QED
    BY <2>1, <2>2, <2>3, <2>5, <2>6, <2>7, <2>8, <2>9
    DEF Next, Exec, RoutineStep, Watchdog
<1>2. ASSUME NEW w \in Worker, Alive(w)', w \notin workers', ~Starting(w)'
      PROVE  FALSE
  <2>1. ~Booting(w)'
    BY <1>0, <1>2 DEF Starts
  <2>2. Alive(w)
    BY <1>2, <2>1, EndedStays
  <2>3. w \in workers
    <3>1. \A g \in routines : Register(g) => workers' = workers \cup {g.w}
      BY DEF Register
    <3>2. CASE Booting(w)
      <4>1. w \notin Spawned /\ w \in Spawned'
        BY <1>2, <2>1, <3>2 DEF Spawned, Created, Booting, Alive
      <4>2. PICK g \in routines : Register(g)
        BY <4>1, SpawnedSteps
      <4>3. Spawned' = Spawned \cup {g.w} /\ workers' = workers \cup {g.w}
        BY <4>2, RegisterCreates DEF Creates
      <4>4. QED
        BY <1>2, <4>1, <4>3
    <3>3. CASE ~Booting(w)
      BY <2>2, <3>3 DEF NoOrphanProcess, Starting, Starts
    <3>4. QED
      BY <3>2, <3>3
  <2>4. PICK g \in routines : RemoveWorker(g)
    <3>1. ASSUME \/ UNCHANGED vars
                 \/ \E r \in Requests : Exec(r) \/ WorkerExec(r)
                 \/ \E v \in Worker : PHP(v) \/ Fault(v) \/ BootHangs(v)
                 \/ \E g \in routines : \/ RoutineStep(g) /\ ~RemoveWorker(g)
                                        \/ BootFails(g)
                 \/ Tick \/ Watchdog
                 \/ ReloadBegin \/ ReloadSpawn \/ ReloadReturn
                 \/ \E k \in 1 .. MaxReloads : DrainNext(k)
                 \/ Cancel \/ StopWorkers \/ CloseQueue
          PROVE  workers \subseteq workers'
      BY ZenonT(40), <3>1
      DEF vars, Exec, Take, GiveUp, TakeNil, Receive, Timeout, Abandon,
          AwaitReady, PutBack, WorkerExec, RunWrite, RunRead, PHP, PHPRead,
          PHPRespond, PHPNext, Fault, RoutineStep, SendStop, StopReturns,
          SpawnReplacement, Register, BootHangs, BootFails, Send, Tick, Watchdog,
          HealthCheck, Decide, ScaleUp, ScaleDown, WatchdogExit, ReloadBegin,
          ReloadSpawn, ReloadReturn, DrainNext, Cancel, StopWorkers, CloseQueue
    <3>2. QED
      BY SMTT(40), <1>2, <2>3, <3>1 DEF Next
  <2>5. w = g.w /\ g.at = "remove"
    BY <1>2, <2>3, <2>4 DEF RemoveWorker
  <2>6. QED
    BY <2>2, <2>5 DEF StopBeforeRemove
<1>3. ASSUME NEW w \in Worker, Starting(w)'
      PROVE  (Alive(w) /\ w \notin workers /\ ~Queued(w) /\ ~Holds(w))'
  <2>1. Booting(w)' /\ w \notin Spawned' /\ w # NoWorker
    BY <1>0, <1>3 DEF Starts, Starting, Spawned, Created, Booting, Worker, NoWorker
  <2>2. QED
    BY <1>0, <2>1 DEF Fresh, Alive, Queued, Holds
<1>4. QED
  BY <1>1, <1>2, <1>3 DEF StopBeforeRemove, NoOrphanProcess

\* Every step keeps Shutdown.
LEMMA ShutdownStep == TypeOK /\ Shutdown /\ [Next]_vars => Shutdown'
<1> SUFFICES ASSUME TypeOK, Shutdown, [Next]_vars PROVE Shutdown'
  OBVIOUS
<1> USE DEF poolVars, callVars, processVars, controlVars
<1>1. ASSUME \/ UNCHANGED vars
             \/ \E r \in Requests : Exec(r) \/ WorkerExec(r)
             \/ \E w \in Worker : PHP(w) \/ Fault(w) \/ BootHangs(w)
             \/ \E g \in routines : RoutineStep(g) \/ BootFails(g)
             \/ Tick \/ Watchdog
             \/ ReloadBegin \/ ReloadSpawn \/ ReloadReturn
             \/ \E k \in 1 .. MaxReloads : DrainNext(k)
      PROVE  UNCHANGED <<closed, cancelled, stopping>>
  BY ZenonT(40), <1>1
  DEF vars, Exec, Take, GiveUp, TakeNil, Receive, Timeout, Abandon,
      AwaitReady, PutBack, WorkerExec, RunWrite, RunRead, PHP, PHPRead,
      PHPRespond, PHPNext, Fault, RoutineStep, SendStop, StopReturns,
      RemoveWorker, SpawnReplacement, Register, BootHangs, BootFails, Send,
      Tick, Watchdog, HealthCheck,
      Decide, ScaleUp, ScaleDown, WatchdogExit, ReloadBegin, ReloadSpawn,
      ReloadReturn, DrainNext
<1>2. ASSUME UNCHANGED <<closed, cancelled, stopping>>
      PROVE  Shutdown'
  BY <1>2 DEF Shutdown
<1>3. CASE Cancel \/ StopWorkers \/ CloseQueue
  BY <1>3 DEF Cancel, StopWorkers, CloseQueue, Shutdown
<1>4. QED
  BY <1>1, <1>2, <1>3 DEF Next

-----------------------------------------------------------------------------
(***************************************************************************)
(* Protocol.  Progress is what can happen to a worker and its process      *)
(* without its callers: a step of PHP, a fault, or Worker.Stop.  The lemma *)
(* ProgressKeeps says that it keeps the two ends in step; it is about      *)
(* records, not about the state of the pool.                               *)
(***************************************************************************)

\* The pipes with one or two frames in them.
LEMMA ShortPipes ==
    ASSUME NEW a \in Frame, NEW b \in Frame
    PROVE  /\ Append(<<>>, a) = <<a>> /\ Append(<<a>>, b) = <<a, b>>
           /\ Head(<<a>>) = a /\ Head(<<a, b>>) = a
           /\ Tail(<<a>>) = <<>> /\ Tail(<<a, b>>) = <<b>>
           /\ <<a>> # <<>> /\ <<a, b>> # <<>>
           /\ Len(<<a, b>>) = 2 /\ Len(<<a>>) = 1
<1>1. /\ <<>> \in Seq(Frame) /\ <<a>> \in Seq(Frame) /\ <<a, b>> \in Seq(Frame)
      /\ <<b>> \in Seq(Frame)
  OBVIOUS
<1>2. /\ Len(<<a>>) = 1 /\ Len(<<a, b>>) = 2 /\ <<a>> # <<>> /\ <<a, b>> # <<>>
      /\ <<a>>[1] = a /\ <<a, b>>[1] = a /\ <<a, b>>[2] = b
  OBVIOUS
<1>3. Head(<<a>>) = a /\ Head(<<a, b>>) = a
  OBVIOUS
<1>4. Append(<<>>, a) = <<a>>
  OBVIOUS
<1>5. Append(<<a>>, b) = <<a, b>>
  <2> DEFINE t == Append(<<a>>, b)
  <2>1. t \in Seq(Frame) /\ Len(t) = 2 /\ t[1] = a /\ t[2] = b
    BY <1>1, <1>2, AppendFacts
  <2> HIDE DEF t
  <2>2. t = <<a, b>>
    BY <1>1, <1>2, <2>1
  <2>3. QED
    BY <2>2 DEF t
<1>6. Tail(<<a>>) = <<>>
  OBVIOUS
<1>7. Tail(<<a, b>>) = <<b>>
  OBVIOUS
<1>8. QED
  BY <1>2, <1>3, <1>4, <1>5, <1>6, <1>7

\* What is written later does not change what is read first.
LEMMA LaterFrames ==
    ASSUME NEW s \in Seq(Frame), s # <<>>, NEW a \in Frame
    PROVE  /\ Append(s, a) # <<>> /\ Head(Append(s, a)) = Head(s)
           /\ Head(s) = s[1]
           /\ Len(s) > 1 => /\ Len(Append(s, a)) > 1
                            /\ Append(s, a)[1] = s[1] /\ Append(s, a)[2] = s[2]
                            /\ Tail(s) # <<>> /\ Head(Tail(s)) = s[2]
<1>1. /\ Len(s) \in Nat /\ Len(s) >= 1 /\ Head(s) = s[1]
      /\ Tail(s) \in Seq(Frame) /\ Len(Tail(s)) = Len(s) - 1
      /\ \A i \in 1 .. Len(s) - 1 : Tail(s)[i] = s[i + 1]
  BY TailFacts
<1>2. /\ Append(s, a) \in Seq(Frame) /\ Len(Append(s, a)) = Len(s) + 1
      /\ \A i \in 1 .. Len(s) : Append(s, a)[i] = s[i]
  BY AppendFacts
<1>3. Append(s, a) # <<>>
  BY <1>1, <1>2
<1>4. Head(Append(s, a)) = Append(s, a)[1]
  BY <1>2, <1>3, TailFacts
<1>5. ASSUME Len(s) > 1 PROVE Tail(s) # <<>> /\ Head(Tail(s)) = s[2]
  <2>1. Tail(s) # <<>>
    <3>1. Len(Tail(s)) # 0 /\ Len(<<>>) = 0
      BY <1>1, <1>5
    <3>2. QED
      BY <3>1
  <2>2. Head(Tail(s)) = Tail(s)[1]
    BY <1>1, <2>1, TailFacts
  <2>3. QED
    BY <1>1, <1>5, <2>1, <2>2
<1>6. QED
  BY <1>1, <1>2, <1>3, <1>4, <1>5

\* The pipes of a worker, and its process, stay as they are.
SamePipes(wk, new) ==
    new.stdin = wk.stdin /\ new.stdout = wk.stdout /\ new.open = wk.open
SameProcess(p, np) == np.at = p.at /\ np.req = p.req /\ np.count = p.count

\* The process ends.
EndsNow(wk, p, new, np) ==
    /\ SamePipes(wk, new) /\ np.at \in Dead
    /\ np.req = p.req /\ np.count = p.count

\* A handler, or what follows it, does not return.
Hangs(wk, p, new, np) ==
    /\ SamePipes(wk, new) /\ p.at \in {"handling", "after"} /\ np.at = "hung"
    /\ np.req = p.req /\ np.count = p.count

\* Something is echoed to stdout.
Echoes(wk, p, new, np) ==
    /\ SameProcess(p, np) /\ new.stdin = wk.stdin /\ new.open = wk.open
    /\ new.stdout = Append(wk.stdout, NOISE)

\* PHP reads STOP.
ReadsStop(wk, p, new, np) ==
    /\ p.at = "loop" /\ np.at \in Dead /\ np.req = p.req /\ np.count = p.count
    /\ wk.stdin # <<>> /\ Head(wk.stdin).type = "STOP"
    /\ new.stdin = Tail(wk.stdin) /\ new.stdout = wk.stdout /\ new.open = wk.open

\* PHP reads a request.
ReadsRequest(wk, p, new, np) ==
    /\ p.at = "loop" /\ np.at = "handling" /\ np.count = p.count
    /\ wk.stdin # <<>> /\ Head(wk.stdin).type # "STOP"
    /\ np.req = Head(wk.stdin).req
    /\ new.stdin = Tail(wk.stdin) /\ new.stdout = wk.stdout /\ new.open = wk.open

\* PHP answers.
Answers(wk, p, new, np) ==
    /\ p.at = "handling" /\ np.at = "after"
    /\ np.count = IF MaxJobs > 0 THEN p.count + 1 ELSE 0
    /\ new.stdin = wk.stdin /\ new.open = wk.open
    /\ new.stdout = Append(wk.stdout, RESPONSE(p.req))

\* PHP says READY.
SaysReady(wk, p, new, np) ==
    /\ p.at = "after" /\ np.at = "loop" /\ np.req = p.req /\ np.count = p.count
    /\ JobsLeft(p)
    /\ new.stdin = wk.stdin /\ new.open = wk.open
    /\ new.stdout = Append(wk.stdout, READY)

\* Worker.Stop says STOP, if the pipe takes it, and closes stdin.
IsSignalled(wk, p, new, np) ==
    /\ SameProcess(p, np) /\ new.stdout = wk.stdout /\ ~new.open
    /\ new.stdin = wk.stdin \/ (wk.open /\ new.stdin = Append(wk.stdin, STOP))

\* PHP leaves run(): at a limit, or at the end of stdin.
Leaves(wk, p, new, np) ==
    /\ EndsNow(wk, p, new, np) /\ np.at = "exited"
    /\ p.at = "after" \/ (p.at = "loop" /\ wk.stdin = <<>> /\ ~wk.open)

\* A step of run().
Runs(wk, p, new, np) ==
    /\ new.jobs = wk.jobs
    /\ \/ ReadsStop(wk, p, new, np) \/ ReadsRequest(wk, p, new, np)
       \/ Answers(wk, p, new, np) \/ SaysReady(wk, p, new, np)
       \/ Leaves(wk, p, new, np)

\* Everything that can happen to a worker other than a write or a read of w.Exec.
Progress(wk, p, new, np) ==
    /\ new.jobs = wk.jobs
    /\ \/ EndsNow(wk, p, new, np) \/ Hangs(wk, p, new, np)
       \/ Echoes(wk, p, new, np) /\ p.at \in {"handling", "after"}
       \/ ReadsStop(wk, p, new, np) \/ ReadsRequest(wk, p, new, np)
       \/ Answers(wk, p, new, np) \/ SaysReady(wk, p, new, np)
       \/ IsSignalled(wk, p, new, np)

\* Without its callers a worker stays where it is, or goes on with the request
\* that it has.
LEMMA ProgressKeeps ==
    ASSUME NEW wk \in WorkerRecord, NEW new \in WorkerRecord,
           NEW p \in ProcessRecord, NEW np \in ProcessRecord,
           NEW r \in Requests \cup {NoReq},
           MaxJobs = 0 => p.count = 0, Progress(wk, p, new, np)
    PROVE  /\ Rested(wk, p) => Rested(new, np)
           /\ Reading(r, wk, p) => Reading(r, new, np)
           /\ Replied(wk, p) => Replied(new, np)
<1>0. /\ wk.stdin \in Seq(Frame) /\ wk.stdout \in Seq(Frame)
      /\ p.req \in Requests \cup {NoReq}
  BY DEF WorkerRecord, ProcessRecord
<1>1. /\ RESPONSE(p.req) \in Frame /\ READY \in Frame /\ STOP \in Frame
      /\ NOISE \in Frame /\ REQUEST(r) \in Frame /\ RESPONSE(r) \in Frame
      /\ STOP.type = "STOP" /\ REQUEST(r).type = "REQUEST" /\ REQUEST(r).req = r
  BY <1>0, FrameFacts DEF REQUEST, RESPONSE, Msg, Frame
<1>2. NoRequest(wk) => ~ReadsRequest(wk, p, new, np)
  BY <1>1, ShortPipes DEF NoRequest, ReadsRequest
<1>3. ASSUME NoRequest(wk) PROVE NoRequest(new)
  <2>1. CASE IsSignalled(wk, p, new, np)
    BY <1>1, <1>3, <2>1, ShortPipes DEF NoRequest, IsSignalled
  <2>2. CASE ReadsStop(wk, p, new, np)
    BY ZenonT(40), <1>1, <1>3, <2>2, ShortPipes DEF NoRequest, ReadsStop
  <2>3. QED
    BY <1>2, <1>3, <2>1, <2>2
    DEF Progress, NoRequest, EndsNow, Hangs, Echoes, Answers, SaysReady, SamePipes
<1>4. ASSUME Rested(wk, p) PROVE Rested(new, np)
  BY <1>2, <1>3, <1>4
  DEF Rested, Progress, EndsNow, Hangs, Echoes, ReadsStop, Answers, SaysReady,
      IsSignalled, SamePipes, SameProcess, JobsLeft, Dead
<1>5. ASSUME Spoilt(wk) PROVE Spoilt(new)
  <2>1. \A a \in Frame : /\ Append(wk.stdout, a) # <<>>
                         /\ Head(Append(wk.stdout, a)) = Head(wk.stdout)
    BY <1>0, <1>5, LaterFrames DEF Spoilt
  <2>2. new.stdout = wk.stdout \/ \E a \in Frame : new.stdout = Append(wk.stdout, a)
    BY <1>1
    DEF Progress, EndsNow, Hangs, Echoes, ReadsStop, ReadsRequest, Answers,
        SaysReady, IsSignalled, SamePipes
  <2>3. QED
    BY <1>5, <2>1, <2>2 DEF Spoilt
<1>6. ASSUME Asked(r, wk, p) PROVE Asked(r, new, np) \/ Handling(r, new, np)
  <2>0. /\ <<REQUEST(r)>> # <<>> /\ Head(<<REQUEST(r)>>) = REQUEST(r)
        /\ Tail(<<REQUEST(r)>>) = <<>>
        /\ <<REQUEST(r), STOP>> # <<>> /\ Head(<<REQUEST(r), STOP>>) = REQUEST(r)
        /\ Tail(<<REQUEST(r), STOP>>) = <<STOP>>
    BY <1>1, ShortPipes
  <2>1. wk.stdin # <<>> /\ Head(wk.stdin) = REQUEST(r)
    BY <1>6, <2>0 DEF Asked
  <2>2. ~ReadsStop(wk, p, new, np)
    BY <1>1, <2>1 DEF ReadsStop
  <2>3. CASE ReadsRequest(wk, p, new, np)
    <3>1. NoRequest(new)
      BY <1>6, <2>0, <2>3 DEF ReadsRequest, NoRequest, Asked
    <3>2. np.req = r
      BY <1>1, <2>1, <2>3 DEF ReadsRequest
    <3>3. QED
      BY <1>6, <2>3, <3>1, <3>2 DEF ReadsRequest, Asked, Handling, Progress, JobsLeft
  <2>4. CASE IsSignalled(wk, p, new, np)
    <3>1. \/ new.stdin = <<REQUEST(r)>>
          \/ new.stdin = <<REQUEST(r), STOP>> /\ ~new.open
      BY <1>1, <1>6, <2>4, ShortPipes DEF IsSignalled, Asked
    <3>2. QED
      BY <1>6, <2>4, <3>1 DEF IsSignalled, Asked, Progress, SameProcess, JobsLeft
  <2>5. CASE EndsNow(wk, p, new, np)
    BY <1>6, <2>5 DEF EndsNow, Asked, Progress, SamePipes, JobsLeft
  <2>6. QED
    BY <1>6, <2>2, <2>3, <2>4, <2>5
    DEF Progress, Asked, Hangs, Echoes, Answers, SaysReady, Dead
<1>7. ASSUME Handling(r, wk, p) PROVE Reading(r, new, np)
  <2>0. NoRequest(new) /\ new.jobs = wk.jobs
    BY <1>3, <1>7 DEF Handling, Progress
  <2>1. CASE EndsNow(wk, p, new, np) \/ Hangs(wk, p, new, np)
             \/ IsSignalled(wk, p, new, np)
    BY <1>7, <2>0, <2>1
    DEF Handling, EndsNow, Hangs, IsSignalled, SamePipes, SameProcess, JobsLeft,
        Reading, Dead
  <2>2. CASE Echoes(wk, p, new, np)
    <3>1. Spoilt(new)
      BY <1>1, <1>7, <2>2, ShortPipes DEF Echoes, Handling, Spoilt
    <3>2. QED
      BY <3>1 DEF Reading
  <2>3. CASE Answers(wk, p, new, np)
    <3>1. new.stdout = <<RESPONSE(r)>> /\ Silent(np)
      BY <1>1, <1>7, <2>3, ShortPipes DEF Answers, Handling, Silent
    <3>2. np.count = IF MaxJobs > 0 THEN new.jobs + 1 ELSE new.jobs
      BY <1>7, <2>0, <2>3, PoolConfig DEF Answers, Handling
    <3>3. QED
      BY <2>0, <3>1, <3>2 DEF Answered, Reading
  <2>4. QED
    BY <1>2, <1>7, <2>1, <2>2, <2>3 DEF Progress, Handling, ReadsStop, SaysReady, Dead
<1>8. ASSUME Answered(r, wk, p) PROVE Answered(r, new, np)
  <2>1. CASE Len(wk.stdout) > 1 /\ wk.stdout[1] = RESPONSE(r) /\ wk.stdout[2] = NOISE
    <3>1. \A a \in Frame : /\ Len(Append(wk.stdout, a)) > 1
                           /\ Append(wk.stdout, a)[1] = wk.stdout[1]
                           /\ Append(wk.stdout, a)[2] = wk.stdout[2]
      BY <1>0, <2>1, LaterFrames
    <3>2. new.stdout = wk.stdout \/ \E a \in Frame : new.stdout = Append(wk.stdout, a)
      BY <1>1
      DEF Progress, EndsNow, Hangs, Echoes, ReadsStop, ReadsRequest, Answers,
          SaysReady, IsSignalled, SamePipes
    <3>3. QED
      BY <2>1, <3>1, <3>2 DEF Answered
  <2>2. CASE NoRequest(wk) /\ wk.stdout = <<RESPONSE(r)>> /\ Silent(p)
             /\ p.count = IF MaxJobs > 0 THEN wk.jobs + 1 ELSE wk.jobs
    <3>0. NoRequest(new) /\ new.jobs = wk.jobs
      BY <1>3, <2>2 DEF Progress
    <3>1. CASE Echoes(wk, p, new, np)
      <4>1. new.stdout = <<RESPONSE(r), NOISE>>
        BY ZenonT(40), <1>1, <2>2, <3>1, ShortPipes DEF Echoes
      <4>2. QED
        BY <1>1, <4>1 DEF Answered
    <3>2. CASE SaysReady(wk, p, new, np)
      <4>1. new.stdout = <<RESPONSE(r), READY>> /\ WillServe(np)
        BY ZenonT(40), <1>1, <2>2, <3>2, ShortPipes DEF SaysReady, WillServe, JobsLeft
      <4>2. QED
        BY <2>2, <3>0, <3>2, <4>1 DEF Answered, SaysReady
    <3>3. CASE EndsNow(wk, p, new, np) \/ Hangs(wk, p, new, np)
               \/ IsSignalled(wk, p, new, np)
      BY <2>2, <3>0, <3>3
      DEF EndsNow, Hangs, IsSignalled, SamePipes, SameProcess, Answered, Silent
    <3>4. QED
      BY <1>2, <2>2, <3>1, <3>2, <3>3 DEF Progress, ReadsStop, Answers, Silent, Dead
  <2>3. CASE NoRequest(wk) /\ wk.stdout = <<RESPONSE(r), READY>> /\ WillServe(p)
             /\ p.count = IF MaxJobs > 0 THEN wk.jobs + 1 ELSE wk.jobs
    <3>0. NoRequest(new) /\ new.jobs = wk.jobs
      BY <1>3, <2>3 DEF Progress
    <3>1. new.stdout = wk.stdout /\ np.count = p.count /\ np.at \in {"loop"} \cup Dead
      BY <1>2, <2>3
      DEF Progress, EndsNow, Hangs, Echoes, ReadsStop, Answers, SaysReady,
          IsSignalled, SamePipes, SameProcess, WillServe, Dead
    <3>2. QED
      BY <2>3, <3>0, <3>1 DEF Answered, WillServe, JobsLeft
  <2>4. QED
    BY <1>8, <2>1, <2>2, <2>3 DEF Answered
<1>9. ASSUME Replied(wk, p) PROVE Replied(new, np)
  <2>1. CASE Spoilt(wk)
    BY <1>5, <2>1 DEF Replied
  <2>2. CASE NoRequest(wk) /\ wk.jobs = p.count /\ wk.stdout = <<>> /\ Silent(p)
    <3>0. NoRequest(new) /\ new.jobs = wk.jobs
      BY <1>3, <2>2 DEF Progress
    <3>1. CASE Echoes(wk, p, new, np)
      BY <1>1, <2>2, <3>1, ShortPipes DEF Echoes, Replied, Spoilt
    <3>2. CASE SaysReady(wk, p, new, np)
      <4>1. new.stdout = <<READY>> /\ WillServe(np)
        BY <1>1, <2>2, <3>2, ShortPipes DEF SaysReady, WillServe, JobsLeft
      <4>2. QED
        BY <2>2, <3>0, <3>2, <4>1 DEF Replied, SaysReady
    <3>3. CASE EndsNow(wk, p, new, np) \/ Hangs(wk, p, new, np)
               \/ IsSignalled(wk, p, new, np)
      BY <2>2, <3>0, <3>3
      DEF EndsNow, Hangs, IsSignalled, SamePipes, SameProcess, Replied, Silent
    <3>4. QED
      BY <1>2, <2>2, <3>1, <3>2, <3>3 DEF Progress, ReadsStop, Answers, Silent, Dead
  <2>3. CASE NoRequest(wk) /\ wk.jobs = p.count /\ wk.stdout = <<READY>> /\ WillServe(p)
    <3>0. NoRequest(new) /\ new.jobs = wk.jobs
      BY <1>3, <2>3 DEF Progress
    <3>1. new.stdout = wk.stdout /\ np.count = p.count /\ np.at \in {"loop"} \cup Dead
      BY <1>2, <2>3
      DEF Progress, EndsNow, Hangs, Echoes, ReadsStop, Answers, SaysReady,
          IsSignalled, SamePipes, SameProcess, WillServe, Dead
    <3>2. QED
      BY <2>3, <3>0, <3>1 DEF Replied, WillServe, JobsLeft
  <2>4. QED
    BY <1>9, <2>1, <2>2, <2>3 DEF Replied
<1>10. QED
  BY <1>4, <1>5, <1>6, <1>7, <1>8, <1>9 DEF Reading

\* The steps of run() in terms of the records of one worker.
LEMMA ProcessRuns ==
    ASSUME TypeOK, NEW w \in Worker, PHP(w)
    PROVE  Touches(w) /\ Runs(worker[w], php[w], worker'[w], php'[w])
<1>0. /\ worker \in [Worker -> WorkerRecord] /\ php \in [Worker -> ProcessRecord]
      /\ worker[w] \in WorkerRecord /\ php[w] \in ProcessRecord
  BY DEF TypeOK
<1>1. ASSUME PHPEnds(w, "exited"), worker' = worker,
             \/ php[w].at = "after"
             \/ php[w].at = "loop" /\ worker[w].stdin = <<>> /\ ~worker[w].open
      PROVE  Touches(w) /\ Runs(worker[w], php[w], worker'[w], php'[w])
  <2>1. Leaves(worker[w], php[w], worker'[w], php'[w])
    BY <1>0, <1>1 DEF PHPEnds, Leaves, EndsNow, SamePipes, Dead, ProcessRecord
  <2>2. QED
    BY <1>0, <1>1, <2>1 DEF Runs, Touches, PHPEnds
<1>2. CASE PHPRead(w)
  <2>1. CASE worker[w].stdin = <<>>
    BY <1>1, <1>2, <2>1 DEF PHPRead
  <2>2. CASE worker[w].stdin # <<>>
    <3>1. /\ worker' = [worker EXCEPT ![w].stdin = Tail(@)]
          /\ php[w].at = "loop"
      BY <1>2, <2>2 DEF PHPRead
    <3>2. /\ worker'[w].stdin = Tail(worker[w].stdin)
          /\ worker'[w].stdout = worker[w].stdout
          /\ worker'[w].open = worker[w].open /\ worker'[w].jobs = worker[w].jobs
          /\ \A v \in Worker \ {w} : worker'[v] = worker[v]
      BY <1>0, <3>1 DEF WorkerRecord
    <3>3. CASE Head(worker[w].stdin).type = "STOP"
      <4>1. php' = [php EXCEPT ![w].at = "exited"]
        BY <1>2, <2>2, <3>3 DEF PHPRead, PHPEnds
      <4>2. ReadsStop(worker[w], php[w], worker'[w], php'[w])
        BY <1>0, <2>2, <3>1, <3>2, <3>3, <4>1 DEF ReadsStop, Dead, ProcessRecord
      <4>3. QED
        BY <1>0, <3>2, <4>1, <4>2 DEF Runs, Touches
    <3>4. CASE Head(worker[w].stdin).type # "STOP"
      <4>1. php' = [php EXCEPT ![w].at = "handling",
                               ![w].req = Head(worker[w].stdin).req]
        BY <1>2, <2>2, <3>4 DEF PHPRead
      <4>2. ReadsRequest(worker[w], php[w], worker'[w], php'[w])
        BY <1>0, <2>2, <3>1, <3>2, <3>4, <4>1 DEF ReadsRequest, ProcessRecord
      <4>3. QED
        BY <1>0, <3>2, <4>1, <4>2 DEF Runs, Touches
    <3>5. QED
      BY <3>3, <3>4
  <2>3. QED
    BY <2>1, <2>2
<1>3. CASE PHPRespond(w)
  <2>1. /\ worker' = [worker EXCEPT ![w].stdout = Append(@, RESPONSE(php[w].req))]
        /\ php[w].at = "handling"
        /\ php' = [php EXCEPT ![w] =
             [at |-> "after", req |-> NoReq,
              count |-> IF MaxJobs > 0 THEN @.count + 1 ELSE 0]]
    BY <1>3 DEF PHPRespond, RESPONSE
  <2>2. /\ worker'[w].stdin = worker[w].stdin
        /\ worker'[w].stdout = Append(worker[w].stdout, RESPONSE(php[w].req))
        /\ worker'[w].open = worker[w].open /\ worker'[w].jobs = worker[w].jobs
        /\ \A v \in Worker \ {w} : worker'[v] = worker[v]
    BY <1>0, <2>1 DEF WorkerRecord
  <2>3. /\ php'[w].at = "after"
        /\ php'[w].count = IF MaxJobs > 0 THEN php[w].count + 1 ELSE 0
        /\ \A v \in Worker \ {w} : php'[v] = php[v]
    BY <1>0, <2>1
  <2>4. QED
    BY <2>1, <2>2, <2>3 DEF Answers, Runs, Touches
<1>4. CASE PHPNext(w)
  <2>1. CASE PHPEnds(w, "exited") /\ worker' = worker
    BY <1>1, <1>4, <2>1 DEF PHPNext
  <2>2. CASE ~(PHPEnds(w, "exited") /\ worker' = worker)
    <3>1. /\ php[w].at = "after" /\ ~(MaxJobs > 0 /\ php[w].count >= MaxJobs)
          /\ worker' = [worker EXCEPT ![w].stdout = Append(@, READY)]
          /\ php' = [php EXCEPT ![w].at = "loop"]
      BY <1>4, <2>2 DEF PHPNext, PHPEnds, READY
    <3>2. /\ worker'[w].stdin = worker[w].stdin
          /\ worker'[w].stdout = Append(worker[w].stdout, READY)
          /\ worker'[w].open = worker[w].open /\ worker'[w].jobs = worker[w].jobs
          /\ \A v \in Worker \ {w} : worker'[v] = worker[v]
      BY <1>0, <3>1 DEF WorkerRecord
    <3>3. JobsLeft(php[w])
      BY <1>0, <3>1, PoolConfig DEF JobsLeft, ProcessRecord
    <3>4. SaysReady(worker[w], php[w], worker'[w], php'[w])
      BY <1>0, <3>1, <3>2, <3>3 DEF SaysReady, ProcessRecord
    <3>5. QED
      BY <1>0, <3>1, <3>2, <3>4 DEF Runs, Touches
  <2>3. QED
    BY <2>1, <2>2
<1>5. QED
  BY <1>2, <1>3, <1>4 DEF PHP

\* What a process does, or what goes wrong in it, is progress of one worker.
LEMMA ProcessProgress ==
    ASSUME TypeOK, NEW w \in Worker, PHP(w) \/ Fault(w)
    PROVE  Touches(w) /\ Progress(worker[w], php[w], worker'[w], php'[w])
<1>0. /\ worker \in [Worker -> WorkerRecord] /\ php \in [Worker -> ProcessRecord]
      /\ worker[w] \in WorkerRecord /\ php[w] \in ProcessRecord
  BY DEF TypeOK
<1>1. CASE PHP(w)
  BY <1>1, ProcessRuns DEF Runs, Leaves, Progress
<1>2. CASE Fault(w)
  <2>1. ASSUME NEW how \in Dead, PHPEnds(w, how), worker' = worker
        PROVE  Touches(w) /\ Progress(worker[w], php[w], worker'[w], php'[w])
    <3>1. EndsNow(worker[w], php[w], worker'[w], php'[w])
      BY <1>0, <2>1 DEF PHPEnds, EndsNow, SamePipes, ProcessRecord
    <3>2. QED
      BY <1>0, <2>1, <3>1 DEF Progress, Touches, PHPEnds
  <2>2. CASE php[w].at \in {"handling", "after"} /\ PHPEnds(w, "hung") /\ worker' = worker
    <3>1. Hangs(worker[w], php[w], worker'[w], php'[w])
      BY <1>0, <2>2 DEF PHPEnds, Hangs, SamePipes, ProcessRecord
    <3>2. QED
      BY <1>0, <2>2, <3>1 DEF Progress, Touches, PHPEnds
  <2>3. CASE /\ php[w].at \in {"handling", "after"} /\ php' = php
             /\ worker' = [worker EXCEPT ![w].stdout = Append(@, NOISE)]
    <3>1. /\ worker'[w].stdin = worker[w].stdin
          /\ worker'[w].stdout = Append(worker[w].stdout, NOISE)
          /\ worker'[w].open = worker[w].open /\ worker'[w].jobs = worker[w].jobs
          /\ \A v \in Worker \ {w} : worker'[v] = worker[v]
      BY <1>0, <2>3 DEF WorkerRecord
    <3>2. Echoes(worker[w], php[w], worker'[w], php'[w])
      BY <2>3, <3>1 DEF Echoes, SameProcess
    <3>3. QED
      BY <2>3, <3>1, <3>2 DEF Progress, Touches
  <2>4. QED
    BY <1>2, <2>1, <2>2, <2>3 DEF Fault, NOISE, Dead
<1>3. QED
  BY <1>1, <1>2

\* Worker.Stop is progress of its worker, or finds the process ended.
LEMMA StopProgress ==
    ASSUME TypeOK, NEW g \in routines, SendStop(g) \/ StopReturns(g)
    PROVE  /\ Sends' = Sends
           /\ \/ worker' = worker /\ php' = php
              \/ /\ g.w \in Worker /\ Touches(g.w)
                 /\ Progress(worker[g.w], php[g.w], worker'[g.w], php'[g.w])
<1>0. /\ worker \in [Worker -> WorkerRecord] /\ php \in [Worker -> ProcessRecord]
      /\ g \in Routine /\ g.w \in Worker
      /\ worker[g.w] \in WorkerRecord /\ php[g.w] \in ProcessRecord
  BY RoutineFields DEF TypeOK
<1>1. Sends' = Sends
  BY SMTT(40), <1>0, RoutineFields DEF SendStop, StopReturns, Become, Sends, Stage
<1>2. CASE SendStop(g)
  <2>1. /\ php' = php
        /\ worker' = [worker EXCEPT
             ![g.w].state = "Stopped",
             ![g.w].stdin = IF worker[g.w].open /\ Alive(g.w)
                            THEN Append(@, STOP) ELSE @,
             ![g.w].open = FALSE, ![g.w].waiting = TRUE]
    BY SMTT(40), <1>2 DEF SendStop, processVars, STOP
  <2>2. /\ worker'[g.w].stdout = worker[g.w].stdout /\ ~worker'[g.w].open
        /\ worker'[g.w].stdin = IF worker[g.w].open /\ Alive(g.w)
                                THEN Append(worker[g.w].stdin, STOP)
                                ELSE worker[g.w].stdin
        /\ worker'[g.w].jobs = worker[g.w].jobs
        /\ \A v \in Worker \ {g.w} : worker'[v] = worker[v]
    BY SMTT(40), <1>0, <2>1 DEF WorkerRecord
  <2>3. IsSignalled(worker[g.w], php[g.w], worker'[g.w], php'[g.w])
    BY <2>1, <2>2 DEF IsSignalled, SameProcess
  <2>4. QED
    BY <1>0, <1>1, <2>1, <2>2, <2>3 DEF Progress, Touches
<1>3. CASE StopReturns(g)
  <2>1. worker' = worker /\ (php' = php \/ php' = [php EXCEPT ![g.w].at = "killed"])
    BY <1>3 DEF StopReturns, PHPEnds
  <2>2. CASE php' = [php EXCEPT ![g.w].at = "killed"]
    <3>1. EndsNow(worker[g.w], php[g.w], worker'[g.w], php'[g.w])
      BY <1>0, <2>1, <2>2 DEF EndsNow, SamePipes, Dead, ProcessRecord
    <3>2. QED
      BY <1>0, <1>1, <2>1, <2>2, <3>1 DEF Progress, Touches
  <2>3. QED
    BY <1>1, <2>1, <2>2
<1>4. QED
  BY <1>2, <1>3

\* One worker makes progress, and nothing else happens to the pool.
Alone(w) ==
    /\ Touches(w) /\ Progress(worker[w], php[w], worker'[w], php'[w])
    /\ available' = available /\ Sends' = Sends
    /\ call' = call /\ run' = run

\* A process starts, or does not come to READY, and nothing else happens to the
\* pool.
StartsUp(w) ==
    /\ w \notin Spawned /\ Touches(w) /\ worker' = worker
    /\ php'[w].count = php[w].count
    /\ available' = available /\ Sends' = Sends
    /\ call' = call /\ run' = run

\* The spawns, and the processes that do not come to READY.
LEMMA StartsUpSteps ==
    ASSUME TypeOK, Fresh, [Next]_vars
    PROVE  /\ \A w \in Worker : BootHangs(w) => StartsUp(w)
           /\ \A g \in routines : BootFails(g) => g.w \in Worker /\ StartsUp(g.w)
           /\ (\E g \in routines : SpawnReplacement(g)) \/ ScaleUp \/ ReloadSpawn =>
                 (worker' = worker /\ php' = php) \/ \E w \in Worker : StartsUp(w)
<1> USE DEF poolVars, callVars, processVars, controlVars
<1>0. php \in [Worker -> ProcessRecord] /\ \A g \in routines : g.w \in Worker
  BY RoutineFields DEF TypeOK
<1>1. ASSUME NEW w \in Worker, NEW a, php' = [php EXCEPT ![w].at = a], worker' = worker
      PROVE  Touches(w) /\ php'[w].count = php[w].count
  BY <1>0, <1>1 DEF Touches, ProcessRecord
<1>2. ASSUME NEW w \in Worker, BootHangs(w) PROVE StartsUp(w)
  <2>1. w \notin Spawned /\ php' = [php EXCEPT ![w].at = "stuck"]
    BY <1>2 DEF BootHangs, PHPEnds, Spawned, Created
  <2>2. UNCHANGED <<worker, available, Sends, call, run>>
    BY <1>2 DEF BootHangs, Sends
  <2>3. QED
    BY <1>1, <2>1, <2>2 DEF StartsUp
<1>3. ASSUME NEW g \in routines, BootFails(g) PROVE g.w \in Worker /\ StartsUp(g.w)
  <2>1. g.w \notin Spawned /\ php' = [php EXCEPT ![g.w].at = "failed"]
    BY <1>3 DEF BootFails, PHPEnds, Spawned, Created, Booting
  <2>2. UNCHANGED <<worker, available, Sends, call, run>>
    BY <1>3 DEF BootFails, Become, Sends
  <2>3. QED
    BY <1>0, <1>1, <2>1, <2>2 DEF StartsUp
<1>4. ASSUME NEW G, NEW j \in Job, Spawn(G, j) \/ SpawnFails(G),
             \A g \in G : g.at # "send", UNCHANGED <<available, call, run>>
      PROVE  (worker' = worker /\ php' = php) \/ \E w \in Worker : StartsUp(w)
  <2>1. CASE SpawnFails(G)
    BY <2>1 DEF SpawnFails
  <2>2. CASE Spawn(G, j)
    <3>1. PICK n \in Worker :
             /\ n > nextID /\ routines' = (routines \ G) \cup {Starter(j, n)}
             /\ worker' = worker /\ php' = [php EXCEPT ![n].at = "boot"]
      BY <2>2, SpawnFacts
    <3>2. n \notin Spawned
      BY <3>1 DEF Fresh, Spawned, Created
    <3>3. Sends' = Sends
      BY <1>4, <3>1, RoutineFields DEF Sends
    <3>4. QED
      BY <1>1, <1>4, <3>1, <3>2, <3>3 DEF StartsUp
  <2>3. QED
    BY <1>4, <2>1, <2>2
<1>5. {"replace", "scaleUp", "reload"} \subseteq Job /\ \A g \in {} : g.at # "send"
  BY DEF Job
<1>6. ASSUME NEW g \in routines, SpawnReplacement(g)
      PROVE  (worker' = worker /\ php' = php) \/ \E w \in Worker : StartsUp(w)
  <2>1. /\ \A h \in {g} : h.at # "send" /\ UNCHANGED <<available, call, run>>
        /\ Spawn({g}, "replace") \/ SpawnFails({g})
    BY <1>6 DEF SpawnReplacement
  <2>2. QED
    BY <1>4, <1>5, <2>1
<1>7. ASSUME ScaleUp \/ ReloadSpawn
      PROVE  (worker' = worker /\ php' = php) \/ \E w \in Worker : StartsUp(w)
  <2>1. /\ UNCHANGED <<available, call, run>>
        /\ \E j \in {"scaleUp", "reload"} : Spawn({}, j) \/ SpawnFails({})
    BY <1>7 DEF ScaleUp, ReloadSpawn
  <2>2. QED
    BY <1>4, <1>5, <2>1
<1>8. QED
  BY <1>2, <1>3, <1>6, <1>7

\* What can happen to the workers: nothing, progress of one, the steps of a spawn,
\* or a step of a caller or its w.Exec at the pipes.
LEMMA WorkerChanges ==
    ASSUME TypeOK, CallState, Fresh, [Next]_vars
    PROVE  \/ worker' = worker /\ php' = php
           \/ \E w \in Worker : Alone(w) \/ StartsUp(w)
           \/ \E g \in routines' : Creates(g)
           \/ php' = php /\ \E r \in Requests : RunWrite(r) \/ RunRead(r) \/ AwaitReady(r)
<1> USE DEF poolVars, callVars, processVars, controlVars
<1>1. ASSUME \/ UNCHANGED vars
             \/ \E r \in Requests : Exec(r) /\ ~AwaitReady(r)
             \/ \E g \in routines : RemoveWorker(g) \/ Send(g)
             \/ Tick \/ HealthCheck \/ Decide \/ ScaleDown \/ WatchdogExit
             \/ ReloadBegin \/ ReloadReturn
             \/ \E k \in 1 .. MaxReloads : DrainNext(k)
             \/ Cancel \/ StopWorkers \/ CloseQueue
      PROVE  worker' = worker /\ php' = php
  BY <1>1
  DEF vars, Exec, Take, GiveUp, TakeNil, Receive, Timeout, Abandon, PutBack,
      RemoveWorker, Send, Tick, HealthCheck, Decide, ScaleDown, WatchdogExit,
      ReloadBegin, ReloadReturn, DrainNext, Cancel, StopWorkers, CloseQueue
<1>2. ASSUME NEW r \in Requests, RunWrite(r) \/ RunRead(r) \/ AwaitReady(r)
      PROVE  php' = php
  BY <1>2 DEF RunWrite, RunRead, AwaitReady
<1>3. ASSUME NEW w \in Worker, PHP(w) \/ Fault(w)
      PROVE  Alone(w)
  <2>1. available' = available /\ routines' = routines /\ call' = call /\ run' = run
    BY <1>3 DEF PHP, PHPRead, PHPRespond, PHPNext, Fault
  <2>2. QED
    BY <1>3, <2>1, ProcessProgress DEF Alone, Sends
<1>4. ASSUME NEW g \in routines, SendStop(g) \/ StopReturns(g)
      PROVE  (worker' = worker /\ php' = php) \/ \E w \in Worker : Alone(w)
  <2>1. available' = available /\ call' = call /\ run' = run
    BY <1>4 DEF SendStop, StopReturns
  <2>2. QED
    BY <1>4, <2>1, StopProgress DEF Alone
<1>5. ASSUME NEW g \in routines, Register(g) PROVE \E h \in routines' : Creates(h)
  BY <1>5, RegisterCreates
<1>6. QED
  BY <1>1, <1>2, <1>3, <1>4, <1>5, StartsUpSteps
  DEF Next, WorkerExec, RoutineStep, Watchdog

\* Every step keeps Counts.
LEMMA CountsStep ==
    TypeOK /\ CallState /\ Fresh /\ Counts /\ [Next]_vars => Counts'
<1> SUFFICES ASSUME TypeOK, CallState, Fresh, Counts, [Next]_vars
             PROVE  Counts'
  OBVIOUS
<1>0. php \in [Worker -> ProcessRecord] /\ \A w \in Worker : php[w].count \in Nat
  BY PoolConfig DEF TypeOK, ProcessRecord
<1>1. CASE php' = php
  BY <1>1 DEF Counts
<1>2. ASSUME NEW w \in Worker, Alone(w) PROVE Counts'
  <2>1. ASSUME NEW v \in Worker \ {w} PROVE php'[v] = php[v]
    BY <1>2 DEF Alone, Touches
  <2>2. MaxJobs = 0 => php'[w].count = 0
    BY <1>2
    DEF Alone, Progress, EndsNow, Hangs, Echoes, ReadsStop, ReadsRequest,
        Answers, SaysReady, IsSignalled, SameProcess, Counts
  <2>3. MaxJobs > 0 /\ php'[w].at \in {"none", "boot", "loop", "handling"} =>
           php'[w].count < MaxJobs
    BY <1>2
    DEF Alone, Progress, EndsNow, Hangs, Echoes, ReadsStop, ReadsRequest,
        Answers, SaysReady, IsSignalled, SameProcess, Counts, JobsLeft, Dead
  <2>4. QED
    BY <2>1, <2>2, <2>3 DEF Counts
<1>3. ASSUME NEW g, Creates(g) PROVE Counts'
  BY <1>0, <1>3, PoolConfig DEF Creates, NewProcess, Counts
<1>4. ASSUME NEW w \in Worker, StartsUp(w) PROVE Counts'
  <2>1. php[w].count = 0
    BY <1>4 DEF StartsUp, Fresh
  <2>2. QED
    BY <1>4, <2>1, PoolConfig DEF StartsUp, Touches, Counts
<1>5. QED
  BY <1>1, <1>2, <1>3, <1>4, WorkerChanges

\* A frame that is read without an error is the first one in stdout.
LEMMA ReadFirst ==
    ASSUME TypeOK, NEW w \in Worker, ReadFrame(w) # Error
    PROVE  /\ worker[w].stdout # <<>> /\ ReadFrame(w) = Head(worker[w].stdout)
           /\ ReadFrame(w).type # "NOISE"
           /\ AfterRead(w)[w].stdout = Tail(worker[w].stdout)
           /\ AfterRead(w)[w].stdin = worker[w].stdin
           /\ AfterRead(w)[w].open = worker[w].open
           /\ AfterRead(w)[w].jobs = worker[w].jobs
<1>0. worker \in [Worker -> WorkerRecord]
  BY DEF TypeOK
<1>1. ~Reaped(w) /\ worker[w].stdout # <<>> /\ Head(worker[w].stdout).type # "NOISE"
  BY DEF ReadFrame
<1>2. AfterRead(w) = [worker EXCEPT ![w].stdout = Tail(@)]
  BY <1>1 DEF AfterRead
<1>3. QED
  BY <1>0, <1>1, <1>2 DEF ReadFrame, WorkerRecord

\* w.Exec reads an error, or the answer to the request it has written, and the
\* worker is left with nothing but the READY after it.
LEMMA ReadsAnswer ==
    ASSUME TypeOK, NEW r \in Requests, NEW w \in Worker,
           Reading(r, worker[w], php[w]), ReadFrame(w) # Error
    PROVE  /\ ReadFrame(w) = RESPONSE(r)
           /\ \A new : /\ new.stdin = worker[w].stdin /\ new.open = worker[w].open
                       /\ new.stdout = Tail(worker[w].stdout)
                       /\ new.jobs = IF MaxJobs > 0 THEN worker[w].jobs + 1
                                     ELSE worker[w].jobs
                       => Replied(new, php[w])
<1>0. /\ worker[w].stdout \in Seq(Frame)
      /\ RESPONSE(r) \in Frame /\ READY \in Frame /\ NOISE.type = "NOISE"
  BY FrameFacts DEF TypeOK, WorkerRecord
<1>1. /\ worker[w].stdout # <<>> /\ ReadFrame(w) = Head(worker[w].stdout)
      /\ ReadFrame(w).type # "NOISE"
  BY ReadFirst
<1>2. Answered(r, worker[w], php[w])
  BY <1>0, <1>1 DEF Reading, Asked, Handling, Spoilt
<1>3. CASE /\ NoRequest(worker[w])
           /\ php[w].count = IF MaxJobs > 0 THEN worker[w].jobs + 1
                             ELSE worker[w].jobs
           /\ worker[w].stdout = <<RESPONSE(r)>> /\ Silent(php[w])
  <2>1. Head(worker[w].stdout) = RESPONSE(r) /\ Tail(worker[w].stdout) = <<>>
    BY <1>0, <1>3, ShortPipes
  <2>2. QED
    BY <1>1, <1>3, <2>1 DEF Replied, NoRequest
<1>4. CASE /\ NoRequest(worker[w])
           /\ php[w].count = IF MaxJobs > 0 THEN worker[w].jobs + 1
                             ELSE worker[w].jobs
           /\ worker[w].stdout = <<RESPONSE(r), READY>> /\ WillServe(php[w])
  <2>1. Head(worker[w].stdout) = RESPONSE(r) /\ Tail(worker[w].stdout) = <<READY>>
    BY <1>0, <1>4, ShortPipes
  <2>2. QED
    BY <1>1, <1>4, <2>1 DEF Replied, NoRequest
<1>5. CASE /\ Len(worker[w].stdout) > 1 /\ worker[w].stdout[1] = RESPONSE(r)
           /\ worker[w].stdout[2] = NOISE
  <2>1. /\ Head(worker[w].stdout) = RESPONSE(r) /\ Tail(worker[w].stdout) # <<>>
        /\ Head(Tail(worker[w].stdout)) = NOISE
    BY <1>0, <1>1, <1>5, LaterFrames
  <2>2. QED
    BY <1>1, <2>1 DEF Replied, Spoilt
<1>6. QED
  BY <1>2, <1>3, <1>4, <1>5 DEF Answered

\* A worker whose READY has been read is in step for the next request.
LEMMA ReadsReady ==
    ASSUME TypeOK, NEW w \in Worker, Replied(worker[w], php[w]),
           ReadFrame(w).type = "READY"
    PROVE  Rested(AfterRead(w)[w], php[w])
<1>0. /\ worker[w].stdout \in Seq(Frame)
      /\ READY \in Frame /\ NOISE.type = "NOISE"
  BY FrameFacts DEF TypeOK, WorkerRecord
<1>1. ReadFrame(w) # Error
  BY DEF Error, Control, Msg
<1>2. /\ worker[w].stdout # <<>> /\ ReadFrame(w) = Head(worker[w].stdout)
      /\ AfterRead(w)[w].stdout = Tail(worker[w].stdout)
      /\ AfterRead(w)[w].stdin = worker[w].stdin
      /\ AfterRead(w)[w].open = worker[w].open
      /\ AfterRead(w)[w].jobs = worker[w].jobs
  BY <1>1, ReadFirst
<1>3. /\ NoRequest(worker[w]) /\ worker[w].jobs = php[w].count
      /\ worker[w].stdout = <<READY>> /\ WillServe(php[w])
  BY <1>0, <1>2 DEF Replied, Spoilt
<1>4. Tail(worker[w].stdout) = <<>>
  BY <1>0, <1>3, ShortPipes
<1>5. QED
  BY <1>2, <1>3, <1>4 DEF Rested, NoRequest, WillServe

\* The read of w.Exec, for a caller that still waits.
LEMMA ReadEnds ==
    ASSUME TypeOK, CallState, Protocol, NEW r \in Requests, RunRead(r),
           call[r].at \in Holding
    PROVE  /\ run'[r].at = "ended" /\ run'[r].result \in {Error, RESPONSE(r)}
           /\ run'[r].result # Error => Replied(worker'[run[r].on], php[run[r].on])
<1> DEFINE w == run[r].on
<1>1. w \in Worker /\ call[r].held = w /\ run[r].at = "read"
  BY RunsOn DEF RunRead, CallState
<1>2. Reading(r, worker[w], php[w])
  BY <1>1 DEF Protocol
<1>3. /\ run'[r].at = "ended" /\ run'[r].result = ReadFrame(w)
  BY <1>1, RunEnds
<1>4. AfterRead(w) \in [Worker -> WorkerRecord]
  BY <1>1, AfterReadType
<1>5. /\ worker'[w].stdin = AfterRead(w)[w].stdin
      /\ worker'[w].stdout = AfterRead(w)[w].stdout
      /\ worker'[w].open = AfterRead(w)[w].open
      /\ worker'[w].jobs = IF MaxJobs > 0 THEN AfterRead(w)[w].jobs + 1
                           ELSE AfterRead(w)[w].jobs
  BY <1>1, <1>4, EndedFacts DEF RunRead, callVars
<1> HIDE DEF w
<1>6. ASSUME ReadFrame(w) # Error
      PROVE  ReadFrame(w) = RESPONSE(r) /\ Replied(worker'[w], php[w])
  <2>1. /\ AfterRead(w)[w].stdout = Tail(worker[w].stdout)
        /\ AfterRead(w)[w].stdin = worker[w].stdin
        /\ AfterRead(w)[w].open = worker[w].open
        /\ AfterRead(w)[w].jobs = worker[w].jobs
    BY <1>1, <1>6, ReadFirst
  <2>2. QED
    BY <1>1, <1>2, <1>5, <1>6, <2>1, ReadsAnswer
<1>7. QED
  BY <1>3, <1>6 DEF w

\* The call r stays where it is with its worker, or goes on to read READY, or
\* has handed its worker on.
Continues(r) ==
    /\ run'[r] = run[r]
    /\ \/ call'[r].held = NoWorker
       \/ call'[r].held = call[r].held /\ (call'[r].at = "put" <=> call[r].at = "put")

\* Only a receive and the steps at the pipes change what a call waits for.
LEMMA CallsContinue ==
    ASSUME TypeOK, CallState, [Next]_vars, NEW r \in Requests
    PROVE  \/ Continues(r) \/ Take(r)
           \/ RunWrite(r) \/ RunRead(r) \/ AwaitReady(r)
<1> USE DEF poolVars, callVars, processVars, controlVars
<1>1. ASSUME \/ UNCHANGED vars
             \/ \E w \in Worker : PHP(w) \/ Fault(w) \/ BootHangs(w)
             \/ \E g \in routines : RoutineStep(g) \/ BootFails(g)
             \/ Tick \/ Watchdog
             \/ ReloadBegin \/ ReloadSpawn \/ ReloadReturn
             \/ \E k \in 1 .. MaxReloads : DrainNext(k)
             \/ Cancel \/ StopWorkers \/ CloseQueue
      PROVE  call' = call /\ run' = run
  BY ZenonT(40), <1>1
  DEF vars, PHP, PHPRead, PHPRespond, PHPNext, Fault, RoutineStep, SendStop,
      StopReturns, RemoveWorker, SpawnReplacement, Register, BootHangs,
      BootFails, Send, Tick, Watchdog,
      HealthCheck, Decide, ScaleUp, ScaleDown, WatchdogExit, ReloadBegin,
      ReloadSpawn, ReloadReturn, DrainNext, Cancel, StopWorkers, CloseQueue
<1>2. ASSUME NEW q \in Requests, q # r, Exec(q) \/ WorkerExec(q)
      PROVE  call'[r] = call[r] /\ run'[r] = run[r]
  <2>1. CASE Take(q) \/ Receive(q) \/ Timeout(q) \/ Abandon(q) \/ AwaitReady(q)
             \/ PutBack(q) \/ GiveUp(q) \/ TakeNil(q)
    BY <1>2, <2>1
    DEF Take, Receive, Timeout, Abandon, AwaitReady, PutBack, GiveUp, TakeNil,
        Return, TypeOK
  <2>2. CASE RunWrite(q) \/ RunRead(q)
    BY <1>2, <2>2 DEF RunWrite, RunRead, Ended, TypeOK
  <2>3. QED
    BY <1>2, <2>1, <2>2 DEF Exec, WorkerExec
<1>3. CASE GiveUp(r)
  <2>1. PICK why : call' = [call EXCEPT ![r].at = "done", ![r].reply = why]
    BY <1>3 DEF GiveUp
  <2>2. call'[r].held = call[r].held /\ call'[r].at = "done"
    BY <2>1 DEF TypeOK, CallRecord
  <2>3. QED
    BY <1>3, <2>2 DEF GiveUp, Continues
<1>4. ASSUME NEW why, Return(r, why), run' = run PROVE Continues(r)
  BY <1>4, ReturnFacts DEF Continues
<1>5. CASE Receive(r)
  <2>1. CASE call' = [call EXCEPT ![r].at = "ready"]
    BY <1>5, <2>1, AdvanceFacts DEF Receive, Continues
  <2>2. QED
    BY <1>4, <1>5, <2>1 DEF Receive
<1>6. CASE Timeout(r) \/ Abandon(r) \/ PutBack(r)
  BY <1>4, <1>6 DEF Timeout, Abandon, PutBack
<1>7. CASE TakeNil(r)
  BY <1>7 DEF TakeNil, Continues
<1>8. QED
  BY SMTT(40), <1>1, <1>2, <1>3, <1>5, <1>6, <1>7 DEF Next, Exec, WorkerExec, Continues

\* The part of Protocol about the worker of one call.
InStepWith(r, w) ==
    /\ call[r].at = "put" \/ run[r].at = "write" => Rested(worker[w], php[w])
    /\ run[r].at = "read" => Reading(r, worker[w], php[w])
    /\ run[r].at = "ended" /\ call[r].at # "put" /\ run[r].result # Error =>
          Replied(worker[w], php[w])

\* Protocol, before and after a step.
LEMMA ProtocolDef ==
    /\ Protocol <=>
          /\ \A w \in Worker : Queued(w) \/ Sending(w) => Rested(worker[w], php[w])
          /\ \A r \in Requests, w \in Worker : call[r].held = w => InStepWith(r, w)
    /\ Protocol' <=>
          /\ \A w \in Worker : Queued(w)' \/ Sending(w)' => Rested(worker'[w], php'[w])
          /\ \A r \in Requests, w \in Worker : call'[r].held = w => InStepWith(r, w)'
  BY DEF Protocol, InStepWith

\* A call that goes on, with a worker to which nothing happens.
LEMMA ContinuesInStep ==
    ASSUME NEW r \in Requests, NEW w \in Worker, Continues(r), call'[r].held = w,
           call[r].held = w => InStepWith(r, w),
           worker'[w] = worker[w], php'[w] = php[w]
    PROVE  InStepWith(r, w)'
  BY DEF Continues, InStepWith, Worker, NoWorker

\* Protocol is kept when nothing happens to the workers.
LEMMA ProtocolHandOver ==
    ASSUME TypeOK, CallState, Fresh, Custody, Protocol, [Next]_vars,
           worker' = worker, php' = php, ~\E g \in routines' : Creates(g),
           ~\E r \in Requests : RunWrite(r) \/ RunRead(r) \/ AwaitReady(r)
    PROVE  Protocol'
<1>1. ASSUME NEW w \in Worker, Queued(w)' \/ Sending(w)'
      PROVE  Rested(worker'[w], php'[w])
  <2>1. ASSUME NEW r \in Requests, call[r].at = "put", call[r].held = w
        PROVE  Rested(worker[w], php[w])
    BY <2>1 DEF Protocol
  <2>2. \/ Queued(w) \/ Sending(w)
        \/ \E r \in Requests : call[r].at = "put" /\ call[r].held = w
    BY <1>1, HandOver, SendingDef
    DEF Stays, Takes, Drops, Puts, Queues, Scales, Added, Removed, Queued
  <2>3. QED
    BY <2>1, <2>2 DEF Protocol
<1>2. ASSUME NEW r \in Requests, NEW w \in Worker, call'[r].held = w
      PROVE  InStepWith(r, w)'
  <2>1. CASE Continues(r)
    BY <1>2, <2>1, ContinuesInStep, ProtocolDef
  <2>2. CASE Take(r)
    <3>1. PICK v \in Worker : /\ Removed(v) /\ call'[r].at = "exec"
                              /\ call'[r].held = v /\ run'[r].at = "write"
      BY <2>2, TakeFacts
    <3>2. Queued(w)
      BY <1>2, <3>1 DEF Removed, Queued
    <3>3. Rested(worker[w], php[w])
      BY <3>2 DEF Protocol
    <3>4. QED
      BY <3>1, <3>3 DEF InStepWith
  <2>3. QED
    BY <2>1, <2>2, CallsContinue
<1>3. QED
  BY <1>1, <1>2, ProtocolDef

\* Protocol is kept when one worker makes progress without its callers.
LEMMA ProtocolAlone ==
    ASSUME TypeOK, TypeOK', Counts, Protocol, NEW v \in Worker, Alone(v)
    PROVE  Protocol'
<1>0. /\ available' = available /\ Sends' = Sends /\ call' = call /\ run' = run
      /\ \A w \in Worker \ {v} : worker'[w] = worker[w] /\ php'[w] = php[w]
      /\ Progress(worker[v], php[v], worker'[v], php'[v])
  BY DEF Alone, Touches
<1>1. /\ worker[v] \in WorkerRecord /\ worker'[v] \in WorkerRecord
      /\ php[v] \in ProcessRecord /\ php'[v] \in ProcessRecord
      /\ MaxJobs = 0 => php[v].count = 0
  BY DEF TypeOK, Counts
<1>2. ASSUME NEW r \in Requests \cup {NoReq}
      PROVE  /\ Rested(worker[v], php[v]) => Rested(worker'[v], php'[v])
             /\ Reading(r, worker[v], php[v]) => Reading(r, worker'[v], php'[v])
             /\ Replied(worker[v], php[v]) => Replied(worker'[v], php'[v])
  BY <1>0, <1>1, ProgressKeeps
<1>3. Rested(worker[v], php[v]) => Rested(worker'[v], php'[v])
  BY <1>2
<1>4. ASSUME NEW w \in Worker, Queued(w)' \/ Sending(w)'
      PROVE  Rested(worker'[w], php'[w])
  <2>1. Queued(w) \/ Sending(w)
    BY <1>0, <1>4, SendingDef DEF Queued
  <2>2. QED
    BY <1>0, <1>3, <2>1 DEF Protocol
<1>5. ASSUME NEW r \in Requests, NEW w \in Worker, call'[r].held = w
      PROVE  InStepWith(r, w)'
  <2>1. InStepWith(r, w)
    BY <1>0, <1>5, ProtocolDef
  <2>2. QED
    BY <1>0, <1>2, <2>1 DEF InStepWith
<1>6. QED
  BY <1>4, <1>5, ProtocolDef

\* Protocol is kept while a process starts: nobody has its worker yet.
LEMMA ProtocolStartsUp ==
    ASSUME TypeOK, Fresh, Protocol, NEW v \in Worker, StartsUp(v)
    PROVE  Protocol'
<1>0. /\ available' = available /\ Sends' = Sends /\ call' = call /\ run' = run
      /\ \A w \in Worker \ {v} : worker'[w] = worker[w] /\ php'[w] = php[w]
      /\ v \notin Spawned /\ v # NoWorker
  BY DEF StartsUp, Touches, Worker, NoWorker
<1>1. ~Queued(v) /\ ~Sending(v) /\ \A r \in Requests : call[r].held # v
  BY <1>0 DEF Fresh, Queued, Sending
<1>2. ASSUME NEW w \in Worker, Queued(w)' \/ Sending(w)'
      PROVE  Rested(worker'[w], php'[w])
  <2>1. (Queued(w) \/ Sending(w)) /\ w # v
    BY <1>0, <1>1, <1>2, SendingDef DEF Queued
  <2>2. QED
    BY <1>0, <2>1 DEF Protocol
<1>3. ASSUME NEW r \in Requests, NEW w \in Worker, call'[r].held = w
      PROVE  InStepWith(r, w)'
  <2>1. InStepWith(r, w) /\ w # v
    BY <1>0, <1>1, <1>3, ProtocolDef
  <2>2. QED
    BY <1>0, <2>1 DEF InStepWith
<1>4. QED
  BY <1>2, <1>3, ProtocolDef

\* Protocol is kept when READY of a new process has been read.
LEMMA ProtocolCreates ==
    ASSUME TypeOK, Fresh, Protocol, NEW g, Creates(g)
    PROVE  Protocol'
<1>0. /\ g.w \in Worker /\ worker[g.w] = NewWorker
      /\ \A q \in Requests : call[q].held # g.w
  BY NewIsFresh
<1>1. /\ available' = available /\ Sends' = Sends \cup {g} /\ call' = call /\ run' = run
      /\ worker' = worker /\ php'[g.w] = NewProcess
      /\ \A w \in Worker \ {g.w} : php'[w] = php[w]
  BY <1>0 DEF Creates, TypeOK
<1>2. Rested(worker'[g.w], php'[g.w])
  BY <1>0, <1>1, PoolConfig
  DEF Rested, NoRequest, JobsLeft, NewWorker, NewProcess
<1>3. ASSUME NEW w \in Worker, Queued(w)' \/ Sending(w)'
      PROVE  Rested(worker'[w], php'[w])
  <2>1. Queued(w) \/ Sending(w) \/ w = g.w
    BY <1>1, <1>3, SendingDef DEF Queued
  <2>2. QED
    BY <1>1, <1>2, <2>1 DEF Protocol
<1>4. ASSUME NEW r \in Requests, NEW w \in Worker, call'[r].held = w
      PROVE  InStepWith(r, w)'
  <2>1. InStepWith(r, w) /\ w # g.w
    BY <1>0, <1>1, <1>4, ProtocolDef
  <2>2. QED
    BY <1>1, <2>1 DEF InStepWith
<1>5. QED
  BY <1>3, <1>4, ProtocolDef

\* Protocol is kept by w.Exec, which has its worker for itself.
LEMMA ProtocolExec ==
    ASSUME TypeOK, CallState, ExclusiveRuns, Protocol, NEW r \in Requests,
           RunWrite(r) \/ RunRead(r)
    PROVE  Protocol'
<1> DEFINE v == run[r].on
<1>0. /\ v \in Worker /\ run[r].at \in Active /\ call' = call /\ Others(r)
      /\ run'[r].on = v /\ \A w \in Worker \ {v} : worker'[w] = worker[w]
  <2>1. v \in Worker /\ run[r].at \in Active
    BY RunsOn DEF RunWrite, RunRead, Active
  <2>2. CASE RunWrite(r) /\ worker[v].open /\ Alive(v)
    BY <2>1, <2>2, WriteFacts
  <2>3. QED
    BY <2>1, <2>2, RunEnds
<1>1. available' = available /\ Sends' = Sends /\ php' = php
  BY DEF RunWrite, RunRead, poolVars, Sends
<1>2. /\ ~Queued(v) /\ ~Sending(v)
      /\ \A q \in Requests : call[q].held = v => q = r
  BY <1>0 DEF ExclusiveRuns
<1> HIDE DEF v
<1>3. ASSUME NEW w \in Worker, Queued(w)' \/ Sending(w)'
      PROVE  Rested(worker'[w], php'[w])
  <2>1. Queued(w) \/ Sending(w)
    BY <1>1, <1>3, SendingDef DEF Queued
  <2>2. w # v
    BY <1>2, <2>1
  <2>3. QED
    BY <1>0, <1>1, <2>1, <2>2 DEF Protocol
<1>4. ASSUME NEW q \in Requests, NEW w \in Worker, call'[q].held = w, q # r
      PROVE  InStepWith(q, w)'
  <2>1. InStepWith(q, w) /\ w # v
    BY <1>0, <1>2, <1>4, ProtocolDef
  <2>2. QED
    BY <1>0, <1>1, <1>4, <2>1 DEF InStepWith, Others
<1>5. ASSUME NEW w \in Worker, call'[r].held = w
      PROVE  InStepWith(r, w)'
  <2>1. /\ call[r].held = w /\ call[r].at \in Holding /\ w = v
        /\ call[r].at # "put" /\ InStepWith(r, w)
    <3>1. call[r].held = w /\ call[r].held # NoWorker
      BY <1>0, <1>5 DEF Worker, NoWorker
    <3>2. call[r].at \in Holding /\ w = v
      BY <3>1 DEF CallState, v
    <3>3. call[r].at # "put"
      BY <1>0 DEF CallState, Active
    <3>4. QED
      BY <3>1, <3>2, <3>3, ProtocolDef
  <2>2. CASE RunWrite(r) /\ worker[v].open /\ Alive(v)
    <3>1. /\ run'[r].at = "read"
          /\ worker'[v].stdin = Append(worker[v].stdin, REQUEST(r))
          /\ worker'[v].stdout = worker[v].stdout
          /\ worker'[v].jobs = worker[v].jobs
      BY <2>2, WriteFacts DEF v
    <3>2. Rested(worker[v], php[v]) /\ worker[v].open
      BY <2>1, <2>2 DEF InStepWith, RunWrite
    <3>3. worker'[v].stdin = <<REQUEST(r)>>
      <4>1. worker[v].stdin = <<>>
        BY <3>2 DEF Rested, NoRequest
      <4>2. REQUEST(r) \in Frame
        BY FrameFacts
      <4>3. QED
        BY <3>1, <4>1, <4>2, ShortPipes
    <3>4. Asked(r, worker'[v], php'[v])
      BY <1>1, <3>1, <3>2, <3>3 DEF Rested, Asked
    <3>5. QED
      BY <1>0, <2>1, <3>1, <3>4 DEF InStepWith, Reading
  <2>3. CASE RunWrite(r) /\ ~(worker[v].open /\ Alive(v))
    <3>1. run'[r].at = "ended" /\ run'[r].result = Error
      BY <2>3, RunEnds DEF RunWrite, v
    <3>2. QED
      BY SMTT(40), <1>0, <2>1, <3>1 DEF InStepWith
  <2>4. CASE RunRead(r)
    <3>1. /\ run'[r].at = "ended"
          /\ run'[r].result # Error => Replied(worker'[v], php[v])
      BY <2>1, <2>4, ReadEnds DEF v
    <3>2. QED
      BY <1>0, <1>1, <2>1, <3>1 DEF InStepWith
  <2>5. QED
    BY <2>2, <2>3, <2>4
<1>6. QED
  BY <1>3, <1>4, <1>5, ProtocolDef

\* Protocol is kept by the read of READY, by the only caller with the worker.
LEMMA ProtocolReady ==
    ASSUME TypeOK, CallState, Custody, Protocol, Results, NEW r \in Requests,
           AwaitReady(r)
    PROVE  Protocol'
<1> DEFINE v == call[r].held
<1>0. /\ v \in Worker /\ call[r].at = "ready" /\ run[r].at = "ended"
      /\ run[r].result # Error
  <2>1. v \in Worker /\ call[r].at = "ready" /\ run[r].at = "ended"
    BY HasWorker DEF AwaitReady, CallState, Holding
  <2>2. run[r].result = RESPONSE(r)
    BY <2>1 DEF Results
  <2>3. QED
    BY <2>1, <2>2, FrameFacts
<1>1. /\ available' = available /\ Sends' = Sends /\ php' = php
      /\ worker' = AfterRead(v) /\ run' = run
  <2>1. routines' = routines \/ GoReplace(v)
    BY DEF AwaitReady
  <2>2. Sends' = Sends
    BY <1>0, <2>1, StopperSendsNot DEF Sends
  <2>3. QED
    BY <2>2 DEF AwaitReady
<1>2. \A w \in Worker \ {v} : worker'[w] = worker[w]
  BY <1>0, <1>1, AfterReadType
<1>3. /\ ~Queued(v) /\ ~Sending(v)
      /\ \A q \in Requests : call[q].held = v => q = r
  BY <1>0 DEF Custody, Holds, Worker, NoWorker
<1>4. Replied(worker[v], php[v])
  BY <1>0 DEF Protocol
<1>5. \/ /\ ReadFrame(v).type = "READY" /\ call'[r].at = "put"
         /\ call'[r].held = v /\ Others(r)
      \/ call'[r].held = NoWorker /\ Others(r)
  <2>1. CASE ReadFrame(v).type = "READY"
    BY <1>1, <2>1, AdvanceFacts DEF AwaitReady
  <2>2. CASE ReadFrame(v).type # "READY"
    BY <1>1, <2>2, ReturnFacts DEF AwaitReady
  <2>3. QED
    BY <2>1, <2>2
<1> HIDE DEF v
<1>6. ASSUME NEW w \in Worker, Queued(w)' \/ Sending(w)'
      PROVE  Rested(worker'[w], php'[w])
  <2>1. Queued(w) \/ Sending(w)
    BY <1>1, <1>6, SendingDef DEF Queued
  <2>2. w # v
    BY <1>3, <2>1
  <2>3. QED
    BY <1>1, <1>2, <2>1, <2>2 DEF Protocol
<1>7. ASSUME NEW q \in Requests, NEW w \in Worker, call'[q].held = w, q # r
      PROVE  InStepWith(q, w)'
  <2>1. InStepWith(q, w) /\ w # v /\ call'[q] = call[q]
    BY <1>3, <1>5, <1>7, ProtocolDef DEF Others
  <2>2. QED
    BY <1>1, <1>2, <2>1 DEF InStepWith
<1>8. ASSUME NEW w \in Worker, call'[r].held = w
      PROVE  InStepWith(r, w)'
  <2>1. ReadFrame(v).type = "READY" /\ call'[r].at = "put" /\ w = v
    BY <1>5, <1>8 DEF Worker, NoWorker
  <2>2. Rested(worker'[v], php'[v])
    BY <1>0, <1>1, <1>4, <2>1, ReadsReady
  <2>3. QED
    BY <1>0, <1>1, <2>1, <2>2 DEF InStepWith
<1>9. QED
  BY <1>6, <1>7, <1>8, ProtocolDef

\* Every step keeps Protocol.
LEMMA ProtocolStep ==
    /\ TypeOK /\ CallState /\ Fresh /\ Custody /\ ExclusiveRuns /\ Counts
    /\ Protocol /\ Results /\ [Next]_vars /\ TypeOK'
    => Protocol'
<1> SUFFICES ASSUME TypeOK, CallState, Fresh, Custody, ExclusiveRuns, Counts,
                    Protocol, Results, [Next]_vars, TypeOK'
             PROVE  Protocol'
  OBVIOUS
<1>1. CASE \E r \in Requests : RunWrite(r) \/ RunRead(r) \/ AwaitReady(r)
  BY <1>1, ProtocolExec, ProtocolReady
<1>2. CASE \E g \in routines' : Creates(g)
  BY <1>2, ProtocolCreates
<1>3. CASE \E w \in Worker : Alone(w) \/ StartsUp(w)
  BY <1>3, ProtocolAlone, ProtocolStartsUp
<1>4. QED
  BY <1>1, <1>2, <1>3, WorkerChanges, ProtocolHandOver

-----------------------------------------------------------------------------
(* Results.                                                                *)

\* Every step keeps Results.
LEMMA ResultsStep ==
    TypeOK /\ CallState /\ Protocol /\ Results /\ [Next]_vars => Results'
<1> SUFFICES ASSUME TypeOK, CallState, Protocol, Results, [Next]_vars
             PROVE  Results'
  OBVIOUS
<1> USE DEF poolVars, callVars, processVars, controlVars
<1>1. ASSUME \/ UNCHANGED vars
             \/ \E w \in Worker : PHP(w) \/ Fault(w) \/ BootHangs(w)
             \/ \E g \in routines : RoutineStep(g) \/ BootFails(g)
             \/ Tick \/ Watchdog
             \/ ReloadBegin \/ ReloadSpawn \/ ReloadReturn
             \/ \E k \in 1 .. MaxReloads : DrainNext(k)
             \/ Cancel \/ StopWorkers \/ CloseQueue
             \/ \E r \in Requests : TakeNil(r)
      PROVE  call' = call /\ run' = run
  BY ZenonT(40), <1>1
  DEF vars, PHP, PHPRead, PHPRespond, PHPNext, Fault, RoutineStep, SendStop,
      StopReturns, RemoveWorker, SpawnReplacement, Register, BootHangs,
      BootFails, Send, Tick, Watchdog,
      HealthCheck, Decide, ScaleUp, ScaleDown, WatchdogExit, ReloadBegin,
      ReloadSpawn, ReloadReturn, DrainNext, Cancel, StopWorkers, CloseQueue,
      TakeNil
<1>2. ASSUME call' = call, run' = run PROVE Results'
  BY <1>2 DEF Results
<1>3. ASSUME NEW r \in Requests, Take(r) PROVE Results'
  <2>1. /\ Others(r) /\ call[r].at = "select" /\ call'[r].at = "exec"
        /\ call'[r].reply = call[r].reply /\ run'[r].at = "write"
    BY <1>3, TakeFacts
  <2>2. QED
    BY <2>1 DEF Others, Results
<1>4. ASSUME NEW r \in Requests, GiveUp(r) PROVE Results'
  <2>1. PICK why \in {"exhausted", "shutdown"} :
           call' = [call EXCEPT ![r].at = "done", ![r].reply = why]
    BY <1>4 DEF GiveUp
  <2>2. call'[r].at = "done" /\ call'[r].reply = why
    BY <2>1 DEF TypeOK, CallRecord
  <2>3. run' = run /\ \A q \in Requests \ {r} : call'[q] = call[q]
    BY <1>4, <2>1 DEF GiveUp, TypeOK
  <2>4. QED
    BY <2>2, <2>3 DEF Results, Holding
<1>5. ASSUME NEW r \in Requests, NEW why, Return(r, why), run' = run,
             why = "ok" => run[r].at = "ended" /\ run[r].result = RESPONSE(r)
      PROVE  Results'
  <2>1. /\ call'[r].at = "done" /\ call'[r].reply = why
        /\ Others(r) /\ run'[r] = run[r]
    BY <1>5, ReturnFacts
  <2>2. QED
    BY <1>5, <2>1 DEF Results, Others, Holding
<1>6. ASSUME NEW r \in Requests, NEW a \in {"ready", "put"}, run' = run,
             call' = [call EXCEPT ![r].at = a], call[r].at \in Holding,
             run[r].at = "ended" /\ run[r].result = RESPONSE(r)
      PROVE  Results'
  <2>1. /\ call'[r].at = a /\ call'[r].reply = call[r].reply
        /\ Others(r) /\ run'[r] = run[r]
    BY <1>6, AdvanceFacts
  <2>2. call[r].reply # "ok"
    BY <1>6 DEF Results, Holding
  <2>3. QED
    BY <1>6, <2>1, <2>2 DEF Results, Others
<1>7. ASSUME NEW r \in Requests, Receive(r) PROVE Results'
  <2>1. /\ call[r].at = "exec" /\ run[r].at = "ended" /\ run' = run
        /\ run[r].result # Error => run[r].result = RESPONSE(r)
    BY <1>7 DEF Receive, Results, Holding
  <2>2. CASE run[r].result = Error /\ Return(r, "failed")
    BY <1>5, <2>1, <2>2
  <2>3. CASE run[r].result # Error /\ Return(r, "ok")
    BY <1>5, <2>1, <2>3
  <2>4. CASE run[r].result # Error /\ call' = [call EXCEPT ![r].at = "ready"]
    BY <1>6, <2>1, <2>4 DEF Holding
  <2>5. QED
    BY <1>7, <2>2, <2>3, <2>4 DEF Receive
<1>8. ASSUME NEW r \in Requests, Timeout(r) \/ Abandon(r) PROVE Results'
  <2>1. run' = run /\ (Return(r, "timeout") \/ Return(r, "shutdown"))
    BY <1>8 DEF Timeout, Abandon
  <2>2. QED
    BY <1>5, <2>1
<1>9. ASSUME NEW r \in Requests, AwaitReady(r) \/ PutBack(r) PROVE Results'
  <2>1. /\ call[r].at \in {"ready", "put"} /\ run' = run
        /\ run[r].at = "ended" /\ run[r].result = RESPONSE(r)
    BY <1>9 DEF AwaitReady, PutBack, CallState, Results
  <2>2. CASE call' = [call EXCEPT ![r].at = "put"]
    BY <1>6, <2>1, <2>2 DEF Holding
  <2>3. CASE Return(r, "ok") \/ Return(r, "panic")
    BY <1>5, <2>1, <2>3
  <2>4. QED
    BY <1>9, <2>2, <2>3 DEF AwaitReady, PutBack
<1>10. ASSUME NEW r \in Requests, RunWrite(r) \/ RunRead(r) PROVE Results'
  <2>1. /\ call' = call /\ Others(r) /\ run[r].at \in Active
    <3>1. run[r].at \in Active
      BY <1>10 DEF RunWrite, RunRead, Active
    <3>2. CASE RunWrite(r) /\ worker[run[r].on].open /\ Alive(run[r].on)
      BY <3>1, <3>2, WriteFacts
    <3>3. QED
      BY <1>10, <3>1, <3>2, RunEnds
  <2>2. call[r].at \notin {"ready", "put"} /\ call[r].reply # "ok"
    BY <2>1 DEF CallState, Results, Active
  <2>3. call[r].at \in Holding /\ run'[r].at = "ended" =>
           run'[r].result \in {Error, RESPONSE(r)}
    <3>1. CASE RunWrite(r) /\ worker[run[r].on].open /\ Alive(run[r].on)
      BY <3>1, WriteFacts
    <3>2. CASE RunWrite(r) /\ ~(worker[run[r].on].open /\ Alive(run[r].on))
      BY <3>2, RunEnds DEF RunWrite
    <3>3. CASE RunRead(r)
      BY <3>3, ReadEnds
    <3>4. QED
      BY <1>10, <3>1, <3>2, <3>3
  <2>4. QED
    BY <2>1, <2>2, <2>3 DEF Results, Others
<1>11. QED
  BY SMTT(40), <1>1, <1>2, <1>3, <1>4, <1>7, <1>8, <1>9, <1>10
  DEF Next, Exec, WorkerExec

-----------------------------------------------------------------------------
(* The theorems.                                                           *)

\* busyWorkers is a number of callers.
LEMMA BusyCount ==
    /\ CallState => busyWorkers \in 0 .. Cardinality(Requests)
    /\ CallState' => busyWorkers' \in 0 .. Cardinality(Requests)
<1>1. \A S \in SUBSET Requests : Cardinality(S) \in 0 .. Cardinality(Requests)
  <2>1. SUFFICES ASSUME NEW S \in SUBSET Requests
                 PROVE  Cardinality(S) \in 0 .. Cardinality(Requests)
    OBVIOUS
  <2>2. IsFiniteSet(S) /\ Cardinality(S) <= Cardinality(Requests)
    BY RequestNames, FS_Subset
  <2>3. Cardinality(S) \in Nat /\ Cardinality(Requests) \in Nat
    BY <2>2, RequestNames, FS_CardinalityType
  <2>4. QED
    BY <2>2, <2>3
<1>2. /\ {r \in Requests : call[r].at \in Holding} \in SUBSET Requests
      /\ {r \in Requests : call'[r].at \in Holding} \in SUBSET Requests
  OBVIOUS
<1>3. QED
  BY <1>1, <1>2 DEF CallState

\* The initial state has the types.
LEMMA InitType == Init => TypeOK
<1> SUFFICES ASSUME Init PROVE TypeOK
  OBVIOUS
<1>1. 1 .. MinWorkers \subseteq Worker
  BY PoolConfig, Scenario DEF Worker
<1>2. available \in Seq(Worker) /\ Len(available) <= MaxWorkers
  <2>1. available \in [1 .. MinWorkers -> Worker] /\ MinWorkers \in Nat
    BY <1>1, PoolConfig DEF Init
  <2>2. available \in Seq(Worker) /\ Len(available) = MinWorkers
    BY <2>1
  <2>3. QED
    BY <2>2, PoolConfig
<1>3. NewWorker \in WorkerRecord
  BY DEF NewWorker, WorkerRecord
<1>4. worker \in [Worker -> WorkerRecord]
  BY <1>3 DEF Init
<1>5. /\ NewProcess \in ProcessRecord
      /\ [NewProcess EXCEPT !.at = "none"] \in ProcessRecord
  BY PoolConfig DEF NewProcess, ProcessRecord
<1>6. php \in [Worker -> ProcessRecord]
  BY <1>5 DEF Init
<1>7. call \in [Requests -> CallRecord]
  BY DEF Init, CallRecord
<1>8. run \in [Requests -> RunRecord]
  BY DEF Init, RunRecord
<1>9. busyWorkers \in 0 .. Cardinality(Requests)
  BY RequestNames, FS_CardinalityType DEF Init
<1>10. /\ nextID \in 0 .. MaxID /\ faults \in 0 .. MaxFaults
       /\ reload \in [n : 0 .. MaxReloads, active : BOOLEAN,
                      old : SUBSET Worker, new : SUBSET Worker]
  BY PoolConfig, Scenario DEF Init
<1>11. QED
  BY <1>1, <1>2, <1>4, <1>6, <1>7, <1>8, <1>9, <1>10 DEF Init, TypeOK

\* The initial state satisfies the inductive invariant.
LEMMA InitInv == Init => IndInv
<1> SUFFICES ASSUME Init PROVE IndInv
  OBVIOUS
<1>1. TypeOK
  BY InitType
<1>2. /\ \A r \in Requests : /\ call[r].at = "select" /\ call[r].held = NoWorker
                             /\ call[r].reply = "none"
                             /\ run[r].at = "none" /\ run[r].on = NoWorker
      /\ routines = {} /\ \A w : ~Sending(w)
      /\ Range(available) = Spawned /\ workers = Spawned /\ IsInjective(available)
      /\ Spawned = 1 .. MinWorkers /\ Spawned \subseteq Worker
  <2>1. \A w \in Worker : Created(w) <=> w <= MinWorkers
    BY DEF Init, Created, NewProcess
  <2>2. Spawned = 1 .. MinWorkers
    BY <2>1, PoolConfig, Scenario DEF Spawned, Worker
  <2>3. QED
    BY <2>2, PoolConfig, Scenario DEF Init, Sending, Range, IsInjective, Spawned
<1>3. CallState
  <2>1. {r \in Requests : call[r].at \in Holding} = {}
    BY <1>2 DEF Holding
  <2>2. QED
    BY <1>2, <2>1, FS_EmptySet DEF CallState, Holding, Init
<1>4. \A w \in Worker : /\ worker[w] = NewWorker
                        /\ w \in Spawned => php[w] = NewProcess
                        /\ w \notin Spawned => /\ php[w].at = "none"
                                               /\ php[w].req = NoReq
                                               /\ php[w].count = 0
  BY <1>2, PoolConfig DEF Init, Worker, NewProcess
<1>5. Fresh /\ Starts
  <2>1. \A w \in Worker : w > nextID => w \notin Spawned
    BY <1>2, PoolConfig DEF Init, Worker
  <2>2. Fresh
    BY <1>2, <1>4, <2>1 DEF Fresh, Init
  <2>3. \A w \in Worker : ~Booting(w)
    BY <1>4 DEF Booting, NewProcess
  <2>4. QED
    BY <1>2, <2>2, <2>3 DEF Starts
<1>6. Custody /\ ExclusiveRuns
  <2>1. \A w \in Worker : ~Holds(w) /\ ~Sending(w)
    BY <1>2 DEF Holds, Worker, NoWorker
  <2>2. Custody
    BY <1>2, <2>1 DEF Custody
  <2>3. ExclusiveRuns
    BY <1>2 DEF ExclusiveRuns, Active
  <2>4. QED
    BY <2>2, <2>3
<1>7. Kept /\ StopBeforeRemove /\ Shutdown
  BY <1>2 DEF Kept, Queued, StopBeforeRemove, Shutdown, Init
<1>8. NoOrphanProcess
  BY <1>2, <1>4 DEF NoOrphanProcess, Alive, Booting, Starting
<1>9. Counts
  BY <1>4, PoolConfig DEF Counts, NewProcess
<1>10. Protocol
  <2>1. Rested(NewWorker, NewProcess)
    BY PoolConfig DEF Rested, NoRequest, JobsLeft, NewWorker, NewProcess
  <2>2. QED
    BY <1>2, <1>4, <2>1 DEF Protocol, Queued, Worker, NoWorker
<1>11. Results
  BY <1>2 DEF Results, Holding
<1>12. QED
  BY <1>1, <1>3, <1>5, <1>6, <1>7, <1>8, <1>9, <1>10, <1>11 DEF IndInv

\* Every step keeps the inductive invariant.
LEMMA StepInv == IndInv /\ [Next]_vars => IndInv'
<1> SUFFICES ASSUME IndInv, [Next]_vars PROVE IndInv'
  OBVIOUS
<1> USE DEF IndInv
<1>1. CallState' /\ TypeOK'
  BY CallStep, BusyCount, TypeStep
<1>2. Fresh' /\ Starts' /\ Custody' /\ ExclusiveRuns'
  BY FreshStep, StartsStep, CustodyStep, ExclusiveStep
<1>3. Kept' /\ StopBeforeRemove' /\ NoOrphanProcess' /\ Shutdown'
  BY KeptStep, OrphanStep, ShutdownStep
<1>4. Counts' /\ Results'
  BY CountsStep, ResultsStep
<1>5. Protocol'
  BY <1>1, ProtocolStep
<1>6. QED
  BY <1>1, <1>2, <1>3, <1>4, <1>5

\* The inductive invariant holds always.
LEMMA Invariance == Spec => []IndInv
  BY InitInv, StepInv, PTL DEF Spec

\* Every variable of the pool has its type, in particular the channel stays
\* within its capacity, busyWorkers between 0 and the number of calls of
\* Pool.Exec, and requestCount of a process within max_jobs.
THEOREM PoolTypeOK == Spec => []TypeOK
<1>1. IndInv => TypeOK
  BY DEF IndInv
<1>2. QED
  BY <1>1, Invariance, PTL

\* The answer that Pool.Exec returns is the answer to its own request.
THEOREM ExecReturnsOwnAnswer == Spec => []AnswerIsMine
<1>1. IndInv => AnswerIsMine
  BY DEF IndInv, Results, AnswerIsMine, RESPONSE
<1>2. QED
  BY <1>1, Invariance, PTL

\* A worker in the channel is in step with its process: no answer and no READY
\* of an earlier request is left in its pipes.
THEOREM QueuedWorkersInStep == Spec => []InStep
<1>1. IndInv => InStep
  <2> SUFFICES ASSUME IndInv, NEW w \in Range(available), Alive(w)
               PROVE  /\ php[w].at = "loop" /\ worker[w].stdout = <<>>
                      /\ Range(worker[w].stdin) \subseteq {Control("STOP")}
                      /\ worker[w].jobs = php[w].count
                      /\ MaxJobs > 0 => php[w].count < MaxJobs
    BY DEF InStep
  <2>1. w \in Worker /\ Queued(w)
    <3>1. available \in Seq(Worker)
      BY DEF IndInv, TypeOK
    <3>2. QED
      BY <3>1 DEF Queued, Range
  <2>2. Rested(worker[w], php[w])
    BY <2>1 DEF IndInv, Protocol
  <2>3. Range(worker[w].stdin) \subseteq {STOP}
    <3>1. Range(<<>>) = {} /\ Range(<<STOP>>) = {STOP}
      BY DEF Range
    <3>2. QED
      BY <2>2, <3>1 DEF Rested, NoRequest
  <2>4. php[w].at = "loop"
    BY <2>2 DEF Rested, Alive, Booting, Dead
  <2>5. QED
    BY <2>2, <2>3, <2>4 DEF Rested, JobsLeft, STOP
<1>2. QED
  BY <1>1, Invariance, PTL

\* Until the shutdown no registered worker is lost.
THEOREM PoolKeepsWorkers == Spec => []NoWorkerLost
<1>1. IndInv => NoWorkerLost
  BY DEF IndInv, Kept, NoWorkerLost, Sending, Leaving, Handled
<1>2. QED
  BY <1>1, Invariance, PTL

\* A PHP process that runs is registered, or NewWorker still waits for its READY
\* and will register or kill it: none outlives the registration of its worker.
THEOREM PoolLeavesNoOrphan == Spec => []NoOrphanProcess
<1>1. IndInv => NoOrphanProcess
  BY DEF IndInv
<1>2. QED
  BY <1>1, Invariance, PTL

\* The pool implements Lease: a worker serves one request at a time, and one
\* that was given up is never handed out again.
THEOREM ProcessPoolImplementsLease == Spec => ImplementsLease
<1>1. IndInv /\ [Next]_vars => [L!Next]_(L!leaseVars)
  BY LeaseStep DEF IndInv
<1>2. QED
  BY <1>1, LeaseInit, Invariance, PTL DEF Spec, ImplementsLease, L!Spec

-----------------------------------------------------------------------------
(***************************************************************************)
(* Quiet: without faults, reloads and a shutdown the limits of PHP do not  *)
(* reach the caller of Exec.  As for Protocol, the heart is a lemma about  *)
(* records: a process that is not signalled ends only after its answer.    *)
(***************************************************************************)

\* A step of run() of a worker that has not been told to stop.
LEMMA RunsQuietly ==
    ASSUME NEW wk \in WorkerRecord, NEW new \in WorkerRecord,
           NEW p \in ProcessRecord, NEW np \in ProcessRecord,
           NEW r \in Requests \cup {NoReq}, wk.open, Runs(wk, p, new, np)
    PROVE  /\ ~(Rested(wk, p) /\ p.at = "loop")
           /\ Reading(r, wk, p) /\ QuietAsked(r, wk, p) => QuietAsked(r, new, np)
           /\ Replied(wk, p) /\ QuietReplied(wk, p) => QuietReplied(new, np)
<1>0. /\ READY \in Frame /\ NOISE \in Frame /\ RESPONSE(r) \in Frame
      /\ REQUEST(r) \in Frame /\ REQUEST(r).type = "REQUEST"
      /\ RESPONSE(r).type = "RESPONSE" /\ READY.type = "READY" /\ NOISE.type = "NOISE"
  BY FrameFacts DEF REQUEST, RESPONSE, Msg, Frame
<1>1. ASSUME NoRequest(wk), p.at = "loop" PROVE FALSE
  BY <1>1
  DEF NoRequest, Runs, ReadsStop, ReadsRequest, Answers, SaysReady, Leaves
<1>2. ASSUME Reading(r, wk, p), QuietAsked(r, wk, p) PROVE QuietAsked(r, new, np)
  <2>1. CASE wk.stdin # <<>> /\ wk.stdout = <<>> /\ p.at = "loop"
    <3>1. ~Answered(r, wk, p) /\ ~Spoilt(wk)
      BY <1>0, <2>1, ShortPipes DEF Answered, Spoilt
    <3>2. wk.stdin = <<REQUEST(r)>>
      BY <1>2, <2>1, <3>1 DEF Reading, Asked, Handling, Dead
    <3>3. Head(wk.stdin) = REQUEST(r) /\ Tail(wk.stdin) = <<>>
      BY <1>0, <3>2, ShortPipes
    <3>4. ReadsRequest(wk, p, new, np)
      BY <1>0, <2>1, <3>3 DEF Runs, ReadsStop, Answers, SaysReady, Leaves
    <3>5. QED
      BY <2>1, <3>3, <3>4 DEF ReadsRequest, QuietAsked
  <2>2. CASE wk.stdin = <<>> /\ wk.stdout = <<>> /\ p.at = "handling"
    <3>1. ~Answered(r, wk, p) /\ ~Spoilt(wk)
      BY <1>0, <2>2, ShortPipes DEF Answered, Spoilt
    <3>2. p.req = r
      BY <1>2, <2>2, <3>1 DEF Reading, Asked, Handling, Dead
    <3>3. Answers(wk, p, new, np)
      BY <2>2 DEF Runs, ReadsStop, ReadsRequest, SaysReady, Leaves
    <3>4. new.stdout = <<RESPONSE(r)>> /\ np.at = "after"
      BY <1>0, <2>2, <3>2, <3>3, ShortPipes DEF Answers
    <3>5. QED
      BY <3>4 DEF QuietAsked
  <2>3. CASE wk.stdout = <<RESPONSE(r)>> /\ p.at \in {"after", "exited"}
    <3>1. CASE SaysReady(wk, p, new, np)
      <4>1. new.stdout = <<RESPONSE(r), READY>> /\ np.at = "loop"
        BY ZenonT(40), <1>0, <2>3, <3>1, ShortPipes DEF SaysReady
      <4>2. QED
        BY <4>1 DEF QuietAsked
    <3>2. CASE Leaves(wk, p, new, np)
      BY <2>3, <3>2 DEF Leaves, EndsNow, SamePipes, QuietAsked
    <3>3. QED
      BY <2>3, <3>1, <3>2 DEF Runs, ReadsStop, ReadsRequest, Answers
  <2>4. CASE wk.stdout = <<RESPONSE(r), READY>> /\ p.at = "loop"
    <3>1. /\ Head(wk.stdout) = RESPONSE(r) /\ wk.stdout # <<>>
          /\ wk.stdout[2] = READY
      BY <1>0, <2>4, ShortPipes
    <3>2. ~Asked(r, wk, p) /\ ~Handling(r, wk, p) /\ ~Spoilt(wk)
      BY <1>0, <3>1 DEF Asked, Handling, Spoilt
    <3>3. NoRequest(wk)
      BY <1>0, <1>2, <3>1, <3>2 DEF Reading, Answered
    <3>4. QED
      BY <1>1, <2>4, <3>3
  <2>5. QED
    BY <1>2, <2>1, <2>2, <2>3, <2>4 DEF QuietAsked
<1>3. ASSUME Replied(wk, p), QuietReplied(wk, p) PROVE QuietReplied(new, np)
  <2>1. CASE wk.stdout = <<>> /\ p.at \in {"after", "exited"}
    <3>1. CASE SaysReady(wk, p, new, np)
      <4>1. new.stdout = <<READY>> /\ np.at = "loop"
        BY <1>0, <2>1, <3>1, ShortPipes DEF SaysReady
      <4>2. QED
        BY <4>1 DEF QuietReplied
    <3>2. CASE Leaves(wk, p, new, np)
      BY <2>1, <3>2 DEF Leaves, EndsNow, SamePipes, QuietReplied
    <3>3. QED
      BY <2>1, <3>1, <3>2 DEF Runs, ReadsStop, ReadsRequest, Answers
  <2>2. CASE wk.stdout = <<READY>> /\ p.at = "loop"
    <3>1. Head(wk.stdout) = READY
      BY <1>0, <2>2, ShortPipes
    <3>2. NoRequest(wk)
      BY <1>0, <1>3, <3>1 DEF Replied, Spoilt
    <3>3. QED
      BY <1>1, <2>2, <3>2
  <2>3. QED
    BY <1>3, <2>1, <2>2 DEF QuietReplied
<1>4. QED
  BY <1>1, <1>2, <1>3 DEF Rested

\* Once disturbed, always disturbed.
LEMMA DisturbedStays ==
    ASSUME TypeOK, [Next]_vars, Undisturbed'
    PROVE  Undisturbed
<1> USE DEF poolVars, callVars, processVars, controlVars
<1>0. /\ faults \in Nat /\ reload.n \in Nat
      /\ reload \in [n : 0 .. MaxReloads, active : BOOLEAN,
                     old : SUBSET Worker, new : SUBSET Worker]
  BY SMTT(40), Scenario DEF TypeOK
<1>1. faults' = faults \/ faults' = faults + 1
  BY ZenonT(40) DEF Next, vars, Exec, Take, GiveUp, TakeNil, Receive, Timeout, Abandon,
         AwaitReady, PutBack, WorkerExec, RunWrite, RunRead, PHP, PHPRead,
         PHPRespond, PHPNext, Fault, RoutineStep, SendStop, StopReturns,
         RemoveWorker, SpawnReplacement, Register, BootHangs, BootFails, Spawn,
         SpawnFails, Send, Tick,
         Watchdog, HealthCheck, Decide, ScaleUp, ScaleDown, WatchdogExit,
         ReloadBegin, ReloadSpawn, ReloadReturn, DrainNext, Cancel,
         StopWorkers, CloseQueue
<1>2. stopping' = stopping \/ stopping' # "no"
  BY ZenonT(40) DEF Next, vars, Exec, Take, GiveUp, TakeNil, Receive, Timeout, Abandon,
         AwaitReady, PutBack, WorkerExec, RunWrite, RunRead, PHP, PHPRead,
         PHPRespond, PHPNext, Fault, RoutineStep, SendStop, StopReturns,
         RemoveWorker, SpawnReplacement, Register, BootHangs, BootFails, Send,
         Tick, Watchdog, HealthCheck,
         Decide, ScaleUp, ScaleDown, WatchdogExit, ReloadBegin, ReloadSpawn,
         ReloadReturn, DrainNext, Cancel, StopWorkers, CloseQueue
<1>3. reload'.n = reload.n \/ reload'.n = reload.n + 1
  <2>1. ASSUME \/ UNCHANGED vars
               \/ \E r \in Requests : Exec(r) \/ WorkerExec(r)
               \/ \E w \in Worker : PHP(w) \/ Fault(w) \/ BootHangs(w)
               \/ \E g \in routines : RoutineStep(g) /\ ~Register(g)
               \/ Tick \/ Watchdog
               \/ \E k \in 1 .. MaxReloads : DrainNext(k)
               \/ Cancel \/ StopWorkers \/ CloseQueue
        PROVE  reload' = reload
    BY ZenonT(40), <2>1
    DEF vars, Exec, Take, GiveUp, TakeNil, Receive, Timeout, Abandon,
        AwaitReady, PutBack, WorkerExec, RunWrite, RunRead, PHP, PHPRead,
        PHPRespond, PHPNext, Fault, RoutineStep, SendStop, StopReturns,
        RemoveWorker, SpawnReplacement, BootHangs, Send, Tick, Watchdog,
        HealthCheck, Decide, ScaleUp, ScaleDown, WatchdogExit, DrainNext, Cancel,
        StopWorkers, CloseQueue
  <2>2. CASE ReloadBegin
    BY <2>2 DEF ReloadBegin
  <2>3. CASE ReloadSpawn \/ ReloadReturn
    BY <1>0, <2>3 DEF ReloadSpawn, ReloadReturn, ReloadEnds
  <2>4. CASE \E g \in routines : Register(g) \/ BootFails(g)
    BY <1>0, <2>4 DEF Register, BootFails, ReloadEnds
  <2>5. QED
    BY <2>1, <2>2, <2>3, <2>4 DEF Next
<1>4. QED
  BY <1>0, <1>1, <1>2, <1>3 DEF Undisturbed

\* What can happen to a pool that stays undisturbed.
LEMMA UndisturbedSteps ==
    ASSUME IndInv, QuietPool, Undisturbed, [Next]_vars, Undisturbed'
    PROVE  /\ \/ UNCHANGED vars
              \/ \E r \in Requests :
                    \/ Take(r) \/ GiveUp(r) \/ Receive(r) \/ Timeout(r)
                    \/ AwaitReady(r) \/ PutBack(r) \/ RunWrite(r) \/ RunRead(r)
              \/ \E w \in Worker : PHP(w)
              \/ \E g \in routines :
                    \/ SendStop(g) \/ StopReturns(g) \/ RemoveWorker(g)
                    \/ (SpawnReplacement(g) /\ Spawn({g}, "replace"))
                    \/ Register(g) \/ Send(g)
              \/ Tick \/ HealthCheck \/ Decide \/ ScaleDown
              \/ ScaleUp /\ Spawn({}, "scaleUp")
           /\ ~closed /\ ~cancelled
<1> USE DEF poolVars, callVars, processVars, controlVars
<1>0. /\ faults = 0 /\ reload.n = 0 /\ stopping = "no" /\ faults' = 0 /\ reload'.n = 0
      /\ stopping' = "no" /\ ~closed /\ ~cancelled
      /\ ~reload.active /\ \A k \in 1 .. MaxReloads : draining[k].left = {}
  BY DEF Undisturbed, QuietPool, IndInv, Shutdown
<1>1. /\ ~\E w \in Worker : Fault(w) \/ BootHangs(w)
      /\ ~\E g \in routines : BootFails(g)
  BY <1>0 DEF Fault, BootHangs, BootFails
<1>2. \A G : ~SpawnFails(G)
  BY <1>0 DEF SpawnFails
<1>3. ~ReloadBegin /\ ~ReloadSpawn /\ ~ReloadReturn /\ ~Cancel /\ ~StopWorkers
      /\ ~CloseQueue /\ ~WatchdogExit
  BY <1>0
  DEF ReloadBegin, ReloadSpawn, ReloadReturn, Cancel, StopWorkers, CloseQueue,
      WatchdogExit
<1>4. ~\E k \in 1 .. MaxReloads : DrainNext(k)
  BY <1>0 DEF DrainNext
<1>5. ~\E r \in Requests : TakeNil(r) \/ Abandon(r)
  BY <1>0 DEF TakeNil, Abandon
<1>6. \A g \in routines : SpawnReplacement(g) => Spawn({g}, "replace")
  BY <1>2 DEF SpawnReplacement
<1>7. ScaleUp => Spawn({}, "scaleUp")
  BY <1>2 DEF ScaleUp
<1>8. QED
  BY <1>0, <1>1, <1>3, <1>4, <1>5, <1>6, <1>7
  DEF Next, Exec, WorkerExec, RoutineStep, Watchdog

\* A worker comes into circulation when NewWorker returns it.
LEMMA CirculatingBefore ==
    ASSUME TypeOK, CallState, Fresh, [Next]_vars, NEW w \in Worker, Circulating(w)'
    PROVE  Circulating(w) \/ \E g \in routines' : Creates(g) /\ g.w = w
<1>1. Holds(w) \/ ~Holds(w)' \/ \E r \in Requests : Takes(r, w)
  BY HandOver
  DEF Holds, Stays, SameHeld, Takes, Drops, Puts, Creates, Queues, Scales, Others,
      Worker, NoWorker
<1>2. Queued(w) \/ ~Queued(w)' \/ Holds(w) \/ Sending(w)
  BY HandOver, SendingDef
  DEF Queued, Holds, Stays, Takes, Drops, Puts, Creates, Queues, Scales, Added,
      Removed
<1>3. Sending(w) \/ ~Sending(w)' \/ \E g \in routines' : Creates(g) /\ g.w = w
  BY HandOver, SendingDef
  DEF Stays, Takes, Drops, Puts, Creates, Queues, Scales
<1>4. \A r \in Requests : Takes(r, w) => Queued(w)
  BY DEF Takes, Removed, Queued
<1>5. QED
  BY <1>1, <1>2, <1>3, <1>4 DEF Circulating

\* A worker that its caller gave up, or that autoScale took out, is out of
\* circulation.
LEMMA OutOfCirculation ==
    ASSUME TypeOK, CallState, Custody, NEW w \in Worker
    PROVE  /\ \A r \in Requests : Drops(r) /\ call[r].held = w => ~Circulating(w)'
           /\ Scales(w) => ~Circulating(w)'
<1>1. ASSUME NEW r \in Requests, Drops(r), call[r].held = w PROVE ~Circulating(w)'
  <2>1. Holds(w) /\ w # NoWorker
    BY <1>1 DEF Holds, Worker, NoWorker
  <2>2. ~Queued(w) /\ ~Sending(w)
    BY <2>1 DEF Custody
  <2>3. ~Queued(w)' /\ ~Sending(w)'
    BY <1>1, <2>2, SendingDef DEF Drops, Queued
  <2>4. ~Holds(w)'
    BY <1>1, <2>1 DEF Drops, Others, Holds, Custody
  <2>5. QED
    BY <2>3, <2>4 DEF Circulating
<1>2. ASSUME Scales(w) PROVE ~Circulating(w)'
  <2>1. Queued(w) /\ ~Queued(w)'
    BY <1>2 DEF Scales, Removed, Queued, Custody
  <2>2. ~Holds(w) /\ ~Sending(w)
    BY <2>1 DEF Custody
  <2>3. ~Holds(w)' /\ ~Sending(w)'
    BY <1>2, <2>2, SendingDef DEF Scales, Holds
  <2>4. QED
    BY <2>1, <2>3 DEF Circulating
<1>3. QED
  BY <1>1, <1>2

\* Only Worker.Stop closes stdin and calls cmd.Wait.
LEMMA FlagsStay ==
    ASSUME TypeOK, CallState, [Next]_vars, NEW w \in Worker
    PROVE  \/ worker'[w].open = worker[w].open /\ worker'[w].waiting = worker[w].waiting
           \/ \E g \in routines : SendStop(g) /\ g.w = w
<1> USE DEF poolVars, callVars, processVars, controlVars
<1>0. worker \in [Worker -> WorkerRecord] /\ worker[w] \in WorkerRecord
  BY DEF TypeOK
<1>1. ASSUME \/ UNCHANGED vars
             \/ \E r \in Requests : Exec(r) /\ ~AwaitReady(r)
             \/ \E g \in routines : (RoutineStep(g) /\ ~SendStop(g)) \/ BootFails(g)
             \/ Tick \/ Watchdog
             \/ ReloadBegin \/ ReloadSpawn \/ ReloadReturn
             \/ \E k \in 1 .. MaxReloads : DrainNext(k)
             \/ Cancel \/ StopWorkers \/ CloseQueue
      PROVE  worker' = worker
  BY <1>1
  DEF vars, Exec, Take, GiveUp, TakeNil, Receive, Timeout, Abandon, PutBack,
      RoutineStep, StopReturns, RemoveWorker, SpawnReplacement, Spawn, Register,
      BootFails,
      SpawnFails, Send, Tick, Watchdog, HealthCheck, Decide, ScaleUp, ScaleDown,
      WatchdogExit, ReloadBegin, ReloadSpawn, ReloadReturn, DrainNext, Cancel,
      StopWorkers, CloseQueue
<1>2. ASSUME NEW r \in Requests, AwaitReady(r)
      PROVE  worker'[w].open = worker[w].open /\ worker'[w].waiting = worker[w].waiting
  <2>1. worker' = AfterRead(call[r].held)
    BY <1>2 DEF AwaitReady
  <2>2. QED
    BY <1>0, <2>1 DEF AfterRead, WorkerRecord
<1>3. ASSUME NEW r \in Requests, RunWrite(r) \/ RunRead(r)
      PROVE  worker'[w].open = worker[w].open /\ worker'[w].waiting = worker[w].waiting
  <2>1. CASE RunWrite(r) /\ worker[run[r].on].open /\ Alive(run[r].on)
    BY <2>1, WriteFacts
  <2>2. QED
    BY <1>3, <2>1, RunEnds
<1>4. ASSUME NEW v \in Worker, PHP(v) \/ Fault(v) \/ BootHangs(v)
      PROVE  worker'[w].open = worker[w].open /\ worker'[w].waiting = worker[w].waiting
  <2>1. \/ worker' = worker
        \/ worker' = [worker EXCEPT ![v].stdin = Tail(@)]
        \/ \E f : worker' = [worker EXCEPT ![v].stdout = Append(@, f)]
    BY <1>4 DEF PHP, PHPRead, PHPRespond, PHPNext, Fault, BootHangs
  <2>2. QED
    BY <1>0, <2>1 DEF WorkerRecord
<1>5. ASSUME NEW g \in routines, SendStop(g), g.w # w
      PROVE  worker'[w] = worker[w]
  BY <1>0, <1>5 DEF SendStop
<1>6. QED
  BY <1>1, <1>2, <1>3, <1>4, <1>5 DEF Next, WorkerExec, RoutineStep

\* In a pool that stays undisturbed, every goroutine that stops a worker has one
\* that is out of circulation.
LEMMA QuietRoutines ==
    ASSUME IndInv, IndInv', QuietPool, Undisturbed, [Next]_vars, Undisturbed',
           NEW h \in routines'
    PROVE  /\ h.job \in {"replace", "scaleUp", "scaleDown"}
           /\ h.at # "send" => ~Circulating(h.w)'
<1> USE DEF poolVars, callVars, processVars, controlVars
<1>0. TypeOK /\ CallState /\ Fresh /\ Custody
  BY DEF IndInv
<1>b. h.at = "boot" => ~Circulating(h.w)'
  <2>1. h.w \in Worker /\ (h.at = "boot" => Booting(h.w)')
    BY RoutineFields DEF IndInv, TypeOK, Starts
  <2>2. h.at = "boot" => h.w \notin Spawned' /\ h.w # NoWorker
    BY <2>1 DEF Booting, Spawned, Created, Worker, NoWorker
  <2>3. /\ Fresh'
        /\ Range(available') \subseteq Spawned'
        /\ \A r \in Requests : call'[r].held \in Spawned' \cup {NoWorker}
        /\ \A g \in routines' : g.at = "boot" \/ g.w \in Spawned'
    BY DEF IndInv, Fresh
  <2>4. QED
    BY <2>2, <2>3 DEF Circulating, Queued, Holds, Sending
<1>1. ASSUME NEW g \in routines, g.w = h.w, g.job = h.job,
             h.at \notin {"send", "boot"} => g.at \notin {"send", "boot"}
      PROVE  /\ h.job \in {"replace", "scaleUp", "scaleDown"}
             /\ h.at # "send" => ~Circulating(h.w)'
  <2>1. /\ g.w \in Worker
        /\ g.at # "boot" => ~\E c \in routines' : Creates(c) /\ c.w = g.w
    BY <1>0, NewIsFresh, RoutineFields DEF TypeOK
  <2>2. g.at # "send" => ~Circulating(g.w)
    BY DEF QuietPool
  <2>3. QED
    BY <1>0, <1>b, <1>1, <2>1, <2>2, CirculatingBefore DEF QuietPool
<1>2. ASSUME NEW w \in Worker, GoReplace(w), ~Circulating(w)'
      PROVE  /\ h.job \in {"replace", "scaleUp", "scaleDown"}
             /\ h.at # "send" => ~Circulating(h.w)'
  <2>1. h \in routines \/ (h.job = "replace" /\ h.w = w)
    BY SMTT(40), <1>2, ReplaceFacts
  <2>2. QED
    BY <1>1, <1>2, <2>1
<1>3. ASSUME \/ UNCHANGED vars
             \/ \E r \in Requests : \/ Take(r) \/ GiveUp(r) \/ PutBack(r)
                                    \/ RunWrite(r) \/ RunRead(r)
             \/ \E w \in Worker : PHP(w)
             \/ Tick \/ Decide
      PROVE  h \in routines
  BY ZenonT(40), <1>3
  DEF vars, Take, GiveUp, PutBack, RunWrite, RunRead, PHP, PHPRead, PHPRespond,
      PHPNext, Tick, Decide
<1>4. ASSUME NEW r \in Requests, Receive(r) \/ Timeout(r) \/ AwaitReady(r)
      PROVE  /\ h.job \in {"replace", "scaleUp", "scaleDown"}
             /\ h.at # "send" => ~Circulating(h.w)'
  <2>1. CASE routines' = routines
    BY <1>1, <2>1
  <2>2. CASE routines' # routines
    <3>1. /\ GoReplace(call[r].held) /\ (\E why : Return(r, why))
          /\ available' = available /\ php' = php /\ run' = run
          /\ call[r].at \in Holding
      BY <1>4, <2>2 DEF Receive, Timeout, AwaitReady, Holding
    <3>2. call[r].held \in Worker
      BY <1>0, <3>1, HasWorker
    <3>3. Sends' = Sends
      BY <3>1, <3>2, StopperSendsNot
    <3>4. Drops(r)
      BY <1>0, <3>1, <3>3, ReturnFacts DEF Drops, Spawned, Created
    <3>5. PICK w \in Worker : w = call[r].held
      BY <3>2
    <3>6. ~Circulating(w)'
      BY <1>0, <3>4, <3>5, OutOfCirculation
    <3>7. QED
      BY <1>2, <3>1, <3>5, <3>6
  <2>3. QED
    BY <2>1, <2>2
<1>5. ASSUME NEW g \in routines, SendStop(g) \/ StopReturns(g) \/ RemoveWorker(g)
                                 \/ Send(g)
      PROVE  /\ h.job \in {"replace", "scaleUp", "scaleDown"}
             /\ h.at # "send" => ~Circulating(h.w)'
  <2>1. \/ h \in routines
        \/ g.at \notin {"send", "boot"} /\ \E a \in Stage : h = At(g, a)
    BY <1>5 DEF SendStop, StopReturns, RemoveWorker, Send, Become, Stage
  <2>2. QED
    BY <1>0, <1>1, <2>1, RoutineFields DEF TypeOK
<1>6. ASSUME NEW G, NEW j \in {"replace", "scaleUp"}, Spawn(G, j)
      PROVE  /\ h.job \in {"replace", "scaleUp", "scaleDown"}
             /\ h.at # "send" => ~Circulating(h.w)'
  <2>1. h \in routines \/ \E w : h = Starter(j, w)
    BY <1>6 DEF Spawn
  <2>2. QED
    BY <1>b, <1>1, <2>1, RoutineFields
<1>7. CASE HealthCheck
  <2>1. CASE routines' = routines
    BY <1>1, <2>1
  <2>2. CASE routines' # routines
    <3>1. PICK w \in watchdog.toCheck : ~IsAlive(w) /\ GoReplace(w)
      BY <1>7, <2>2 DEF HealthCheck
    <3>2. w \in Worker /\ worker[w].waiting
      BY <1>0, <3>1 DEF TypeOK, IsAlive, Reaped
    <3>3. ~Circulating(w)
      BY <3>2 DEF QuietPool
    <3>4. Sends' = Sends /\ available' = available /\ call' = call
      BY <1>7, <3>1, <3>2, StopperSendsNot DEF HealthCheck
    <3>5. ~Circulating(w)'
      BY <3>3, <3>4, SendingDef DEF Circulating, Queued, Holds
    <3>6. QED
      BY <1>2, <3>1, <3>2, <3>5
  <2>3. QED
    BY <2>1, <2>2
<1>8. CASE ScaleDown
  <2>1. CASE routines' = routines
    BY <1>1, <2>1
  <2>2. CASE routines' # routines
    <3>1. /\ available # <<>> /\ available' = Tail(available)
          /\ routines' = routines \cup {Stopper("scaleDown", 0, Head(available))}
          /\ php' = php /\ call' = call /\ run' = run
      BY <1>8, <2>2 DEF ScaleDown
    <3>2. available \in Seq(Worker)
      BY <1>0 DEF TypeOK
    <3>3. PICK w \in Worker : w = Head(available)
      BY <3>1, <3>2, TailFacts
    <3>4. Removed(w)
      BY <3>1, <3>2, <3>3, RangeTail DEF Removed
    <3>5. Sends' = Sends
      BY <3>1, StopperSendsNot
    <3>6. ~Circulating(w)'
      BY <1>0, <3>1, <3>4, <3>5, OutOfCirculation DEF Scales, Spawned, Created
    <3>7. h \in routines \/ (h.job = "scaleDown" /\ h.w = w)
      BY <3>1, <3>3, RoutineFields
    <3>8. QED
      BY <1>1, <3>6, <3>7
  <2>3. QED
    BY <2>1, <2>2
<1>9. ASSUME NEW g \in routines, Register(g)
      PROVE  /\ h.job \in {"replace", "scaleUp", "scaleDown"}
             /\ h.at # "send" => ~Circulating(h.w)'
  <2>1. h \in routines \/ h = At(g, "send")
    BY <1>9 DEF Register, Become
  <2>2. g \in Routine /\ "send" \in Stage
    BY <1>0 DEF TypeOK, Stage
  <2>3. QED
    BY <1>1, <2>1, <2>2, RoutineFields
<1>10. QED
  BY <1>1, <1>3, <1>4, <1>5, <1>6, <1>7, <1>8, <1>9, UndisturbedSteps

\* In a pool that stays undisturbed, no worker in circulation is told to stop.
LEMMA QuietFlags ==
    ASSUME IndInv, QuietPool, [Next]_vars, NEW w \in Worker, Circulating(w)'
    PROVE  worker'[w].open /\ ~worker'[w].waiting
<1>0. TypeOK /\ CallState /\ Fresh
  BY DEF IndInv
<1>1. CASE Circulating(w)
  <2>1. worker[w].open /\ ~worker[w].waiting
    BY ZenonT(40), <1>1 DEF QuietPool
  <2>2. ~\E g \in routines : SendStop(g) /\ g.w = w
    BY ZenonT(40), <1>1 DEF QuietPool, SendStop
  <2>3. QED
    BY <1>0, <2>1, <2>2, FlagsStay
<1>2. ASSUME NEW g, Creates(g), g.w = w PROVE worker'[w].open /\ ~worker'[w].waiting
  <2>1. worker'[w] = NewWorker
    BY <1>0, <1>2, NewIsFresh DEF Creates
  <2>2. QED
    BY <2>1 DEF NewWorker
<1>3. QED
  BY <1>0, <1>1, <1>2, CirculatingBefore

\* In a pool that stays undisturbed, no call of Exec fails.
LEMMA QuietReplies ==
    ASSUME IndInv, QuietPool, Undisturbed, [Next]_vars, Undisturbed',
           NEW r \in Requests
    PROVE  call'[r].reply # "failed"
<1> USE DEF poolVars, callVars, processVars, controlVars
<1>0. TypeOK /\ CallState /\ call[r].reply # "failed"
  BY DEF IndInv, QuietPool
<1>1. ASSUME \/ UNCHANGED vars
             \/ \E q \in Requests : RunWrite(q) \/ RunRead(q)
             \/ \E w \in Worker : PHP(w)
             \/ \E g \in routines : \/ SendStop(g) \/ StopReturns(g)
                                    \/ RemoveWorker(g) \/ SpawnReplacement(g)
                                    \/ Register(g) \/ Send(g)
             \/ Tick \/ HealthCheck \/ Decide \/ ScaleDown \/ ScaleUp
      PROVE  call' = call
  BY ZenonT(40), <1>1
  DEF vars, RunWrite, RunRead, PHP, PHPRead, PHPRespond, PHPNext, SendStop,
      StopReturns, RemoveWorker, SpawnReplacement, Register, Send, Tick,
      HealthCheck, Decide, ScaleDown, ScaleUp
<1>2. ASSUME NEW q \in Requests, Take(q) \/ GiveUp(q)
      PROVE  call'[r].reply # "failed"
  <2>1. CASE Take(q)
    BY <1>0, <2>1, TakeFacts DEF Others
  <2>2. CASE GiveUp(q)
    <3>1. PICK why \in {"exhausted", "shutdown"} :
             call' = [call EXCEPT ![q].at = "done", ![q].reply = why]
      BY <2>2 DEF GiveUp
    <3>2. QED
      BY <1>0, <3>1 DEF TypeOK, CallRecord
  <2>3. QED
    BY <1>2, <2>1, <2>2
<1>3. ASSUME NEW q \in Requests, NEW why, why # "failed", Return(q, why), run' = run
      PROVE  call'[r].reply # "failed"
  BY <1>0, <1>3, ReturnFacts DEF Others
<1>4. ASSUME NEW q \in Requests, NEW a, call' = [call EXCEPT ![q].at = a], run' = run
      PROVE  call'[r].reply # "failed"
  BY <1>0, <1>4, AdvanceFacts DEF Others
<1>5. ASSUME NEW q \in Requests, Receive(q)
      PROVE  call'[r].reply # "failed"
  <2>1. call[q].held \in Worker /\ run[q].at = "ended"
    BY <1>0, <1>5, HasWorker DEF Receive, Holding
  <2>2. run[q].result # Error
    BY <2>1 DEF QuietPool, Calm
  <2>3. Return(q, "ok") \/ call' = [call EXCEPT ![q].at = "ready"]
    BY <1>5, <2>2 DEF Receive
  <2>4. run' = run
    BY <1>5 DEF Receive
  <2>5. QED
    BY <1>3, <1>4, <2>3, <2>4
<1>6. ASSUME NEW q \in Requests, Timeout(q) \/ AwaitReady(q) \/ PutBack(q)
      PROVE  call'[r].reply # "failed"
  <2>1. run' = run /\ \/ Return(q, "ok") \/ Return(q, "timeout") \/ Return(q, "panic")
                      \/ call' = [call EXCEPT ![q].at = "put"]
    BY <1>6 DEF Timeout, AwaitReady, PutBack
  <2>2. QED
    BY <1>3, <1>4, <2>1
<1>7. QED
  BY ZenonT(40), <1>0, <1>1, <1>2, <1>5, <1>6, UndisturbedSteps

\* The workers in circulation are ready for a request, or serve one.
QuietWorkers ==
    /\ \A w \in Worker : Queued(w) \/ Sending(w) => php[w].at = "loop"
    /\ \A r \in Requests, w \in Worker : call[r].held = w => Calm(r, w)

\* QuietWorkers, after a step.
LEMMA QuietWorkersDef ==
    QuietWorkers' <=>
        /\ \A w \in Worker : Queued(w)' \/ Sending(w)' => php'[w].at = "loop"
        /\ \A r \in Requests, w \in Worker : call'[r].held = w => Calm(r, w)'
  BY DEF QuietWorkers

\* Workers change hands, and nothing happens to them.
LEMMA QuietHandOver ==
    ASSUME TypeOK, CallState, Fresh, QuietPool, [Next]_vars,
           worker' = worker, php' = php, ~\E g \in routines' : Creates(g),
           ~\E r \in Requests : RunWrite(r) \/ RunRead(r) \/ AwaitReady(r)
    PROVE  QuietWorkers'
<1>1. ASSUME NEW w \in Worker, Queued(w)' \/ Sending(w)'
      PROVE  php'[w].at = "loop"
  <2>1. ASSUME NEW r \in Requests, call[r].at = "put", call[r].held = w
        PROVE  php[w].at = "loop"
    BY <2>1 DEF QuietPool, Calm
  <2>2. \/ Queued(w) \/ Sending(w)
        \/ \E r \in Requests : call[r].at = "put" /\ call[r].held = w
    BY <1>1, HandOver, SendingDef
    DEF Stays, Takes, Drops, Puts, Queues, Scales, Added, Removed, Queued
  <2>3. QED
    BY <2>1, <2>2 DEF QuietPool
<1>2. ASSUME NEW r \in Requests, NEW w \in Worker, call'[r].held = w
      PROVE  Calm(r, w)'
  <2>1. CASE Continues(r)
    <3>1. Calm(r, w) /\ run'[r] = run[r] /\ (call'[r].at = "put" <=> call[r].at = "put")
      BY <1>2, <2>1 DEF Continues, QuietPool, Worker, NoWorker
    <3>2. QED
      BY <3>1 DEF Calm
  <2>2. CASE Take(r)
    <3>1. PICK v \in Worker : /\ Removed(v) /\ call'[r].at = "exec"
                              /\ call'[r].held = v /\ run'[r].at = "write"
      BY <2>2, TakeFacts
    <3>2. Queued(w)
      BY <1>2, <3>1 DEF Removed, Queued
    <3>3. php[w].at = "loop"
      BY <3>2 DEF QuietPool
    <3>4. QED
      BY <3>1, <3>3 DEF Calm
  <2>3. QED
    BY <2>1, <2>2, CallsContinue
<1>3. QED
  BY <1>1, <1>2, QuietWorkersDef

\* Something happens to one worker, and no worker changes hands.
LEMMA QuietTouch ==
    ASSUME QuietPool, NEW v \in Worker, Touches(v),
           available' = available, Sends' = Sends, call' = call, run' = run,
           Queued(v) \/ Sending(v) => php'[v].at = "loop",
           \A r \in Requests : call[r].held = v => Calm(r, v)'
    PROVE  QuietWorkers'
<1>1. ASSUME NEW w \in Worker, Queued(w)' \/ Sending(w)'
      PROVE  php'[w].at = "loop"
  <2>1. Queued(w) \/ Sending(w)
    BY <1>1, SendingDef DEF Queued
  <2>2. QED
    BY <2>1 DEF QuietPool, Touches
<1>2. ASSUME NEW r \in Requests, NEW w \in Worker, call'[r].held = w
      PROVE  Calm(r, w)'
  <2>1. CASE w = v
    BY <1>2, <2>1
  <2>2. CASE w # v
    <3>1. Calm(r, w) /\ worker'[w] = worker[w] /\ php'[w] = php[w]
      BY <1>2, <2>2 DEF QuietPool, Touches
    <3>2. QED
      BY <3>1 DEF Calm
  <2>3. QED
    BY <2>1, <2>2
<1>3. QED
  BY <1>1, <1>2, QuietWorkersDef

\* A process goes on.
LEMMA QuietProcess ==
    ASSUME IndInv, TypeOK', QuietPool, NEW v \in Worker, PHP(v)
    PROVE  QuietWorkers'
<1>0. /\ available' = available /\ Sends' = Sends /\ call' = call /\ run' = run
  BY DEF PHP, PHPRead, PHPRespond, PHPNext, poolVars, callVars, Sends
<1>1. Touches(v) /\ Runs(worker[v], php[v], worker'[v], php'[v])
  BY ProcessRuns DEF IndInv
<1>2. /\ worker[v] \in WorkerRecord /\ worker'[v] \in WorkerRecord
      /\ php[v] \in ProcessRecord /\ php'[v] \in ProcessRecord
  BY DEF IndInv, TypeOK
<1>3. ASSUME Circulating(v), NEW r \in Requests \cup {NoReq}
      PROVE  /\ ~(Rested(worker[v], php[v]) /\ php[v].at = "loop")
             /\ Reading(r, worker[v], php[v]) /\ QuietAsked(r, worker[v], php[v])
                   => QuietAsked(r, worker'[v], php'[v])
             /\ Replied(worker[v], php[v]) /\ QuietReplied(worker[v], php[v])
                   => QuietReplied(worker'[v], php'[v])
  <2>1. worker[v].open
    BY <1>3 DEF QuietPool
  <2>2. QED
    BY <1>1, <1>2, <2>1, RunsQuietly
<1>4. ~(Queued(v) \/ Sending(v))
  <2>1. ASSUME Queued(v) \/ Sending(v) PROVE FALSE
    <3>1. Rested(worker[v], php[v]) /\ php[v].at = "loop" /\ Circulating(v)
      BY <2>1 DEF IndInv, Protocol, QuietPool, Circulating
    <3>2. QED
      BY <1>3, <3>1
  <2>2. QED
    BY <2>1
<1>5. ASSUME NEW r \in Requests, call[r].held = v PROVE Calm(r, v)'
  <2>1. Circulating(v) /\ InStepWith(r, v) /\ Calm(r, v)
    BY <1>5, ProtocolDef DEF Circulating, Holds, IndInv, QuietPool
  <2>2. ~(call[r].at = "put" \/ run[r].at = "write")
    BY <1>3, <2>1 DEF InStepWith, Calm
  <2>3. run[r].at = "read" => QuietAsked(r, worker'[v], php'[v])
    BY <1>3, <2>1 DEF InStepWith, Calm
  <2>4. run[r].at = "ended" => /\ run[r].result # Error
                               /\ QuietReplied(worker'[v], php'[v])
    BY <1>3, <2>1, <2>2 DEF InStepWith, Calm
  <2>5. QED
    BY <1>0, <2>2, <2>3, <2>4 DEF Calm
<1>6. QED
  BY <1>0, <1>1, <1>4, <1>5, QuietTouch

\* Worker.Stop stops a worker that is out of circulation.
LEMMA QuietStop ==
    ASSUME IndInv, QuietPool, NEW g \in routines, SendStop(g) \/ StopReturns(g)
    PROVE  QuietWorkers'
<1>1. g.w \in Worker /\ g.at # "send"
  BY RoutineFields DEF IndInv, TypeOK, SendStop, StopReturns
<1>2. ~Circulating(g.w)
  BY <1>1 DEF QuietPool
<1>3. Touches(g.w) /\ Sends' = Sends
  BY <1>1, StopProgress DEF IndInv, Touches
<1>4. available' = available /\ call' = call /\ run' = run
  BY DEF SendStop, StopReturns, poolVars, callVars
<1>5. QED
  BY <1>1, <1>2, <1>3, <1>4, QuietTouch DEF Circulating, Holds

\* Nobody has the worker of a process that starts.
LEMMA QuietStartsUp ==
    ASSUME IndInv, QuietPool, NEW v \in Worker, StartsUp(v)
    PROVE  QuietWorkers'
<1>1. v \notin Spawned /\ v # NoWorker
  BY DEF StartsUp, Worker, NoWorker
<1>2. ~Queued(v) /\ ~Sending(v) /\ \A r \in Requests : call[r].held # v
  BY <1>1 DEF IndInv, Fresh, Queued, Sending
<1>3. QED
  BY <1>2, QuietTouch DEF StartsUp

\* A new process waits for its first request.
LEMMA QuietSpawn ==
    ASSUME IndInv, QuietPool, NEW g, Creates(g)
    PROVE  QuietWorkers'
<1>0. /\ g.w \in Worker /\ worker[g.w] = NewWorker
      /\ \A q \in Requests : call[q].held # g.w
  BY NewIsFresh DEF IndInv
<1>1. /\ available' = available /\ Sends' = Sends \cup {g} /\ call' = call /\ run' = run
      /\ worker' = worker /\ php'[g.w] = NewProcess
      /\ \A w \in Worker \ {g.w} : php'[w] = php[w]
  BY <1>0 DEF Creates, TypeOK, IndInv
<1>2. ASSUME NEW w \in Worker, Queued(w)' \/ Sending(w)'
      PROVE  php'[w].at = "loop"
  <2>1. Queued(w) \/ Sending(w) \/ w = g.w
    BY <1>1, <1>2, SendingDef DEF Queued
  <2>2. QED
    BY <1>1, <2>1 DEF QuietPool, NewProcess
<1>3. ASSUME NEW r \in Requests, NEW w \in Worker, call'[r].held = w
      PROVE  Calm(r, w)'
  <2>1. Calm(r, w) /\ w # g.w
    BY <1>0, <1>1, <1>3 DEF QuietPool
  <2>2. QED
    BY <1>1, <2>1 DEF Calm
<1>4. QED
  BY <1>2, <1>3, QuietWorkersDef

\* What w.Exec reads from a worker that has not been told to stop.
LEMMA QuietRead ==
    ASSUME TypeOK, NEW r \in Requests, NEW v \in Worker, CanRead(v),
           ~worker[v].waiting, QuietAsked(r, worker[v], php[v])
    PROVE  /\ ReadFrame(v) # Error
           /\ \A new : new.stdout = AfterRead(v)[v].stdout => QuietReplied(new, php[v])
<1>0. /\ READY \in Frame /\ RESPONSE(r) \in Frame /\ RESPONSE(r) # Error
      /\ RESPONSE(r).type = "RESPONSE"
  BY FrameFacts
<1>1. ~Reaped(v)
  BY DEF Reaped
<1>2. worker[v].stdout # <<>>
  <2>1. <<RESPONSE(r)>> # <<>> /\ <<RESPONSE(r), READY>> # <<>>
    BY <1>0, ShortPipes
  <2>2. QED
    BY <2>1 DEF CanRead, QuietAsked, Alive
<1>3. /\ Head(worker[v].stdout) = RESPONSE(r)
      /\ \/ Tail(worker[v].stdout) = <<>> /\ php[v].at \in {"after", "exited"}
         \/ Tail(worker[v].stdout) = <<READY>> /\ php[v].at = "loop"
  <2>1. /\ Head(<<RESPONSE(r)>>) = RESPONSE(r) /\ Tail(<<RESPONSE(r)>>) = <<>>
        /\ Head(<<RESPONSE(r), READY>>) = RESPONSE(r)
        /\ Tail(<<RESPONSE(r), READY>>) = <<READY>>
    BY <1>0, ShortPipes
  <2>2. QED
    BY <1>2, <2>1 DEF QuietAsked
<1>4. ReadFrame(v) # Error
  BY <1>0, <1>1, <1>2, <1>3 DEF ReadFrame
<1>5. AfterRead(v)[v].stdout = Tail(worker[v].stdout)
  BY <1>4, ReadFirst
<1>6. QED
  BY <1>3, <1>4, <1>5 DEF QuietReplied

\* w.Exec writes to a process that reads, and reads its answer.
LEMMA QuietExec ==
    ASSUME IndInv, QuietPool, NEW r \in Requests, RunWrite(r) \/ RunRead(r)
    PROVE  QuietWorkers'
<1> USE DEF IndInv
<1> DEFINE v == run[r].on
<1>0. /\ v \in Worker /\ run[r].at \in Active /\ call' = call /\ Others(r)
      /\ run'[r].on = v /\ \A w \in Worker \ {v} : worker'[w] = worker[w]
  <2>1. v \in Worker /\ run[r].at \in Active
    BY RunsOn DEF RunWrite, RunRead, Active
  <2>2. CASE RunWrite(r) /\ worker[v].open /\ Alive(v)
    BY <2>1, <2>2, WriteFacts
  <2>3. QED
    BY <2>1, <2>2, RunEnds
<1>1. available' = available /\ Sends' = Sends /\ php' = php
  BY DEF RunWrite, RunRead, poolVars, Sends
<1>2. /\ ~Queued(v) /\ ~Sending(v)
      /\ \A q \in Requests : call[q].held = v => q = r
  BY <1>0 DEF ExclusiveRuns
<1> HIDE DEF v
<1>3. ASSUME NEW w \in Worker, Queued(w)' \/ Sending(w)'
      PROVE  php'[w].at = "loop"
  BY <1>1, <1>3, SendingDef DEF Queued, QuietPool
<1>4. ASSUME NEW q \in Requests, NEW w \in Worker, call'[q].held = w, q # r
      PROVE  Calm(q, w)'
  <2>1. Calm(q, w) /\ w # v
    BY <1>0, <1>2, <1>4 DEF QuietPool
  <2>2. QED
    BY <1>0, <1>1, <1>4, <2>1 DEF Calm, Others
<1>5. ASSUME NEW w \in Worker, call'[r].held = w
      PROVE  Calm(r, w)'
  <2>1. call[r].held = w /\ call[r].at \in Holding /\ w = v
    <3>1. call[r].held = w /\ call[r].held # NoWorker
      BY <1>0, <1>5 DEF Worker, NoWorker
    <3>2. QED
      BY <3>1 DEF CallState, v
  <2>2. /\ call[r].at # "put" /\ InStepWith(r, v) /\ Calm(r, v)
        /\ worker[v].open /\ ~worker[v].waiting
    <3>1. call[r].at # "put"
      BY <1>0 DEF CallState, Active
    <3>2. InStepWith(r, v) /\ Calm(r, v)
      BY <1>0, <2>1, ProtocolDef DEF QuietPool
    <3>3. Circulating(v)
      BY <2>1 DEF Circulating, Holds
    <3>4. QED
      BY <1>0, <3>1, <3>2, <3>3 DEF QuietPool
  <2>3. CASE RunWrite(r)
    <3>1. php[v].at = "loop" /\ worker[v].stdout = <<>>
      BY <2>2, <2>3 DEF RunWrite, Calm, InStepWith, Rested
    <3>2. /\ run'[r].at = "read"
          /\ worker'[v].stdin = Append(worker[v].stdin, REQUEST(r))
          /\ worker'[v].stdout = worker[v].stdout
      BY <2>2, <2>3, <3>1, WriteFacts DEF v, Alive
    <3>3. worker'[v].stdin # <<>>
      <4>1. worker[v].stdin \in Seq(Frame) /\ REQUEST(r) \in Frame
        BY <1>0, FrameFacts DEF TypeOK, WorkerRecord
      <4>2. /\ Len(worker[v].stdin) \in Nat
            /\ Len(Append(worker[v].stdin, REQUEST(r))) = Len(worker[v].stdin) + 1
        BY <4>1, AppendFacts
      <4>3. Len(worker'[v].stdin) # 0
        BY <3>2, <4>2
      <4>4. QED
        BY <4>3
    <3>4. QED
      BY <1>0, <1>1, <2>1, <2>2, <3>1, <3>2, <3>3 DEF Calm, QuietAsked
  <2>4. CASE RunRead(r)
    <3>1. CanRead(v) /\ QuietAsked(r, worker[v], php[v])
      BY <2>2, <2>4 DEF RunRead, Calm, v
    <3>2. run'[r].at = "ended" /\ run'[r].result = ReadFrame(v)
      BY <2>4, RunEnds DEF RunRead, v
    <3>3. AfterRead(v) \in [Worker -> WorkerRecord]
      BY <1>0, AfterReadType
    <3>4. worker'[v].stdout = AfterRead(v)[v].stdout
      BY <1>0, <2>4, <3>3, EndedFacts DEF RunRead, v
    <3>5. run'[r].result # Error /\ QuietReplied(worker'[v], php'[v])
      BY <1>0, <1>1, <2>2, <3>1, <3>2, <3>4, QuietRead
    <3>6. QED
      BY <1>0, <2>1, <2>2, <3>2, <3>5 DEF Calm
  <2>5. QED
    BY <2>3, <2>4
<1>6. QED
  BY <1>3, <1>4, <1>5, QuietWorkersDef

\* READY is read from a process that has said it, or the worker is given up.
LEMMA QuietReady ==
    ASSUME IndInv, QuietPool, NEW r \in Requests, AwaitReady(r)
    PROVE  QuietWorkers'
<1> USE DEF IndInv
<1> DEFINE v == call[r].held
<1>0. v \in Worker /\ call[r].at = "ready" /\ run[r].at = "ended"
  BY HasWorker DEF AwaitReady, CallState, Holding
<1>1. /\ available' = available /\ Sends' = Sends /\ php' = php
      /\ worker' = AfterRead(v) /\ run' = run
  <2>1. routines' = routines \/ GoReplace(v)
    BY DEF AwaitReady
  <2>2. Sends' = Sends
    BY <1>0, <2>1, StopperSendsNot DEF Sends
  <2>3. QED
    BY <2>2 DEF AwaitReady
<1>2. \A w \in Worker \ {v} : worker'[w] = worker[w]
  BY <1>0, <1>1, AfterReadType
<1>3. \A q \in Requests : call[q].held = v => q = r
  BY <1>0 DEF Custody, Worker, NoWorker
<1>4. \/ /\ ReadFrame(v).type = "READY" /\ call'[r].at = "put"
         /\ call'[r].held = v /\ Others(r)
      \/ call'[r].held = NoWorker /\ Others(r)
  <2>1. CASE ReadFrame(v).type = "READY"
    BY <1>1, <2>1, AdvanceFacts DEF AwaitReady
  <2>2. CASE ReadFrame(v).type # "READY"
    BY <1>1, <2>2, ReturnFacts DEF AwaitReady
  <2>3. QED
    BY <2>1, <2>2
<1>5. Calm(r, v)
  BY <1>0 DEF QuietPool
<1> HIDE DEF v
<1>6. ASSUME NEW w \in Worker, Queued(w)' \/ Sending(w)'
      PROVE  php'[w].at = "loop"
  BY <1>1, <1>6, SendingDef DEF Queued, QuietPool
<1>7. ASSUME NEW q \in Requests, NEW w \in Worker, call'[q].held = w, q # r
      PROVE  Calm(q, w)'
  <2>1. Calm(q, w) /\ w # v /\ call'[q] = call[q]
    BY <1>3, <1>4, <1>7 DEF Others, QuietPool
  <2>2. QED
    BY <1>1, <1>2, <2>1 DEF Calm
<1>8. ASSUME NEW w \in Worker, call'[r].held = w
      PROVE  Calm(r, w)'
  <2>1. ReadFrame(v).type = "READY" /\ call'[r].at = "put" /\ w = v
    BY <1>4, <1>8 DEF Worker, NoWorker
  <2>2. ReadFrame(v) # Error
    BY <2>1 DEF Error, Control, Msg
  <2>3. worker[v].stdout # <<>>
    BY <1>0, <2>2, ReadFirst
  <2>4. php'[v].at = "loop" /\ run[r].result # Error
    BY <1>0, <1>1, <1>5, <2>3 DEF Calm, QuietReplied
  <2>5. QED
    BY <1>0, <1>1, <2>1, <2>4 DEF Calm
<1>9. QED
  BY <1>6, <1>7, <1>8, QuietWorkersDef

\* Every step keeps Quiet.
LEMMA QuietStep == IndInv /\ IndInv' /\ Quiet /\ [Next]_vars => Quiet'
<1> SUFFICES ASSUME IndInv, IndInv', Quiet, [Next]_vars, Undisturbed'
             PROVE  QuietPool'
  BY DEF Quiet
<1>0. Undisturbed /\ QuietPool
  BY DisturbedStays DEF IndInv, Quiet
<1>1. \A r \in Requests : call'[r].reply # "failed"
  BY SMTT(40), <1>0, QuietReplies
<1>2. reload' = reload /\ draining' = draining
  <2>1. \A g \in routines : Register(g) => reload' = reload /\ draining' = draining
    BY <1>0 DEF QuietPool, Register
  <2>2. QED
    BY ZenonT(40), <1>0, <2>1, UndisturbedSteps
    DEF vars, Take, GiveUp, Receive, Timeout, AwaitReady, PutBack, RunWrite,
        RunRead, PHP, PHPRead, PHPRespond, PHPNext, SendStop, StopReturns,
        RemoveWorker, SpawnReplacement, Send, Tick, HealthCheck, Decide, ScaleDown,
        ScaleUp, controlVars
<1>3. \A g \in routines' : /\ g.job \in {"replace", "scaleUp", "scaleDown"}
                           /\ g.at # "send" => ~Circulating(g.w)'
  BY <1>0, QuietRoutines
<1>4. \A w \in Worker : Circulating(w)' => worker'[w].open /\ ~worker'[w].waiting
  BY <1>0, QuietFlags
<1>5. QuietWorkers'
  <2>1. CASE \E r \in Requests : RunWrite(r) \/ RunRead(r) \/ AwaitReady(r)
    BY <1>0, <2>1, QuietExec, QuietReady
  <2>2. CASE \E g \in routines' : Creates(g)
    BY <1>0, <2>2, QuietSpawn
  <2>3. CASE \E w \in Worker : PHP(w)
    BY <1>0, <2>3, QuietProcess DEF IndInv
  <2>4. CASE \E g \in routines : SendStop(g) \/ StopReturns(g)
    BY <1>0, <2>4, QuietStop
  <2>5. CASE \E w \in Worker : StartsUp(w)
    BY <1>0, <2>5, QuietStartsUp
  <2>6. CASE ~(\/ \E r \in Requests : RunWrite(r) \/ RunRead(r) \/ AwaitReady(r)
               \/ \E g \in routines' : Creates(g)
               \/ \E w \in Worker : PHP(w)
               \/ \E g \in routines : SendStop(g) \/ StopReturns(g)
               \/ \E w \in Worker : StartsUp(w))
    <3>1. TypeOK /\ CallState /\ Fresh
      BY DEF IndInv
    <3>2. ~\E g \in routines : Register(g)
      BY <2>6, <3>1, RegisterCreates
    <3>3. \/ UNCHANGED vars
          \/ \E r \in Requests : \/ Take(r) \/ GiveUp(r) \/ Receive(r)
                                 \/ Timeout(r) \/ PutBack(r)
          \/ \E g \in routines : RemoveWorker(g) \/ Send(g)
          \/ Tick \/ HealthCheck \/ Decide \/ ScaleDown
          \/ (\E g \in routines : SpawnReplacement(g)) \/ ScaleUp
      BY <1>0, <2>6, <3>2, UndisturbedSteps
    <3>4. worker' = worker /\ php' = php
      <4>1. CASE (\E g \in routines : SpawnReplacement(g)) \/ ScaleUp
        BY <2>6, <3>1, <4>1, StartsUpSteps
      <4>2. QED
        BY <3>3, <4>1
        DEF vars, Take, GiveUp, Receive, Timeout, PutBack, RemoveWorker, Send,
            Tick, HealthCheck, Decide, ScaleDown, processVars
    <3>5. QED
      BY <1>0, <2>6, <3>1, <3>4, QuietHandOver
  <2>7. QED
    BY <2>1, <2>2, <2>3, <2>4, <2>5, <2>6
<1>6. QED
  BY <1>0, <1>1, <1>2, <1>3, <1>4, <1>5, QuietWorkersDef DEF QuietPool

\* The initial state is quiet.
LEMMA QuietInit == Init => Quiet
<1> SUFFICES ASSUME Init PROVE QuietPool
  BY DEF Quiet
<1>1. /\ routines = {} /\ ~reload.active
      /\ \A k \in 1 .. MaxReloads : draining[k].left = {}
      /\ \A r \in Requests : call[r].reply = "none" /\ call[r].held = NoWorker
      /\ \A w \in Worker : worker[w] = NewWorker
  BY DEF Init
<1>2. \A w \in Worker : Queued(w) => php[w].at = "loop"
  <2>1. \A w \in Worker : Queued(w) => w <= MinWorkers
    BY PoolConfig DEF Init, Queued, Range, Worker
  <2>2. QED
    BY <2>1 DEF Init, NewProcess
<1>3. \A w \in Worker : ~Sending(w)
  BY <1>1 DEF Sending
<1>4. QED
  BY <1>1, <1>2, <1>3 DEF QuietPool, NewWorker, Worker, NoWorker

\* Without faults, reloads and a shutdown no call of Pool.Exec fails, although
\* processes exit at max_jobs and at the memory limit, calls time out, and the
\* pool is scaled in the meantime.
THEOREM LimitsHidden == Spec => []LimitsAreInvisible
<1>1. Quiet => LimitsAreInvisible
  BY DEF Quiet, QuietPool, Undisturbed, LimitsAreInvisible
<1>2. QED
  BY <1>1, QuietInit, QuietStep, Invariance, PTL DEF Spec

-----------------------------------------------------------------------------
(* The frames of the pipes (module Wire).                                  *)

\* A size is its last byte and the rest.
Splits(n, rest, byte) == n = 256 * rest + byte /\ byte < 256

\* The rest is what the shift leaves, the byte what byte() keeps.
LEMMA LastByte ==
    ASSUME NEW n \in Nat
    PROVE  \E rest, byte \in Nat :
              rest = n \div 256 /\ byte = Byte(n) /\ Splits(n, rest, byte)
<1>1. n = 256 * (n \div 256) + (n % 256)
  OBVIOUS
<1>2. n \div 256 \in Nat
  OBVIOUS
<1>3. n % 256 \in Nat /\ n % 256 < 256
  OBVIOUS
<1>4. QED
  BY <1>1, <1>2, <1>3 DEF Byte, Splits

\* Shifting by two bytes is shifting twice by one.
LEMMA TwoBytes ==
    ASSUME NEW n \in Nat, NEW a \in Nat, NEW x \in Nat, NEW b \in Nat, NEW y \in Nat,
           Splits(n, a, x), Splits(a, b, y)
    PROVE  n \div 65536 = b
<1>1. n = 65536 * b + (256 * y + x)
  BY DEF Splits
<1>2. 256 * y + x \in Nat /\ 256 * y + x < 65536
  BY DEF Splits
<1>3. QED
  BY <1>1, <1>2

\* What a three-byte field keeps of a size.
LEMMA Kept24 ==
    ASSUME NEW n \in Nat
    PROVE  /\ Uint24(PutUint24(n)) \in 0 .. n
           /\ Uint24(PutUint24(n)) = n <=> Fits24(n)
<1>1. PICK a, x \in Nat : a = n \div 256 /\ x = Byte(n) /\ Splits(n, a, x)
  BY LastByte
<1>2. PICK b, y \in Nat : b = a \div 256 /\ y = Byte(a) /\ Splits(a, b, y)
  BY LastByte
<1>3. PICK c, z \in Nat : c = b \div 256 /\ z = Byte(b) /\ Splits(b, c, z)
  BY LastByte
<1>4. n \div 65536 = b
  BY <1>1, <1>2, TwoBytes
<1>5. PutUint24(n) = <<z, y, x>>
  BY <1>1, <1>2, <1>3, <1>4 DEF PutUint24
<1>6. Uint24(PutUint24(n)) = 65536 * z + 256 * y + x
  BY <1>5 DEF Uint24
<1>7. Splits(n, a, x) /\ Splits(a, b, y) /\ Splits(b, c, z)
  BY <1>1, <1>2, <1>3
<1>8. n = (65536 * z + 256 * y + x) + 16777216 * c
  BY <1>7 DEF Splits
<1>9. Fits24(n) <=> c = 0
  BY <1>4, <1>7 DEF Fits24, Splits
<1>10. QED
  BY <1>6, <1>8, <1>9

\* What a four-byte field keeps of a size.
LEMMA Kept32 ==
    ASSUME NEW n \in Nat
    PROVE  /\ Uint32(PutUint32(n)) \in 0 .. n
           /\ Uint32(PutUint32(n)) = n <=> Fits32(n)
<1>1. PICK a, x \in Nat : a = n \div 256 /\ x = Byte(n) /\ Splits(n, a, x)
  BY LastByte
<1>2. PICK b, y \in Nat : b = a \div 256 /\ y = Byte(a) /\ Splits(a, b, y)
  BY LastByte
<1>3. PICK c, z \in Nat : c = b \div 256 /\ z = Byte(b) /\ Splits(b, c, z)
  BY LastByte
<1>4. PICK d, u \in Nat : d = c \div 256 /\ u = Byte(c) /\ Splits(c, d, u)
  BY LastByte
<1>5. Splits(n, a, x) /\ Splits(a, b, y) /\ Splits(b, c, z) /\ Splits(c, d, u)
  BY <1>1, <1>2, <1>3, <1>4
<1>6. n \div 65536 = b
  BY <1>5, TwoBytes
<1>7. n \div 16777216 = c
  <2>1. n = 16777216 * c + (65536 * z + 256 * y + x)
    BY <1>5 DEF Splits
  <2>2. 65536 * z + 256 * y + x \in Nat /\ 65536 * z + 256 * y + x < 16777216
    BY <1>5 DEF Splits
  <2>3. QED
    BY <2>1, <2>2
<1>8. PutUint32(n) = <<u, z, y, x>>
  BY <1>1, <1>2, <1>3, <1>4, <1>6, <1>7 DEF PutUint32
<1>9. Uint32(PutUint32(n)) = 16777216 * u + 65536 * z + 256 * y + x
  BY <1>8 DEF Uint32
<1>10. n = (16777216 * u + 65536 * z + 256 * y + x) + 4294967296 * d
  BY <1>5 DEF Splits
<1>11. Fits32(n) <=> d = 0
  BY <1>5, <1>7 DEF Fits32, Splits
<1>12. QED
  BY <1>9, <1>10, <1>11

\* For frames of every size, reader and writer stay in step if and only if the
\* headers are smaller than 16 MiB and the payload smaller than 4 GiB: that is
\* when a pipe may be modelled as a sequence of whole frames.
THEOREM FramesApart ==
    /\ \A h, p \in Nat : CutAsComposed(h, p)
    /\ \A n \in Nat : /\ Fits24(n) <=> n < 16777216
                      /\ Fits32(n) <=> n < 4294967296
<1>1. ASSUME NEW h \in Nat, NEW p \in Nat PROVE CutAsComposed(h, p)
  <2> DEFINE x == Uint24(PutUint24(h))
  <2> DEFINE y == Uint32(PutUint32(p))
  <2>1. /\ x \in 0 .. h /\ (x = h <=> Fits24(h))
        /\ y \in 0 .. p /\ (y = p <=> Fits32(p))
    BY Kept24, Kept32
  <2>2. /\ Consumed(h, p) = FrameHeaderSize + x + y
        /\ Written(h, p) = FrameHeaderSize + h + p
    BY DEF Consumed, Written
  <2> HIDE DEF x, y
  <2>3. /\ Consumed(h, p) <= Written(h, p)
        /\ Consumed(h, p) = Written(h, p) <=> x = h /\ y = p
    BY <2>1, <2>2 DEF FrameHeaderSize
  <2>4. QED
    BY <2>1, <2>3 DEF CutAsComposed, x, y
<1>2. ASSUME NEW n \in Nat
      PROVE  (Fits24(n) <=> n < 16777216) /\ (Fits32(n) <=> n < 4294967296)
  BY DEF Fits24, Fits32
<1>3. QED
  BY <1>1, <1>2

=============================================================================
