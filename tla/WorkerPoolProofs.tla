-------------------------- MODULE WorkerPoolProofs --------------------------
(***************************************************************************)
(* Proofs about the embedded worker pool, for any number of handlers, any  *)
(* configuration Validate accepts and any bound on spawns and reloads.     *)
(*                                                                         *)
(* The inductive invariant IndInv is proved part by part: the lemma XStep  *)
(* says that every step keeps X, given the parts X rests on, with one case *)
(* per action of Next.  StepInv puts the parts together, Invariance is the *)
(* theorem, and each safety property follows from it.  QuietStep adds what *)
(* NoFailedRequest needs: without reloads nobody but a worker's owner      *)
(* stops its engine.  SizeStep adds what SizeWithinBounds needs: the       *)
(* numbers autoScale decides on are still true when it acts.  Registered,  *)
(* Reached and LateInv are what a goroutine that sends on the channel, the *)
(* stop goroutines and the late panic rely on.                             *)
(***************************************************************************)
EXTENDS WorkerPool, ChannelFacts, FiniteSetTheorems, TLAPS

\* The records of the set routines.
LEMMA RoutineFields ==
    /\ \A g \in Routine : g.w \in Worker /\ g.at \in Stage /\ g.job \in Job
    /\ \A g \in Routine, a \in Stage :
          /\ At(g, a).at = a /\ At(g, a).w = g.w
          /\ At(g, a).job = g.job /\ At(g, a).by = g.by
    /\ \A j, k, w : /\ Stopper(j, k, w).at = "store" /\ Stopper(j, k, w).w = w
                    /\ Stopper(j, k, w).job = j /\ Stopper(j, k, w).by = k
    /\ \A j, w : /\ Sender(j, w).at = "send" /\ Sender(j, w).w = w
                 /\ Sender(j, w).job = j
  BY DEF Routine, At, Stopper, Sender, Stage

\* The constructors of goroutines build goroutines.
LEMMA RoutineTypes ==
    /\ \A g \in Routine, a \in Stage : At(g, a) \in Routine
    /\ \A j \in Job, k \in 0 .. MaxReloads, w \in Worker :
          Stopper(j, k, w) \in Routine
    /\ \A j \in Job, w \in Worker : Sender(j, w) \in Routine
  BY Scenario DEF Routine, At, Stopper, Sender, Stage

\* The channel stays within its capacity.
LEMMA QueueSend ==
    ASSUME TypeOK, ~Full, NEW w \in Worker
    PROVE  /\ Append(available, w) \in Seq(Worker)
           /\ Len(Append(available, w)) <= MaxWorkers
<1>1. available \in Seq(Worker) /\ Len(available) \in Nat
  BY DEF TypeOK
<1>2. QED
  BY <1>1, AppendFacts, PoolConfig DEF Full

\* A receive leaves a channel of workers within its capacity.
LEMMA QueueReceive ==
    ASSUME TypeOK, available # <<>>
    PROVE  /\ Head(available) \in Worker
           /\ Tail(available) \in Seq(Worker)
           /\ Len(Tail(available)) <= MaxWorkers
<1>1. available \in Seq(Worker)
  BY DEF TypeOK
<1>2. QED
  BY <1>1, TailFacts, PoolConfig DEF TypeOK

\* A handler inside w.Exec has a worker.
LEMMA HasWorker ==
    ASSUME TypeOK, HandlerState, NEW c \in Clients, pc[c] \in WithWorker
    PROVE  held[c] \in Worker
  BY DEF TypeOK, HandlerState

\* Ids grow: what was spawned stays spawned and the new worker was not.
LEMMA SpawnedGrows ==
    ASSUME TypeOK, NEW G, NEW j, Spawn(G, j)
    PROVE  /\ Spawned' = Spawned \cup {nextID'}
           /\ nextID' \notin Spawned /\ nextID' \in Worker
  BY SMTT(40), Scenario DEF TypeOK, Worker, Spawn, Spawned

\* A spawn registers the worker next in line and starts its engine.
LEMMA SpawnFacts ==
    ASSUME TypeOK, NEW G, NEW j, Spawn(G, j)
    PROVE  /\ nextID' \in Worker /\ nextID' = nextID + 1 /\ nextID \in Nat
           /\ \A w \in Worker : w # nextID' => started'[w] = started[w]
           /\ started' \in [Worker -> BOOLEAN]
           /\ workers' = workers \cup {nextID'}
           /\ routines' = (routines \ G) \cup {Sender(j, nextID')}
  BY Scenario DEF TypeOK, Worker, Spawn

\* A send puts w into one slot of the channel.
Added(w) ==
    /\ Range(available') = Range(available) \cup {w}
    /\ IsInjective(available) /\ w \notin Range(available) =>
          IsInjective(available')

\* A receive takes the one slot of w out of the channel.
Removed(w) ==
    /\ Range(available) = Range(available') \cup {w}
    /\ IsInjective(available) =>
          IsInjective(available') /\ w \notin Range(available')

\* The receive of Exec moves the head of the channel to the handler.
LEMMA AfterTake ==
    ASSUME TypeOK, NEW c \in Clients, Take(c)
    PROVE  \E w \in Worker : Removed(w) /\ held' = [held EXCEPT ![c] = w]
<1>1. available \in Seq(Worker) /\ available # <<>>
  BY DEF Take, TypeOK
<1>2. Head(available) \in Worker /\ Removed(Head(available))
  BY <1>1, RangeTail DEF Take, Removed
<1>3. QED
  BY <1>2 DEF Take

\* The send of Exec queues the worker, or drops it on a closed channel.
LEMMA AfterPutBack ==
    ASSUME TypeOK, HandlerState, NEW c \in Clients, PutBack(c)
    PROVE  /\ held[c] \in Worker
           /\ \/ closed /\ available' = available
              \/ ~closed /\ Added(held[c])
<1>1. held[c] \in Worker
  BY HasWorker DEF PutBack, WithWorker, InExec
<1>2. available \in Seq(Worker)
  BY DEF TypeOK
<1>3. CASE available' = Append(available, held[c])
  BY <1>1, <1>2, <1>3, RangeAppend DEF PutBack, Added
<1>4. QED
  BY <1>1, <1>3 DEF PutBack

\* The send of a goroutine queues its worker, or panics.
LEMMA AfterSend ==
    ASSUME TypeOK, NEW g \in routines, Send(g)
    PROVE  /\ g.w \in Worker
           /\ \/ closed /\ available' = available /\ routines' = routines
              \/ ~closed /\ Added(g.w) /\ routines' = routines \ {g}
<1>1. g.w \in Worker
  BY RoutineFields DEF TypeOK
<1>2. available \in Seq(Worker)
  BY DEF TypeOK
<1>3. CASE available' = Append(available, g.w) /\ ~closed
  BY <1>1, <1>2, <1>3, RangeAppend DEF Send, Added, Become
<1>4. QED
  BY <1>1, <1>3 DEF Send

\* The receive of autoScale moves the head of the channel to a goroutine.
LEMMA AfterScaleDown ==
    ASSUME TypeOK, ScaleDown
    PROVE  \/ available' = available /\ routines' = routines
           \/ \E w \in Worker :
                 /\ Removed(w)
                 /\ routines' = routines \cup {Stopper("scaleDown", 0, w)}
<1>1. CASE available = <<>>
  BY <1>1 DEF ScaleDown
<1>2. CASE available # <<>>
  <2>1. available \in Seq(Worker) /\ available' = Tail(available)
    BY <1>2 DEF ScaleDown, TypeOK
  <2>2. Head(available) \in Worker /\ Removed(Head(available))
    BY <1>2, <2>1, RangeTail DEF Removed
  <2>3. QED
    BY <1>2, <2>2 DEF ScaleDown
<1>3. QED
  BY <1>1, <1>2

\* Stats counts a finite set.
LEMMA WorkersFinite == workers \subseteq Worker => IsFiniteSet(workers)
<1>1. IsFiniteSet(Worker)
  BY FS_Interval, Scenario DEF Worker
<1>2. QED
  BY <1>1, FS_Subset

\* So TotalWorkers() is a number.
LEMMA TotalIsNat == workers \subseteq Worker => Total \in Nat
  BY WorkersFinite, FS_CardinalityType DEF Total

\* Every step keeps the types.  busyWorkers stays between 0 and the number of
\* handlers because it counts handlers (HandlerState).
LEMMA TypeStep ==
    TypeOK /\ HandlerState /\ busyWorkers' \in 0 .. Cardinality(Clients) /\ [Next]_vars
        => TypeOK'
<1> SUFFICES ASSUME TypeOK, HandlerState,
                 busyWorkers' \in 0 .. Cardinality(Clients), [Next]_vars
             PROVE  TypeOK'
  OBVIOUS
<1>1. ASSUME UNCHANGED <<vars>>
      PROVE  TypeOK'
  BY <1>1 DEF TypeOK, vars, queueVars, engineVars, clientVars, controlVars,
      watchdogVars, reloadVars
<1>2. ASSUME \/ UNCHANGED vars
             
      PROVE  UNCHANGED <<vars>>
  BY <1>2 DEF vars, queueVars, engineVars, clientVars, controlVars,
      watchdogVars, reloadVars
<1>3. ASSUME NEW c \in Clients, Call(c)
      PROVE  TypeOK'
  BY <1>3, PoolConfig, Scenario
  DEF Call, queueVars, engineVars, controlVars, watchdogVars, reloadVars,
      TypeOK
<1>4. ASSUME NEW c \in Clients, Take(c)
      PROVE  TypeOK'
  BY SMTT(40), <1>4, PoolConfig, Scenario
  DEF Take, engineVars, controlVars, watchdogVars, reloadVars, TypeOK
<1>5. ASSUME NEW c \in Clients, GiveUp(c)
      PROVE  TypeOK'
  BY <1>5, PoolConfig, Scenario
  DEF GiveUp, queueVars, engineVars, controlVars, watchdogVars, reloadVars,
      TypeOK
<1>6. ASSUME NEW c \in Clients, MarkBusy(c)
      PROVE  TypeOK'
  BY ZenonT(40), <1>6, PoolConfig, Scenario
  DEF MarkBusy, queueVars, controlVars, watchdogVars, reloadVars, TypeOK
<1>7. ASSUME NEW c \in Clients, Enter(c)
      PROVE  TypeOK'
  BY ZenonT(40), <1>7, PoolConfig, Scenario
  DEF Enter, queueVars, engineVars, controlVars, watchdogVars, reloadVars,
      TypeOK
<1>8. ASSUME NEW c \in Clients, Finish(c)
      PROVE  TypeOK'
  BY <1>8, PoolConfig, Scenario
  DEF HandlerState, WithWorker, InExec, NoWorker, Finish, queueVars,
      controlVars, watchdogVars, reloadVars, TypeOK
<1>9. ASSUME NEW c \in Clients, MarkIdle(c)
      PROVE  TypeOK'
  <2>1. held[c] \in Worker
    BY <1>9 DEF MarkIdle, TypeOK, HandlerState, WithWorker, InExec
  <2>2. Stopper("replace", 0, held[c]) \in Routine
    BY <2>1, RoutineFields, RoutineTypes, Scenario DEF Job
  <2>3. QED
    BY ZenonT(40), <1>9, <2>1, <2>2 DEF MarkIdle, controlVars, watchdogVars, reloadVars,
        queueVars, TypeOK
<1>10. ASSUME NEW c \in Clients, PutBack(c)
      PROVE  TypeOK'
  <2>1. held[c] \in Worker
    BY <1>10 DEF PutBack, TypeOK, HandlerState, WithWorker, InExec
  <2>2. available' \in Seq(Worker) /\ Len(available') <= MaxWorkers
    BY <1>10, <2>1, QueueSend DEF PutBack, TypeOK
  <2>3. QED
    BY ZenonT(40), <1>10, <2>2
    DEF PutBack, controlVars, watchdogVars, reloadVars, engineVars,
        TypeOK
<1>11. ASSUME NEW c \in Clients, Leave(c)
      PROVE  TypeOK'
  BY <1>11, PoolConfig, Scenario
  DEF Leave, queueVars, engineVars, controlVars, watchdogVars, reloadVars,
      TypeOK
<1>12. ASSUME NEW g \in routines, StoreStopped(g)
      PROVE  TypeOK'
  <2>1. g.w \in Worker
    BY RoutineFields DEF TypeOK
  <2>2. routines' \subseteq Routine
    BY <1>12, RoutineTypes, Scenario
    DEF StoreStopped, TypeOK, Job, Become, Stage
  <2>3. QED
    BY <1>12, <2>1, <2>2 DEF StoreStopped, queueVars, clientVars, controlVars,
        watchdogVars, reloadVars, TypeOK
<1>13. ASSUME NEW g \in routines, ShutdownEngine(g)
      PROVE  TypeOK'
  <2>1. g.w \in Worker
    BY RoutineFields DEF TypeOK
  <2>2. routines' \subseteq Routine
    BY <1>13, RoutineTypes, Scenario
    DEF ShutdownEngine, TypeOK, Job, Become, Stage
  <2>3. QED
    BY <1>13, <2>1, <2>2 DEF ShutdownEngine, queueVars, clientVars, controlVars,
        watchdogVars, reloadVars, TypeOK
<1>14. ASSUME NEW g \in routines, RemoveWorker(g)
      PROVE  TypeOK'
  <2>1. g.w \in Worker
    BY RoutineFields DEF TypeOK
  <2>2. routines' \subseteq Routine
    BY <1>14, RoutineTypes, Scenario
    DEF RemoveWorker, TypeOK, Job, Become, Stage
  <2>3. QED
    BY <1>14, <2>1, <2>2 DEF RemoveWorker, queueVars, engineVars, clientVars,
        controlVars, watchdogVars, reloadVars, TypeOK
<1>15. ASSUME NEW g \in routines, SpawnReplacement(g)
      PROVE  TypeOK'
  <2>1. /\ nextID' \in Worker /\ nextID' = nextID + 1
        /\ routines' \subseteq Routine
    BY <1>15, Scenario, RoutineFields, RoutineTypes
    DEF SpawnReplacement, Spawn, TypeOK, Worker, Job
  <2>2. workers' \subseteq Worker /\ started' \in [Worker -> BOOLEAN]
    BY <1>15, <2>1 DEF SpawnReplacement, Spawn, TypeOK
  <2>3. QED
    BY SMTT(40), <1>15, <2>1, <2>2, PoolConfig, Scenario
    DEF SpawnReplacement, Spawn, queueVars, clientVars, controlVars,
        watchdogVars, reloadVars, TypeOK, Worker
<1>16. ASSUME NEW g \in routines, Send(g)
      PROVE  TypeOK'
  <2>1. g.w \in Worker
    BY RoutineFields, RoutineTypes DEF TypeOK
  <2>2. available' \in Seq(Worker) /\ Len(available') <= MaxWorkers
    BY <1>16, <2>1, QueueSend DEF Send, TypeOK
  <2>3. QED
    BY ZenonT(40), <1>16, <2>2 DEF Send, Become, watchdogVars, reloadVars, engineVars,
        clientVars, TypeOK
<1>17. CASE Tick
  BY <1>17, PoolConfig, Scenario, TotalIsNat
  DEF Tick, queueVars, engineVars, clientVars, reloadVars, TypeOK
<1>18. CASE Decide
  BY <1>18, PoolConfig, Scenario
  DEF ScaleDecision, Decide, queueVars, engineVars, clientVars, reloadVars,
      TypeOK
<1>19. CASE ScaleUp
  <2>1. /\ nextID' \in Worker /\ nextID' = nextID + 1
        /\ routines' \subseteq Routine
    BY <1>19, Scenario, RoutineFields, RoutineTypes
    DEF ScaleUp, Spawn, TypeOK, Worker, Job
  <2>2. workers' \subseteq Worker /\ started' \in [Worker -> BOOLEAN]
    BY <1>19, <2>1 DEF ScaleUp, Spawn, TypeOK
  <2>3. QED
    BY SMTT(40), <1>19, <2>1, <2>2, PoolConfig, Scenario
    DEF ScaleUp, Spawn, queueVars, clientVars, reloadVars, TypeOK, Worker
<1>20. CASE ScaleDown
  <2>1. /\ available' \in Seq(Worker) /\ Len(available') <= MaxWorkers
        /\ available # <<>> => Head(available) \in Worker
    BY <1>20, QueueReceive DEF ScaleDown, TypeOK
  <2>2. routines' \subseteq Routine
    BY <1>20, <2>1, RoutineFields, RoutineTypes, Scenario
    DEF ScaleDown, TypeOK, Job
  <2>3. QED
    BY <1>20, <2>1, <2>2 DEF ScaleDown, reloadVars, engineVars, clientVars,
        TypeOK
<1>21. CASE WatchdogExit
  BY <1>21, PoolConfig, Scenario
  DEF WatchdogExit, queueVars, engineVars, clientVars, reloadVars, TypeOK
<1>22. CASE ReloadBegin
  BY <1>22, PoolConfig, Scenario
  DEF ReloadBegin, queueVars, engineVars, clientVars, watchdogVars, TypeOK
<1>23. CASE ReloadSpawn
  <2>1. /\ nextID' \in Worker /\ nextID' = nextID + 1
        /\ routines' \subseteq Routine
    BY <1>23, Scenario, RoutineFields, RoutineTypes
    DEF ReloadSpawn, Spawn, TypeOK, Worker, Job
  <2>2. workers' \subseteq Worker /\ started' \in [Worker -> BOOLEAN]
    BY <1>23, <2>1 DEF ReloadSpawn, Spawn, TypeOK
  <2>3. QED
    BY <1>23, <2>1, <2>2, PoolConfig, Scenario
    DEF ReloadSpawn, Spawn, queueVars, clientVars, watchdogVars, TypeOK,
        Worker
<1>24. CASE ReloadReturn
  BY ZenonT(40), <1>24, PoolConfig, Scenario
  DEF ReloadReturn, queueVars, engineVars, clientVars, watchdogVars, TypeOK
<1>25. ASSUME NEW k \in 1 .. MaxReloads, DrainNext(k)
      PROVE  TypeOK'
  <2>2. routines' \subseteq Routine
    BY <1>25, RoutineTypes, Scenario DEF DrainNext, TypeOK, Job
  <2>3. QED
    BY ZenonT(40), <1>25, <2>2
    DEF DrainNext, queueVars, engineVars, clientVars, watchdogVars,
        TypeOK
<1>26. CASE BeginShutdown
  BY <1>26, PoolConfig, Scenario
  DEF BeginShutdown, queueVars, engineVars, clientVars, watchdogVars,
      reloadVars, TypeOK
<1>27. CASE CancelPool
  BY <1>27, PoolConfig, Scenario
  DEF CancelPool, queueVars, engineVars, clientVars, watchdogVars, reloadVars,
      TypeOK
<1>28. CASE StopWorkers
  <2>1. \A w \in workers : Stopper("stop", 0, w) \in Routine
    BY RoutineTypes, Scenario DEF TypeOK, Job
  <2>2. \A h \in routines' : h \in Routine
    BY <1>28, <2>1 DEF StopWorkers, TypeOK
  <2>3. QED
    BY <1>28, <2>2 DEF StopWorkers, queueVars, engineVars, clientVars,
        watchdogVars, reloadVars, TypeOK
<1>29. CASE CloseQueue
  BY <1>29, PoolConfig, Scenario
  DEF CloseQueue, engineVars, clientVars, watchdogVars, reloadVars, TypeOK
<1>30. CASE Exit
  BY <1>30, PoolConfig, Scenario
  DEF Exit, queueVars, engineVars, clientVars, watchdogVars, reloadVars,
      TypeOK
<1>31. QED
  BY <1>1, <1>2, <1>3, <1>4, <1>5, <1>6, <1>7, <1>8, <1>9, <1>10,
     <1>11, <1>12, <1>13, <1>14, <1>15, <1>16, <1>17, <1>18, <1>19, <1>20,
     <1>21, <1>22, <1>23, <1>24, <1>25, <1>26, <1>27, <1>28, <1>29, <1>30
  DEF Next, Exec, RoutineStep, AutoScale, Reload, Stop

\* Every step keeps HandlerState: a handler has a worker exactly between its
\* receive and its hand-over, and busyWorkers is the number of those inside.
LEMMA HandlerStep ==
    TypeOK /\ HandlerState /\ [Next]_vars => HandlerState'
<1> SUFFICES ASSUME TypeOK, HandlerState, [Next]_vars
             PROVE  HandlerState'
  OBVIOUS
<1>1. ASSUME UNCHANGED <<pc, held, busyWorkers>>
      PROVE  HandlerState'
  BY <1>1 DEF HandlerState
<1>2. ASSUME \/ UNCHANGED vars
             \/ \E g \in routines : StoreStopped(g) \/ ShutdownEngine(g)
                    \/ RemoveWorker(g) \/ SpawnReplacement(g) \/ Send(g)
             \/ \E k \in 1 .. MaxReloads : DrainNext(k)
             \/ Tick \/ Decide \/ ScaleUp \/ ScaleDown \/ WatchdogExit
             \/ ReloadBegin \/ ReloadSpawn \/ ReloadReturn \/ BeginShutdown
             \/ CancelPool \/ StopWorkers \/ CloseQueue \/ Exit
      PROVE  UNCHANGED <<pc, held, busyWorkers>>
  BY <1>2 DEF StoreStopped, Become, ShutdownEngine, RemoveWorker,
      SpawnReplacement, Spawn, Send, Full, Tick, Decide, ScaleUp, ScaleDown,
      WatchdogExit, ReloadBegin, ReloadSpawn, ReloadReturn, DrainNext,
      BeginShutdown, CancelPool, StopWorkers, CloseQueue, Exit, vars,
      queueVars, engineVars, clientVars, controlVars, watchdogVars, reloadVars
<1>3. ASSUME NEW c \in Clients, Call(c)
      PROVE  HandlerState'
  <2>1. \A d \in Clients : pc'[d] \in InExec <=> pc[d] \in InExec
    BY <1>3 DEF Call, TypeOK, InExec
  <2>2. {d \in Clients : pc'[d] \in InExec} = {d \in Clients : pc[d] \in InExec}
    BY <2>1
  <2>3. QED
    BY <1>3, <2>2 DEF Call, TypeOK, HandlerState, WithWorker, InExec, NoWorker
<1>4. ASSUME NEW c \in Clients, Take(c)
      PROVE  HandlerState'
  <2> DEFINE S == {d \in Clients : pc[d] \in InExec}
  <2>1. {d \in Clients : pc'[d] \in InExec} = S \cup {c}
    BY <1>4 DEF Take, TypeOK, InExec
  <2>2. IsFiniteSet(S) /\ c \notin S
    BY <1>4, ClientsFinite, FS_Subset DEF Take, TypeOK, InExec
  <2>3. Cardinality(S \cup {c}) = Cardinality(S) + 1
    BY <2>2, FS_AddElement
  <2>4. \A d \in Clients : held'[d] # NoWorker <=> pc'[d] \in WithWorker
    BY SMTT(40), <1>4, QueueReceive
    DEF Take, TypeOK, HandlerState, WithWorker, InExec, NoWorker,
        Worker
  <2>5. QED
    BY <1>4, <2>1, <2>3, <2>4 DEF Take, HandlerState
<1>5. ASSUME NEW c \in Clients, GiveUp(c)
      PROVE  HandlerState'
  <2>1. \A d \in Clients : pc'[d] \in InExec <=> pc[d] \in InExec
    BY <1>5 DEF GiveUp, TypeOK, InExec
  <2>2. {d \in Clients : pc'[d] \in InExec} = {d \in Clients : pc[d] \in InExec}
    BY <2>1
  <2>3. QED
    BY ZenonT(40), <1>5, <2>2 DEF GiveUp, TypeOK, HandlerState, WithWorker, InExec, NoWorker
<1>6. ASSUME NEW c \in Clients, MarkBusy(c)
      PROVE  HandlerState'
  <2>1. \A d \in Clients : pc'[d] \in InExec <=> pc[d] \in InExec
    BY <1>6 DEF MarkBusy, TypeOK, InExec
  <2>2. {d \in Clients : pc'[d] \in InExec} = {d \in Clients : pc[d] \in InExec}
    BY <2>1
  <2>3. QED
    BY ZenonT(40), <1>6, <2>2
    DEF MarkBusy, TypeOK, HandlerState, WithWorker, InExec, NoWorker
<1>7. ASSUME NEW c \in Clients, Enter(c)
      PROVE  HandlerState'
  <2>1. \A d \in Clients : pc'[d] \in InExec <=> pc[d] \in InExec
    BY <1>7 DEF Enter, TypeOK, InExec
  <2>2. {d \in Clients : pc'[d] \in InExec} = {d \in Clients : pc[d] \in InExec}
    BY <2>1
  <2>3. QED
    BY ZenonT(40), <1>7, <2>2 DEF Enter, TypeOK, HandlerState, WithWorker, InExec, NoWorker
<1>8. ASSUME NEW c \in Clients, Finish(c)
      PROVE  HandlerState'
  <2>1. \A d \in Clients : pc'[d] \in InExec <=> pc[d] \in InExec
    BY <1>8 DEF Finish, TypeOK, InExec
  <2>2. {d \in Clients : pc'[d] \in InExec} = {d \in Clients : pc[d] \in InExec}
    BY <2>1
  <2>3. QED
    BY <1>8, <2>2 DEF Finish, TypeOK, HandlerState, WithWorker, InExec, NoWorker
<1>9. ASSUME NEW c \in Clients, MarkIdle(c)
      PROVE  HandlerState'
  <2>1. \A d \in Clients : pc'[d] \in InExec <=> pc[d] \in InExec
    BY <1>9 DEF MarkIdle, TypeOK, InExec
  <2>2. {d \in Clients : pc'[d] \in InExec} = {d \in Clients : pc[d] \in InExec}
    BY <2>1
  <2>3. QED
    BY ZenonT(40), <1>9, <2>2
    DEF MarkIdle, TypeOK, HandlerState, WithWorker, InExec, NoWorker
<1>10. ASSUME NEW c \in Clients, PutBack(c)
      PROVE  HandlerState'
  <2>1. \A d \in Clients : pc'[d] \in InExec <=> pc[d] \in InExec
    BY <1>10 DEF PutBack, TypeOK, InExec
  <2>2. {d \in Clients : pc'[d] \in InExec} = {d \in Clients : pc[d] \in InExec}
    BY <2>1
  <2>3. QED
    BY <1>10, <2>2
    DEF PutBack, TypeOK, HandlerState, WithWorker, InExec, NoWorker
<1>11. ASSUME NEW c \in Clients, Leave(c)
      PROVE  HandlerState'
  <2> DEFINE S == {d \in Clients : pc[d] \in InExec}
  <2>1. {d \in Clients : pc'[d] \in InExec} = S \ {c}
    BY <1>11 DEF Leave, TypeOK, InExec
  <2>2. IsFiniteSet(S) /\ c \in S
    BY <1>11, ClientsFinite, FS_Subset DEF Leave, TypeOK, InExec
  <2>3. Cardinality(S \ {c}) = Cardinality(S) - 1
    BY <2>2, FS_RemoveElement
  <2>4. \A d \in Clients : held'[d] # NoWorker <=> pc'[d] \in WithWorker
    BY <1>11 DEF Leave, TypeOK, HandlerState, WithWorker, InExec, NoWorker,
        Worker
  <2>5. QED
    BY <1>11, <2>1, <2>3, <2>4 DEF Leave, HandlerState
<1>12. QED
  BY <1>1, <1>2, <1>3, <1>4, <1>5, <1>6, <1>7, <1>8, <1>9, <1>10,
     <1>11
  DEF Next, Exec, RoutineStep, AutoScale, Reload, Stop

\* Every step keeps Fresh: nothing refers to a worker not spawned yet.
LEMMA FreshStep ==
    TypeOK /\ HandlerState /\ Fresh /\ [Next]_vars => Fresh'
<1> SUFFICES ASSUME TypeOK, HandlerState, Fresh, [Next]_vars
             PROVE  Fresh'
  OBVIOUS
<1>1. ASSUME UNCHANGED <<workers, available, nextID, held,
                  routines, oldWorkers, draining, started, jobs>>
      PROVE  Fresh'
  BY <1>1 DEF Fresh, Spawned
<1>2. ASSUME \/ UNCHANGED vars
             \/ \E c \in Clients : Call(c) \/ GiveUp(c) \/ MarkBusy(c)
                    \/ Enter(c) \/ Leave(c)
             \/ Tick \/ Decide \/ WatchdogExit \/ BeginShutdown \/ CancelPool
             \/ CloseQueue \/ Exit
      PROVE  UNCHANGED <<workers, available, nextID, held,
                  routines, oldWorkers, draining, started, jobs>>
  BY <1>2 DEF Call, GiveUp, MarkBusy, Enter, Leave, Tick, Decide,
      WatchdogExit, BeginShutdown, CancelPool, CloseQueue, Exit, vars,
      queueVars, engineVars, clientVars, controlVars, watchdogVars, reloadVars
<1>3. ASSUME NEW c \in Clients, Take(c)
      PROVE  Fresh'
  <2>1. Head(available) \in Range(available)
        /\ Range(available') \subseteq Range(available)
    BY <1>3, RangeTail DEF Take, TypeOK
  <2>2. QED
    BY <1>3, <2>1 DEF Take, Fresh, Spawned, engineVars, controlVars, reloadVars,
        TypeOK
<1>4. ASSUME NEW c \in Clients, Finish(c)
      PROVE  Fresh'
  <2>1. held[c] \in Spawned
    BY <1>4, HasWorker DEF Finish, Fresh, HandlerState, WithWorker, InExec
  <2>2. \A w \in Worker \ Spawned : jobs'[w] = jobs[w]
    BY <1>4, <2>1 DEF Finish, TypeOK
  <2>3. QED
    BY <1>4, <2>2 DEF Finish, Fresh, Spawned, queueVars, controlVars, reloadVars
<1>5. ASSUME NEW c \in Clients, MarkIdle(c)
      PROVE  Fresh'
  <2>1. held[c] \in Spawned
    BY <1>5, HasWorker DEF MarkIdle, Fresh, HandlerState, WithWorker, InExec
  <2>2. \A h \in routines' : h.w \in Spawned
    BY <1>5, <2>1, RoutineFields DEF MarkIdle, Fresh
  <2>3. \A d \in Clients : held'[d] \in Spawned \cup {NoWorker}
    BY <1>5 DEF MarkIdle, Fresh, TypeOK
  <2>4. QED
    BY <1>5, <2>2, <2>3 DEF MarkIdle, Fresh, Spawned, queueVars, controlVars,
        reloadVars
<1>6. ASSUME NEW c \in Clients, PutBack(c)
      PROVE  Fresh'
  <2>1. held[c] \in Spawned
    BY <1>6, HasWorker DEF PutBack, Fresh, HandlerState, WithWorker, InExec
  <2>2. Range(available') \subseteq Spawned
    BY <1>6, <2>1, AfterPutBack DEF Fresh, Added
  <2>3. \A d \in Clients : held'[d] \in Spawned \cup {NoWorker}
    BY <1>6 DEF PutBack, Fresh, TypeOK
  <2>4. QED
    BY <1>6, <2>2, <2>3 DEF PutBack, Fresh, Spawned, engineVars, controlVars,
        reloadVars
<1>7. ASSUME NEW g \in routines, StoreStopped(g)
      PROVE  Fresh'
  <2>1. \A h \in routines' : h.w \in Spawned
    BY <1>7, RoutineFields DEF StoreStopped, Become, Fresh, TypeOK, Stage
  <2>2. QED
    BY <1>7, <2>1
    DEF StoreStopped, Fresh, Spawned, TypeOK, queueVars, clientVars,
        controlVars, reloadVars
<1>8. ASSUME NEW g \in routines, ShutdownEngine(g)
      PROVE  Fresh'
  <2>1. \A h \in routines' : h.w \in Spawned
    BY <1>8, RoutineFields DEF ShutdownEngine, Become, Fresh, TypeOK, Stage
  <2>2. QED
    BY <1>8, <2>1
    DEF ShutdownEngine, Fresh, Spawned, TypeOK, queueVars, clientVars,
        controlVars, reloadVars
<1>9. ASSUME NEW g \in routines, RemoveWorker(g)
      PROVE  Fresh'
  <2>1. \A h \in routines' : h.w \in Spawned
    BY <1>9, RoutineFields DEF RemoveWorker, Become, Fresh, TypeOK, Stage
  <2>2. QED
    BY <1>9, <2>1
    DEF RemoveWorker, Fresh, Spawned, TypeOK, queueVars, engineVars,
        clientVars, controlVars,
        reloadVars
<1>10. ASSUME NEW g \in routines, SpawnReplacement(g)
      PROVE  Fresh'
  <2>1. Spawned' = Spawned \cup {nextID'}
    BY <1>10, SpawnedGrows DEF SpawnReplacement
  <2>2. \A h \in routines' : h.w \in Spawned'
    BY <1>10, <2>1, SpawnFacts, RoutineFields DEF SpawnReplacement, Fresh
  <2>3. /\ workers' \subseteq Spawned'
        /\ \A w \in Worker \ Spawned' : ~started'[w] /\ jobs[w] = 0
    BY <1>10, <2>1, SpawnFacts DEF SpawnReplacement, Fresh
  <2>4. QED
    BY <1>10, <2>1, <2>2, <2>3 DEF SpawnReplacement, Fresh, queueVars,
        clientVars, controlVars, reloadVars
<1>11. ASSUME NEW g \in routines, Send(g)
      PROVE  Fresh'
  <2>1. g.w \in Spawned
    BY DEF Fresh
  <2>2. Range(available') \subseteq Spawned
    BY <1>11, <2>1, AfterSend DEF Fresh, Added
  <2>3. QED
    BY <1>11, <2>2 DEF Send, Become, Fresh, Spawned, engineVars, clientVars,
        reloadVars
<1>12. CASE ScaleUp
  <2>1. Spawned' = Spawned \cup {nextID'}
    BY <1>12, SpawnedGrows DEF ScaleUp
  <2>2. \A h \in routines' : h.w \in Spawned'
    BY <1>12, <2>1, SpawnFacts, RoutineFields DEF ScaleUp, Fresh
  <2>3. /\ workers' \subseteq Spawned'
        /\ \A w \in Worker \ Spawned' : ~started'[w] /\ jobs[w] = 0
    BY <1>12, <2>1, SpawnFacts DEF ScaleUp, Fresh
  <2>4. QED
    BY <1>12, <2>1, <2>2, <2>3 DEF ScaleUp, Fresh, queueVars, clientVars,
        reloadVars
<1>13. CASE ScaleDown
  <2>1. Range(available') \subseteq Spawned
    BY <1>13, AfterScaleDown DEF Fresh, Removed
  <2>2. \A h \in routines' : h.w \in Spawned
    BY <1>13, AfterScaleDown, RoutineFields DEF Fresh, Removed
  <2>3. QED
    BY <1>13, <2>1, <2>2 DEF ScaleDown, Fresh, Spawned, engineVars, clientVars,
        reloadVars
<1>14. CASE ReloadBegin
  BY <1>14 DEF ReloadBegin, Fresh, Spawned, queueVars, engineVars, clientVars
<1>15. CASE ReloadSpawn
  <2>1. Spawned' = Spawned \cup {nextID'}
    BY <1>15, SpawnedGrows DEF ReloadSpawn
  <2>2. \A h \in routines' : h.w \in Spawned'
    BY <1>15, <2>1, SpawnFacts, RoutineFields DEF ReloadSpawn, Fresh
  <2>3. /\ workers' \subseteq Spawned'
        /\ \A w \in Worker \ Spawned' : ~started'[w] /\ jobs[w] = 0
    BY <1>15, <2>1, SpawnFacts DEF ReloadSpawn, Fresh
  <2>4. QED
    BY <1>15, <2>1, <2>2, <2>3 DEF ReloadSpawn, Fresh, queueVars,
        clientVars
<1>16. CASE ReloadReturn
  BY <1>16 DEF ReloadReturn, Fresh, Spawned, TypeOK, queueVars, engineVars,
      clientVars
<1>17. ASSUME NEW k \in 1 .. MaxReloads, DrainNext(k)
      PROVE  Fresh'
  <2>1. \A h \in routines' : h.w \in Spawned
    BY <1>17, RoutineFields DEF DrainNext, Fresh
  <2>2. \A l \in 1 .. MaxReloads : draining'[l] \subseteq Spawned
    BY <1>17 DEF DrainNext, Fresh, TypeOK
  <2>3. QED
    BY <1>17, <2>1, <2>2 DEF DrainNext, Fresh, Spawned, queueVars, engineVars,
        clientVars
<1>18. CASE StopWorkers
  <2>1. \A h \in routines' : h.w \in Spawned
    BY <1>18, RoutineFields DEF StopWorkers, Fresh
  <2>2. QED
    BY <1>18, <2>1 DEF StopWorkers, Fresh, Spawned, queueVars, engineVars,
        clientVars, reloadVars
<1>19. QED
  BY <1>1, <1>2, <1>3, <1>4, <1>5, <1>6, <1>7, <1>8, <1>9, <1>10, <1>11,
     <1>12, <1>13, <1>14, <1>15, <1>16, <1>17, <1>18
  DEF Next, Exec, RoutineStep, AutoScale, Reload, Stop

\* Every step keeps StopBeforeRemove: removeWorker follows engine.Shutdown, and
\* nobody starts the engine of a worker that is being stopped again.
LEMMA StopBeforeRemoveStep ==
    TypeOK /\ HandlerState /\ Fresh /\ StopBeforeRemove /\ [Next]_vars
        => StopBeforeRemove'
<1> SUFFICES ASSUME TypeOK, HandlerState, Fresh, StopBeforeRemove, [Next]_vars
             PROVE  StopBeforeRemove'
  OBVIOUS
<1>1. ASSUME UNCHANGED <<started, routines>>
      PROVE  StopBeforeRemove'
  BY <1>1 DEF StopBeforeRemove
<1>2. ASSUME \/ UNCHANGED vars
             \/ \E c \in Clients : Call(c) \/ Take(c) \/ GiveUp(c) \/ MarkBusy(c)
                    \/ Enter(c) \/ Finish(c) \/ PutBack(c) \/ Leave(c)
             \/ Tick \/ Decide \/ WatchdogExit \/ ReloadBegin \/ ReloadReturn
             \/ BeginShutdown \/ CancelPool \/ CloseQueue \/ Exit
      PROVE  UNCHANGED <<started, routines>>
  BY <1>2 DEF Call, Take, GiveUp, MarkBusy, Enter, Finish, PutBack, Full,
      Leave, Tick, Decide, WatchdogExit, ReloadBegin, ReloadReturn,
      BeginShutdown, CancelPool, CloseQueue, Exit, vars, queueVars,
      engineVars, clientVars, controlVars, watchdogVars, reloadVars
<1>3. ASSUME NEW c \in Clients, MarkIdle(c)
      PROVE  StopBeforeRemove'
  <2>1. started' = started
    BY <1>3 DEF MarkIdle
  <2>2. \A h \in routines' : h \in routines \/ (h.at = "store" /\ h.job = "replace")
    BY <1>3, RoutineFields DEF MarkIdle
  <2>3. QED
    BY <2>1, <2>2 DEF StopBeforeRemove
<1>4. ASSUME NEW g \in routines, StoreStopped(g)
      PROVE  StopBeforeRemove'
  <2>1. At(g, "shutdown").at = "shutdown" /\ At(g, "shutdown").job = g.job
    BY RoutineFields DEF TypeOK, Stage
  <2>2. QED
    BY <1>4, <2>1 DEF StoreStopped, Become, StopBeforeRemove
<1>5. ASSUME NEW g \in routines, ShutdownEngine(g)
      PROVE  StopBeforeRemove'
  <2>1. /\ At(g, "remove").at = "remove" /\ At(g, "remove").job = g.job
        /\ At(g, "remove").w = g.w
    BY RoutineFields DEF TypeOK, Stage
  <2>2. \A w \in Worker : started'[w] => started[w] /\ w # g.w
    BY <1>5 DEF ShutdownEngine, TypeOK
  <2>3. \A h \in routines' : h \in routines \/ h = At(g, "remove")
    BY <1>5 DEF ShutdownEngine, Become
  <2>4. \A h \in routines : h.w \in Worker
    BY RoutineFields DEF TypeOK
  <2>5. QED
    BY <1>5, <2>1, <2>2, <2>3, <2>4 DEF ShutdownEngine, StopBeforeRemove
<1>6. ASSUME NEW g \in routines, RemoveWorker(g)
      PROVE  StopBeforeRemove'
  <2>1. At(g, "spawn").at = "spawn" /\ At(g, "spawn").job = g.job
    BY RoutineFields DEF TypeOK, Stage
  <2>2. QED
    BY <1>6, <2>1 DEF RemoveWorker, Become, StopBeforeRemove, engineVars
<1>7. ASSUME NEW g \in routines, SpawnReplacement(g)
      PROVE  StopBeforeRemove'
  <2>1. /\ nextID' \notin Spawned
        /\ \A w \in Worker : w # nextID' => started'[w] = started[w]
    BY <1>7, SpawnFacts, SpawnedGrows DEF SpawnReplacement
  <2>2. \A h \in routines' : h \in routines \/ h.at = "send"
    BY <1>7, SpawnFacts, RoutineFields DEF SpawnReplacement
  <2>3. \A h \in routines : started'[h.w] = started[h.w]
    BY <2>1, RoutineFields DEF Fresh, TypeOK
  <2>4. QED
    BY <2>2, <2>3 DEF StopBeforeRemove
<1>8. ASSUME NEW g \in routines, Send(g)
      PROVE  StopBeforeRemove'
  BY <1>8 DEF Send, Become, StopBeforeRemove, engineVars
<1>9. CASE ScaleUp
  <2>1. /\ nextID' \notin Spawned
        /\ \A w \in Worker : w # nextID' => started'[w] = started[w]
    BY <1>9, SpawnFacts, SpawnedGrows DEF ScaleUp
  <2>2. \A h \in routines' : h \in routines \/ h.at = "send"
    BY <1>9, SpawnFacts, RoutineFields DEF ScaleUp
  <2>3. \A h \in routines : started'[h.w] = started[h.w]
    BY <2>1, RoutineFields DEF Fresh, TypeOK
  <2>4. QED
    BY <2>2, <2>3 DEF StopBeforeRemove
<1>10. CASE ScaleDown
  <2>1. \A h \in routines' : h \in routines \/ (h.at = "store" /\ h.job = "scaleDown")
    BY <1>10, RoutineFields DEF ScaleDown
  <2>2. QED
    BY <1>10, <2>1 DEF ScaleDown, StopBeforeRemove, engineVars
<1>11. CASE ReloadSpawn
  <2>1. /\ nextID' \notin Spawned
        /\ \A w \in Worker : w # nextID' => started'[w] = started[w]
    BY <1>11, SpawnFacts, SpawnedGrows DEF ReloadSpawn
  <2>2. \A h \in routines' : h \in routines \/ h.at = "send"
    BY <1>11, SpawnFacts, RoutineFields DEF ReloadSpawn
  <2>3. \A h \in routines : started'[h.w] = started[h.w]
    BY <2>1, RoutineFields DEF Fresh, TypeOK
  <2>4. QED
    BY <2>2, <2>3 DEF StopBeforeRemove
<1>12. ASSUME NEW k \in 1 .. MaxReloads, DrainNext(k)
      PROVE  StopBeforeRemove'
  <2>1. \A h \in routines' : h \in routines \/ (h.at = "store" /\ h.job = "drain")
    BY <1>12, RoutineFields DEF DrainNext
  <2>2. QED
    BY <1>12, <2>1 DEF DrainNext, StopBeforeRemove, engineVars
<1>13. CASE StopWorkers
  <2>1. \A h \in routines' : h \in routines \/ (h.at = "store" /\ h.job = "stop")
    BY <1>13, RoutineFields DEF StopWorkers
  <2>2. QED
    BY <1>13, <2>1 DEF StopWorkers, StopBeforeRemove, engineVars
<1>14. QED
  BY <1>1, <1>2, <1>3, <1>4, <1>5, <1>6, <1>7, <1>8, <1>9, <1>10, <1>11,
      <1>12, <1>13
  DEF Next, Exec, RoutineStep, AutoScale, Reload, Stop

\* Every step keeps NoOrphanEngine: what is removed has been shut down, what is
\* started is registered in the same step.
LEMMA NoOrphanStep ==
    TypeOK /\ StopBeforeRemove /\ NoOrphanEngine /\ [Next]_vars
        => NoOrphanEngine'
<1> SUFFICES ASSUME TypeOK, StopBeforeRemove, NoOrphanEngine, [Next]_vars
             PROVE  NoOrphanEngine'
  OBVIOUS
<1>1. ASSUME UNCHANGED <<started, workers>>
      PROVE  NoOrphanEngine'
  BY <1>1 DEF NoOrphanEngine
<1>2. ASSUME \/ UNCHANGED vars
             \/ \E c \in Clients : Call(c) \/ Take(c) \/ GiveUp(c) \/ MarkBusy(c)
                    \/ Enter(c) \/ Finish(c) \/ MarkIdle(c) \/ PutBack(c)
                    \/ Leave(c)
             \/ \E g \in routines : StoreStopped(g) \/ Send(g)
             \/ \E k \in 1 .. MaxReloads : DrainNext(k)
             \/ Tick \/ Decide \/ ScaleDown \/ WatchdogExit \/ ReloadBegin
             \/ ReloadReturn \/ BeginShutdown \/ CancelPool \/ StopWorkers
             \/ CloseQueue \/ Exit
      PROVE  UNCHANGED <<started, workers>>
  BY <1>2 DEF Call, Take, GiveUp, MarkBusy, Enter, Finish, MarkIdle, PutBack,
      Full, Leave, StoreStopped, Become, Send, Tick, Decide, ScaleDown,
      WatchdogExit, ReloadBegin, ReloadReturn, DrainNext, BeginShutdown,
      CancelPool, StopWorkers, CloseQueue, Exit, vars, queueVars, engineVars,
      clientVars, controlVars, watchdogVars, reloadVars
<1>3. ASSUME NEW g \in routines, ShutdownEngine(g)
      PROVE  NoOrphanEngine'
  BY <1>3, Scenario, RoutineFields
  DEF ShutdownEngine, Become, queueVars, clientVars, controlVars,
      watchdogVars, reloadVars, StopBeforeRemove, NoOrphanEngine, TypeOK
<1>4. ASSUME NEW g \in routines, RemoveWorker(g)
      PROVE  NoOrphanEngine'
  BY <1>4, Scenario
  DEF RemoveWorker, Become, queueVars, engineVars, clientVars, controlVars,
      watchdogVars, reloadVars, StopBeforeRemove, NoOrphanEngine, TypeOK
<1>5. ASSUME NEW g \in routines, SpawnReplacement(g)
      PROVE  NoOrphanEngine'
  BY <1>5, Scenario
  DEF SpawnReplacement, Spawn, queueVars, clientVars, controlVars,
      watchdogVars, reloadVars, StopBeforeRemove, NoOrphanEngine, TypeOK
<1>6. CASE ScaleUp
  BY <1>6, Scenario
  DEF ScaleUp, Spawn, queueVars, clientVars, reloadVars, StopBeforeRemove,
      NoOrphanEngine, TypeOK
<1>7. CASE ReloadSpawn
  BY <1>7, Scenario
  DEF ReloadSpawn, Spawn, queueVars, clientVars, watchdogVars,
      StopBeforeRemove, NoOrphanEngine, TypeOK
<1>8. QED
  BY <1>1, <1>2, <1>3, <1>4, <1>5, <1>6, <1>7
  DEF Next, Exec, RoutineStep, AutoScale, Reload, Stop

\* Every step keeps EngineUpWhileRunning: the read lock of Execute keeps
\* Shutdown out.
LEMMA EngineUpStep ==
    TypeOK /\ HandlerState /\ Fresh /\ EngineUpWhileRunning /\ [Next]_vars
        => EngineUpWhileRunning'
<1> SUFFICES ASSUME TypeOK, HandlerState, Fresh, EngineUpWhileRunning,
                 [Next]_vars
             PROVE  EngineUpWhileRunning'
  OBVIOUS
<1>1. ASSUME UNCHANGED <<started, pc, held>>
      PROVE  EngineUpWhileRunning'
  BY <1>1 DEF EngineUpWhileRunning
<1>2. ASSUME \/ UNCHANGED vars
             \/ \E g \in routines : StoreStopped(g) \/ RemoveWorker(g) \/ Send(g)
             \/ \E k \in 1 .. MaxReloads : DrainNext(k)
             \/ Tick \/ Decide \/ ScaleDown \/ WatchdogExit \/ ReloadBegin
             \/ ReloadReturn \/ BeginShutdown \/ CancelPool \/ StopWorkers
             \/ CloseQueue \/ Exit
      PROVE  UNCHANGED <<started, pc, held>>
  BY <1>2 DEF StoreStopped, Become, RemoveWorker, Send, Full, Tick, Decide,
      ScaleDown, WatchdogExit, ReloadBegin, ReloadReturn, DrainNext,
      BeginShutdown, CancelPool, StopWorkers, CloseQueue, Exit, vars,
      queueVars, engineVars, clientVars, controlVars, watchdogVars, reloadVars
<1>3. ASSUME NEW c \in Clients, Call(c)
      PROVE  EngineUpWhileRunning'
  BY <1>3, Scenario
  DEF Call, queueVars, engineVars, controlVars, watchdogVars, reloadVars,
      HandlerState, WithWorker, InExec, NoWorker, EngineUpWhileRunning,
      TypeOK, Executing, Fresh
<1>4. ASSUME NEW c \in Clients, Take(c)
      PROVE  EngineUpWhileRunning'
  BY <1>4, Scenario
  DEF Take, engineVars, controlVars, watchdogVars, reloadVars, HandlerState,
      WithWorker, InExec, NoWorker, EngineUpWhileRunning, TypeOK, Executing,
      Fresh
<1>5. ASSUME NEW c \in Clients, GiveUp(c)
      PROVE  EngineUpWhileRunning'
  BY <1>5, Scenario
  DEF GiveUp, queueVars, engineVars, controlVars, watchdogVars, reloadVars,
      HandlerState, WithWorker, InExec, NoWorker, EngineUpWhileRunning,
      TypeOK, Executing, Fresh
<1>6. ASSUME NEW c \in Clients, MarkBusy(c)
      PROVE  EngineUpWhileRunning'
  BY <1>6, Scenario
  DEF MarkBusy, queueVars, controlVars, watchdogVars, reloadVars,
      HandlerState, WithWorker, InExec, NoWorker, EngineUpWhileRunning,
      TypeOK, Executing, Fresh
<1>7. ASSUME NEW c \in Clients, Enter(c)
      PROVE  EngineUpWhileRunning'
  BY <1>7, Scenario
  DEF Enter, queueVars, engineVars, controlVars, watchdogVars, reloadVars,
      HandlerState, WithWorker, InExec, NoWorker, EngineUpWhileRunning,
      TypeOK, Executing, Fresh
<1>8. ASSUME NEW c \in Clients, Finish(c)
      PROVE  EngineUpWhileRunning'
  BY <1>8, Scenario
  DEF Finish, queueVars, controlVars, watchdogVars, reloadVars, HandlerState,
      WithWorker, InExec, NoWorker, EngineUpWhileRunning, TypeOK, Executing,
      Fresh
<1>9. ASSUME NEW c \in Clients, MarkIdle(c)
      PROVE  EngineUpWhileRunning'
  <2>1. \A d \in Clients : pc'[d] = "running" =>
                              pc[d] = "running" /\ held'[d] = held[d]
    BY <1>9 DEF MarkIdle, TypeOK
  <2>2. QED
    BY <1>9, <2>1 DEF MarkIdle, EngineUpWhileRunning
<1>10. ASSUME NEW c \in Clients, PutBack(c)
      PROVE  EngineUpWhileRunning'
  BY <1>10, Scenario
  DEF PutBack, Full, engineVars, controlVars, watchdogVars, reloadVars,
      HandlerState, WithWorker, InExec, NoWorker, EngineUpWhileRunning,
      TypeOK, Executing, Fresh
<1>11. ASSUME NEW c \in Clients, Leave(c)
      PROVE  EngineUpWhileRunning'
  BY <1>11, Scenario
  DEF Leave, queueVars, engineVars, controlVars, watchdogVars, reloadVars,
      HandlerState, WithWorker, InExec, NoWorker, EngineUpWhileRunning,
      TypeOK, Executing, Fresh
<1>12. ASSUME NEW g \in routines, ShutdownEngine(g)
      PROVE  EngineUpWhileRunning'
  BY <1>12, Scenario, RoutineFields
  DEF ShutdownEngine, Become, queueVars, clientVars, controlVars,
      watchdogVars, reloadVars, HandlerState, WithWorker, InExec, NoWorker,
      EngineUpWhileRunning, TypeOK, Executing, Fresh
<1>13. ASSUME NEW g \in routines, SpawnReplacement(g)
      PROVE  EngineUpWhileRunning'
  <2>1. /\ nextID' \notin Spawned
        /\ \A w \in Worker : w # nextID' => started'[w] = started[w]
    BY <1>13, SpawnFacts, SpawnedGrows DEF SpawnReplacement
  <2>2. ASSUME NEW c \in Clients, pc[c] = "running"
        PROVE  held[c] \in Worker /\ held[c] \in Spawned
    BY <2>2, HasWorker DEF HandlerState, Fresh, WithWorker, InExec
  <2>3. QED
    BY <1>13, <2>1, <2>2 DEF SpawnReplacement, clientVars, EngineUpWhileRunning
<1>14. CASE ScaleUp
  <2>1. /\ nextID' \notin Spawned
        /\ \A w \in Worker : w # nextID' => started'[w] = started[w]
    BY <1>14, SpawnFacts, SpawnedGrows DEF ScaleUp
  <2>2. ASSUME NEW c \in Clients, pc[c] = "running"
        PROVE  held[c] \in Worker /\ held[c] \in Spawned
    BY <2>2, HasWorker DEF HandlerState, Fresh, WithWorker, InExec
  <2>3. QED
    BY <1>14, <2>1, <2>2 DEF ScaleUp, clientVars, EngineUpWhileRunning
<1>15. CASE ReloadSpawn
  <2>1. /\ nextID' \notin Spawned
        /\ \A w \in Worker : w # nextID' => started'[w] = started[w]
    BY <1>15, SpawnFacts, SpawnedGrows DEF ReloadSpawn
  <2>2. ASSUME NEW c \in Clients, pc[c] = "running"
        PROVE  held[c] \in Worker /\ held[c] \in Spawned
    BY <2>2, HasWorker DEF HandlerState, Fresh, WithWorker, InExec
  <2>3. QED
    BY <1>15, <2>1, <2>2 DEF ReloadSpawn, clientVars, EngineUpWhileRunning
<1>16. QED
  BY <1>1, <1>2, <1>3, <1>4, <1>5, <1>6, <1>7, <1>8, <1>9, <1>10,
     <1>11, <1>12, <1>13, <1>14, <1>15
  DEF Next, Exec, RoutineStep, AutoScale, Reload, Stop

(* Exclusive custody.  The first four lemmas say which changes of the three *)
(* places keep it; the step lemma sorts the actions under them.             *)

\* Only bystanders (drain and stop goroutines, replacers about to spawn) join.
LEMMA CustodyBystanders ==
    ASSUME SoleCustody, available' = available, held' = held,
           \A h \in routines' : h \in routines \/ ~Owner(h)
    PROVE  SoleCustody'
  BY DEF SoleCustody, Queued, HeldByClient, Owned

\* A goroutine moves on with its worker.
LEMMA CustodyAdvances ==
    ASSUME SoleCustody, available' = available, held' = held,
           NEW g \in routines, NEW h, h.w = g.w, Owner(h) => Owner(g),
           routines' = (routines \ {g}) \cup {h}
    PROVE  SoleCustody'
<1>1. \A r \in routines' : (r \in routines /\ r # g) \/ r = h
  OBVIOUS
<1>2. \A r, s \in routines' : Owner(r) /\ Owner(s) /\ r.w = s.w => r = s
  BY <1>1 DEF SoleCustody
<1>3. \A w \in Worker : Owned(w)' => Owned(w)
  BY <1>1 DEF Owned
<1>4. QED
  BY <1>2, <1>3 DEF SoleCustody, Queued, HeldByClient

\* A new worker comes with the goroutine that will send it.
LEMMA CustodySpawns ==
    ASSUME TypeOK, Fresh, SoleCustody, available' = available, held' = held,
           NEW G, NEW j, Spawn(G, j)
    PROVE  SoleCustody'
<1>1. nextID' \notin Spawned /\ nextID' \in Worker
  BY SpawnedGrows
<1> DEFINE s == Sender(j, nextID')
<1>2. /\ \A r \in routines' : r \in routines \/ r = s
      /\ s.w = nextID'
  BY SpawnFacts, RoutineFields
<1> HIDE DEF s
<1>3. \A r \in routines : r.w # nextID'
  BY <1>1 DEF Fresh
<1>4. \A r, t \in routines' : Owner(r) /\ Owner(t) /\ r.w = t.w => r = t
  BY <1>2, <1>3 DEF SoleCustody
<1>5. \A w \in Worker : Owned(w)' => Owned(w) \/ w = nextID'
  BY <1>2 DEF Owned
<1>6. ~Queued(nextID') /\ ~HeldByClient(nextID')
  BY <1>1 DEF Queued, HeldByClient, Fresh, TypeOK, NoWorker, Worker
<1>7. QED
  BY <1>4, <1>5, <1>6 DEF SoleCustody, Queued, HeldByClient

\* SoleCustody is inductive.
LEMMA CustodyStep ==
    TypeOK /\ HandlerState /\ Fresh /\ SoleCustody /\ [Next]_vars
        => SoleCustody'
<1> SUFFICES ASSUME TypeOK, HandlerState, Fresh, SoleCustody, [Next]_vars
             PROVE  SoleCustody'
  OBVIOUS
<1>1. ASSUME UNCHANGED <<available, held, routines>>
      PROVE  SoleCustody'
  BY <1>1, CustodyBystanders
<1>2. ASSUME \/ UNCHANGED vars
             \/ \E c \in Clients : Call(c) \/ GiveUp(c) \/ MarkBusy(c)
                    \/ Enter(c) \/ Finish(c) \/ Leave(c)
             \/ Tick \/ Decide \/ WatchdogExit \/ ReloadBegin \/ ReloadReturn
             \/ BeginShutdown \/ CancelPool \/ CloseQueue \/ Exit
      PROVE  UNCHANGED <<available, held, routines>>
  BY <1>2 DEF Call, GiveUp, MarkBusy, Enter, Finish, Leave, Tick, Decide,
      WatchdogExit, ReloadBegin, ReloadReturn, BeginShutdown, CancelPool,
      CloseQueue, Exit, vars, queueVars, engineVars, clientVars, controlVars,
      watchdogVars, reloadVars
<1>3. ASSUME NEW c \in Clients, Take(c)
      PROVE  SoleCustody'
  <2>1. PICK w \in Worker : Removed(w) /\ held' = [held EXCEPT ![c] = w]
    BY <1>3, AfterTake
  <2>2. /\ IsInjective(available') /\ w \notin Range(available')
        /\ Range(available') \subseteq Range(available) /\ Queued(w)
    BY <2>1 DEF Removed, SoleCustody, Queued
  <2>3. \A d \in Clients : held'[d] = IF d = c THEN w ELSE held[d]
    BY <2>1 DEF TypeOK
  <2>4. ~HeldByClient(w) /\ ~Owned(w)
    BY <2>2 DEF SoleCustody
  <2>5. routines' = routines
    BY <1>3 DEF Take
  <2>6. \A d, e \in Clients :
            held'[d] = held'[e] /\ held'[d] # NoWorker => d = e
    BY <2>3, <2>4 DEF SoleCustody, HeldByClient
  <2>7. QED
    BY <2>2, <2>3, <2>4, <2>5, <2>6 DEF SoleCustody, Queued, HeldByClient,
        Owned
<1>4. ASSUME NEW c \in Clients, MarkIdle(c)
      PROVE  SoleCustody'
  <2>1. held[c] \in Worker /\ held[c] # NoWorker /\ available' = available
    BY <1>4, HasWorker DEF MarkIdle, HandlerState, WithWorker, InExec,
        queueVars
  <2>2. CASE NeedsRecycle(held[c])
    <3> DEFINE r == Stopper("replace", 0, held[c])
    <3>1. /\ \A h \in routines' : h \in routines \/ h = r
          /\ r.w = held[c]
          /\ \A d \in Clients : held'[d] = IF d = c THEN NoWorker ELSE held[d]
      BY <1>4, <2>2, RoutineFields DEF MarkIdle, TypeOK
    <3> HIDE DEF r
    <3>2. ~Queued(held[c]) /\ ~Owned(held[c])
      BY <2>1 DEF SoleCustody, HeldByClient
    <3>3. \A g, h \in routines' : Owner(g) /\ Owner(h) /\ g.w = h.w => g = h
      BY <3>1, <3>2 DEF SoleCustody, Owned
    <3>4. \A w \in Worker : HeldByClient(w)' => HeldByClient(w) /\ w # held[c]
      BY <2>1, <3>1 DEF SoleCustody, HeldByClient, NoWorker, Worker
    <3>5. \A w \in Worker : Owned(w)' => Owned(w) \/ w = held[c]
      BY <3>1 DEF Owned
    <3>6. \A d, e \in Clients :
              held'[d] = held'[e] /\ held'[d] # NoWorker => d = e
      BY <3>1 DEF SoleCustody
    <3>7. QED
      BY <2>1, <3>2, <3>3, <3>4, <3>5, <3>6 DEF SoleCustody, Queued
  <2>3. CASE ~NeedsRecycle(held[c])
    BY <1>4, <2>1, <2>3, <1>1 DEF MarkIdle
  <2>4. QED
    BY <2>2, <2>3
<1>5. ASSUME NEW c \in Clients, PutBack(c)
      PROVE  SoleCustody'
  <2>1. /\ held[c] \in Worker /\ held[c] # NoWorker
        /\ routines' = routines
        /\ \A d \in Clients : held'[d] = IF d = c THEN NoWorker ELSE held[d]
    BY <1>5, AfterPutBack DEF PutBack, HandlerState, WithWorker, InExec, TypeOK
  <2>2. \A w \in Worker : HeldByClient(w)' => HeldByClient(w) /\ w # held[c]
    BY <2>1 DEF SoleCustody, HeldByClient, NoWorker, Worker
  <2>3. \A d, e \in Clients :
            held'[d] = held'[e] /\ held'[d] # NoWorker => d = e
    BY <2>1 DEF SoleCustody
  <2>4. HeldByClient(held[c]) /\ ~Queued(held[c]) /\ ~Owned(held[c])
    BY <2>1 DEF SoleCustody, HeldByClient
  <2>5. IsInjective(available')
        /\ \A w \in Worker : Queued(w)' => Queued(w) \/ w = held[c]
    BY <1>5, <2>4, AfterPutBack DEF Added, Queued, SoleCustody
  <2>6. QED
    BY <2>1, <2>2, <2>3, <2>4, <2>5 DEF SoleCustody, Owned
<1>6. ASSUME NEW g \in routines, StoreStopped(g)
      PROVE  SoleCustody'
  <2>1. /\ At(g, "shutdown").w = g.w
        /\ Owner(At(g, "shutdown")) => Owner(g)
    BY <1>6, RoutineFields DEF StoreStopped, Owner, TypeOK, Stage
  <2>2. QED
    BY <1>6, <2>1, CustodyAdvances DEF StoreStopped, Become, queueVars,
        clientVars
<1>7. ASSUME NEW g \in routines, ShutdownEngine(g)
      PROVE  SoleCustody'
  <2>1. /\ At(g, "remove").w = g.w
        /\ Owner(At(g, "remove")) => Owner(g)
    BY <1>7, RoutineFields DEF ShutdownEngine, Owner, TypeOK, Stage
  <2>2. CASE g.job = "stop"
    BY <1>7, <2>2, CustodyBystanders DEF ShutdownEngine, Become, queueVars,
        clientVars
  <2>3. CASE g.job # "stop"
    BY <1>7, <2>1, <2>3, CustodyAdvances DEF ShutdownEngine, Become,
        queueVars, clientVars
  <2>4. QED
    BY <2>2, <2>3
<1>8. ASSUME NEW g \in routines, RemoveWorker(g)
      PROVE  SoleCustody'
  <2>1. ~Owner(At(g, "spawn"))
    BY RoutineFields DEF Owner, TypeOK, Stage
  <2>2. QED
    BY <1>8, <2>1, CustodyBystanders DEF RemoveWorker, Become, queueVars,
        clientVars
<1>9. ASSUME NEW g \in routines, SpawnReplacement(g)
      PROVE  SoleCustody'
  BY <1>9, CustodySpawns DEF SpawnReplacement, queueVars, clientVars
<1>10. ASSUME NEW g \in routines, Send(g)
      PROVE  SoleCustody'
  <2>1. CASE available' = available /\ routines' = routines
    BY <1>1, <1>10, <2>1 DEF Send, clientVars
  <2>2. CASE Added(g.w) /\ routines' = routines \ {g}
    <3>1. Owner(g) /\ g.w \in Worker /\ held' = held
      BY <1>10, AfterSend DEF Send, Owner, clientVars
    <3>2. Owned(g.w) /\ ~Queued(g.w) /\ ~HeldByClient(g.w)
      BY <3>1 DEF Owned, SoleCustody
    <3>3. \A w \in Worker : Owned(w)' => Owned(w) /\ w # g.w
      BY <2>2, <3>1 DEF Owned, SoleCustody
    <3>4. IsInjective(available')
          /\ \A w \in Worker : Queued(w)' => Queued(w) \/ w = g.w
      BY <2>2, <3>2 DEF Added, Queued, SoleCustody
    <3>5. QED
      BY <2>2, <3>1, <3>2, <3>3, <3>4 DEF SoleCustody, HeldByClient
  <2>3. QED
    BY <1>10, <2>1, <2>2, AfterSend
<1>11. CASE ScaleUp
  BY <1>11, CustodySpawns DEF ScaleUp, queueVars, clientVars
<1>12. CASE ScaleDown
  <2>1. held' = held
    BY <1>12 DEF ScaleDown, clientVars
  <2>2. CASE available' = available /\ routines' = routines
    BY <1>1, <2>1, <2>2
  <2>3. ASSUME NEW w \in Worker, Removed(w),
               routines' = routines \cup {Stopper("scaleDown", 0, w)}
        PROVE  SoleCustody'
    <3> DEFINE s == Stopper("scaleDown", 0, w)
    <3>1. /\ \A h \in routines' : h \in routines \/ h = s
          /\ s.w = w
      BY <2>3, RoutineFields
    <3> HIDE DEF s
    <3>2. /\ IsInjective(available') /\ ~Queued(w)' /\ Queued(w)
          /\ \A v \in Worker : Queued(v)' => Queued(v)
      BY <2>3 DEF Removed, SoleCustody, Queued
    <3>3. ~HeldByClient(w) /\ ~Owned(w)
      BY <3>2 DEF SoleCustody
    <3>4. \A g, h \in routines' : Owner(g) /\ Owner(h) /\ g.w = h.w => g = h
      BY <3>1, <3>3 DEF SoleCustody, Owned
    <3>5. \A v \in Worker : Owned(v)' => Owned(v) \/ v = w
      BY <3>1 DEF Owned
    <3>6. QED
      BY <2>1, <3>2, <3>3, <3>4, <3>5 DEF SoleCustody, HeldByClient
  <2>4. QED
    BY <1>12, <2>2, <2>3, AfterScaleDown
<1>13. CASE ReloadSpawn
  BY <1>13, CustodySpawns DEF ReloadSpawn, queueVars, clientVars
<1>14. ASSUME NEW k \in 1 .. MaxReloads, DrainNext(k)
      PROVE  SoleCustody'
  <2>1. \A w : ~Owner(Stopper("drain", k, w))
    BY RoutineFields DEF Owner
  <2>2. QED
    BY <1>14, <2>1, CustodyBystanders DEF DrainNext, queueVars, clientVars
<1>15. CASE StopWorkers
  <2>1. \A w : ~Owner(Stopper("stop", 0, w))
    BY RoutineFields DEF Owner
  <2>2. QED
    BY <1>15, <2>1, CustodyBystanders DEF StopWorkers, queueVars, clientVars
<1>16. QED
  BY <1>1, <1>2, <1>3, <1>4, <1>5, <1>6, <1>7, <1>8, <1>9, <1>10, <1>11,
     <1>12, <1>13, <1>14, <1>15
  DEF Next, Exec, RoutineStep, AutoScale, Reload, Stop

(* Nothing is lost: every registered worker is in one of the three places.  *)

\* The three places of NoWorkerLost.
Somewhere(w) == Queued(w) \/ HeldByClient(w) \/ Owned(w)

\* What is in the channel or owned stays so when only bystanders come and go.
LEMMA SomewhereKept ==
    ASSUME available' = available, held' = held,
           \A g \in routines : Owner(g) =>
               \E h \in routines' : Owner(h) /\ h.w = g.w
    PROVE  \A w \in Worker : Somewhere(w) => Somewhere(w)'
  BY DEF Somewhere, Queued, HeldByClient, Owned

\* NoWorkerLost is inductive: a worker leaves one place for another, or is
\* unregistered first.
LEMMA NoWorkerLostStep ==
    TypeOK /\ HandlerState /\ StopBeforeRemove /\ NoWorkerLost /\ [Next]_vars
        => NoWorkerLost'
<1> SUFFICES ASSUME TypeOK, HandlerState, StopBeforeRemove, NoWorkerLost,
                    [Next]_vars, ~closed'
             PROVE  \A w \in workers' : Somewhere(w)'
  BY DEF NoWorkerLost, Somewhere
<1>0. workers \subseteq Worker
  BY DEF TypeOK
<1>1. ASSUME UNCHANGED <<available, held, routines, workers, closed>>
      PROVE  \A w \in workers' : Somewhere(w)'
  BY <1>1, SomewhereKept DEF NoWorkerLost, Somewhere, Queued, HeldByClient,
      Owned
<1>2. ASSUME \/ UNCHANGED vars
             \/ \E c \in Clients : Call(c) \/ GiveUp(c) \/ MarkBusy(c)
                    \/ Enter(c) \/ Finish(c) \/ Leave(c)
             \/ Tick \/ Decide \/ WatchdogExit \/ ReloadBegin \/ ReloadReturn
             \/ BeginShutdown \/ CancelPool \/ Exit
      PROVE  UNCHANGED <<available, held, routines, workers, closed>>
  BY <1>2 DEF Call, GiveUp, MarkBusy, Enter, Finish, Leave, Tick, Decide,
      WatchdogExit, ReloadBegin, ReloadReturn, BeginShutdown, CancelPool,
      Exit, vars, queueVars, engineVars, clientVars, controlVars,
      watchdogVars, reloadVars
<1>3. ASSUME NEW c \in Clients, Take(c)
      PROVE  \A w \in workers' : Somewhere(w)'
  <2>1. PICK w \in Worker : Removed(w) /\ held' = [held EXCEPT ![c] = w]
    BY <1>3, AfterTake
  <2>2. /\ \A v \in Worker : Queued(v) => Queued(v)' \/ v = w
        /\ held'[c] = w /\ held[c] = NoWorker
        /\ \A d \in Clients : d # c => held'[d] = held[d]
    BY <1>3, <2>1 DEF Removed, Queued, TypeOK, Take, HandlerState, WithWorker,
        InExec
  <2>3. \A v \in Worker : HeldByClient(v) \/ v = w => HeldByClient(v)'
    BY <2>2 DEF HeldByClient, NoWorker, Worker
  <2>4. /\ workers' = workers /\ ~closed /\ routines' = routines
    BY <1>3 DEF Take
  <2>5. QED
    BY <1>0, <2>2, <2>3, <2>4 DEF NoWorkerLost, Somewhere, Owned
<1>4. ASSUME NEW c \in Clients, MarkIdle(c)
      PROVE  \A w \in workers' : Somewhere(w)'
  <2>1. /\ workers' = workers /\ ~closed /\ available' = available
        /\ routines \subseteq routines'
        /\ \A d \in Clients : d # c => held'[d] = held[d]
    BY <1>4 DEF MarkIdle, queueVars, TypeOK
  <2>2. held'[c] = held[c] \/ Stopper("replace", 0, held[c]) \in routines'
    BY <1>4 DEF MarkIdle
  <2>3. \A w \in Worker : HeldByClient(w) => HeldByClient(w)' \/ Owned(w)'
    BY <2>1, <2>2, RoutineFields DEF HeldByClient, Owned, Owner
  <2>4. QED
    BY <1>0, <2>1, <2>3 DEF NoWorkerLost, Somewhere, Owned, Queued
<1>5. ASSUME NEW c \in Clients, PutBack(c)
      PROVE  \A w \in workers' : Somewhere(w)'
  <2>1. /\ workers' = workers /\ ~closed /\ routines' = routines
        /\ \A d \in Clients : d # c => held'[d] = held[d]
    BY <1>5 DEF PutBack, TypeOK
  <2>2. Added(held[c])
    BY <1>5, <2>1, AfterPutBack
  <2>3. \A w \in Worker : HeldByClient(w) => HeldByClient(w)' \/ Queued(w)'
    BY <2>1, <2>2 DEF HeldByClient, Queued, Added
  <2>4. QED
    BY <1>0, <2>1, <2>2, <2>3 DEF NoWorkerLost, Somewhere, Owned, Queued, Added
<1>6. ASSUME NEW g \in routines, StoreStopped(g)
      PROVE  \A w \in workers' : Somewhere(w)'
  <2>1. At(g, "shutdown").w = g.w /\ (Owner(g) => Owner(At(g, "shutdown")))
    BY <1>6, RoutineFields DEF StoreStopped, Owner, TypeOK, Stage
  <2>2. /\ routines' = (routines \ {g}) \cup {At(g, "shutdown")}
        /\ workers' = workers /\ ~closed /\ available' = available
        /\ held' = held
    BY <1>6 DEF StoreStopped, Become, queueVars, clientVars
  <2>3. QED
    BY <1>0, <2>1, <2>2, SomewhereKept DEF NoWorkerLost, Somewhere
<1>7. ASSUME NEW g \in routines, ShutdownEngine(g)
      PROVE  \A w \in workers' : Somewhere(w)'
  <2>1. At(g, "remove").w = g.w /\ (Owner(g) => Owner(At(g, "remove")))
    BY <1>7, RoutineFields DEF ShutdownEngine, Owner, TypeOK, Stage
  <2>2. /\ routines' = IF g.job = "stop" THEN routines \ {g}
                       ELSE (routines \ {g}) \cup {At(g, "remove")}
        /\ workers' = workers /\ ~closed /\ available' = available
        /\ held' = held
    BY <1>7 DEF ShutdownEngine, Become, queueVars, clientVars
  <2>3. g.job = "stop" => ~Owner(g)
    BY <1>7 DEF ShutdownEngine, Owner
  <2>4. \A r \in routines : Owner(r) =>
            \E h \in routines' : Owner(h) /\ h.w = r.w
    BY <2>1, <2>2, <2>3
  <2>5. QED
    BY <1>0, <2>2, <2>4, SomewhereKept DEF NoWorkerLost, Somewhere
<1>8. ASSUME NEW g \in routines, RemoveWorker(g)
      PROVE  \A w \in workers' : Somewhere(w)'
  <2>1. /\ \A r \in routines : r = g \/ r \in routines'
        /\ workers' = workers \ {g.w} /\ ~closed /\ available' = available
        /\ held' = held
    BY <1>8 DEF RemoveWorker, Become, queueVars, clientVars
  <2>2. \A w \in workers' : Owned(w) => Owned(w)'
    BY <2>1 DEF Owned
  <2>3. QED
    BY <1>0, <2>1, <2>2 DEF NoWorkerLost, Somewhere, Queued, HeldByClient
<1>9. ASSUME NEW G, NEW j, Spawn(G, j), \A g \in G : ~Owner(g),
             UNCHANGED <<queueVars, held>>
      PROVE  \A w \in workers' : Somewhere(w)'
  <2>1. /\ workers' = workers \cup {nextID'}
        /\ \A r \in routines : r \in G \/ r \in routines'
        /\ Sender(j, nextID') \in routines'
        /\ nextID' \in Worker
    BY <1>9, SpawnFacts
  <2>2. \A w \in Worker : w = nextID' => Owned(w)'
    BY <2>1, RoutineFields DEF Owned, Owner
  <2>3. \A w \in Worker : Somewhere(w) => Somewhere(w)'
    BY <1>9, <2>1, SomewhereKept DEF queueVars
  <2>4. QED
    BY <1>0, <1>9, <2>1, <2>2, <2>3 DEF NoWorkerLost, Somewhere, queueVars
<1>10. ASSUME NEW g \in routines, SpawnReplacement(g)
      PROVE  \A w \in workers' : Somewhere(w)'
  <2>1. ~Owner(g)
    BY <1>10 DEF SpawnReplacement, Owner
  <2>2. QED
    BY <1>9, <1>10, <2>1 DEF SpawnReplacement, clientVars
<1>11. ASSUME NEW g \in routines, Send(g)
      PROVE  \A w \in workers' : Somewhere(w)'
  <2>1. workers' = workers /\ ~closed /\ held' = held
    BY <1>11 DEF Send, clientVars
  <2>2. Added(g.w) /\ routines' = routines \ {g}
    BY <1>11, <2>1, AfterSend
  <2>3. \A w \in Worker : Owned(w) => Owned(w)' \/ Queued(w)'
    BY <2>2 DEF Owned, Queued, Added
  <2>4. QED
    BY <1>0, <2>1, <2>2, <2>3 DEF NoWorkerLost, Somewhere, HeldByClient,
        Queued, Added
<1>12. CASE ScaleUp
  BY <1>9, <1>12 DEF ScaleUp, clientVars
<1>13. CASE ScaleDown
  <2>1. workers' = workers /\ ~closed /\ held' = held
    BY <1>13 DEF ScaleDown, clientVars
  <2>2. CASE available' = available /\ routines' = routines
    BY <1>0, <2>1, <2>2, SomewhereKept DEF NoWorkerLost, Somewhere
  <2>3. ASSUME NEW w \in Worker, Removed(w),
               routines' = routines \cup {Stopper("scaleDown", 0, w)}
        PROVE  \A v \in workers' : Somewhere(v)'
    <3>1. Owned(w)'
      BY <2>3, RoutineFields DEF Owned, Owner
    <3>2. \A v \in Worker : Queued(v) => Queued(v)' \/ v = w
      BY <2>3 DEF Removed, Queued
    <3>3. QED
      BY <1>0, <2>1, <2>3, <3>1, <3>2 DEF NoWorkerLost, Somewhere, Owned,
          HeldByClient
  <2>4. QED
    BY <1>13, <2>2, <2>3, AfterScaleDown
<1>14. CASE ReloadSpawn
  BY <1>9, <1>14 DEF ReloadSpawn, clientVars
<1>15. ASSUME \/ \E k \in 1 .. MaxReloads : DrainNext(k)
              \/ StopWorkers
      PROVE  \A w \in workers' : Somewhere(w)'
  <2>1. /\ routines \subseteq routines' /\ workers' = workers /\ ~closed
        /\ available' = available /\ held' = held
    BY <1>15 DEF DrainNext, StopWorkers, queueVars, clientVars
  <2>2. QED
    BY <1>0, <2>1, SomewhereKept DEF NoWorkerLost, Somewhere
<1>16. CASE CloseQueue
  BY <1>16 DEF CloseQueue
<1>17. QED
  BY <1>1, <1>2, <1>3, <1>4, <1>5, <1>6, <1>7, <1>8, <1>10, <1>11, <1>12,
     <1>13, <1>14, <1>15, <1>16
  DEF Next, Exec, RoutineStep, AutoScale, Reload, Stop

(* The job limit.                                                           *)

\* JobsLeft and RecycleBound are inductive together: a worker is handed out with
\* jobs left, and the handler that used up the last one hands it to a replacer.
LEMMA JobsStep ==
    TypeOK /\ HandlerState /\ Fresh /\ SoleCustody /\ JobsLeft /\ RecycleBound
        /\ [Next]_vars => JobsLeft' /\ RecycleBound'
<1> SUFFICES ASSUME TypeOK, HandlerState, Fresh, SoleCustody, JobsLeft,
                    RecycleBound, [Next]_vars, MaxJobs > 0
             PROVE  JobsLeft' /\ RecycleBound'
  BY DEF JobsLeft, RecycleBound
<1> USE DEF JobsLeft, RecycleBound
<1>0. /\ \A c \in Clients : pc[c] \in WithWorker => held[c] \in Worker
      /\ \A g \in routines : g.w \in Worker
      /\ Range(available) \subseteq Worker
      /\ jobs \in [Worker -> Nat]
      /\ MaxJobs \in Nat
  BY HasWorker, RoutineFields, PoolConfig DEF TypeOK, Range
<1>1. ASSUME UNCHANGED <<available, pc, held, routines, jobs>>
      PROVE  JobsLeft' /\ RecycleBound'
  BY <1>1
<1>2. ASSUME \/ UNCHANGED vars
             \/ Tick \/ Decide \/ WatchdogExit \/ ReloadBegin \/ ReloadReturn
             \/ BeginShutdown \/ CancelPool \/ CloseQueue \/ Exit
      PROVE  UNCHANGED <<available, pc, held, routines, jobs>>
  BY <1>2 DEF Tick, Decide, WatchdogExit, ReloadBegin, ReloadReturn,
      BeginShutdown, CancelPool, CloseQueue, Exit, vars, queueVars,
      engineVars, clientVars, controlVars, watchdogVars, reloadVars
<1>3. ASSUME NEW c \in Clients,
             Call(c) \/ GiveUp(c) \/ MarkBusy(c) \/ Enter(c) \/ Leave(c)
      PROVE  JobsLeft' /\ RecycleBound'
  <2>1. /\ UNCHANGED <<available, held, routines, jobs>>
        /\ \A d \in Clients : pc'[d] \in WithWorker \ {"ran"} =>
               pc[d] \in WithWorker \ {"ran"}
    BY <1>3 DEF Call, GiveUp, MarkBusy, Enter, Leave, TypeOK, WithWorker,
        InExec, queueVars, engineVars, clientVars
  <2>2. QED
    BY <2>1
<1>4. ASSUME NEW c \in Clients, Take(c)
      PROVE  JobsLeft' /\ RecycleBound'
  <2>1. PICK w \in Worker : Removed(w) /\ held' = [held EXCEPT ![c] = w]
    BY <1>4, AfterTake
  <2>2. /\ jobs[w] < MaxJobs /\ Range(available') \subseteq Range(available)
        /\ \A d \in Clients : held'[d] = IF d = c THEN w ELSE held[d]
        /\ \A d \in Clients : d # c => pc'[d] = pc[d]
        /\ UNCHANGED <<routines, jobs>>
    BY <1>4, <2>1 DEF Removed, Take, TypeOK, engineVars
  <2>3. QED
    BY <2>2
<1>5. ASSUME NEW c \in Clients, Finish(c)
      PROVE  JobsLeft' /\ RecycleBound'
  <2>1. /\ held[c] \in Worker /\ jobs[held[c]] < MaxJobs
        /\ held[c] # NoWorker
    BY <1>0, <1>5 DEF Finish, WithWorker, InExec, HandlerState
  <2>2. /\ UNCHANGED <<available, held, routines>>
        /\ \A w \in Worker : jobs'[w] =
               IF w = held[c] THEN jobs[w] + 1 ELSE jobs[w]
        /\ \A d \in Clients : pc'[d] = IF d = c THEN "ran" ELSE pc[d]
    BY <1>5, <2>1 DEF Finish, TypeOK, queueVars
  <2>3. /\ held[c] \notin Range(available)
        /\ \A d \in Clients : held[d] = held[c] => d = c
        /\ \A g \in routines : g.at = "send" => g.w # held[c]
    BY <2>1 DEF SoleCustody, Queued, HeldByClient, Owned, Owner
  <2>4. RecycleBound'
    BY <1>0, <2>1, <2>2, <2>3
  <2>5. JobsLeft'
    BY <1>0, <2>1, <2>2, <2>3 DEF WithWorker, InExec
  <2>6. QED
    BY <2>4, <2>5
<1>6. ASSUME NEW c \in Clients, MarkIdle(c)
      PROVE  JobsLeft' /\ RecycleBound'
  <2>1. /\ UNCHANGED <<available, jobs>>
        /\ \A d \in Clients : d # c => pc'[d] = pc[d] /\ held'[d] = held[d]
        /\ held[c] \in Worker
    BY <1>0, <1>6 DEF MarkIdle, TypeOK, queueVars, WithWorker, InExec
  <2>2. \A h \in routines' : h.at = "send" => h \in routines
    BY <1>6, RoutineFields DEF MarkIdle
  <2>3. pc'[c] \in WithWorker => jobs[held'[c]] < MaxJobs
    BY <1>0, <1>6, <2>1 DEF MarkIdle, NeedsRecycle, TypeOK, WithWorker, InExec
  <2>4. QED
    BY <2>1, <2>2, <2>3
<1>7. ASSUME NEW c \in Clients, PutBack(c)
      PROVE  JobsLeft' /\ RecycleBound'
  <2>1. /\ UNCHANGED <<jobs, routines>>
        /\ \A d \in Clients : d # c => pc'[d] = pc[d] /\ held'[d] = held[d]
        /\ pc'[c] = "leave" /\ jobs[held[c]] < MaxJobs
    BY <1>7 DEF PutBack, TypeOK, engineVars, WithWorker, InExec
  <2>2. \A w \in Range(available') : w \in Range(available) \/ w = held[c]
    BY <1>7, AfterPutBack DEF Added
  <2>3. QED
    BY <2>1, <2>2 DEF WithWorker
<1>8. ASSUME NEW g \in routines,
             StoreStopped(g) \/ ShutdownEngine(g) \/ RemoveWorker(g)
      PROVE  JobsLeft' /\ RecycleBound'
  <2>1. UNCHANGED <<available, pc, held, jobs>>
    BY <1>8 DEF StoreStopped, ShutdownEngine, RemoveWorker, queueVars,
        engineVars, clientVars
  <2>2. \A a \in {"shutdown", "remove", "spawn"} : At(g, a).at = a
    BY RoutineFields DEF TypeOK, Stage
  <2>3. \A h \in routines' : h.at = "send" => h \in routines
    BY <1>8, <2>2 DEF StoreStopped, ShutdownEngine, RemoveWorker, Become
  <2>4. QED
    BY <2>1, <2>3
<1>9. ASSUME NEW G, NEW j, Spawn(G, j), UNCHANGED <<available, pc, held, jobs>>
      PROVE  JobsLeft' /\ RecycleBound'
  <2>1. jobs[nextID'] = 0
    BY <1>9, SpawnedGrows DEF Fresh
  <2>2. \A h \in routines' : h \in routines \/ h.w = nextID'
    BY <1>9, SpawnFacts, RoutineFields
  <2>3. QED
    BY <1>0, <1>9, <2>1, <2>2
<1>10. ASSUME NEW g \in routines, SpawnReplacement(g)
      PROVE  JobsLeft' /\ RecycleBound'
  BY <1>9, <1>10 DEF SpawnReplacement, queueVars, clientVars
<1>11. ASSUME NEW g \in routines, Send(g)
      PROVE  JobsLeft' /\ RecycleBound'
  <2>1. /\ UNCHANGED <<pc, held, jobs>> /\ routines' \subseteq routines
        /\ jobs[g.w] < MaxJobs
    BY <1>11, AfterSend DEF Send, engineVars, clientVars
  <2>2. \A w \in Range(available') : w \in Range(available) \/ w = g.w
    BY <1>11, AfterSend DEF Added
  <2>3. QED
    BY <2>1, <2>2
<1>12. CASE ScaleUp
  BY <1>9, <1>12 DEF ScaleUp, queueVars, clientVars
<1>13. CASE ScaleDown
  <2>1. UNCHANGED <<pc, held, jobs>>
    BY <1>13 DEF ScaleDown, engineVars, clientVars
  <2>2. Range(available') \subseteq Range(available)
    BY <1>13, AfterScaleDown DEF Removed
  <2>3. \A h \in routines' : h.at = "send" => h \in routines
    BY <1>13, RoutineFields DEF ScaleDown
  <2>4. QED
    BY <2>1, <2>2, <2>3
<1>14. CASE ReloadSpawn
  BY <1>9, <1>14 DEF ReloadSpawn, queueVars, clientVars
<1>15. ASSUME \/ \E k \in 1 .. MaxReloads : DrainNext(k)
              \/ StopWorkers
      PROVE  JobsLeft' /\ RecycleBound'
  <2>1. UNCHANGED <<available, pc, held, jobs>>
    BY <1>15 DEF DrainNext, StopWorkers, queueVars, engineVars, clientVars
  <2>2. \A h \in routines' : h.at = "send" => h \in routines
    BY <1>15, RoutineFields DEF DrainNext, StopWorkers
  <2>3. QED
    BY <2>1, <2>2
<1>16. QED
  BY <1>1, <1>2, <1>3, <1>4, <1>5, <1>6, <1>7, <1>8, <1>10, <1>11, <1>12,
     <1>13, <1>14, <1>15
  DEF Next, Exec, RoutineStep, AutoScale, Reload, Stop

-----------------------------------------------------------------------------
(* The theorems.                                                            *)

\* The pool Start leaves behind satisfies the inductive invariant.
LEMMA InitInv == Init => IndInv
<1> SUFFICES ASSUME Init PROVE IndInv
  OBVIOUS
<1> USE PoolConfig, Scenario
<1>1. /\ 1 .. MinWorkers \subseteq Worker
      /\ available \in Seq(Worker) /\ Len(available) = MinWorkers
      /\ Range(available) = 1 .. MinWorkers /\ IsInjective(available)
  <2>1. 1 .. MinWorkers \subseteq Worker
    BY DEF Worker
  <2>2. available = [i \in 1 .. MinWorkers |-> i]
    BY DEF Init
  <2>3. available \in [1 .. MinWorkers -> Worker]
    BY <2>1, <2>2
  <2>4. QED
    BY <2>1, <2>2, <2>3 DEF Range, IsInjective
<1>2. /\ started \in [Worker -> BOOLEAN]
      /\ \A w \in Worker : started[w] <=> Mode = "worker" /\ w <= MinWorkers
  BY Zenon DEF Init
<1>3. /\ workers = 1 .. MinWorkers /\ nextID = MinWorkers
      /\ routines = {} /\ oldWorkers = {}
      /\ jobs = [w \in Worker |-> 0]
      /\ pc = [c \in Clients |-> "out"]
      /\ held = [c \in Clients |-> NoWorker]
      /\ draining = [k \in 1 .. MaxReloads |-> {}]
      /\ busyWorkers = 0
  BY DEF Init
<1>4. HandlerState
  <2>1. {c \in Clients : pc[c] \in InExec} = {}
    BY <1>3 DEF InExec
  <2>2. QED
    BY <1>3, <2>1, FS_EmptySet DEF HandlerState, WithWorker, InExec
<1>5. TypeOK
  <2>1. Cardinality(Clients) \in Nat
    BY ClientsFinite, FS_CardinalityType
  <2>2. /\ state \in [Worker -> {"Idle", "Busy", "Stopped"}]
        /\ reply \in [Clients -> {"none", "ok", "engine", "timeout",
                                  "shutdown", "panic"}]
        /\ closed = FALSE /\ cancelled = FALSE /\ crashed = FALSE
        /\ watchdog = "wait" /\ seenTotal = 0 /\ reloading = FALSE
        /\ reloads = 0 /\ toSpawn = 0 /\ main = "serving"
    BY DEF Init
  <2>3. /\ jobs \in [Worker -> Nat]
        /\ held \in [Clients -> Worker \cup {NoWorker}]
        /\ draining \in [1 .. MaxReloads -> SUBSET Worker]
        /\ workers \subseteq Worker /\ nextID \in 0 .. MaxID
        /\ busyWorkers \in 0 .. Cardinality(Clients)
    BY <1>1, <1>3, <2>1
  <2>4. /\ available \in Seq(Worker) /\ Len(available) <= MaxWorkers
        /\ seenTotal \in Nat /\ reloads \in 0 .. MaxReloads
        /\ toSpawn \in 0 .. MinWorkers
    BY <1>1, <2>2
  <2>5. QED
    BY <1>2, <1>3, <2>2, <2>3, <2>4 DEF TypeOK
<1>6. Fresh
  <2>1. \A w \in Worker \ Spawned : ~started[w]
    BY <1>2, <1>3 DEF Spawned, Worker
  <2>2. QED
    BY <1>1, <1>3, <2>1 DEF Fresh, Spawned
<1>7. SoleCustody
  BY <1>1, <1>3 DEF SoleCustody, Queued, HeldByClient, Owned, Worker, NoWorker
<1>8. NoWorkerLost
  BY <1>1, <1>3 DEF NoWorkerLost, Queued
<1>9. StopBeforeRemove /\ NoOrphanEngine /\ EngineUpWhileRunning
  BY <1>2, <1>3 DEF StopBeforeRemove, NoOrphanEngine, EngineUpWhileRunning,
      Worker
<1>10. JobsLeft /\ RecycleBound
  BY <1>1, <1>3 DEF JobsLeft, RecycleBound, WithWorker, InExec
<1>11. QED
  BY <1>4, <1>5, <1>6, <1>7, <1>8, <1>9, <1>10 DEF IndInv

\* Every step keeps it.
LEMMA StepInv == IndInv /\ [Next]_vars => IndInv'
<1> SUFFICES ASSUME IndInv, [Next]_vars PROVE IndInv'
  OBVIOUS
<1> USE DEF IndInv
<1>1. HandlerState'
  BY HandlerStep
<1>2. busyWorkers' \in 0 .. Cardinality(Clients)
  <2> DEFINE S == {c \in Clients : pc'[c] \in InExec}
  <2>1. IsFiniteSet(S) /\ Cardinality(S) <= Cardinality(Clients)
    BY ClientsFinite, FS_Subset
  <2>2. Cardinality(S) \in Nat /\ Cardinality(Clients) \in Nat
    BY <2>1, ClientsFinite, FS_CardinalityType
  <2>3. busyWorkers' = Cardinality(S)
    BY <1>1 DEF HandlerState
  <2>4. QED
    BY <2>1, <2>2, <2>3
<1>3. TypeOK'
  BY <1>2, TypeStep
<1>4. Fresh' /\ SoleCustody' /\ NoWorkerLost'
  BY FreshStep, CustodyStep, NoWorkerLostStep
<1>5. StopBeforeRemove' /\ NoOrphanEngine' /\ EngineUpWhileRunning'
  BY StopBeforeRemoveStep, NoOrphanStep, EngineUpStep
<1>6. JobsLeft' /\ RecycleBound'
  BY JobsStep
<1>7. QED
  BY <1>1, <1>3, <1>4, <1>5, <1>6

\* IndInv is an invariant of the pool.
THEOREM Invariance == Spec => []IndInv
  BY InitInv, StepInv, PTL DEF Spec

\* Every variable keeps its type; in particular busyWorkers, incremented and
\* decremented by racing handlers, counts some of the handlers.
THEOREM TypeCorrect == Spec => []TypeOK
  BY Invariance, PTL DEF IndInv

\* No worker is ever in two places.
THEOREM CustodyIsExclusive == Spec => []SoleCustody
  BY Invariance, PTL DEF IndInv

\* No registered worker is lost while the pool is open.
THEOREM NothingLost == Spec => []NoWorkerLost
  BY Invariance, PTL DEF IndInv

\* No engine stays up after its worker is removed.
THEOREM NoOrphans == Spec => []NoOrphanEngine
  BY Invariance, PTL DEF IndInv

\* No engine is shut down under a running script.
THEOREM EngineStaysUp == Spec => []EngineUpWhileRunning
  BY Invariance, PTL DEF IndInv

\* max_jobs is exact.
THEOREM JobsBounded == Spec => []RecycleBound
  BY Invariance, PTL DEF IndInv

-----------------------------------------------------------------------------
(* Requests without reloads: NoFailedRequest.                               *)

\* QuietInv is inductive relative to IndInv: without reloads, an engine that can
\* be handed out is up until main stops the pool, after the last handler left.
LEMMA QuietStep == IndInv /\ QuietInv /\ [Next]_vars => QuietInv'
<1> SUFFICES ASSUME IndInv, QuietInv, [Next]_vars,
                    MaxReloads = 0, Mode = "worker"
             PROVE  QuietInv'
  BY DEF QuietInv
<1> DEFINE Serving == main \in {"serving", "draining"}
<1>0. /\ TypeOK /\ HandlerState /\ Fresh /\ SoleCustody /\ StopBeforeRemove
      /\ \A c \in Clients : pc[c] \in WithWorker =>
             held[c] \in Worker /\ held[c] \in Spawned /\ held[c] # NoWorker
      /\ \A g \in routines : g.w \in Worker /\ g.w \in Spawned
      /\ Range(available) \subseteq Worker /\ Range(available) \subseteq Spawned
  BY HasWorker, RoutineFields DEF IndInv, TypeOK, Range, HandlerState, Fresh
<1>late. ASSUME NEW c \in Clients, pc[c] # "out", ~Serving,
                UNCHANGED <<closed, main>>,
                \A h \in routines' : h \in routines \/ h.job = "replace"
         PROVE  QuietInv'
  BY <1>late DEF QuietInv
<1>1. ASSUME UNCHANGED <<available, closed, main, pc, held, reply, routines,
                         started>>
      PROVE  QuietInv'
  BY <1>1 DEF QuietInv
<1>2. ASSUME \/ UNCHANGED vars
             \/ \E c \in Clients : MarkBusy(c)
             \/ Tick \/ Decide \/ WatchdogExit \/ ReloadBegin \/ ReloadReturn
      PROVE  QuietInv'
  <2>1. CASE \E c \in Clients : MarkBusy(c)
    <3>1. PICK c \in Clients : MarkBusy(c)
      BY <2>1
    <3>2. /\ UNCHANGED <<available, closed, main, held, reply, routines, started>>
          /\ \A d \in Clients : /\ pc'[d] = "out" <=> pc[d] = "out"
                                /\ pc'[d] \in WithWorker => pc[d] \in WithWorker
      BY <1>0, <3>1 DEF MarkBusy, TypeOK, queueVars, controlVars, WithWorker,
          InExec
    <3>3. QED
      BY <3>2 DEF QuietInv
  <2>2. CASE \/ UNCHANGED vars
             \/ Tick \/ Decide \/ WatchdogExit \/ ReloadBegin \/ ReloadReturn
    BY <1>1, <2>2 DEF Tick, Decide, WatchdogExit, ReloadBegin, ReloadReturn,
        vars, queueVars, engineVars, clientVars, controlVars
  <2>3. QED
    BY <1>2, <2>1, <2>2
<1>3. ASSUME NEW c \in Clients,
             Call(c) \/ GiveUp(c) \/ Enter(c) \/ Finish(c) \/ Leave(c)
      PROVE  QuietInv'
  <2>0. CASE ~Serving
    BY <1>3, <1>late, <2>0, RoutineFields
    DEF Call, GiveUp, Enter, Finish, Leave, queueVars, controlVars
  <2> SUFFICES ASSUME Serving PROVE QuietInv'
    BY <2>0
  <2>1. Serving
    OBVIOUS
  <2>2. ~closed
    BY <2>1 DEF QuietInv
  <2>3. UNCHANGED <<available, closed, main, held, routines, started>>
    BY <1>3 DEF Call, GiveUp, Enter, Finish, Leave, queueVars, engineVars,
        controlVars
  <2>4. \A d \in Clients : pc'[d] \in WithWorker => pc[d] \in WithWorker
    BY <1>0, <1>3 DEF Call, GiveUp, Enter, Finish, Leave, TypeOK, WithWorker,
        InExec
  <2>5. \A d \in Clients : reply'[d] \notin {"engine", "panic"}
    BY <1>0, <1>3, <2>1, <2>2 DEF Call, GiveUp, Enter, Finish, Leave, TypeOK,
        WithWorker, InExec, QuietInv
  <2>6. QED
    BY <2>1, <2>2, <2>3, <2>4, <2>5 DEF QuietInv
<1>4. ASSUME NEW c \in Clients, Take(c)
      PROVE  QuietInv'
  <2>0. CASE ~Serving
    BY <1>4, <1>late, <2>0, RoutineFields
    DEF Take, queueVars, controlVars
  <2> SUFFICES ASSUME Serving PROVE QuietInv'
    BY <2>0
  <2>1. Serving
    OBVIOUS
  <2>2. PICK w \in Worker : Removed(w) /\ held' = [held EXCEPT ![c] = w]
    BY <1>0, <1>4, AfterTake
  <2>3. started[w] /\ Range(available') \subseteq Range(available)
    BY <2>1, <2>2 DEF Removed, QuietInv
  <2>4. /\ \A d \in Clients : held'[d] = IF d = c THEN w ELSE held[d]
        /\ \A d \in Clients : d # c => pc'[d] = pc[d]
        /\ UNCHANGED <<closed, main, reply, routines, started>>
    BY <1>0, <1>4, <2>2 DEF Take, TypeOK, engineVars, controlVars
  <2>5. QED
    BY <2>1, <2>3, <2>4 DEF QuietInv
<1>5. ASSUME NEW c \in Clients, MarkIdle(c)
      PROVE  QuietInv'
  <2>0. CASE ~Serving
    BY <1>5, <1>late, <2>0, RoutineFields
    DEF MarkIdle, queueVars, controlVars
  <2> SUFFICES ASSUME Serving PROVE QuietInv'
    BY <2>0
  <2>1. Serving
    OBVIOUS
  <2>2. /\ UNCHANGED <<available, closed, main, reply, started>>
        /\ \A d \in Clients : pc'[d] \in WithWorker =>
               pc[d] \in WithWorker /\ held'[d] = held[d]
    BY <1>0, <1>5 DEF MarkIdle, TypeOK, queueVars, controlVars, WithWorker,
        InExec
  <2>3. \A h \in routines' : \/ h \in routines
                             \/ h.job = "replace" /\ h.at = "store"
    BY <1>5, RoutineFields DEF MarkIdle
  <2>4. QED
    BY <2>1, <2>2, <2>3 DEF QuietInv
<1>6. ASSUME NEW c \in Clients, PutBack(c)
      PROVE  QuietInv'
  <2>0. CASE ~Serving
    BY <1>6, <1>late, <2>0, RoutineFields
    DEF PutBack, queueVars, controlVars
  <2> SUFFICES ASSUME Serving PROVE QuietInv'
    BY <2>0
  <2>1. Serving
    OBVIOUS
  <2>2. ~closed /\ started[held[c]]
    BY <1>6, <2>1 DEF PutBack, QuietInv, WithWorker, InExec
  <2>3. /\ UNCHANGED <<closed, main, reply, routines, started>>
        /\ \A d \in Clients : pc'[d] \in WithWorker =>
               pc[d] \in WithWorker /\ held'[d] = held[d]
    BY <1>0, <1>6, <2>2 DEF PutBack, TypeOK, engineVars, controlVars,
        WithWorker, InExec
  <2>4. \A w \in Range(available') : w \in Range(available) \/ w = held[c]
    BY <1>0, <1>6, AfterPutBack DEF Added
  <2>5. QED
    BY <2>1, <2>2, <2>3, <2>4 DEF QuietInv
<1>7. ASSUME NEW g \in routines,
             StoreStopped(g) \/ RemoveWorker(g)
      PROVE  QuietInv'
  <2>1. UNCHANGED <<available, closed, main, pc, held, reply, started>>
    BY <1>7 DEF StoreStopped, RemoveWorker, queueVars, engineVars, clientVars,
        controlVars
  <2>2. \A a \in {"shutdown", "spawn"} : /\ At(g, a).at = a
                                         /\ At(g, a).job = g.job
    BY <1>0, RoutineFields DEF TypeOK, Stage
  <2>3. \A h \in routines' : h \in routines \/ (h.job = g.job /\ h.at # "send")
    BY <1>7, <2>2 DEF StoreStopped, RemoveWorker, Become
  <2>4. QED
    BY <2>1, <2>3 DEF QuietInv
<1>8. ASSUME NEW g \in routines, ShutdownEngine(g)
      PROVE  QuietInv'
  <2>1. /\ UNCHANGED <<available, closed, main, pc, held, reply>>
        /\ \A w \in Worker : w # g.w => started'[w] = started[w]
    BY <1>0, <1>8 DEF ShutdownEngine, queueVars, clientVars, controlVars,
        TypeOK
  <2>2. At(g, "remove").at = "remove" /\ At(g, "remove").job = g.job
    BY <1>0, RoutineFields DEF TypeOK, Stage
  <2>3. \A h \in routines' : h \in routines \/ (h.job = g.job /\ h.at # "send")
    BY <1>8, <2>2 DEF ShutdownEngine, Become
  <2>4. ASSUME Serving
        PROVE  /\ g.w \notin Range(available)
               /\ \A d \in Clients : held[d] # g.w
               /\ \A h \in routines : h.at = "send" => h.w # g.w
    <3>1. Owner(g)
      BY <1>0, <1>8, <2>4 DEF ShutdownEngine, StopBeforeRemove, QuietInv, Owner
    <3>2. QED
      BY <1>0, <1>8, <3>1 DEF ShutdownEngine, SoleCustody, Owned, Queued,
          HeldByClient, Owner
  <2>5. QED
    BY <1>0, <2>1, <2>3, <2>4 DEF QuietInv
<1>9. ASSUME NEW G, NEW j, Spawn(G, j), j \notin {"drain", "stop"},
             UNCHANGED <<available, closed, main, pc, held, reply>>
      PROVE  QuietInv'
  <2>1. /\ nextID' \notin Spawned /\ nextID' \in Worker
        /\ started' = [started EXCEPT ![nextID'] = TRUE]
        /\ routines' = (routines \ G) \cup {Sender(j, nextID')}
    BY <1>0, <1>9, SpawnedGrows, SpawnFacts DEF Spawn
  <2>2. started'[nextID'] /\ \A w \in Spawned \cap Worker : started'[w] = started[w]
    BY <1>0, <2>1 DEF TypeOK
  <2>3. \A h \in routines' : \/ h \in routines
                             \/ h.job = j /\ h.w = nextID'
    BY <2>1, RoutineFields
  <2>4. QED
    BY <1>0, <1>9, <2>2, <2>3 DEF QuietInv
<1>10. ASSUME NEW g \in routines, SpawnReplacement(g)
      PROVE  QuietInv'
  BY <1>9, <1>10 DEF SpawnReplacement, queueVars, clientVars, controlVars
<1>11. ASSUME NEW g \in routines, Send(g)
      PROVE  QuietInv'
  <2>1. /\ UNCHANGED <<closed, main, pc, held, reply, started>>
        /\ routines' \subseteq routines
    BY <1>0, <1>11, AfterSend DEF Send, engineVars, clientVars
  <2>2. Serving => started[g.w]
    BY <1>11 DEF Send, QuietInv
  <2>3. \A w \in Range(available') : w \in Range(available) \/ w = g.w
    BY <1>0, <1>11, AfterSend DEF Added
  <2>4. QED
    BY <2>1, <2>2, <2>3 DEF QuietInv
<1>12. CASE ScaleUp
  BY <1>9, <1>12 DEF ScaleUp, queueVars, clientVars
<1>13. CASE ScaleDown
  <2>1. UNCHANGED <<closed, main, pc, held, reply, started>>
    BY <1>13 DEF ScaleDown, engineVars, clientVars
  <2>2. Range(available') \subseteq Range(available)
    BY <1>0, <1>13, AfterScaleDown DEF Removed
  <2>3. \A h \in routines' : \/ h \in routines
                             \/ h.job = "scaleDown" /\ h.at = "store"
    BY <1>13, RoutineFields DEF ScaleDown
  <2>4. QED
    BY <2>1, <2>2, <2>3 DEF QuietInv
<1>14. CASE ReloadSpawn
  BY <1>9, <1>14 DEF ReloadSpawn, queueVars, clientVars
<1>15. ~ \E k \in 1 .. MaxReloads : DrainNext(k)
  OBVIOUS
<1>16. CASE BeginShutdown \/ CloseQueue \/ Exit
  BY <1>16 DEF BeginShutdown, CloseQueue, Exit, QuietInv, queueVars,
      engineVars, clientVars
<1>17. CASE CancelPool
  BY <1>17 DEF CancelPool, QuietInv, queueVars, engineVars, clientVars
<1>18. CASE StopWorkers
  <2>1. /\ UNCHANGED <<available, closed, pc, held, reply, started>>
        /\ main = "cancelled" /\ main' = "stopping"
    BY <1>18 DEF StopWorkers, queueVars, engineVars, clientVars
  <2>2. \A h \in routines' : h \in routines \/ h.job = "stop"
    BY <1>18, RoutineFields DEF StopWorkers
  <2>3. QED
    BY <2>1, <2>2 DEF QuietInv
<1>19. QED
  BY <1>1, <1>2, <1>3, <1>4, <1>5, <1>6, <1>7, <1>8, <1>10, <1>11, <1>12,
     <1>13, <1>14, <1>15, <1>16, <1>17, <1>18
  DEF Next, Exec, RoutineStep, AutoScale, Reload, Stop

\* Without reloads no request that ends before the deadline of the shutdown fails
\* for want of an engine or panics, however recycling, scaling and shutdown race.
THEOREM RequestsServed == Spec => []NoFailedRequest
<1>1. Init => QuietInv
  <2> SUFFICES ASSUME Init, Mode = "worker" PROVE QuietInv
    BY DEF QuietInv
  <2>1. IndInv
    BY InitInv
  <2>2. \A w \in Range(available) : w \in Worker /\ w <= MinWorkers
    BY <2>1, PoolConfig DEF Init, Range, IndInv, TypeOK
  <2>3. \A w \in Worker : w <= MinWorkers => started[w]
    BY Zenon DEF Init
  <2>4. /\ pc = [c \in Clients |-> "out"] /\ routines = {}
        /\ reply = [c \in Clients |-> "none"]
        /\ main = "serving" /\ closed = FALSE
    BY DEF Init
  <2>5. QED
    BY <2>2, <2>3, <2>4 DEF QuietInv, WithWorker, InExec
<1>2. QuietInv => NoFailedRequest
  BY DEF QuietInv, NoFailedRequest
<1>3. QED
  BY <1>1, <1>2, Invariance, QuietStep, PTL DEF Spec

-----------------------------------------------------------------------------
(* The size of the pool: SizeWithinBounds.                                  *)

\* The scenario of SizeWithinBounds.
ScalingOnly == MaxReloads = 0 /\ MaxJobs = 0 /\ PromptStop

\* What makes SizeWithinBounds inductive.  Only autoScale changes the size, one
\* step at a time: the numbers it decides on are still true when it acts, because
\* the one scale-down there can be has ended before Stats reads them, and a
\* scale-down that is under way has a worker to spare.
SizeInv ==
    /\ ~reloading
    /\ \A g \in routines : /\ g.job \in {"scaleUp", "scaleDown", "stop"}
                           /\ g.job = "stop" => g.at \in {"store", "shutdown"}
    /\ \A g, h \in routines : g.job = "scaleDown" /\ h.job = "scaleDown" => g = h
    /\ Pending("scaleDown") => watchdog \in {"wait", "exit"} /\ MinWorkers < Total
    /\ watchdog = "stats" => seenTotal = Total
    /\ watchdog = "up" => Total < MaxWorkers
    /\ watchdog = "down" => MinWorkers < Total
    /\ MinWorkers <= Total /\ Total <= MaxWorkers

\* A spawn adds one worker to the pool.
LEMMA SpawnCounts ==
    ASSUME TypeOK, Fresh, NEW G, NEW j, Spawn(G, j)
    PROVE  Total' = Total + 1
<1>1. IsFiniteSet(workers)
  BY WorkersFinite DEF TypeOK
<1>2. nextID' \notin workers /\ workers' = workers \cup {nextID'}
  BY SpawnedGrows, SpawnFacts DEF Fresh
<1>3. QED
  BY <1>1, <1>2, FS_AddElement DEF Total

\* removeWorker takes at most one worker out of the pool.
LEMMA RemoveCounts ==
    ASSUME TypeOK, NEW w, workers' = workers \ {w}
    PROVE  Total' \in {Total, Total - 1}
<1>1. IsFiniteSet(workers)
  BY WorkersFinite DEF TypeOK
<1>2. Cardinality(workers \ {w}) = IF w \in workers THEN Cardinality(workers) - 1
                                   ELSE Cardinality(workers)
  BY <1>1, FS_RemoveElement
<1>3. QED
  BY <1>2 DEF Total

\* SizeInv is inductive relative to IndInv.
LEMMA SizeStep == ScalingOnly /\ IndInv /\ SizeInv /\ [Next]_vars => SizeInv'
<1> SUFFICES ASSUME ScalingOnly, IndInv, SizeInv, [Next]_vars PROVE SizeInv'
  OBVIOUS
<1>1. /\ TypeOK /\ Fresh /\ StopBeforeRemove
      /\ Total \in Nat /\ MinWorkers \in Nat /\ MaxWorkers \in Nat
      /\ \A g \in routines : g \in Routine
  BY TotalIsNat, PoolConfig DEF IndInv, TypeOK
<1>2. ASSUME UNCHANGED <<workers, watchdog, seenTotal, reloading>>,
             routines' \subseteq routines
      PROVE  SizeInv'
  BY <1>2 DEF SizeInv, Pending, Total
<1>3. ASSUME NEW c \in Clients, Call(c) \/ Exec(c) PROVE SizeInv'
  <2>1. ~NeedsRecycle(held[c])
    BY DEF ScalingOnly, NeedsRecycle
  <2>2. UNCHANGED <<workers, watchdog, seenTotal, reloading, routines>>
    BY <1>3, <2>1 DEF Call, Exec, Take, GiveUp, MarkBusy, Enter, Finish, MarkIdle,
        PutBack, Leave, controlVars, watchdogVars, reloadVars
  <2>3. QED
    BY <1>2, <2>2
<1>4. ASSUME NEW g \in routines, NEW a \in Stage,
             g.job = "stop" => a \in {"store", "shutdown"},
             routines' = (routines \ {g}) \cup {At(g, a)},
             UNCHANGED <<workers, watchdog, seenTotal, reloading>>
      PROVE  SizeInv'
  <2>1. At(g, a).job = g.job /\ At(g, a).at = a
    BY <1>1, RoutineFields
  <2>2. \A h \in routines' : (h \in routines /\ h # g) \/ h = At(g, a)
    BY <1>4
  <2>3. \A h \in routines' : /\ h.job \in {"scaleUp", "scaleDown", "stop"}
                             /\ h.job = "stop" => h.at \in {"store", "shutdown"}
    BY <1>4, <2>1, <2>2 DEF SizeInv
  <2>4. \A h, i \in routines' : h.job = "scaleDown" /\ i.job = "scaleDown" => h = i
    BY <2>1, <2>2 DEF SizeInv
  <2>5. Pending("scaleDown")' => Pending("scaleDown")
    BY <2>1, <2>2 DEF Pending
  <2>6. QED
    BY <1>4, <2>3, <2>4, <2>5 DEF SizeInv, Total
<1>5. ASSUME NEW g \in routines, StoreStopped(g) PROVE SizeInv'
  BY <1>4, <1>5 DEF StoreStopped, Become, Stage, controlVars, watchdogVars,
      reloadVars
<1>6. ASSUME NEW g \in routines, ShutdownEngine(g) PROVE SizeInv'
  <2>1. UNCHANGED <<workers, watchdog, seenTotal, reloading>>
    BY <1>6 DEF ShutdownEngine, controlVars, watchdogVars, reloadVars
  <2>2. CASE g.job = "stop"
    BY <1>2, <1>6, <2>1, <2>2 DEF ShutdownEngine, Become
  <2>3. CASE g.job # "stop"
    BY <1>4, <1>6, <2>1, <2>3 DEF ShutdownEngine, Become, Stage
  <2>4. QED
    BY <2>2, <2>3
<1>7. ASSUME NEW g \in routines, RemoveWorker(g) PROVE SizeInv'
  <2>1. g.job = "scaleDown"
    BY <1>1, <1>7 DEF RemoveWorker, StopBeforeRemove, SizeInv
  <2>2. /\ UNCHANGED <<watchdog, seenTotal, reloading>>
        /\ routines' = routines \ {g}
    BY <1>7, <2>1 DEF RemoveWorker, Become, controlVars, watchdogVars, reloadVars
  <2>3. Pending("scaleDown") /\ ~Pending("scaleDown")'
    BY <2>1, <2>2 DEF Pending, SizeInv
  <2>4. Total' \in {Total, Total - 1}
    BY <1>1, <1>7, RemoveCounts DEF RemoveWorker
  <2>5. watchdog' \in {"wait", "exit"} /\ MinWorkers < Total /\ Total <= MaxWorkers
    BY <2>2, <2>3 DEF SizeInv
  <2>6. MinWorkers <= Total' /\ Total' <= MaxWorkers
    BY <1>1, <2>4, <2>5
  <2>7. /\ ~reloading'
        /\ \A h \in routines' : /\ h.job \in {"scaleUp", "scaleDown", "stop"}
                                /\ h.job = "stop" => h.at \in {"store", "shutdown"}
        /\ \A h, i \in routines' : h.job = "scaleDown" /\ i.job = "scaleDown" => h = i
    BY <2>2 DEF SizeInv
  <2>8. QED
    BY <2>3, <2>5, <2>6, <2>7 DEF SizeInv
<1>8. ASSUME NEW g \in routines PROVE ~SpawnReplacement(g)
  BY <1>1 DEF SpawnReplacement, StopBeforeRemove, SizeInv
<1>9. ASSUME NEW g \in routines, Send(g) PROVE SizeInv'
  BY <1>2, <1>9 DEF Send, Become, watchdogVars, reloadVars
<1>10. ASSUME UNCHANGED <<workers, routines, reloading>>,
              watchdog' = "stats" => seenTotal' = Total,
              watchdog' = "up" => Total < MaxWorkers,
              watchdog' = "down" => MinWorkers < Total,
              Pending("scaleDown") => watchdog' \in {"wait", "exit"}
       PROVE  SizeInv'
  BY <1>10 DEF SizeInv, Pending, Total
<1>11. CASE Tick
  BY <1>10, <1>11 DEF Tick, ScalingOnly, reloadVars
<1>12. CASE Decide
  <2>1. ~Pending("scaleDown") /\ seenTotal = Total
    BY <1>12 DEF Decide, SizeInv
  <2>2. /\ ScaleDecision(busyWorkers, seenTotal) = "up" => Total < MaxWorkers
        /\ ScaleDecision(busyWorkers, seenTotal) = "down" => MinWorkers < Total
        /\ ScaleDecision(busyWorkers, seenTotal) # "stats"
    BY <1>1, <2>1 DEF ScaleDecision
  <2>3. QED
    BY <1>10, <1>12, <2>1, <2>2 DEF Decide, reloadVars
<1>13. CASE ScaleUp
  <2>1. Total' = Total + 1
    BY <1>1, <1>13, SpawnCounts DEF ScaleUp
  <2>2. routines' = routines \cup {Sender("scaleUp", nextID')}
    BY <1>1, <1>13, SpawnFacts DEF ScaleUp
  <2>3. /\ Sender("scaleUp", nextID').job = "scaleUp"
        /\ watchdog' = "wait" /\ ~reloading'
        /\ ~Pending("scaleDown") /\ Total < MaxWorkers
    BY <1>13, RoutineFields DEF ScaleUp, SizeInv, reloadVars
  <2>4. \A h \in routines' : /\ h.job \in {"scaleUp", "stop"}
                             /\ h.job = "stop" => h.at \in {"store", "shutdown"}
    BY <2>2, <2>3 DEF SizeInv, Pending
  <2>5. MinWorkers <= Total' /\ Total' <= MaxWorkers
    BY <1>1, <2>1, <2>3 DEF SizeInv
  <2>6. QED
    BY <2>3, <2>4, <2>5 DEF SizeInv, Pending
<1>14. CASE ScaleDown
  <2>1. /\ UNCHANGED <<workers, reloading>> /\ watchdog' = "wait"
        /\ ~Pending("scaleDown") /\ MinWorkers < Total
    BY <1>14 DEF ScaleDown, SizeInv, reloadVars
  <2>2. CASE routines' = routines
    BY <1>10, <2>1, <2>2
  <2>3. ASSUME NEW w, routines' = routines \cup {Stopper("scaleDown", 0, w)}
        PROVE  SizeInv'
    <3>1. Stopper("scaleDown", 0, w).job = "scaleDown"
      BY RoutineFields
    <3>2. \A h \in routines' : \/ h = Stopper("scaleDown", 0, w)
                               \/ h \in routines /\ h.job # "scaleDown"
      BY <2>1, <2>3 DEF Pending
    <3>3. \A h \in routines' : /\ h.job \in {"scaleUp", "scaleDown", "stop"}
                               /\ h.job = "stop" => h.at \in {"store", "shutdown"}
      BY <3>1, <3>2 DEF SizeInv
    <3>4. \A h, i \in routines' : h.job = "scaleDown" /\ i.job = "scaleDown" => h = i
      BY <3>2
    <3>5. QED
      BY <2>1, <3>3, <3>4 DEF SizeInv, Total
  <2>4. QED
    BY <1>14, <2>2, <2>3 DEF ScaleDown
<1>15. CASE WatchdogExit
  BY <1>10, <1>15 DEF WatchdogExit, reloadVars
<1>16. ~ReloadBegin /\ ~Reload /\ ~ \E k \in 1 .. MaxReloads : DrainNext(k)
  BY <1>1 DEF ReloadBegin, Reload, ReloadSpawn, ReloadReturn, ScalingOnly, SizeInv,
      TypeOK
<1>17. CASE BeginShutdown \/ CancelPool \/ CloseQueue \/ Exit \/ UNCHANGED vars
  BY <1>2, <1>17 DEF BeginShutdown, CancelPool, CloseQueue, Exit, vars,
      controlVars, watchdogVars, reloadVars
<1>18. CASE StopWorkers
  <2>1. UNCHANGED <<workers, watchdog, seenTotal, reloading>>
    BY <1>18 DEF StopWorkers, watchdogVars, reloadVars
  <2>2. \A h \in routines' : h \in routines \/ (h.job = "stop" /\ h.at = "store")
    BY <1>18, RoutineFields DEF StopWorkers
  <2>3. \A h \in routines' : /\ h.job \in {"scaleUp", "scaleDown", "stop"}
                             /\ h.job = "stop" => h.at \in {"store", "shutdown"}
                             /\ h.job = "scaleDown" => h \in routines
    BY <2>2 DEF SizeInv
  <2>4. \A h, i \in routines' : h.job = "scaleDown" /\ i.job = "scaleDown" => h = i
    BY <2>3 DEF SizeInv
  <2>5. Pending("scaleDown")' => Pending("scaleDown")
    BY <2>3 DEF Pending
  <2>6. QED
    BY <2>1, <2>3, <2>4, <2>5 DEF SizeInv, Total
<1>19. QED
  BY <1>3, <1>5, <1>6, <1>7, <1>8, <1>9, <1>11, <1>12, <1>13, <1>14, <1>15, <1>16,
     <1>17, <1>18
  DEF Next, RoutineStep, AutoScale, Stop

\* The pool Start leaves has min_workers workers.
LEMMA InitSize == Init => SizeInv
<1> SUFFICES ASSUME Init PROVE SizeInv
  OBVIOUS
<1>1. Cardinality(1 .. MinWorkers) = MinWorkers
  BY PoolConfig, FS_Interval
<1>2. Total = MinWorkers
  BY <1>1 DEF Init, Total
<1>3. QED
  BY <1>2, PoolConfig DEF Init, SizeInv, Pending

\* When reloads and recycling are out of play and a scale-down ends before the
\* next tick, autoScale keeps len(p.workers) between min_workers and max_workers,
\* for any configuration and any load, and through a shutdown.
THEOREM SizeBounded == Spec => []SizeWithinBounds
<1>1. Init => SizeInv
  BY InitSize
<1>2. SizeInv => SizeWithinBounds
  BY DEF SizeInv, SizeWithinBounds
<1>3. ASSUME ScalingOnly PROVE Spec => []SizeWithinBounds
  <2>1. IndInv /\ SizeInv /\ [Next]_vars => SizeInv'
    BY <1>3, SizeStep
  <2>2. QED
    BY <1>1, <1>2, <2>1, Invariance, PTL DEF Spec
<1>4. ASSUME ~ScalingOnly PROVE Spec => []SizeWithinBounds
  <2>1. SizeWithinBounds
    BY <1>4 DEF ScalingOnly, SizeWithinBounds
  <2>2. QED
    BY <2>1, PTL
<1>5. QED
  BY <1>3, <1>4

-----------------------------------------------------------------------------
(* Room in the channel: SendsNeverBlock.                                    *)

\* What is in circulation is registered: without reloads nobody removes a worker
\* but the goroutine that owns it.
Registered ==
    /\ Range(available) \subseteq workers
    /\ \A c \in Clients : held[c] # NoWorker => held[c] \in workers
    /\ \A g \in routines : Owner(g) => g.w \in workers

\* Registration is kept when workers only join, and who joins is registered.
LEMMA RegisteredKept ==
    ASSUME Registered, workers \subseteq workers',
           Range(available') \subseteq workers',
           \A c \in Clients : held'[c] # NoWorker => held'[c] \in workers',
           \A h \in routines' : h \in routines \/ (Owner(h) => h.w \in workers')
    PROVE  Registered'
  BY DEF Registered, Owner

\* Registered is inductive relative to IndInv and SizeInv.
LEMMA RegisteredStep ==
    ScalingOnly /\ IndInv /\ SizeInv /\ Registered /\ [Next]_vars => Registered'
<1> SUFFICES ASSUME ScalingOnly, IndInv, SizeInv, Registered, [Next]_vars
             PROVE  Registered'
  OBVIOUS
<1>1. /\ TypeOK /\ HandlerState /\ SoleCustody /\ StopBeforeRemove
      /\ \A g \in routines : g \in Routine
      /\ held \in [Clients -> Worker \cup {NoWorker}]
  BY DEF IndInv, TypeOK
<1>2. /\ Range(available) \subseteq workers
      /\ \A c \in Clients : held[c] # NoWorker => held[c] \in workers
      /\ \A g \in routines : Owner(g) => g.w \in workers
  BY DEF Registered
<1>3. ASSUME UNCHANGED <<available, held>>, workers \subseteq workers',
             \A h \in routines' :
                 h \in routines \/ (Owner(h) => h.w \in workers')
      PROVE  Registered'
  BY <1>2, <1>3, RegisteredKept
<1>4. ASSUME NEW c \in Clients, Call(c) \/ GiveUp(c) \/ MarkBusy(c) \/ Enter(c)
                 \/ Finish(c) \/ MarkIdle(c) \/ Leave(c)
      PROVE  Registered'
  <2>1. ~NeedsRecycle(held[c])
    BY DEF ScalingOnly, NeedsRecycle
  <2>2. UNCHANGED <<available, held, workers, routines>>
    BY <1>4, <2>1 DEF Call, GiveUp, MarkBusy, Enter, Finish, MarkIdle, Leave,
        queueVars
  <2>3. QED
    BY <1>3, <2>2
<1>5. ASSUME NEW c \in Clients, Take(c) PROVE Registered'
  <2>1. PICK w \in Worker : Removed(w) /\ held' = [held EXCEPT ![c] = w]
    BY <1>1, <1>5, AfterTake
  <2>2. workers' = workers /\ routines' = routines
    BY <1>5 DEF Take
  <2>3. Range(available') \subseteq workers /\ w \in workers
    BY <1>2, <2>1 DEF Removed
  <2>4. \A d \in Clients : held'[d] = IF d = c THEN w ELSE held[d]
    BY <1>1, <2>1
  <2>5. QED
    BY <1>2, <2>2, <2>3, <2>4, RegisteredKept
<1>6. ASSUME NEW c \in Clients, PutBack(c) PROVE Registered'
  <2>1. /\ workers' = workers /\ routines' = routines /\ held[c] # NoWorker
        /\ \A d \in Clients : held'[d] = IF d = c THEN NoWorker ELSE held[d]
    BY <1>1, <1>6 DEF PutBack, HandlerState, WithWorker, InExec
  <2>2. Range(available') \subseteq Range(available) \cup {held[c]}
    BY <1>1, <1>6, AfterPutBack DEF Added
  <2>3. QED
    BY <1>2, <2>1, <2>2, RegisteredKept
<1>7. ASSUME NEW g \in routines, NEW a \in Stage,
             routines' = (routines \ {g}) \cup {At(g, a)},
             a # "send", g.at \notin {"spawn", "send"},
             UNCHANGED <<available, held, workers>>
      PROVE  Registered'
  <2>1. /\ At(g, a).w = g.w
        /\ Owner(At(g, a)) => Owner(g)
    BY <1>1, <1>7, RoutineFields DEF Owner
  <2>2. QED
    BY <1>2, <1>3, <1>7, <2>1
<1>8. ASSUME NEW g \in routines, StoreStopped(g) PROVE Registered'
  BY <1>7, <1>8 DEF StoreStopped, Become, Stage, queueVars, clientVars
<1>9. ASSUME NEW g \in routines, ShutdownEngine(g) PROVE Registered'
  <2>1. UNCHANGED <<available, held, workers>>
    BY <1>9 DEF ShutdownEngine, queueVars, clientVars
  <2>2. CASE g.job = "stop"
    BY <1>3, <1>9, <2>1, <2>2 DEF ShutdownEngine, Become
  <2>3. CASE g.job # "stop"
    BY <1>7, <1>9, <2>1, <2>3 DEF ShutdownEngine, Become, Stage
  <2>4. QED
    BY <2>2, <2>3
<1>10. ASSUME NEW g \in routines, RemoveWorker(g) PROVE Registered'
  <2>1. g.job = "scaleDown" /\ Owner(g) /\ g.w \in Worker
    BY <1>1, <1>10, RoutineFields DEF RemoveWorker, StopBeforeRemove, SizeInv, Owner
  <2>2. /\ UNCHANGED <<available, held>> /\ workers' = workers \ {g.w}
        /\ routines' = routines \ {g}
    BY <1>10, <2>1 DEF RemoveWorker, Become, queueVars, clientVars
  <2>3. Owned(g.w) /\ ~Queued(g.w) /\ ~HeldByClient(g.w)
    BY <1>1, <2>1 DEF Owned, SoleCustody
  <2>4. \A h \in routines' : Owner(h) => h.w # g.w
    BY <1>1, <2>1, <2>2 DEF SoleCustody
  <2>5. QED
    BY <1>2, <2>2, <2>3, <2>4 DEF Registered, Queued, HeldByClient, Owner
<1>11. ASSUME NEW g \in routines PROVE ~SpawnReplacement(g)
  BY <1>1 DEF SpawnReplacement, StopBeforeRemove, SizeInv
<1>12. ASSUME NEW g \in routines, Send(g) PROVE Registered'
  <2>1. /\ held' = held /\ workers' = workers /\ routines' \subseteq routines
        /\ g.w \in workers
    BY <1>1, <1>2, <1>12, AfterSend DEF Send, Owner, clientVars
  <2>2. Range(available') \subseteq Range(available) \cup {g.w}
    BY <1>1, <1>12, AfterSend DEF Added
  <2>3. QED
    BY <1>2, <2>1, <2>2, RegisteredKept
<1>13. CASE ScaleUp
  <2>1. /\ workers' = workers \cup {nextID'}
        /\ routines' = routines \cup {Sender("scaleUp", nextID')}
        /\ Sender("scaleUp", nextID').w = nextID'
    BY <1>1, <1>13, SpawnFacts, RoutineFields DEF ScaleUp
  <2>2. UNCHANGED <<available, held>>
    BY <1>13 DEF ScaleUp, queueVars, clientVars
  <2>3. QED
    BY <1>3, <2>1, <2>2
<1>14. CASE ScaleDown
  <2>1. held' = held /\ workers' = workers
    BY <1>14 DEF ScaleDown, clientVars
  <2>2. CASE available' = available /\ routines' = routines
    BY <1>3, <2>1, <2>2
  <2>3. ASSUME NEW w \in Worker, Removed(w),
               routines' = routines \cup {Stopper("scaleDown", 0, w)}
        PROVE  Registered'
    <3>1. Range(available') \subseteq workers /\ w \in workers
      BY <1>2, <2>3 DEF Removed
    <3>2. Stopper("scaleDown", 0, w).w = w
      BY RoutineFields
    <3>3. \A h \in routines' : h \in routines \/ h.w \in workers'
      BY <2>1, <2>3, <3>1, <3>2
    <3>4. QED
      BY <1>2, <2>1, <3>1, <3>3, RegisteredKept
  <2>4. QED
    BY <1>1, <1>14, <2>2, <2>3, AfterScaleDown
<1>15. ~ReloadBegin /\ ~Reload /\ ~ \E k \in 1 .. MaxReloads : DrainNext(k)
  BY <1>1 DEF ReloadBegin, Reload, ReloadSpawn, ReloadReturn, ScalingOnly, SizeInv,
      TypeOK
<1>16. CASE \/ Tick \/ Decide \/ WatchdogExit \/ BeginShutdown \/ CancelPool
            \/ CloseQueue \/ Exit \/ UNCHANGED vars
  BY <1>3, <1>16 DEF Tick, Decide, WatchdogExit, BeginShutdown, CancelPool,
      CloseQueue, Exit, vars, queueVars, clientVars
<1>17. CASE StopWorkers
  <2>1. UNCHANGED <<available, held, workers>>
    BY <1>17 DEF StopWorkers, queueVars, clientVars
  <2>2. \A h \in routines' : h \in routines \/ h.w \in workers
    BY <1>17, RoutineFields DEF StopWorkers
  <2>3. QED
    BY <1>3, <2>1, <2>2
<1>18. QED
  BY <1>4, <1>5, <1>6, <1>8, <1>9, <1>10, <1>11, <1>12, <1>13, <1>14, <1>15,
     <1>16, <1>17
  DEF Next, Exec, RoutineStep, AutoScale, Stop

\* A channel of distinct registered workers that one registered worker is not in
\* is shorter than the pool is large.
LEMMA RoomForOne ==
    ASSUME TypeOK, IsInjective(available), NEW w \in workers,
           Range(available) \subseteq workers, w \notin Range(available),
           Total <= MaxWorkers
    PROVE  ~Full
<1> DEFINE others == workers \ {w}
<1>1. IsFiniteSet(workers) /\ Total \in Nat /\ workers \subseteq Worker
  BY WorkersFinite, TotalIsNat DEF TypeOK
<1>2. IsFiniteSet(others) /\ Cardinality(others) = Total - 1
  BY <1>1, FS_RemoveElement DEF Total
<1>3. available \in Seq(Worker) /\ Len(available) \in Nat
  BY DEF TypeOK
<1>4. available \in [1 .. Len(available) -> others]
  BY <1>3 DEF Range
<1>5. available \in Injection(1 .. Len(available), others)
  BY <1>3, <1>4 DEF Injection, IsInjective
<1>6. Cardinality(1 .. Len(available)) = Len(available)
  BY SMTT(40), <1>3, FS_Interval
<1> HIDE DEF others
<1>7. Cardinality(1 .. Len(available)) <= Cardinality(others)
  BY <1>2, <1>5, FS_Injection
<1>8. QED
  BY <1>1, <1>2, <1>3, <1>6, <1>7, PoolConfig DEF Full

\* When reloads and recycling are out of play, no handler that puts its worker
\* back and no goroutine that sends a new one ever finds the channel full: the
\* worker it is about to send is registered and is none of the queued ones, and
\* autoScale registers no more than max_workers.
THEOREM RoomInQueue == Spec => []SendsNeverBlock
<1>1. Init => SizeInv /\ Registered
  <2> SUFFICES ASSUME Init PROVE Registered
    BY InitSize
  <2>1. IndInv
    BY InitInv
  <2>2. Range(available) \subseteq workers
    BY PoolConfig DEF Init, Range
  <2>3. QED
    BY <2>2 DEF Init, Registered
<1>2. IndInv /\ SizeInv /\ Registered => SendsNeverBlock
  <2> SUFFICES ASSUME IndInv, SizeInv, Registered PROVE SendsNeverBlock
    OBVIOUS
  <2>1. /\ TypeOK /\ HandlerState /\ SoleCustody /\ IsInjective(available)
        /\ Range(available) \subseteq workers /\ Total <= MaxWorkers
    BY DEF IndInv, SizeInv, Registered, SoleCustody
  <2>2. ASSUME NEW c \in Clients, pc[c] = "put" PROVE ~Full
    <3>1. held[c] \in workers /\ held[c] \in Worker
      BY <2>1, <2>2, HasWorker
      DEF HandlerState, WithWorker, InExec, Registered
    <3>2. held[c] \notin Range(available)
      BY <2>1, <3>1 DEF SoleCustody, Queued, HeldByClient
    <3>3. QED
      BY <2>1, <3>1, <3>2, RoomForOne
  <2>3. ASSUME NEW g \in routines, g.at = "send" PROVE ~Full
    <3>1. Owner(g) /\ g.w \in workers /\ g.w \in Worker
      BY <2>1, <2>3, RoutineFields DEF Owner, Registered, TypeOK
    <3>2. g.w \notin Range(available)
      BY <2>1, <3>1 DEF SoleCustody, Queued, Owned
    <3>3. QED
      BY <2>1, <3>1, <3>2, RoomForOne
  <2>4. QED
    BY <2>2, <2>3 DEF SendsNeverBlock
<1>3. ASSUME ScalingOnly PROVE Spec => []SendsNeverBlock
  <2>1. IndInv /\ SizeInv /\ Registered /\ [Next]_vars => SizeInv' /\ Registered'
    BY <1>3, SizeStep, RegisteredStep
  <2>2. QED
    BY <1>1, <1>2, <2>1, Invariance, PTL DEF Spec
<1>4. ASSUME ~ScalingOnly PROVE Spec => []SendsNeverBlock
  <2>1. SendsNeverBlock
    BY <1>4 DEF ScalingOnly, SendsNeverBlock
  <2>2. QED
    BY <2>1, PTL
<1>5. QED
  BY <1>3, <1>4

-----------------------------------------------------------------------------
(* What Pool.Stop reaches: StopReachesAll.                                  *)

\* The goroutine g of Pool.Stop has yet to shut down the engine of w.
Stops(g, w) == g.job = "stop" /\ g.w = w /\ g.at \in {"store", "shutdown"}

\* A worker that Stop will stop, is stopping or has stopped: it was spawned
\* before Stop copies the list, then has a stop goroutine for as long as its
\* engine is up, and is down when the channel is closed.
Reached(w) ==
    /\ w \in Spawned
    /\ \/ main = "cancelled"
       \/ main = "stopping" /\ (started[w] =>
             \E g \in routines : Stops(g, w))
       \/ main \in {"closed", "stopped"} /\ ~started[w]

\* Once w is down it stays down, so only the way of its stop goroutine matters.
LEMMA ReachedKept ==
    ASSUME NEW w \in Worker, Reached(w), main' = main, Spawned \subseteq Spawned',
           started'[w] => started[w],
           started'[w] => \A g \in routines : Stops(g, w) =>
               \E h \in routines' : Stops(h, w)
    PROVE  Reached(w)'
  BY DEF Reached

\* Every step keeps Reached.
LEMMA ReachedStep ==
    ASSUME NEW w \in Worker
    PROVE  IndInv /\ Reached(w) /\ [Next]_vars => Reached(w)'
<1> SUFFICES ASSUME IndInv, Reached(w), [Next]_vars PROVE Reached(w)'
  OBVIOUS
<1>1. /\ TypeOK /\ NoOrphanEngine /\ w \in Spawned
      /\ \A g \in routines : g \in Routine
      /\ started \in [Worker -> BOOLEAN]
  BY DEF IndInv, TypeOK, Reached
<1>2. ASSUME UNCHANGED <<main, nextID, started>>, routines \subseteq routines'
      PROVE  Reached(w)'
  BY <1>2, ReachedKept DEF Spawned
<1>3. ASSUME NEW c \in Clients, Call(c) \/ Exec(c) PROVE Reached(w)'
  <2>1. UNCHANGED <<main, nextID, started>> /\ routines \subseteq routines'
    BY <1>3 DEF Call, Exec, Take, GiveUp, MarkBusy, Enter, Finish, MarkIdle, PutBack,
        Leave, controlVars, engineVars
  <2>2. QED
    BY <1>2, <2>1
<1>4. ASSUME NEW g \in routines, NEW new, routines' = (routines \ {g}) \cup new,
             UNCHANGED <<main, nextID>>, started'[w] => started[w],
             started'[w] /\ Stops(g, w) => \E h \in new : Stops(h, w)
      PROVE  Reached(w)'
  <2>1. started'[w] => \A h \in routines : Stops(h, w) =>
            \E i \in routines' : Stops(i, w)
    BY <1>4
  <2>2. QED
    BY <1>4, <2>1, ReachedKept DEF Spawned
<1>5. ASSUME NEW g \in routines, StoreStopped(g) PROVE Reached(w)'
  <2>1. Stops(g, w) => Stops(At(g, "shutdown"), w)
    BY <1>1, RoutineFields DEF Stage, Stops
  <2>2. /\ UNCHANGED <<main, nextID, started>>
        /\ routines' = (routines \ {g}) \cup {At(g, "shutdown")}
    BY <1>5 DEF StoreStopped, Become, controlVars
  <2>3. QED
    BY <1>4, <2>1, <2>2
<1>6. ASSUME NEW g \in routines, ShutdownEngine(g) PROVE Reached(w)'
  <2>1. /\ UNCHANGED <<main, nextID>>
        /\ started' = [started EXCEPT ![g.w] = FALSE]
        /\ Become(g, IF g.job = "stop" THEN {} ELSE {At(g, "remove")})
    BY <1>6 DEF ShutdownEngine, controlVars
  <2>2. (started'[w] => started[w]) /\ (g.w = w => ~started'[w])
    BY <1>1, <2>1
  <2>3. QED
    BY <1>4, <2>1, <2>2 DEF Become, Stops
<1>7. ASSUME NEW g \in routines, RemoveWorker(g) PROVE Reached(w)'
  <2>1. UNCHANGED <<main, nextID, started>> /\ ~Stops(g, w)
    BY <1>7 DEF RemoveWorker, controlVars, engineVars, Stops
  <2>2. QED
    BY <1>4, <1>7, <2>1 DEF RemoveWorker, Become
<1>8. ASSUME NEW G, NEW j, Spawn(G, j), main' = main,
             \A g \in G : g.job # "stop"
      PROVE  Reached(w)'
  <2>1. /\ Spawned \subseteq Spawned' /\ w # nextID'
        /\ started'[w] = started[w]
    BY <1>1, <1>8, SpawnedGrows, SpawnFacts
  <2>2. \A g \in routines : Stops(g, w) => g \in routines'
    BY <1>1, <1>8, SpawnFacts DEF Stops
  <2>3. QED
    BY <1>8, <2>1, <2>2, ReachedKept
<1>9. ASSUME NEW g \in routines, SpawnReplacement(g) PROVE Reached(w)'
  <2>1. g.job = "replace" /\ Spawn({g}, "replace") /\ main' = main
    BY <1>9 DEF SpawnReplacement, IndInv, StopBeforeRemove, controlVars
  <2>2. QED
    BY <1>8, <2>1
<1>10. ASSUME NEW g \in routines, Send(g) PROVE Reached(w)'
  <2>1. UNCHANGED <<main, nextID, started>> /\ ~Stops(g, w)
    BY <1>10 DEF Send, engineVars, Stops
  <2>2. QED
    BY <1>2, <1>4, <1>10, <2>1 DEF Send, Become
<1>11. CASE ScaleUp \/ ReloadSpawn
  <2>1. main' = main /\ \E j : Spawn({}, j)
    BY <1>11 DEF ScaleUp, ReloadSpawn
  <2>2. QED
    BY <1>8, <2>1
<1>12. CASE \/ Tick \/ Decide \/ ScaleDown \/ WatchdogExit \/ ReloadBegin
            \/ ReloadReturn \/ UNCHANGED vars
            \/ \E k \in 1 .. MaxReloads : DrainNext(k)
  BY <1>2, <1>12 DEF Tick, Decide, ScaleDown, WatchdogExit, ReloadBegin,
      ReloadReturn, DrainNext, vars, controlVars, engineVars
<1>13. CASE BeginShutdown \/ CancelPool
  BY <1>13 DEF BeginShutdown, CancelPool, Reached
<1>14. CASE StopWorkers
  <2>1. /\ main' = "stopping" /\ UNCHANGED <<nextID, started>>
        /\ routines' = routines \cup {Stopper("stop", 0, v) : v \in workers}
    BY <1>14 DEF StopWorkers, engineVars
  <2>2. Stops(Stopper("stop", 0, w), w)
    BY RoutineFields DEF Stops
  <2>3. started[w] => Stopper("stop", 0, w) \in routines'
    BY <1>1, <2>1 DEF NoOrphanEngine
  <2>4. QED
    BY <1>1, <2>1, <2>2, <2>3 DEF Reached, Spawned
<1>15. CASE CloseQueue
  <2>1. /\ main = "stopping" /\ main' = "closed" /\ UNCHANGED <<nextID, started>>
        /\ \A g \in routines : ~Stops(g, w)
    BY <1>15 DEF CloseQueue, engineVars, Pending, Stops
  <2>2. QED
    BY <1>1, <2>1 DEF Reached, Spawned
<1>16. CASE Exit
  <2>1. /\ main = "closed" /\ main' = "stopped" /\ UNCHANGED <<nextID, started>>
    BY <1>16 DEF Exit, engineVars
  <2>2. QED
    BY <1>1, <2>1 DEF Reached, Spawned
<1>17. QED
  BY <1>3, <1>5, <1>6, <1>7, <1>9, <1>10, <1>11, <1>12, <1>13, <1>14, <1>15, <1>16
  DEF Next, RoutineStep, AutoScale, Reload, Stop

\* Whatever is added and removed while Pool.Stop runs, a worker that was
\* registered when Stop copied the list has its engine down when the channel is
\* closed, and ever after.  What Stop can miss is only what is spawned later.
THEOREM StopReaches == Spec => StopReachesAll
<1> SUFFICES ASSUME NEW w \in Worker
             PROVE  Spec => [](main = "cancelled" /\ w \in workers =>
                                 [](main \in {"closed", "stopped"} => ~started[w]))
  BY DEF StopReachesAll
<1>1. IndInv /\ main = "cancelled" /\ w \in workers => Reached(w)
  BY DEF IndInv, Fresh, Reached
<1>2. IndInv /\ Reached(w) /\ [Next]_vars => Reached(w)'
  BY ReachedStep
<1>3. Reached(w) => (main \in {"closed", "stopped"} => ~started[w])
  BY DEF Reached
<1>4. QED
  BY <1>1, <1>2, <1>3, Invariance, PTL DEF Spec

-----------------------------------------------------------------------------
(* When the process can panic: CrashIsLate.                                 *)

\* What makes CrashIsLate inductive: the channel is closed last, p.ctx before it,
\* and without the deadline srv.Stop waits for every handler and lets none in.
LateInv ==
    /\ closed => main \in {"closed", "stopped"}
    /\ main \notin {"serving", "draining"} => cancelled
    /\ crashed => main = "closed"
    /\ ~DeadlineExpires /\ main \notin {"serving", "draining"} =>
          \A c \in Clients : pc[c] = "out"

\* LateInv is inductive.
LEMMA LateStep == TypeOK /\ LateInv /\ [Next]_vars => LateInv'
<1> SUFFICES ASSUME TypeOK, LateInv, [Next]_vars PROVE LateInv'
  OBVIOUS
<1>1. ASSUME UNCHANGED <<closed, main, cancelled, crashed, pc>> PROVE LateInv'
  BY <1>1 DEF LateInv
<1>2. ASSUME NEW c \in Clients, Call(c) \/ Exec(c) PROVE LateInv'
  <2>1. UNCHANGED <<closed, main, cancelled, crashed>>
    BY <1>2 DEF Call, Exec, Take, GiveUp, MarkBusy, Enter, Finish, MarkIdle, PutBack,
        Leave, controlVars, queueVars
  <2>2. pc[c] = "out" => main = "serving"
    BY <1>2 DEF Call, Exec, Take, GiveUp, MarkBusy, Enter, Finish, MarkIdle, PutBack,
        Leave
  <2>3. QED
    BY <2>1, <2>2 DEF LateInv
<1>3. CASE (\E g \in routines : Send(g)) \/ ScaleDown
  <2>1. /\ UNCHANGED <<closed, main, cancelled, pc>> /\ ~crashed
        /\ main # "stopped" /\ (crashed' => closed)
    BY <1>3 DEF Send, ScaleDown, Running, clientVars, LateInv
  <2>2. QED
    BY <2>1 DEF LateInv
<1>4. CASE \/ \E g \in routines : \/ StoreStopped(g) \/ ShutdownEngine(g)
                                  \/ RemoveWorker(g) \/ SpawnReplacement(g)
           \/ Tick \/ Decide \/ ScaleUp \/ WatchdogExit
           \/ ReloadBegin \/ Reload \/ \E k \in 1 .. MaxReloads : DrainNext(k)
           \/ UNCHANGED vars
  <2>1. UNCHANGED <<closed, main, cancelled, crashed, pc>>
    BY <1>4 DEF StoreStopped, ShutdownEngine, RemoveWorker, SpawnReplacement, Tick,
        Decide, ScaleUp, WatchdogExit, ReloadBegin, Reload, ReloadSpawn,
        ReloadReturn, DrainNext, vars, controlVars, queueVars, clientVars
  <2>2. QED
    BY <1>1, <2>1
<1>5. CASE BeginShutdown \/ Stop
  BY <1>5 DEF BeginShutdown, Stop, CancelPool, StopWorkers, CloseQueue, Exit,
      Running, queueVars, clientVars, LateInv
<1>6. QED
  BY <1>2, <1>3, <1>4, <1>5 DEF Next, RoutineStep, AutoScale

\* The panic that ends the process comes between the close of the channel and the
\* exit of main, for any configuration and with any reloads under way; unless the
\* deadline of srv.Stop expired, every request has been answered by then.
THEOREM CrashComesLate == Spec => []CrashIsLate
<1>1. Init => LateInv
  BY DEF Init, LateInv
<1>2. LateInv => CrashIsLate
  BY DEF LateInv, CrashIsLate
<1>3. QED
  BY <1>1, <1>2, LateStep, TypeCorrect, PTL DEF Spec

=============================================================================
