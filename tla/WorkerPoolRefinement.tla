------------------------ MODULE WorkerPoolRefinement ------------------------
(***************************************************************************)
(* The embedded worker pool implements Lease, for any number of handlers,  *)
(* any configuration and any bounds.  The mapping is Place of WorkerPool:  *)
(* it reads where a worker is off the channel, the handlers and the        *)
(* goroutines, so every step rests on SoleCustody, which says that the     *)
(* three never disagree.                                                   *)
(*                                                                         *)
(*   Take                          Grant                                   *)
(*   MarkIdle of a worn-out worker Release, the worker retires             *)
(*   PutBack                       Release, the worker is free, or retired *)
(*                                 if the channel is closed                *)
(*   spawnWorker                   Create                                  *)
(*   ScaleDown                     Retire                                  *)
(*   every other step              stutters                                *)
(***************************************************************************)
EXTENDS WorkerPoolProofs

\* The conditions Place looks at.
Retiring(w) == \E g \in routines : Owner(g) /\ g.at # "send" /\ g.w = w
Sending(w) == \E g \in routines : g.at = "send" /\ g.w = w

\* What custody says about them: of the four, at most one holds.
LEMMA Places ==
    ASSUME SoleCustody, NEW w \in Worker
    PROVE  /\ Retiring(w) \/ Sending(w) => Owned(w)
           /\ ~(Retiring(w) /\ Sending(w))
           /\ Queued(w) \/ HeldByClient(w) => ~Retiring(w) /\ ~Sending(w)
           /\ ~(Queued(w) /\ HeldByClient(w))
  BY DEF SoleCustody, Retiring, Sending, Owned, Owner

\* Place in these terms, before and after a step.
Reading(w) ==
    IF w > nextID THEN "new"
    ELSE IF Retiring(w) THEN "retired"
    ELSE IF HeldByClient(w) THEN "leased"
    ELSE IF Queued(w) \/ Sending(w) THEN "free"
    ELSE "retired"

\* Reading is Place, and so are their values after a step.
LEMMA PlaceDef ==
    ASSUME NEW w \in Worker
    PROVE  Place(w) = Reading(w) /\ Place(w)' = Reading(w)'
  BY DEF Place, Reading, Retiring, Sending

\* One worker moves.
LEMMA PlaceMoves ==
    ASSUME NEW w \in Worker, NEW p, Place(w)' = p,
           \A v \in Worker : v # w => Place(v)' = Place(v)
    PROVE  [v \in Worker |-> Place(v)]' = [[v \in Worker |-> Place(v)] EXCEPT ![w] = p]
<1>1. \A v \in Worker : Place(v)' = [[u \in Worker |-> Place(u)] EXCEPT ![w] = p][v]
  OBVIOUS
<1>2. QED
  BY <1>1

\* Nothing moves.
LEMMA NothingMoves ==
    ASSUME nextID' = nextID, held' = held,
           \A w \in Worker : /\ Retiring(w)' <=> Retiring(w)
                             /\ (Queued(w) \/ Sending(w))' <=> Queued(w) \/ Sending(w)
    PROVE  UNCHANGED L!leaseVars
<1>1. \A w \in Worker : HeldByClient(w)' <=> HeldByClient(w)
  BY DEF HeldByClient
<1>2. \A w \in Worker : Place(w)' = Place(w)
  BY <1>1, PlaceDef DEF Reading
<1>3. QED
  BY <1>2 DEF L!leaseVars

\* Goroutines that own nothing come and go, or the ones that do move on.
LEMMA RoutinesMove ==
    ASSUME nextID' = nextID, held' = held, available' = available,
           \A g \in routines' :
              Owner(g) => \E h \in routines :
                 Owner(h) /\ h.w = g.w /\ (h.at = "send" <=> g.at = "send"),
           \A h \in routines :
              Owner(h) => \E g \in routines' :
                 Owner(g) /\ h.w = g.w /\ (h.at = "send" <=> g.at = "send")
    PROVE  UNCHANGED L!leaseVars
<1>1. \A w \in Worker : Retiring(w)' <=> Retiring(w)
  BY DEF Retiring
<1>2. \A w \in Worker : Sending(w)' <=> Sending(w)
  BY DEF Sending, Owner
<1>3. \A w \in Worker : Queued(w)' <=> Queued(w)
  BY DEF Queued
<1>4. QED
  BY <1>1, <1>2, <1>3, NothingMoves


-----------------------------------------------------------------------------
\* spawnWorker is Create.
LEMMA SpawnCreates ==
    ASSUME TypeOK, Fresh, SoleCustody, NEW G, NEW j, Spawn(G, j),
           \A g \in G : ~Owner(g), available' = available, held' = held
    PROVE  \E w \in Worker : L!Create(w)
<1>1. PICK w \in Worker : /\ w = nextID' /\ w = nextID + 1 /\ nextID \in Nat
                          /\ w \notin Spawned
  BY SpawnFacts, SpawnedGrows
<1> DEFINE s == Sender(j, w)
<1>2. /\ routines' = (routines \ G) \cup {s}
      /\ s.w = w /\ s.at = "send"
  BY <1>1, SpawnFacts, RoutineFields
<1>3. /\ \A g \in routines : g.w # w
      /\ ~Queued(w) /\ ~HeldByClient(w)
  BY <1>1 DEF Fresh, Queued, HeldByClient, TypeOK, NoWorker, Worker
<1> HIDE DEF s
<1>4. \A v \in Worker : /\ HeldByClient(v)' <=> HeldByClient(v)
                        /\ Queued(v)' <=> Queued(v)
  BY DEF HeldByClient, Queued
<1>5. \A v \in Worker : Retiring(v)' <=> Retiring(v)
  BY <1>2 DEF Retiring
<1>6. \A v \in Worker : Sending(v)' <=> Sending(v) \/ v = w
  BY <1>2 DEF Sending, Owner
<1>7. Place(w) = "new"
  BY <1>1, PlaceDef DEF Reading
<1>8. Place(w)' = "free"
  <2>1. ~Retiring(w) /\ ~HeldByClient(w)
    BY <1>3 DEF Retiring
  <2>2. QED
    BY <1>1, <1>4, <1>5, <1>6, <2>1, PlaceDef DEF Reading
<1>9. \A v \in Worker : v # w => Place(v)' = Place(v)
  <2>1. \A v \in Worker : v # w => (v > nextID <=> v > nextID')
    BY <1>1 DEF Worker
  <2>2. QED
    BY <1>4, <1>5, <1>6, <2>1, PlaceDef DEF Reading
<1>10. L!Create(w)
  BY <1>1, <1>7, <1>8, <1>9, PlaceMoves DEF L!Create
<1>11. QED
  BY <1>1, <1>10

\* The receive of Exec is Grant.
LEMMA TakeGrants ==
    ASSUME IndInv, NEW c \in Clients, Take(c)
    PROVE  \E w \in Worker : L!Grant(c, w)
<1> USE DEF IndInv
<1>1. PICK w \in Worker : Removed(w) /\ held' = [held EXCEPT ![c] = w]
  BY AfterTake
<1>2. held[c] = NoWorker /\ nextID' = nextID /\ routines' = routines
  BY DEF Take, HandlerState, WithWorker, InExec
<1>3. /\ \A v \in Worker : Queued(v) <=> Queued(v)' \/ v = w
      /\ ~Queued(w)'
  BY <1>1 DEF Removed, SoleCustody, Queued
<1>4. \A v \in Worker : HeldByClient(v)' <=> HeldByClient(v) \/ v = w
  BY <1>1, <1>2 DEF HeldByClient, TypeOK, NoWorker, Worker
<1>5. \A v \in Worker : /\ Retiring(v)' <=> Retiring(v)
                        /\ Sending(v)' <=> Sending(v)
  BY <1>2 DEF Retiring, Sending
<1>6. ~(w > nextID) /\ ~Retiring(w) /\ ~HeldByClient(w) /\ Queued(w)
  BY <1>3, Places DEF Fresh, Spawned, Queued, TypeOK, Worker
<1>7. Place(w) = "free" /\ Place(w)' = "leased"
  BY <1>2, <1>3, <1>4, <1>5, <1>6, PlaceDef DEF Reading
<1>8. \A v \in Worker : v # w => Place(v)' = Place(v)
  BY <1>2, <1>3, <1>4, <1>5, PlaceDef DEF Reading
<1>9. QED
  BY <1>1, <1>2, <1>7, <1>8, PlaceMoves DEF L!Grant

\* A handler that hands its worker on is Release.
LEMMA HandsOn ==
    ASSUME IndInv, NEW c \in Clients, NEW w \in Worker, held[c] = w,
           nextID' = nextID, held' = [held EXCEPT ![c] = NoWorker],
           \A v \in Worker : v # w =>
              /\ Retiring(v)' <=> Retiring(v)
              /\ (Queued(v) \/ Sending(v))' <=> Queued(v) \/ Sending(v)
    PROVE  IF ~Retiring(w)' /\ (Queued(w) \/ Sending(w))'
           THEN L!Release(c, "free") ELSE L!Release(c, "retired")
<1> USE DEF IndInv
<1>1. held[c] # NoWorker /\ ~(w > nextID)
  BY DEF NoWorker, Worker, Fresh, Spawned, TypeOK
<1>2. \A d \in Clients : held'[d] = IF d = c THEN NoWorker ELSE held[d]
  BY DEF TypeOK
<1>3. \A v \in Worker : HeldByClient(v)' <=> HeldByClient(v) /\ v # w
  BY <1>1, <1>2 DEF HeldByClient, SoleCustody, NoWorker, Worker
<1>4. \A v \in Worker : v # w => Place(v)' = Place(v)
  BY <1>3, PlaceDef DEF Reading
<1>5. Place(w)' = IF ~Retiring(w)' /\ (Queued(w) \/ Sending(w))'
                  THEN "free" ELSE "retired"
  BY <1>1, <1>3, PlaceDef DEF Reading
<1>6. ASSUME NEW p, Place(w)' = p PROVE L!Release(c, p)
  BY <1>1, <1>4, <1>6, PlaceMoves DEF L!Release
<1>7. QED
  BY <1>5, <1>6

-----------------------------------------------------------------------------
\* Every step of the pool is a step of Lease or changes nothing it can see.
LEMMA LeaseStep == IndInv /\ [Next]_vars => [L!Next]_(L!leaseVars)
<1> SUFFICES ASSUME IndInv, [Next]_vars PROVE L!Next \/ UNCHANGED L!leaseVars
  OBVIOUS
<1>i. /\ TypeOK /\ HandlerState /\ Fresh /\ SoleCustody
      /\ \A g \in routines : g \in Routine
  BY DEF IndInv, TypeOK
<1>1. ASSUME UNCHANGED <<nextID, available, held, routines>>
      PROVE  UNCHANGED L!leaseVars
  BY <1>1, RoutinesMove
<1>2. ASSUME \/ UNCHANGED vars
             \/ \E c \in Clients : Call(c) \/ GiveUp(c) \/ MarkBusy(c)
                    \/ Enter(c) \/ Finish(c) \/ Leave(c)
             \/ Tick \/ Decide \/ WatchdogExit \/ ReloadBegin \/ ReloadReturn
             \/ BeginShutdown \/ CancelPool \/ CloseQueue \/ Exit
      PROVE  UNCHANGED <<nextID, available, held, routines>>
  BY <1>2 DEF Call, GiveUp, MarkBusy, Enter, Finish, Leave, Tick, Decide,
      WatchdogExit, ReloadBegin, ReloadReturn, BeginShutdown, CancelPool,
      CloseQueue, Exit, vars, queueVars, engineVars, clientVars, controlVars,
      watchdogVars, reloadVars
<1>3. ASSUME NEW c \in Clients, Take(c)
      PROVE  L!Next
  BY <1>3, TakeGrants DEF L!Next
<1>4. ASSUME NEW c \in Clients, MarkIdle(c)
      PROVE  L!Next \/ UNCHANGED L!leaseVars
  <2>1. PICK w \in Worker : w = held[c]
    BY <1>4, <1>i, HasWorker DEF MarkIdle, WithWorker, InExec
  <2>2. CASE NeedsRecycle(w)
    <3> DEFINE r == Stopper("replace", 0, w)
    <3>1. /\ held' = [held EXCEPT ![c] = NoWorker]
          /\ routines' = routines \cup {r} /\ r.w = w /\ Owner(r) /\ r.at # "send"
          /\ nextID' = nextID /\ available' = available
      BY <1>4, <2>1, <2>2, RoutineFields DEF MarkIdle, queueVars, Owner
    <3> HIDE DEF r
    <3>2. /\ Retiring(w)'
          /\ \A v \in Worker : v # w =>
                /\ Retiring(v)' <=> Retiring(v)
                /\ (Queued(v) \/ Sending(v))' <=> Queued(v) \/ Sending(v)
      BY <3>1 DEF Retiring, Sending, Queued
    <3>3. L!Release(c, "retired")
      BY <2>1, <3>1, <3>2, HandsOn
    <3>4. QED
      BY <3>3 DEF L!Next
  <2>3. CASE ~NeedsRecycle(w)
    BY <1>4, <2>1, <2>3, <1>1 DEF MarkIdle, queueVars
  <2>4. QED
    BY <2>2, <2>3
<1>5. ASSUME NEW c \in Clients, PutBack(c)
      PROVE  L!Next
  <2>1. PICK w \in Worker : w = held[c]
    BY <1>5, <1>i, HasWorker DEF PutBack, WithWorker, InExec
  <2>2. /\ held' = [held EXCEPT ![c] = NoWorker]
        /\ nextID' = nextID /\ routines' = routines
    BY <1>5 DEF PutBack
  <2>3. \A v \in Worker : v # w => (Queued(v)' <=> Queued(v))
    BY <1>5, <1>i, <2>1, AfterPutBack DEF Queued, Added
  <2>4. \A v \in Worker : v # w =>
            /\ Retiring(v)' <=> Retiring(v)
            /\ (Queued(v) \/ Sending(v))' <=> Queued(v) \/ Sending(v)
    BY <2>2, <2>3 DEF Retiring, Sending
  <2>5. L!Release(c, "free") \/ L!Release(c, "retired")
    BY <2>1, <2>2, <2>4, HandsOn
  <2>6. QED
    BY <2>5 DEF L!Next
<1>6. ASSUME NEW g \in routines, StoreStopped(g) \/ ShutdownEngine(g)
      PROVE  UNCHANGED L!leaseVars
  <2>1. /\ nextID' = nextID /\ held' = held /\ available' = available
        /\ g.at \in {"store", "shutdown"}
        /\ \E a \in {"shutdown", "remove"} :
              \/ routines' = (routines \ {g}) \cup {At(g, a)}
              \/ g.job = "stop" /\ routines' = routines \ {g}
    BY <1>6 DEF StoreStopped, ShutdownEngine, Become, queueVars, clientVars
  <2>2. \A a \in {"shutdown", "remove"} :
            At(g, a).w = g.w /\ At(g, a).at = a /\ At(g, a).job = g.job
    BY <1>i, RoutineFields DEF Stage
  <2>3. QED
    BY <2>1, <2>2, RoutinesMove DEF Owner
<1>7. ASSUME NEW g \in routines, RemoveWorker(g)
      PROVE  UNCHANGED L!leaseVars
  <2>1. /\ nextID' = nextID /\ held' = held /\ available' = available
        /\ g.at = "remove" /\ routines \ {g} \subseteq routines'
        /\ \A h \in routines' : h = At(g, "spawn") \/ (h \in routines /\ h # g)
    BY <1>7, <1>i, RoutineFields DEF RemoveWorker, Become, queueVars, clientVars, Stage
  <2>2. ~Owner(At(g, "spawn")) /\ At(g, "spawn").at # "send"
    BY <1>i, RoutineFields DEF Stage, Owner
  <2>3. CASE ~Owner(g)
    BY <2>1, <2>2, <2>3, RoutinesMove
  <2>4. CASE Owner(g)
    <3>1. PICK w \in Worker : w = g.w
      BY <1>i, RoutineFields
    <3>2. Retiring(w)
      BY <2>1, <2>4, <3>1 DEF Retiring
    <3>3. ~HeldByClient(w) /\ ~Queued(w) /\ ~Sending(w)
      BY <1>i, <3>2, Places
    <3>4. \A v \in Worker : /\ HeldByClient(v)' <=> HeldByClient(v)
                            /\ Queued(v)' <=> Queued(v)
      BY <2>1 DEF HeldByClient, Queued
    <3>5. \A v \in Worker : Sending(v)' <=> Sending(v)
      BY <2>1, <2>2 DEF Sending
    <3>6. \A v \in Worker : v # w => (Retiring(v)' <=> Retiring(v))
      BY <2>1, <2>2, <3>1 DEF Retiring
    <3>7. \A v \in Worker : Place(v)' = Place(v)
      BY <2>1, <3>2, <3>3, <3>4, <3>5, <3>6, PlaceDef DEF Reading
    <3>8. QED
      BY <2>1, <3>7 DEF L!leaseVars
  <2>5. QED
    BY <2>3, <2>4
<1>8. ASSUME \/ \E g \in routines : SpawnReplacement(g)
             \/ ScaleUp \/ ReloadSpawn
      PROVE  L!Next
  <2>1. available' = available /\ held' = held
    BY <1>8 DEF SpawnReplacement, ScaleUp, ReloadSpawn, queueVars, clientVars
  <2>2. ASSUME NEW g \in routines, SpawnReplacement(g) PROVE L!Next
    <3>1. ~Owner(g) /\ Spawn({g}, "replace")
      BY <2>2 DEF SpawnReplacement, Owner
    <3>2. \E w \in Worker : L!Create(w)
      BY <1>i, <2>1, <3>1, SpawnCreates
    <3>3. QED
      BY <3>2 DEF L!Next
  <2>3. CASE ScaleUp \/ ReloadSpawn
    <3>1. Spawn({}, "scaleUp") \/ Spawn({}, "reload")
      BY <2>3 DEF ScaleUp, ReloadSpawn
    <3>2. \E w \in Worker : L!Create(w)
      BY <1>i, <2>1, <3>1, SpawnCreates
    <3>3. QED
      BY <3>2 DEF L!Next
  <2>4. QED
    BY <1>8, <2>2, <2>3
<1>9. ASSUME NEW g \in routines, Send(g)
      PROVE  UNCHANGED L!leaseVars
  <2>1. nextID' = nextID /\ held' = held /\ g.at = "send"
    BY <1>9 DEF Send, clientVars
  <2>2. CASE available' = available /\ routines' = routines
    BY <1>1, <2>1, <2>2
  <2>3. CASE Added(g.w) /\ routines' = routines \ {g}
    <3>1. \A v \in Worker : Queued(v)' <=> Queued(v) \/ v = g.w
      BY <2>3 DEF Queued, Added
    <3>2. \A v \in Worker : Retiring(v)' <=> Retiring(v)
      BY <2>1, <2>3 DEF Retiring
    <3>3. \A v \in Worker : Sending(v) <=> Sending(v)' \/ v = g.w
      BY <2>1, <2>3, <1>i DEF Sending
    <3>4. QED
      BY <2>1, <3>1, <3>2, <3>3, NothingMoves
  <2>4. QED
    BY <1>9, <1>i, <2>2, <2>3, AfterSend
<1>10. ASSUME ScaleDown
      PROVE  L!Next \/ UNCHANGED L!leaseVars
  <2>1. nextID' = nextID /\ held' = held
    BY <1>10 DEF ScaleDown, clientVars
  <2>2. CASE available' = available /\ routines' = routines
    BY <1>1, <2>1, <2>2
  <2>3. ASSUME NEW w \in Worker, Removed(w),
               routines' = routines \cup {Stopper("scaleDown", 0, w)}
        PROVE  L!Retire(w)
    <3> DEFINE s == Stopper("scaleDown", 0, w)
    <3>1. routines' = routines \cup {s} /\ s.w = w /\ s.at # "send" /\ Owner(s)
      BY <2>3, RoutineFields DEF Owner
    <3> HIDE DEF s
    <3>2. \A v \in Worker : Queued(v) <=> Queued(v)' \/ v = w
      BY <2>3 DEF Removed, Queued
    <3>3. \A v \in Worker : HeldByClient(v)' <=> HeldByClient(v)
      BY <2>1 DEF HeldByClient
    <3>4. \A v \in Worker : Retiring(v)' <=> Retiring(v) \/ v = w
      BY <3>1 DEF Retiring
    <3>5. \A v \in Worker : Sending(v)' <=> Sending(v)
      BY <3>1 DEF Sending
    <3>6. ~(w > nextID) /\ ~Retiring(w) /\ ~HeldByClient(w) /\ Queued(w)
      BY <1>i, <3>2, Places DEF Fresh, Spawned, Queued, TypeOK, Worker
    <3>7. Place(w) = "free" /\ Place(w)' = "retired"
      BY <2>1, <3>4, <3>6, PlaceDef DEF Reading
    <3>8. \A v \in Worker : v # w => Place(v)' = Place(v)
      BY <2>1, <3>2, <3>3, <3>4, <3>5, PlaceDef DEF Reading
    <3>9. QED
      BY <2>1, <3>7, <3>8, PlaceMoves DEF L!Retire
  <2>4. QED
    BY <1>10, <1>i, <2>2, <2>3, AfterScaleDown DEF L!Next
<1>11. ASSUME NEW k \in 1 .. MaxReloads, DrainNext(k)
      PROVE  UNCHANGED L!leaseVars
  <2>1. \A w : ~Owner(Stopper("drain", k, w))
    BY RoutineFields DEF Owner
  <2>2. QED
    BY <1>11, <2>1, RoutinesMove DEF DrainNext, queueVars, clientVars
<1>12. ASSUME StopWorkers
      PROVE  UNCHANGED L!leaseVars
  <2>1. \A w : ~Owner(Stopper("stop", 0, w))
    BY RoutineFields DEF Owner
  <2>2. QED
    BY <1>12, <2>1, RoutinesMove DEF StopWorkers, queueVars, clientVars
<1>13. QED
  BY <1>1, <1>2, <1>3, <1>4, <1>5, <1>6, <1>7, <1>8, <1>9, <1>10, <1>11, <1>12
  DEF Next, Exec, RoutineStep, AutoScale, Reload, Stop

\* The pool starts as Lease does: its workers are free, nobody holds one.
LEMMA LeaseInit == Init => L!Init
<1> SUFFICES ASSUME Init PROVE L!Init
  OBVIOUS
<1>1. \A w \in Worker : ~HeldByClient(w) /\ ~Retiring(w)
  BY DEF Init, HeldByClient, Retiring, Worker, NoWorker
<1>2. \A w \in Worker : w <= MinWorkers => Queued(w)
  <2>1. \A w \in Worker : w <= MinWorkers => w \in 1 .. MinWorkers
    BY Scenario, PoolConfig DEF Worker
  <2>2. QED
    BY <2>1, PoolConfig DEF Queued, Range, Init
<1>3. \A w \in Worker : Place(w) \in {"new", "free"}
  <2> SUFFICES ASSUME NEW w \in Worker PROVE Place(w) \in {"new", "free"}
    OBVIOUS
  <2>1. w > nextID \/ w <= MinWorkers
    BY Scenario, PoolConfig DEF Init, Worker
  <2>2. QED
    BY <1>1, <1>2, <2>1, PlaceDef DEF Reading
<1>4. QED
  BY <1>3 DEF Init, L!Init

\* Whatever recycling, scaling, reloads and a shutdown do, the embedded pool
\* leases a worker to one request at a time and never leases one again that it
\* took out of circulation.
THEOREM PoolImplementsLease == Spec => ImplementsLease
  BY LeaseInit, LeaseStep, Invariance, PTL DEF Spec, ImplementsLease, L!Spec

=============================================================================
