------------------------------- MODULE Lease -------------------------------
(***************************************************************************)
(* What a worker pool promises, whatever recycling, scaling, reloading,    *)
(* timeouts and shutdown do inside: a worker comes into being once, is     *)
(* leased to one request at a time, a request holds one worker at most,    *)
(* and a worker that was taken out of circulation is never leased again.   *)
(*                                                                         *)
(* WorkerPool (internal/worker) and ProcessPool (internal/pool) implement  *)
(* it; each defines the mapping from its channel, handlers and goroutines. *)
(***************************************************************************)
CONSTANTS
    Worker,    \* the workers a pool may ever have
    Client,    \* the requests
    NoWorker   \* what a request holds that has no worker

VARIABLES
    place,   \* where a worker is in its life
    holder   \* the worker leased to a request, or NoWorker

leaseVars == <<place, holder>>

LeaseType ==
    /\ place \in [Worker -> {"new", "free", "leased", "retired"}]
    /\ holder \in [Client -> Worker \cup {NoWorker}]

Init ==
    /\ place \in [Worker -> {"new", "free"}]
    /\ holder = [c \in Client |-> NoWorker]

\* A worker is spawned and ready to be leased.
Create(w) ==
    /\ place[w] = "new"
    /\ place' = [place EXCEPT ![w] = "free"]
    /\ UNCHANGED holder

Grant(c, w) ==
    /\ holder[c] = NoWorker /\ place[w] = "free"
    /\ place' = [place EXCEPT ![w] = "leased"]
    /\ holder' = [holder EXCEPT ![c] = w]

\* A request ends and its worker is free again, or will not be used again.
Release(c, next) ==
    /\ holder[c] # NoWorker
    /\ place' = [place EXCEPT ![holder[c]] = next]
    /\ holder' = [holder EXCEPT ![c] = NoWorker]

\* A worker nobody holds is taken out of circulation.
Retire(w) ==
    /\ place[w] = "free"
    /\ place' = [place EXCEPT ![w] = "retired"]
    /\ UNCHANGED holder

Next ==
    \/ \E w \in Worker : Create(w) \/ Retire(w)
    \/ \E c \in Client, w \in Worker : Grant(c, w)
    \/ \E c \in Client, next \in {"free", "retired"} : Release(c, next)

Spec == Init /\ [][Next]_leaseVars

\* No worker is leased to two requests, and it is leased to the request that
\* holds it.
Exclusive ==
    /\ \A c, d \in Client : holder[c] = holder[d] /\ holder[c] # NoWorker => c = d
    /\ \A c \in Client : holder[c] # NoWorker => place[holder[c]] = "leased"

=============================================================================
