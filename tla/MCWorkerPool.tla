---------------------------- MODULE MCWorkerPool ----------------------------
(***************************************************************************)
(* Model checking of WorkerPool.  Handlers are interchangeable, so safety  *)
(* runs use Symmetry; liveness runs do not.                                *)
(***************************************************************************)
EXTENDS WorkerPool, TLC

Symmetry == Permutations(Clients)

=============================================================================
