----------------------------- MODULE MCWatcher -----------------------------
(***************************************************************************)
(* Model checking of Watcher: two watched files and one that is not.       *)
(***************************************************************************)
EXTENDS Watcher

CONSTANTS a, b, png  \* the files

=============================================================================
