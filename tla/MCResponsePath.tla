--------------------------- MODULE MCResponsePath ---------------------------
(***************************************************************************)
(* Model checking of ResponsePath.  The goroutines, and the writers named  *)
(* after them, are interchangeable.                                        *)
(***************************************************************************)
EXTENDS ResponsePath, TLC

Symmetry == Permutations(Requests)

=============================================================================
