--------------------------- MODULE MCProcessPool ---------------------------
(****************************************************************************)
(* Model checking of ProcessPool.                                           *)
(* Requests are interchangeable, so safety runs use Symmetry; liveness runs *)
(* do not.                                                                  *)
(****************************************************************************)
EXTENDS ProcessPool, Wire, TLC

\* A frame is one item of a pipe in ProcessPool.  That its reader stops where its
\* writer did, for sizes that fit their fields, is theorem FramesApart; here TLC
\* evaluates it at the sizes where a byte of a field turns over.
ASSUME WireEdges == EdgesCut

Symmetry == Permutations(Requests)

=============================================================================
