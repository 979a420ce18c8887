--------------------------- MODULE MCHeQatOffload ---------------------------
(***************************************************************************)
(* HeQatOffload with few callers and buffers, for TLC.                     *)
(***************************************************************************)
EXTENDS OffloadRefinement, TLC

\* The callers are interchangeable as long as none of them is Endless.
Symmetry == Permutations(Clients)

=============================================================================
