--------------------------- MODULE MCServiceStack ---------------------------
(***************************************************************************)
(* Small instances of ServiceStack for TLC.                                *)
(***************************************************************************)
EXTENDS ServiceStack, TLC

\* Which worker and which supervisor thread it is does not matter.
Symmetry == Permutations(Callers) \cup Permutations(Sups)
=============================================================================
