--------------------------- MODULE MCLocalResolver ---------------------------
(***************************************************************************)
(* A small instance of LocalResolver for TLC.                              *)
(***************************************************************************)
EXTENDS LocalResolverRefinement

\* No two queries ask the same, so that an answer to the wrong one shows.
DistinctQuestions == [q \in Queries |-> q]
=============================================================================
