----------------------------- MODULE MCDnsProxy -----------------------------
(***************************************************************************)
(* Small instances of DnsProxy for TLC.                                    *)
(***************************************************************************)
EXTENDS DnsProxy, TLC

\* The identities of queries, connections, upstreams and workers carry no
\* meaning, so states that differ in a renaming are the same state.
Symmetry ==
  Permutations(Queries) \cup Permutations(Conns) \cup
  Permutations(Upstreams) \cup Permutations(Workers)
=============================================================================
