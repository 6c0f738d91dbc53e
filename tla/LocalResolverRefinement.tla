----------------------- MODULE LocalResolverRefinement -----------------------
(***************************************************************************)
(* LocalResolver implements QueryService.                                  *)
(***************************************************************************)
EXTENDS LocalResolver

\* A query in a reader has not been taken in yet.
Buffered(q) == \E c \in sessions : q \in ToSet(session[c].reader)

Held(q) == q \in ToSet(pending) \/ \E c \in sessions : session[c].serving = q

StatusOf(q) ==
  IF replies[q] # <<>>
    THEN IF Head(replies[q]).by = "servfail" THEN "failed" ELSE "answered"
  ELSE IF Held(q) THEN "waiting"
  ELSE IF origin[q] = None \/ Buffered(q) THEN "new"
  ELSE "dropped"

\* A client has left when its connection is closed; whoever asked by datagram
\* only when Stop() frees the state.
Gone ==
  torn \cup {q \in Queries : origin[q] \in Conns /\ session[origin[q]].state = "closed"}

Service == INSTANCE QueryService WITH
  status <- [q \in Queries |-> StatusOf(q)],
  gone <- Gone,
  up <- phase \notin {"none", "ended"}

\* Each step of the server is a step of the service or changes nothing a
\* client could see, and no query waits for ever while the loop runs.
ImplementsService == Service!Spec
=============================================================================
