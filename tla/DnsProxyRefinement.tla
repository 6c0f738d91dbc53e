------------------------- MODULE DnsProxyRefinement -------------------------
(***************************************************************************)
(* DnsProxy implements QueryService.                                       *)
(***************************************************************************)
EXTENDS DnsProxy

\* A query the loop has read but not yet taken from its connection's reader.
Unread(q) == \E c \in sessions : \E i \in 1..Len(reader[c]) : reader[c][i] = q

StatusOf(q) ==
  IF replies[q] # <<>>
    THEN IF Head(replies[q]) = "answer" THEN "answered" ELSE "failed"
  ELSE IF q \in pending /\ Reachable(q) THEN "waiting"
  ELSE IF origin[q] = NoQuery \/ Unread(q) THEN "new"
  ELSE "dropped"

\* A client has left when its connection is closed, and all have when the
\* forwarder's state is destroyed.
Gone ==
  {q \in Queries : stop = "freed" \/ (origin[q] \in Conns /\ conn[origin[q]] = "closed")}

Service == INSTANCE QueryService WITH
  status <- [q \in Queries |-> StatusOf(q)],
  gone <- Gone,
  up <- phase # "ended"

\* The forwarder also keeps the service's promise that no query waits for
\* ever, with no help from its workers.
ImplementsService == Service!Spec
=============================================================================
