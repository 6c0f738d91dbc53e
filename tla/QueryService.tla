---------------------------- MODULE QueryService ----------------------------
(***************************************************************************)
(* What each DNS server promises its clients, with no word of pools, races, *)
(* sockets or deadlines: a query that is taken in is answered once, either *)
(* with an upstream's answer or with a failure, unless its client leaves.  *)
(***************************************************************************)
CONSTANT Queries

VARIABLES
  status,  \* what has become of each query
  gone,    \* the queries whose client has left
  up       \* the service is running

vars == <<status, gone, up>>

Status == {"new", "waiting", "answered", "failed", "dropped"}

Init ==
  /\ status = [q \in Queries |-> "new"]
  /\ gone = {}
  /\ up \in BOOLEAN

TakeIn(q) ==
  /\ up /\ status[q] = "new" /\ q \notin gone
  /\ status' = [status EXCEPT ![q] = "waiting"]
  /\ UNCHANGED <<gone, up>>

\* Too much is going on: the query is failed without being tried.
Refuse(q) ==
  /\ up /\ status[q] = "new"
  /\ status' = [status EXCEPT ![q] = "failed"]
  /\ UNCHANGED <<gone, up>>

\* The service knows the answer itself.
AnswerAtOnce(q) ==
  /\ up /\ status[q] = "new" /\ q \notin gone
  /\ status' = [status EXCEPT ![q] = "answered"]
  /\ UNCHANGED <<gone, up>>

Answer(q) ==
  /\ up /\ status[q] = "waiting"
  /\ status' = [status EXCEPT ![q] = "answered"]
  /\ UNCHANGED <<gone, up>>

\* Several queries can run out of time together.
Fail(F) ==
  /\ up /\ F # {}
  /\ \A q \in F : status[q] = "waiting"
  /\ status' = [q \in Queries |-> IF q \in F THEN "failed" ELSE status[q]]
  /\ UNCHANGED <<gone, up>>

\* Clients leave, or the service is taken down with all it still holds.
Leave(G) ==
  /\ G # {}
  /\ gone' = gone \cup G
  /\ status' \in [Queries -> Status]
  /\ \A q \in Queries :
       \/ status'[q] = status[q] /\ ~(q \in G /\ status[q] = "waiting")
       \/ q \in G /\ status[q] \in {"new", "waiting"} /\ status'[q] = "dropped"
  /\ UNCHANGED up

GoDown ==
  /\ up
  /\ up' = FALSE
  /\ UNCHANGED <<status, gone>>

ComeUp ==
  /\ ~up
  /\ up' = TRUE
  /\ UNCHANGED <<status, gone>>

Next ==
  \/ \E q \in Queries : TakeIn(q) \/ Refuse(q) \/ AnswerAtOnce(q) \/ Answer(q)
  \/ \E S \in SUBSET Queries : Fail(S) \/ Leave(S)
  \/ GoDown \/ ComeUp

Safety == Init /\ [][Next]_vars

\* While the service is up, no query waits for ever.
Spec ==
  /\ Safety
  /\ \A q \in Queries : (status[q] = "waiting") ~> (status[q] # "waiting" \/ ~up)
=============================================================================
