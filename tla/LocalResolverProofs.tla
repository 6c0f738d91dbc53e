------------------------ MODULE LocalResolverProofs ------------------------
(***************************************************************************)
(* Proofs about LocalResolver: that the end of its loop is always          *)
(* signalled, that no connection is left without a way on, that a client   *)
(* is told about the question it asked and told once, each query being in  *)
(* one place from its client to its answer, and that the server keeps the  *)
(* safety half of what QueryService promises.                              *)
(***************************************************************************)
EXTENDS LocalResolverRefinement, SequenceTheorems, WellFoundedInduction, TLAPS

-----------------------------------------------------------------------------
(***************************************************************************)
(* Start, Stop and the end of the loop                                     *)
(***************************************************************************)

LEMMA TakeTurnsStep == TakeTurns /\ [Next]_vars => TakeTurns'
<1> SUFFICES ASSUME TakeTurns, [Next]_vars PROVE TakeTurns'
  OBVIOUS
<1> USE DEF TakeTurns, ownerVars, passVars
<1>1. ASSUME Owner PROVE TakeTurns'
  BY <1>1, SMTT(30) DEF Owner, Request, Joined, Bind, Launch, ResetThenLaunch, LaunchFails
<1>2. ASSUME LoopEnds \/ SignalStopped \/ Select PROVE TakeTurns'
  BY <1>2, SMTT(30) DEF LoopEnds, SignalStopped, Select
<1>3. ASSUME Datagrams PROVE TakeTurns'
  BY <1>3, SMTT(30) DEF Datagrams, HandleUpstreamReply, HandleUdpQuery, NoQueryRead,
                        ExpirePendingUdp, Families
<1>4. ASSUME ServeTcp PROVE TakeTurns'
  <2> DEFINE Inside == phase \in {"accept", "serve", "client", "deadline"}
  <2>1. Inside /\ phase' \in {"serve", "client", "deadline", "expire"}
               /\ UNCHANGED ownerVars
    <3>1. CASE \E c \in Conns : Accept(c)
      BY <3>1 DEF Accept
    <3>2. CASE \E c \in Conns : ServeUpstream(c)
      BY <3>2 DEF ServeUpstream, InPass
    <3>3. CASE \E c \in Conns : ServeNothing(c) \/ ServeClosed(c)
      BY <3>3 DEF ServeNothing, ServeClosed, AtClient, InPass, Drop
    <3>4. CASE \E c \in Conns : WriteToClient(c)
      BY <3>4 DEF WriteToClient, ServeBufferedQuery, AtClient, InPass, Drop
    <3>5. CASE \E c \in Conns : ReadFromClient(c)
      BY <3>5 DEF ReadFromClient, ServeBufferedQuery, AtClient, InPass, Drop
    <3>6. CASE NoClient \/ CheckDeadline \/ ServedAll
      BY <3>6 DEF NoClient, CheckDeadline, ServedAll, InPass, Drop
    <3> QED
      BY <1>4, <3>1, <3>2, <3>3, <3>4, <3>5, <3>6 DEF ServeTcp
  <2> QED
    BY <2>1, SMTT(30)
<1>5. ASSUME Tick PROVE TakeTurns'
  BY <1>5 DEF Tick
<1>6. ASSUME UNCHANGED vars PROVE TakeTurns'
  BY <1>6 DEF vars
<1> QED
  BY <1>1, <1>2, <1>3, <1>4, <1>5, <1>6 DEF Next, Loop

\* Whoever waits for the stop event learns of every end of the loop, and of
\* no other: no order of Start's ResetEvent and the loop's SetEvent loses one.
THEOREM EndNeverMissed == Spec => []EndIsSignalled
<1>1. Init => TakeTurns
  BY DEF Init, TakeTurns
<1>2. TakeTurns => EndIsSignalled
  BY DEF TakeTurns, EndIsSignalled
<1> QED
  BY <1>1, <1>2, TakeTurnsStep, PTL DEF Spec
-----------------------------------------------------------------------------
(***************************************************************************)
(* What each change of a connection leaves of it                           *)
(***************************************************************************)

LEMMA FreshFields ==
  ASSUME NEW s \in {"new", "open", "closed"}, NEW n \in Nat
  PROVE  Fresh(s, n) \in Session /\ Attended(Fresh(s, n))
<1>1. <<>> \in Seq(Queries \cup {Malformed}) /\ <<>> \in Seq(Reply)
  OBVIOUS
<1>2. Fresh(s, n) \in Session
  BY <1>1 DEF Fresh, Session
<1> QED
  BY <1>2 DEF Fresh, Attended

LEMMA QueuedFields ==
  ASSUME NEW t \in Session, NEW r \in Reply
  PROVE  LET u == QueueResponse(t, r)
         IN /\ u \in Session /\ u.out = <<r>> /\ u.upstream = t.upstream
            /\ u.serving = t.serving /\ u.question = t.question /\ u.reader = t.reader
<1>1. <<r>> \in Seq(Reply) /\ IdleTicks \in Nat
  BY LocalResolverAssumption
<1> QED
  BY <1>1, Zenon DEF QueueResponse, Session

LEMMA UpstreamFields ==
  ASSUME NEW t \in Session, NEW s \in {"none", "connecting", "sending", "waiting"}
  PROVE  LET u == [t EXCEPT !.upstream = s]
         IN /\ u \in Session /\ u.out = t.out /\ u.upstream = s
            /\ u.serving = t.serving /\ u.question = t.question /\ u.reader = t.reader
BY Zenon DEF Session

LEMMA WrittenFields ==
  ASSUME NEW t \in Session
  PROVE  LET u == Written(t)
         IN /\ u \in Session /\ u.out = <<>> /\ u.upstream = t.upstream
            /\ u.serving = None /\ u.question = t.question /\ u.reader = t.reader
<1>1. <<>> \in Seq(Reply) /\ IdleTicks \in Nat
  BY LocalResolverAssumption
<1> QED
  BY <1>1, Zenon DEF Written, Session

LEMMA ReadFields ==
  ASSUME NEW t \in Session, NEW b \in Seq(Queries \cup {Malformed}), NEW n \in Nat
  PROVE  LET u == [t EXCEPT !.reader = @ \o b, !.idle = n]
         IN /\ u \in Session /\ u.out = t.out /\ u.upstream = t.upstream
            /\ u.serving = t.serving /\ u.question = t.question
<1>1. t.reader \o b \in Seq(Queries \cup {Malformed})
  BY SMT DEF Session
<1> QED
  BY <1>1, Zenon DEF Session

LEMMA TakenFields ==
  ASSUME NEW t \in Session, t.reader # <<>>, NEW q \in Queries
  PROVE  LET u == [t EXCEPT !.reader = Tail(@), !.serving = q]
         IN /\ u \in Session /\ u.out = t.out /\ u.upstream = t.upstream
            /\ u.serving = q /\ u.question = t.question
<1>1. Tail(t.reader) \in Seq(Queries \cup {Malformed})
  BY SMT DEF Session
<1> QED
  BY <1>1, Zenon DEF Session

LEMMA QuestionFields ==
  ASSUME NEW t \in Session, NEW q \in Queries
  PROVE  LET u == [t EXCEPT !.question = q]
         IN /\ u \in Session /\ u.out = t.out /\ u.upstream = t.upstream
            /\ u.serving = t.serving /\ u.question = q
BY Zenon DEF Session

LEMMA ForwardFields ==
  ASSUME NEW t \in Session
  PROVE  LET u == [t EXCEPT !.upstream = "connecting", !.idle = ForwardTicks]
         IN /\ u \in Session /\ u.out = t.out /\ u.upstream = "connecting"
            /\ u.serving = t.serving /\ u.question = t.question
<1>1. ForwardTicks \in Nat
  BY LocalResolverAssumption
<1> QED
  BY <1>1, Zenon DEF Session

LEMMA IdleFields ==
  ASSUME NEW t \in Session, NEW n \in Nat
  PROVE  LET u == [t EXCEPT !.idle = n]
         IN u \in Session /\ (Attended(t) => Attended(u))
BY Zenon DEF Session, Attended

\* A failure is a response to the query that the connection last forwarded.
LEMMA FailedFields ==
  ASSUME NEW t \in Session, t.question \in Queries
  PROVE  LET u == FailTcpForward(t)
         IN /\ u \in Session /\ u.out = <<Say("servfail", t.question)>>
            /\ u.upstream = "none" /\ u.serving = t.serving
            /\ u.question = t.question /\ u.reader = t.reader
<1> DEFINE v == [t EXCEPT !.upstream = "none"]
<1>1. Say("servfail", t.question) \in Reply
  BY DEF Say, Reply
<1>2. /\ v \in Session /\ v.serving = t.serving
      /\ v.question = t.question /\ v.reader = t.reader /\ v.upstream = "none"
  BY UpstreamFields
<1> HIDE DEF v
<1>3. FailTcpForward(t) = QueueResponse(v, Say("servfail", t.question))
  BY DEF FailTcpForward, v
<1> QED
  BY <1>1, <1>2, <1>3, QueuedFields
-----------------------------------------------------------------------------
(***************************************************************************)
(* Connections and answers                                                 *)
(***************************************************************************)

\* The inductive invariant: connections have their shape, none is left without
\* a way on, and what was said was about the question asked.
Kept == SessionsKept /\ NothingForgotten /\ OwnAnswer

\* One connection changes and stays in order.
LEMMA Placed ==
  ASSUME session \in [Conns -> Session], NothingForgotten,
         NEW c \in Conns, NEW t \in Session, Attended(t),
         session' = [session EXCEPT ![c] = t]
  PROVE  session' \in [Conns -> Session] /\ NothingForgotten'
<1>1. session' \in [Conns -> Session]
  OBVIOUS
<1>2. \A d \in Conns : session'[d] = IF d = c THEN t ELSE session[d]
  OBVIOUS
<1>3. ASSUME NEW d \in Conns PROVE Attended(session'[d])
  <2>1. CASE d = c
    BY <1>2, <2>1
  <2>2. CASE d # c
    BY <1>2, <2>2 DEF NothingForgotten
  <2> QED
    BY <2>1, <2>2
<1> QED
  BY <1>1, <1>3 DEF NothingForgotten

\* One query is answered about its own question.
LEMMA Handed ==
  ASSUME replies \in [Queries -> Seq(Reply)], OwnAnswer,
         NEW q \in Queries, NEW r \in Reply, r.to = Question[q], Hand(q, r)
  PROVE  replies' \in [Queries -> Seq(Reply)] /\ OwnAnswer'
<1>1. \A x \in Queries : replies'[x] = IF x = q THEN Append(replies[q], r) ELSE replies[x]
  BY DEF Hand
<1>2. replies' \in [Queries -> Seq(Reply)]
  BY DEF Hand
<1>3. ASSUME NEW x \in Queries, NEW i \in 1..Len(replies'[x])
     PROVE  replies'[x][i].to = Question[x]
  <2>1. CASE x # q
    BY <1>1, <1>3, <2>1 DEF OwnAnswer
  <2>2. CASE x = q
    <3>1. replies'[x] = Append(replies[q], r) /\ replies[q] \in Seq(Reply)
      BY <1>1, <2>2
    <3>2. \/ i \in 1..Len(replies[q]) /\ replies'[x][i] = replies[q][i]
          \/ replies'[x][i] = r
      BY <3>1, <1>3, SMT
    <3> QED
      BY <2>2, <3>2 DEF OwnAnswer
  <2> QED
    BY <2>1, <2>2
<1> QED
  BY <1>2, <1>3 DEF OwnAnswer

LEMMA SayTyped ==
  ASSUME NEW by \in {"rules", "upstream", "servfail"}, NEW q \in Queries
  PROVE  Say(by, q) \in Reply /\ Say(by, q).to = Question[q]
BY DEF Say, Reply

\* A connection becomes one that holds an answer to the query in service.
LEMMA Responded ==
  ASSUME session \in [Conns -> Session], replies \in [Queries -> Seq(Reply)],
         NothingForgotten, OwnAnswer,
         NEW c \in Conns, NEW t \in Session, t.serving \in Queries,
         t.upstream = "none",
         NEW by \in {"rules", "upstream", "servfail"},
         t.out = <<Say(by, t.serving)>>,
         Responds(c, t)
  PROVE  /\ session' \in [Conns -> Session] /\ NothingForgotten'
         /\ replies' \in [Queries -> Seq(Reply)] /\ OwnAnswer'
<1>1. Attended(t)
  <2>1. t.serving # None
    BY LocalResolverAssumption
  <2>2. t.out # <<>>
    BY SMT
  <2> QED
    BY <2>1, <2>2 DEF Attended
<1>2. session' \in [Conns -> Session] /\ NothingForgotten'
  BY <1>1, Placed DEF Responds
<1>3. Head(t.out) = Say(by, t.serving)
  BY SMT
<1>4. replies' \in [Queries -> Seq(Reply)] /\ OwnAnswer'
  BY <1>3, SayTyped, Handed DEF Responds
<1> QED
  BY <1>2, <1>4

\* A connection is dropped.
LEMMA Dropped ==
  ASSUME Kept, NEW c \in Conns, Drop(c)
  PROVE  /\ session' \in [Conns -> Session] /\ NothingForgotten'
         /\ replies' = replies /\ OwnAnswer' /\ phase' = "serve"
<1>1. Fresh("closed", 0) \in Session /\ Attended(Fresh("closed", 0))
  BY FreshFields
<1>2. session' \in [Conns -> Session] /\ NothingForgotten'
  BY <1>1, Placed DEF Drop, Kept, SessionsKept
<1> QED
  BY <1>2 DEF Drop, Kept, OwnAnswer

\* A connection with nothing to write, and an upstream exactly if a query is
\* in service, is served.
LEMMA ServeBufferedQueryKeeps ==
  ASSUME Kept, NEW c \in Conns, NEW t \in Session,
         t.out = <<>>, t.serving # None <=> t.upstream # "none",
         t.upstream # "none" => t.question = t.serving,
         ServeBufferedQuery(c, t)
  PROVE  /\ session' \in [Conns -> Session] /\ NothingForgotten'
         /\ replies' \in [Queries -> Seq(Reply)] /\ OwnAnswer'
         /\ phase' \in {"serve", "deadline"}
<1> USE DEF Kept, SessionsKept
<1>1. CASE Busy(t) /\ phase' = "deadline" /\ Becomes(c, t)
  <2>1. Attended(t)
    BY <1>1 DEF Busy, Attended
  <2> QED
    BY <1>1, <2>1, Placed DEF Becomes, OwnAnswer
<1>2. CASE Drop(c)
  BY <1>2, Dropped
<1>3. CASE ~Busy(t) /\ Head(t.reader) # Malformed
  <2> DEFINE q == Head(t.reader)
             u == [t EXCEPT !.reader = Tail(@), !.serving = q]
             f == [u EXCEPT !.question = q]
  <2>1. q \in Queries /\ t.reader # <<>> /\ t.upstream = "none"
    BY <1>3, SMT DEF Busy, Session
  <2>2. /\ u \in Session /\ u.out = <<>> /\ u.upstream = "none" /\ u.serving = q
    BY <2>1, TakenFields
  <2>3. /\ f \in Session /\ f.out = <<>> /\ f.upstream = "none"
        /\ f.serving = q /\ f.question = q
    BY <2>1, <2>2, QuestionFields
  <2>4. /\ phase' = "deadline"
        /\ \/ Responds(c, QueueResponse(u, Say("rules", q)))
           \/ Responds(c, FailTcpForward(f))
           \/ Becomes(c, [f EXCEPT !.upstream = "connecting", !.idle = ForwardTicks])
    BY <1>3, ZenonT(30) DEF ServeBufferedQuery
  <2> HIDE DEF q, u, f
  <2>5. CASE Responds(c, QueueResponse(u, Say("rules", q)))
    <3> DEFINE w == QueueResponse(u, Say("rules", q))
    <3>1. Say("rules", q) \in Reply
      BY <2>1, SayTyped
    <3>2. /\ w \in Session /\ w.out = <<Say("rules", q)>> /\ w.upstream = "none"
          /\ w.serving = q
      BY <2>2, <3>1, QueuedFields
    <3> HIDE DEF w
    <3>3. w.serving \in Queries /\ w.out = <<Say("rules", w.serving)>> /\ Responds(c, w)
      BY <2>1, <2>5, <3>2 DEF w
    <3> QED
      BY <2>4, <3>2, <3>3, Responded
  <2>6. CASE Responds(c, FailTcpForward(f))
    BY <2>1, <2>3, <2>4, <2>6, FailedFields, Responded
  <2>7. CASE Becomes(c, [f EXCEPT !.upstream = "connecting", !.idle = ForwardTicks])
    <3> DEFINE w == [f EXCEPT !.upstream = "connecting", !.idle = ForwardTicks]
    <3>1. /\ w \in Session /\ w.out = <<>> /\ w.upstream = "connecting"
          /\ w.serving = q /\ w.question = q
      BY <2>3, ForwardFields
    <3>2. session' = [session EXCEPT ![c] = w] /\ UNCHANGED replies
      BY <2>7 DEF Becomes
    <3> HIDE DEF w
    <3>3. Attended(w)
      BY <2>1, <3>1, LocalResolverAssumption DEF Attended
    <3> QED
      BY <2>4, <3>1, <3>2, <3>3, Placed DEF OwnAnswer
  <2> QED
    BY <2>4, <2>5, <2>6, <2>7
<1> QED
  BY <1>1, <1>2, <1>3, Zenon DEF ServeBufferedQuery

\* The upstream half of a session.
LEMMA ServeUpstreamKeeps ==
  ASSUME Kept, NEW c \in Conns, ServeUpstream(c)
  PROVE  Kept'
<1> USE DEF Kept, SessionsKept
<1> DEFINE t == session[c]
<1>1. t \in Session /\ Attended(t) /\ toServe' \subseteq Conns /\ turn' \in Conns
  BY DEF ServeUpstream, NothingForgotten
<1>2. CASE Becomes(c, t)
  BY <1>1, <1>2, Placed DEF Becomes, OwnAnswer
<1>3. CASE t.upstream # "none" /\ Responds(c, FailTcpForward(t))
  <2>1. t.serving \in Queries /\ t.question = t.serving /\ t.out = <<>>
    BY <1>1, <1>3 DEF Attended, Session
  <2> HIDE DEF t
  <2>2. LET u == FailTcpForward(t)
        IN /\ u \in Session /\ u.serving \in Queries /\ u.upstream = "none"
           /\ u.out = <<Say("servfail", u.serving)>>
    BY <1>1, <2>1, FailedFields
  <2> QED
    BY <1>1, <1>3, <2>2, Responded
<1>4. CASE /\ t.upstream \in {"connecting", "sending"}
           /\ \E next \in {"sending", "waiting"} :
                Becomes(c, [t EXCEPT !.upstream = next])
  <2>1. PICK next \in {"sending", "waiting"} : Becomes(c, [t EXCEPT !.upstream = next])
    BY <1>4
  <2> DEFINE u == [t EXCEPT !.upstream = next]
  <2> HIDE DEF t
  <2>2. session' = [session EXCEPT ![c] = u] /\ UNCHANGED replies
    BY <2>1 DEF Becomes
  <2>3. /\ u \in Session /\ u.out = t.out /\ u.upstream = next
        /\ u.serving = t.serving /\ u.question = t.question /\ u.reader = t.reader
    <3>1. next \in {"none", "connecting", "sending", "waiting"}
      OBVIOUS
    <3> QED
      BY <1>1, <3>1, UpstreamFields
  <2> HIDE DEF u
  <2>4. Attended(u)
    BY <1>1, <1>4, <2>3, Zenon DEF Attended
  <2> QED
    BY <1>1, <2>2, <2>3, <2>4, Placed DEF OwnAnswer
<1>5. CASE /\ t.upstream = "waiting"
           /\ Responds(c, QueueResponse([t EXCEPT !.upstream = "none"],
                                        Say("upstream", t.question)))
  <2>1. t.serving \in Queries /\ t.question = t.serving
    BY <1>1, <1>5 DEF Attended, Session
  <2> DEFINE v == [t EXCEPT !.upstream = "none"]
             u == QueueResponse(v, Say("upstream", t.question))
  <2>2. v \in Session /\ v.upstream = "none" /\ v.serving = t.serving
    BY <1>1, UpstreamFields
  <2>3. Responds(c, u)
    BY <1>5
  <2> HIDE DEF t, v
  <2>4. Say("upstream", t.question) \in Reply
    BY <2>1, SayTyped
  <2>5. /\ u \in Session /\ u.serving = t.serving /\ u.upstream = "none"
        /\ u.out = <<Say("upstream", t.question)>>
    BY <2>2, <2>4, QueuedFields
  <2> HIDE DEF u
  <2>6. u.serving \in Queries /\ u.out = <<Say("upstream", u.serving)>>
    BY <2>1, <2>5
  <2> QED
    BY <1>1, <2>3, <2>5, <2>6, Responded
<1> QED
  BY <1>2, <1>3, <1>4, <1>5 DEF ServeUpstream

\* What recv() completed is a sequence of messages.
LEMMA BatchesTyped == \A b \in Batches : b \in Seq(Queries \cup {Malformed})
<1> TAKE b \in Batches
<1> DEFINE M == Queries \cup {Malformed}
<1>1. \/ b = <<>>
      \/ \E m \in M : b = <<m>>
      \/ \E m \in M, n \in M : b = <<m, n>>
  BY DEF Batches, Unread
<1> HIDE DEF M
<1>2. b \in Seq(M)
  <2>1. CASE b = <<>>
    BY <2>1
  <2>2. CASE \E m \in M : b = <<m>>
    BY <2>2, SMT
  <2>3. CASE \E m \in M, n \in M : b = <<m, n>>
    BY <2>3, SMT
  <2> QED
    BY <1>1, <2>1, <2>2, <2>3
<1> QED
  BY <1>2 DEF M

\* The client half of a session, and its deadline.
LEMMA ServeClientKeeps ==
  ASSUME Kept, NEW c \in Conns,
         ServeNothing(c) \/ ServeClosed(c) \/ WriteToClient(c) \/ ReadFromClient(c)
  PROVE  Kept'
<1> USE DEF Kept, SessionsKept
<1> DEFINE t == session[c]
<1>1. t \in Session /\ Attended(t) /\ c \in Conns
  BY DEF NothingForgotten
<1>2. UNCHANGED <<toServe, turn>> /\ turn \in Conns
  BY DEF ServeNothing, ServeClosed, WriteToClient, ReadFromClient, AtClient
<1>3. CASE ServeNothing(c)
  <2>1. UNCHANGED session /\ UNCHANGED replies
    BY <1>3 DEF ServeNothing, clientVars
  <2>2. NothingForgotten' /\ OwnAnswer'
    BY <2>1 DEF NothingForgotten, OwnAnswer
  <2> QED
    BY <1>2, <2>1, <2>2
<1>4. CASE ServeClosed(c)
  BY <1>2, <1>4, Dropped DEF ServeClosed
<1>5. CASE WriteToClient(c)
  <2>1. t.out # <<>> /\ ServeBufferedQuery(c, Written(t))
    BY <1>5 DEF WriteToClient
  <2>2. t.upstream = "none"
    BY <1>1, <2>1 DEF Attended
  <2> HIDE DEF t
  <2>3. /\ Written(t) \in Session /\ Written(t).out = <<>>
        /\ Written(t).upstream = "none" /\ Written(t).serving = None
    BY <1>1, <2>2, WrittenFields
  <2> QED
    BY <1>2, <2>1, <2>3, ServeBufferedQueryKeeps
<1>6. CASE ReadFromClient(c)
  <2>1. CASE Drop(c)
    BY <1>2, <2>1, Dropped
  <2>2. CASE \E b \in Batches :
               ServeBufferedQuery(c,
                 [t EXCEPT !.reader = @ \o b,
                           !.idle = IF t.serving = None THEN IdleTicks ELSE @])
    <3>1. PICK b \in Batches :
            ServeBufferedQuery(c,
              [t EXCEPT !.reader = @ \o b,
                        !.idle = IF t.serving = None THEN IdleTicks ELSE @])
      BY <2>2
    <3> DEFINE n == IF t.serving = None THEN IdleTicks ELSE t.idle
               u == [t EXCEPT !.reader = @ \o b, !.idle = n]
    <3> HIDE DEF t
    <3>2. n \in Nat /\ b \in Seq(Queries \cup {Malformed})
      BY <1>1, BatchesTyped, LocalResolverAssumption DEF Session
    <3>3. ServeBufferedQuery(c, u)
      BY <3>1
    <3> HIDE DEF n
    <3>4. /\ u \in Session /\ u.out = t.out /\ u.upstream = t.upstream
          /\ u.serving = t.serving /\ u.question = t.question
      BY <1>1, <3>2, ReadFields
    <3> HIDE DEF u
    <3>5. t.out = <<>>
      BY <1>6 DEF ReadFromClient, t
    <3>6. /\ u.out = <<>>
          /\ u.serving # None <=> u.upstream # "none"
          /\ u.upstream # "none" => u.question = u.serving
      BY <1>1, <3>4, <3>5, Zenon DEF Attended
    <3> QED
      BY <1>2, <3>3, <3>4, <3>6, ServeBufferedQueryKeeps
  <2> QED
    BY <1>6, <2>1, <2>2 DEF ReadFromClient
<1> QED
  BY <1>3, <1>4, <1>5, <1>6

LEMMA CheckDeadlineKeeps ==
  ASSUME Kept, CheckDeadline
  PROVE  Kept'
<1> USE DEF Kept, SessionsKept
<1> DEFINE t == session[turn]
<1>1. turn \in Conns /\ t \in Session /\ Attended(t)
  BY DEF NothingForgotten, CheckDeadline
<1>2. UNCHANGED <<toServe, turn>> /\ phase' = "serve"
  BY DEF CheckDeadline, Drop
<1>3. CASE UNCHANGED <<session, replies>>
  BY <1>2, <1>3 DEF NothingForgotten, OwnAnswer
<1>4. CASE Drop(turn)
  BY <1>1, <1>2, <1>4, Dropped
<1>5. CASE Owed(t) /\ Responds(turn, FailTcpForward(t))
  <2>1. t.serving \in Queries /\ t.question = t.serving /\ t.out = <<>>
    BY <1>1, <1>5 DEF Attended, Owed, Session
  <2> HIDE DEF t
  <2>2. LET u == FailTcpForward(t)
        IN /\ u \in Session /\ u.serving \in Queries /\ u.upstream = "none"
           /\ u.out = <<Say("servfail", u.serving)>>
    BY <1>1, <2>1, FailedFields
  <2> QED
    BY <1>1, <1>2, <1>5, <2>2, Responded
<1> QED
  BY <1>3, <1>4, <1>5 DEF CheckDeadline

\* Datagrams: an answer from an upstream repeats the question of the query it
\* is given to, and every failure is told to its own query.
LEMMA DatagramsKeep ==
  ASSUME Kept, Datagrams
  PROVE  Kept'
<1> USE DEF Kept, SessionsKept
<1>1. /\ UNCHANGED <<session, toServe, turn>>
      /\ phase' \notin {"client", "deadline"}
  BY SMTT(30) DEF Datagrams, HandleUpstreamReply, HandleUdpQuery, NoQueryRead,
                  ExpirePendingUdp, clientVars
<1>2. NothingForgotten'
  BY <1>1 DEF NothingForgotten
<1>3. replies' \in [Queries -> Seq(Reply)] /\ OwnAnswer'
  <2>1. CASE UNCHANGED replies
    BY <2>1 DEF OwnAnswer
  <2>2. ASSUME NEW q \in Queries, NEW by \in {"rules", "upstream", "servfail"},
               Hand(q, Say(by, q))
        PROVE  replies' \in [Queries -> Seq(Reply)] /\ OwnAnswer'
    BY <2>2, SayTyped, Handed
  <2>3. CASE \E f \in Families : HandleUpstreamReply(f)
    <3>1. PICK f \in Families : HandleUpstreamReply(f)
      BY <2>3
    <3>2. CASE \E d \in asked : \E p \in Entry(d) :
                 /\ Matches(d, p)
                 /\ \/ Hand(pending[p], Say("upstream", d.q))
                    \/ Hand(pending[p], Say("servfail", pending[p]))
      <4>1. PICK d \in asked : \E p \in Entry(d) :
                 /\ Matches(d, p)
                 /\ \/ Hand(pending[p], Say("upstream", d.q))
                    \/ Hand(pending[p], Say("servfail", pending[p]))
        BY <3>2
      <4>2. PICK p \in Entry(d) :
                 /\ Matches(d, p)
                 /\ \/ Hand(pending[p], Say("upstream", d.q))
                    \/ Hand(pending[p], Say("servfail", pending[p]))
        BY <4>1
      <4>3. CASE pending[p] \in Queries
        <5>1. Say("upstream", d.q) = Say("upstream", pending[p])
          BY <4>2 DEF Matches, Say
        <5> QED
          BY <2>2, <4>2, <4>3, <5>1
      <4>4. CASE pending[p] \notin Queries
        <5>1. replies' = replies
          BY <4>2, <4>4 DEF Hand
        <5> QED
          BY <2>1, <5>1
      <4> QED
        BY <4>3, <4>4
    <3> QED
      BY <2>1, <3>1, <3>2 DEF HandleUpstreamReply
  <2>4. CASE \E q \in Queries : HandleUdpQuery(q)
    <3>1. PICK q \in Queries : HandleUdpQuery(q)
      BY <2>4
    <3>2. Hand(q, Say("rules", q)) \/ Hand(q, Say("servfail", q)) \/ UNCHANGED replies
      BY <3>1 DEF HandleUdpQuery, ForwardUdp
    <3> QED
      BY <2>1, <2>2, <3>2
  <2>5. CASE ExpirePendingUdp
    <3>1. \A q \in Queries :
            replies'[q] = IF q \in Due THEN Append(replies[q], Say("servfail", q))
                          ELSE replies[q]
      BY <2>5 DEF ExpirePendingUdp
    <3>2. \A q \in Queries : Say("servfail", q) \in Reply /\ Say("servfail", q).to = Question[q]
      BY SayTyped
    <3>3. replies' \in [Queries -> Seq(Reply)]
      BY <2>5, <3>2 DEF ExpirePendingUdp
    <3>4. ASSUME NEW q \in Queries, NEW i \in 1..Len(replies'[q])
          PROVE  replies'[q][i].to = Question[q]
      <4>1. CASE replies'[q] = replies[q]
        BY <3>4, <4>1 DEF OwnAnswer
      <4>2. CASE replies'[q] = Append(replies[q], Say("servfail", q))
        <5> DEFINE r == Say("servfail", q)
        <5> HIDE DEF r
        <5>1. replies[q] \in Seq(Reply) /\ r \in Reply /\ replies'[q] = Append(replies[q], r)
          BY <3>2, <4>2 DEF r
        <5>2. \/ i \in 1..Len(replies[q]) /\ replies'[q][i] = replies[q][i]
              \/ replies'[q][i] = r
          BY <5>1, <3>4, SMT
        <5> QED
          BY <3>2, <5>2 DEF OwnAnswer, r
      <4> QED
        BY <3>1, <4>1, <4>2
    <3> QED
      BY <3>3, <3>4 DEF OwnAnswer
  <2>6. CASE NoQueryRead
    BY <2>1, <2>6 DEF NoQueryRead, clientVars
  <2> QED
    BY <2>3, <2>4, <2>5, <2>6 DEF Datagrams
<1> QED
  BY <1>1, <1>2, <1>3

\* The loop takes a client on, or goes over to the sessions or past them.
LEMMA PassKeeps ==
  ASSUME Kept, NoClient \/ ServedAll \/ (\E c \in Conns : Accept(c))
  PROVE  Kept'
<1> USE DEF Kept, SessionsKept
<1>1. phase' \notin {"client", "deadline"} /\ toServe' \subseteq Conns /\ UNCHANGED replies
  BY DEF NoClient, ServedAll, Accept, clientVars, sessions
<1>2. CASE UNCHANGED session
  BY <1>1, <1>2 DEF NothingForgotten, OwnAnswer
<1>3. ASSUME NEW c \in Conns, Accept(c) PROVE Kept'
  <2>1. PICK s \in {"open", "closed"}, n \in Nat :
          session' = [session EXCEPT ![c] = Fresh(s, n)]
    BY <1>3, LocalResolverAssumption DEF Accept
  <2>2. Fresh(s, n) \in Session /\ Attended(Fresh(s, n))
    BY FreshFields
  <2> QED
    BY <1>1, <2>1, <2>2, Placed DEF OwnAnswer
<1> QED
  BY <1>2, <1>3 DEF NoClient, ServedAll, clientVars

\* The thread inside Start or Stop: the connections it frees are closed ones.
LEMMA OwnerKeeps ==
  ASSUME Kept, Owner
  PROVE  Kept'
<1> USE DEF Kept, SessionsKept
<1>1. UNCHANGED <<replies, toServe, turn>>
  BY DEF Owner, Request, Joined, Bind, Launch, LaunchFails, passVars, clientVars
<1>2. phase' \in {"client", "deadline"} => phase' = phase
  BY DEF Owner, Request, Joined, Bind, Launch, ResetThenLaunch, LaunchFails, passVars
<1>3. CASE UNCHANGED session
  BY <1>1, <1>2, <1>3 DEF NothingForgotten, OwnAnswer
<1>4. CASE FreeState
  <2>1. Fresh("closed", 0) \in Session /\ Attended(Fresh("closed", 0))
    BY FreshFields
  <2>2. /\ session' \in [Conns -> Session]
        /\ \A c \in Conns : session'[c] \in {session[c], Fresh("closed", 0)}
    BY <1>4, <2>1 DEF FreeState
  <2>3. NothingForgotten'
    BY <2>1, <2>2 DEF NothingForgotten
  <2> QED
    BY <1>1, <1>2, <2>2, <2>3 DEF OwnAnswer
<1> QED
  BY <1>3, <1>4 DEF Owner, Request, Joined, Bind, Launch, LaunchFails, clientVars

LEMMA TickKeeps ==
  ASSUME Kept, Tick
  PROVE  Kept'
<1> USE DEF Kept, SessionsKept
<1>1. UNCHANGED <<replies, toServe, turn, phase>>
  BY DEF Tick, passVars
<1>2. ASSUME NEW c \in Conns PROVE session'[c] \in Session /\ Attended(session'[c])
  <2> DEFINE t == session[c]
             n == Counted(t.idle)
  <2>1. t \in Session /\ Attended(t)
    BY DEF NothingForgotten
  <2>2. session'[c] = [t EXCEPT !.idle = n]
    BY DEF Tick
  <2> HIDE DEF t
  <2>3. n \in Nat
    BY <2>1, SMT DEF Session, Counted
  <2> HIDE DEF n
  <2> QED
    BY <2>1, <2>2, <2>3, IdleFields
<1>3. session' \in [Conns -> Session]
  <2>1. session' = [c \in Conns |-> session'[c]]
    BY DEF Tick
  <2> QED
    BY <1>2, <2>1
<1> QED
  BY <1>1, <1>2, <1>3 DEF NothingForgotten, OwnAnswer

LEMMA KeptStep == Kept /\ [Next]_vars => Kept'
<1> SUFFICES ASSUME Kept, [Next]_vars PROVE Kept'
  OBVIOUS
<1>1. CASE LoopEnds \/ SignalStopped \/ Select \/ UNCHANGED vars
  <2>1. UNCHANGED <<session, replies, turn>>
    BY <1>1 DEF LoopEnds, SignalStopped, Select, vars, passVars, clientVars
  <2>2. /\ toServe' \in {toServe, sessions}
        /\ phase' \in {"client", "deadline"} => phase' = phase
    BY <1>1 DEF LoopEnds, SignalStopped, Select, vars, passVars
  <2> QED
    BY <2>1, <2>2 DEF Kept, SessionsKept, NothingForgotten, OwnAnswer, sessions
<1>2. CASE ServeTcp
  <2>1. CASE NoClient \/ ServedAll \/ \E c \in Conns : Accept(c)
    BY <2>1, PassKeeps
  <2>2. CASE \E c \in Conns : ServeUpstream(c)
    BY <2>2, ServeUpstreamKeeps
  <2>3. CASE \E c \in Conns : \/ ServeNothing(c) \/ ServeClosed(c)
                              \/ WriteToClient(c) \/ ReadFromClient(c)
    BY <2>3, ServeClientKeeps
  <2>4. CASE CheckDeadline
    BY <2>4, CheckDeadlineKeeps
  <2> QED
    BY <1>2, <2>1, <2>2, <2>3, <2>4 DEF ServeTcp
<1> QED
  BY <1>1, <1>2, OwnerKeeps, DatagramsKeep, TickKeeps DEF Next, Loop

LEMMA KeptAlways == Spec => []Kept
<1>1. Init => Kept
  <2> SUFFICES ASSUME Init PROVE Kept
    OBVIOUS
  <2>1. Fresh("new", 0) \in Session /\ Attended(Fresh("new", 0))
    BY FreshFields
  <2>2. SessionsKept /\ NothingForgotten
    BY <2>1 DEF Init, SessionsKept, NothingForgotten
  <2>3. OwnAnswer
    BY SMT DEF Init, OwnAnswer
  <2> QED
    BY <2>2, <2>3 DEF Kept
<1> QED
  BY <1>1, KeptStep, PTL DEF Spec

\* No connection is left without a way on: one that owes an answer has it
\* queued or has asked an upstream, and pipelined queries wait behind another
\* query only, whatever the order of reads, answers, timeouts and restarts.
THEOREM NoneForgotten == Spec => []NothingForgotten
<1>1. Kept => NothingForgotten
  BY DEF Kept
<1> QED
  BY <1>1, KeptAlways, PTL

\* Every answer is about the question its client asked, over UDP although
\* transaction ids are reused while answers are under way, and over TCP
\* although a connection keeps the query it last forwarded.
THEOREM OnlyOwnAnswers == Spec => []OwnAnswer
<1>1. Kept => OwnAnswer
  BY DEF Kept
<1> QED
  BY <1>1, KeptAlways, PTL
-----------------------------------------------------------------------------
(***************************************************************************)
(* Induction up to a number, from the well-foundedness of < and without an *)
(* operator for what is to be shown: T is the set of what it holds of.     *)
(***************************************************************************)

LEMMA Least ==
  ASSUME NEW T, T \subseteq Nat, T # {}
  PROVE  \E n \in T : \A k \in T : ~(k < n)
<1>1. \E n \in T : \A k \in T : <<k, n>> \notin OpToRel(<, Nat)
  BY NatLessThanWellFounded, WFMin
<1>2. \A k, n \in Nat : k < n => <<k, n>> \in OpToRel(<, Nat)
  BY DEF OpToRel
<1>3. QED
  BY <1>1, <1>2

LEMMA Induction ==
  ASSUME NEW T, NEW m \in Nat, 0 \in T, \A n \in 1..m : n - 1 \in T => n \in T
  PROVE  \A n \in 0..m : n \in T
<1> DEFINE Bad == {n \in 0..m : n \notin T}
<1> SUFFICES ASSUME Bad # {} PROVE FALSE
  OBVIOUS
<1>1. PICK n \in Bad : \A k \in Bad : ~(k < n)
  <2>1. Bad \subseteq Nat
    OBVIOUS
  <2> HIDE DEF Bad
  <2>2. QED
    BY <2>1, Least
<1>2. n \in 1..m /\ n - 1 \in 0..m /\ n - 1 < n
  BY <1>1
<1>3. QED
  BY <1>1, <1>2

-----------------------------------------------------------------------------
(*****************************************************************************)
(* Sequences that lose members and gain them                                 *)
(*****************************************************************************)

\* A walk along a sequence that erases the members of a set.
Walks(w, s, T, n) ==
  /\ w[0] = <<>>
  /\ \A k \in 1..n : w[k] = IF s[k] \in T THEN w[k - 1] ELSE Append(w[k - 1], s[k])

LEMMA WalkExists ==
  ASSUME NEW S, NEW s \in Seq(S), NEW T
  PROVE  \E w \in [0..Len(s) -> Seq(S)] : Walks(w, s, T, Len(s))
<1> DEFINE B == {n \in 0..Len(s) : \E w \in [0..n -> Seq(S)] : Walks(w, s, T, n)}
<1>1. 0 \in B
  <2>1. /\ [k \in 0..0 |-> <<>>] \in [0..0 -> Seq(S)]
        /\ Walks([k \in 0..0 |-> <<>>], s, T, 0)
    BY DEF Walks
  <2>2. 0 \in 0..Len(s)
    OBVIOUS
  <2>3. QED
    BY <2>1, <2>2, Zenon
<1>2. ASSUME NEW n \in 1..Len(s), n - 1 \in B PROVE n \in B
  <2>1. PICK w \in [0..(n - 1) -> Seq(S)] : Walks(w, s, T, n - 1)
    BY <1>2
  <2> DEFINE v == [k \in 0..n |-> IF k < n THEN w[k]
                                  ELSE IF s[n] \in T THEN w[n - 1] ELSE Append(w[n - 1], s[n])]
  <2>2. n \in 0..Len(s) /\ n - 1 \in 0..(n - 1) /\ s[n] \in S
    OBVIOUS
  <2>3. v \in [0..n -> Seq(S)]
    BY <2>2
  <2>4. Walks(v, s, T, n)
    <3>1. 0 \in 0..(n - 1) /\ v[0] = w[0]
      OBVIOUS
    <3>2. ASSUME NEW k \in 1..n
          PROVE  v[k] = IF s[k] \in T THEN v[k - 1] ELSE Append(v[k - 1], s[k])
      <4>1. k - 1 \in 0..(n - 1) /\ v[k - 1] = w[k - 1]
        OBVIOUS
      <4>2. CASE k = n
        BY <4>1, <4>2
      <4>3. CASE k # n
        <5>1. k \in 1..(n - 1) /\ v[k] = w[k]
          BY <4>3
        <5>2. QED
          BY <2>1, <4>1, <5>1 DEF Walks
      <4>4. QED
        BY <4>2, <4>3
    <3> HIDE DEF v
    <3>3. QED
      BY <2>1, <3>1, <3>2 DEF Walks
  <2> HIDE DEF v
  <2>5. QED
    BY <2>2, <2>3, <2>4
<1> HIDE DEF B
<1>3. Len(s) \in B
  <2>1. \A n \in 1..Len(s) : n - 1 \in B => n \in B
    BY <1>2
  <2>2. Len(s) \in Nat /\ Len(s) \in 0..Len(s)
    OBVIOUS
  <2>3. QED
    BY <1>1, <2>1, <2>2, Induction
<1>4. QED
  BY <1>3 DEF B

LEMMA ErasedWalks ==
  ASSUME NEW S, NEW s \in Seq(S), NEW T
  PROVE  \E w : Walks(w, s, T, Len(s)) /\ Erased(s, T) = w[Len(s)]
<1> DEFINE Goes(w) == w = [n \in 0..Len(s) |-> IF n = 0 THEN <<>>
                             ELSE IF s[n] \in T THEN w[n - 1] ELSE Append(w[n - 1], s[n])]
           w == CHOOSE w : Goes(w)
<1>1. PICK v \in [0..Len(s) -> Seq(S)] : Walks(v, s, T, Len(s))
  BY WalkExists
<1>2. Goes(v)
  <2>1. ASSUME NEW n \in 0..Len(s)
        PROVE  v[n] = IF n = 0 THEN <<>>
                      ELSE IF s[n] \in T THEN v[n - 1] ELSE Append(v[n - 1], s[n])
    <3>1. n = 0 \/ n \in 1..Len(s)
      OBVIOUS
    <3>2. QED
      BY <1>1, <3>1 DEF Walks
  <2>2. QED
    BY <2>1
<1>3. Goes(w)
  BY <1>2
<1>4. Erased(s, T) = w[Len(s)]
  BY DEF Erased
<1> HIDE DEF w
<1>5. Walks(w, s, T, Len(s))
  <2>1. \A n \in 0..Len(s) : w[n] = IF n = 0 THEN <<>>
                      ELSE IF s[n] \in T THEN w[n - 1] ELSE Append(w[n - 1], s[n])
    BY <1>3
  <2>2. 0 \in 0..Len(s) /\ \A n \in 1..Len(s) : n \in 0..Len(s) /\ n # 0
    OBVIOUS
  <2>3. QED
    BY <2>1, <2>2 DEF Walks
<1>6. QED
  BY <1>4, <1>5

LEMMA ErasedKeeps ==
  ASSUME NEW S, NEW s \in Seq(S), NEW T
  PROVE  /\ Erased(s, T) \in Seq(S) /\ ToSet(Erased(s, T)) = ToSet(s) \ T
         /\ IsInjective(s) => IsInjective(Erased(s, T))
<1>1. PICK w : Walks(w, s, T, Len(s)) /\ Erased(s, T) = w[Len(s)]
  BY ErasedWalks
<1> DEFINE Good(n) ==
      /\ w[n] \in Seq(S)
      /\ \A x : (\E i \in 1..Len(w[n]) : w[n][i] = x) <=> x \notin T /\ \E i \in 1..n : s[i] = x
      /\ IsInjective(s) => \A i, j \in 1..Len(w[n]) : w[n][i] = w[n][j] => i = j
           G == {n \in 0..Len(s) : Good(n)}
<1>2. 0 \in G
  <2>1. 0 \in 0..Len(s) /\ w[0] = <<>>
    BY <1>1 DEF Walks
  <2>2. w[0] \in Seq(S) /\ 1..Len(w[0]) = {} /\ 1..0 = {}
    BY <2>1
  <2>3. Good(0)
    BY <2>2
  <2>4. QED
    BY <2>1, <2>3
<1>3. ASSUME NEW n \in 1..Len(s), n - 1 \in G PROVE n \in G
  <2>1. Good(n - 1) /\ n \in 0..Len(s) /\ s[n] \in S
    BY <1>3
  <2>2. CASE s[n] \in T
    <3>1. w[n] = w[n - 1]
      BY <1>1, <2>2 DEF Walks
    <3>2. Good(n)
      BY <2>1, <2>2, <3>1
    <3>3. QED
      BY <2>1, <3>2
  <2>3. CASE s[n] \notin T
    <3>1. w[n] = Append(w[n - 1], s[n])
      BY <1>1, <2>3 DEF Walks
    <3> DEFINE p == w[n - 1]
    <3>2. /\ w[n] \in Seq(S) /\ Len(w[n]) = Len(p) + 1 /\ w[n][Len(p) + 1] = s[n]
          /\ \A i \in 1..Len(p) : w[n][i] = p[i]
          /\ Len(p) \in Nat /\ \A i \in 1..Len(w[n]) : i \in 1..Len(p) \/ i = Len(p) + 1
      BY <2>1, <3>1
    <3>3. \A x : (\E i \in 1..Len(w[n]) : w[n][i] = x) <=> x \notin T /\ \E i \in 1..n : s[i] = x
      <4>1. \A x : (\E i \in 1..Len(w[n]) : w[n][i] = x)
                   <=> x = s[n] \/ \E i \in 1..Len(p) : p[i] = x
        <5>1. ASSUME NEW x PROVE (\E i \in 1..Len(w[n]) : w[n][i] = x)
                                => x = s[n] \/ \E i \in 1..Len(p) : p[i] = x
          BY <3>2
        <5>2. ASSUME NEW i \in 1..Len(p) PROVE i \in 1..Len(w[n])
          BY <3>2
        <5>3. Len(p) + 1 \in 1..Len(w[n])
          BY <3>2
        <5> HIDE DEF p
        <5>4. QED
          BY <3>2, <5>1, <5>2, <5>3
      <4>2. \A x : (\E i \in 1..n : s[i] = x) <=> x = s[n] \/ \E i \in 1..(n - 1) : s[i] = x
        OBVIOUS
      <4>3. QED
        BY <2>1, <2>3, <4>1, <4>2
    <3>4. ASSUME IsInjective(s), NEW i \in 1..Len(w[n]), NEW j \in 1..Len(w[n]), w[n][i] = w[n][j]
          PROVE  i = j
      <4>1. \A k \in 1..Len(p) : p[k] # s[n]
        <5>1. \A k \in 1..(n - 1) : s[k] # s[n]
          BY <3>4 DEF IsInjective
        <5>2. QED
          BY <2>1, <5>1
      <4>2. CASE i \in 1..Len(p) /\ j \in 1..Len(p)
        BY <2>1, <3>2, <3>4, <4>2
      <4>3. CASE i = Len(p) + 1 \/ j = Len(p) + 1
        <5> HIDE DEF p
        <5>1. QED
          BY <3>2, <3>4, <4>1, <4>3
      <4>4. QED
        BY <2>1, <3>2, <4>2, <4>3
    <3>5. QED
      BY <2>1, <3>2, <3>3, <3>4
  <2>4. QED
    BY <2>2, <2>3
<1> HIDE DEF G
<1>4. Len(s) \in G
  <2>1. \A n \in 1..Len(s) : n - 1 \in G => n \in G
    BY <1>3
  <2>2. Len(s) \in Nat /\ Len(s) \in 0..Len(s)
    OBVIOUS
  <2>3. QED
    BY <1>2, <2>1, <2>2, Induction
<1>5. Good(Len(s))
  BY <1>4 DEF G
<1> DEFINE e == Erased(s, T)
<1>6. e \in Seq(S) /\ DOMAIN e = 1..Len(e) /\ DOMAIN s = 1..Len(s)
  BY <1>1, <1>5
<1>7. \A x : x \in ToSet(e) <=> x \in ToSet(s) \ T
  BY <1>1, <1>5, <1>6 DEF ToSet
<1>8. IsInjective(s) => IsInjective(e)
  BY <1>1, <1>5, <1>6 DEF IsInjective
<1>9. QED
  BY <1>6, <1>7, <1>8

LEMMA Removed ==
  ASSUME NEW S, NEW s \in Seq(S), NEW p \in 1..Len(s)
  PROVE  /\ RemoveAt(s, p) \in Seq(S)
         /\ IsInjective(s) => /\ IsInjective(RemoveAt(s, p))
                              /\ ToSet(RemoveAt(s, p)) = ToSet(s) \ {s[p]}
<1> DEFINE r == RemoveAt(s, p)
<1>1. /\ r \in Seq(S) /\ Len(r) = Len(s) - 1
      /\ \A i \in 1..Len(r) : r[i] = IF i < p THEN s[i] ELSE s[i + 1]
  <2> DEFINE a == SubSeq(s, 1, p - 1)
             b == SubSeq(s, p + 1, Len(s))
  <2>1. a \in Seq(S) /\ Len(a) = p - 1 /\ \A i \in 1..(p - 1) : a[i] = s[i]
    OBVIOUS
  <2>2. b \in Seq(S) /\ Len(b) = Len(s) - p /\ \A i \in 1..(Len(s) - p) : b[i] = s[i + p]
    OBVIOUS
  <2>3. r = a \o b
    BY DEF RemoveAt
  <2> HIDE DEF a, b, r
  <2>4. /\ r \in Seq(S) /\ Len(r) = Len(s) - 1
        /\ \A i \in 1..Len(r) : r[i] = IF i <= p - 1 THEN a[i] ELSE b[i - (p - 1)]
    <3>1. r \in Seq(S) /\ Len(r) = Len(a) + Len(b)
      BY <2>1, <2>2, <2>3, ConcatProperties
    <3>2. \A i \in 1..(Len(a) + Len(b)) : r[i] = IF i <= Len(a) THEN a[i] ELSE b[i - Len(a)]
      BY <2>1, <2>2, <2>3, ConcatProperties
    <3>3. QED
      BY <2>1, <2>2, <3>1, <3>2
  <2>5. ASSUME NEW i \in 1..Len(r), i > p - 1 PROVE b[i - (p - 1)] = s[i + 1]
    BY <2>2, <2>4, <2>5
  <2>6. QED
    BY <2>1, <2>4, <2>5
<1> HIDE DEF r
<1>2. ASSUME IsInjective(s) PROVE IsInjective(r)
  BY <1>1, <1>2 DEF IsInjective
<1>3. ASSUME IsInjective(s) PROVE \A x : x \in ToSet(r) <=> x \in ToSet(s) \ {s[p]}
  <2>1. ASSUME NEW i \in 1..Len(r) PROVE r[i] \in ToSet(s) \ {s[p]}
    <3>1. PICK j \in 1..Len(s) : j # p /\ r[i] = s[j]
      BY <1>1
    <3>2. QED
      BY <1>3, <3>1 DEF IsInjective, ToSet
  <2>2. ASSUME NEW j \in 1..Len(s), j # p PROVE \E i \in 1..Len(r) : r[i] = s[j]
    <3>1. CASE j < p
      BY <1>1, <3>1
    <3>2. CASE j > p
      <4>1. j - 1 \in 1..Len(r) /\ r[j - 1] = s[j]
        BY <1>1, <3>2
      <4>2. QED
        BY <4>1
    <3>3. QED
      BY <2>2, <3>1, <3>2
  <2>3. DOMAIN r = 1..Len(r) /\ DOMAIN s = 1..Len(s)
    BY <1>1
  <2>4. QED
    BY <2>1, <2>2, <2>3 DEF ToSet
<1>4. QED
  BY <1>1, <1>2, <1>3 DEF r

LEMMA Added ==
  ASSUME NEW S, NEW s \in Seq(S), NEW e \in S
  PROVE  /\ Append(s, e) \in Seq(S) /\ ToSet(Append(s, e)) = ToSet(s) \cup {e}
         /\ IsInjective(s) /\ e \notin ToSet(s) => IsInjective(Append(s, e))
<1> DEFINE r == Append(s, e)
<1>1. /\ r \in Seq(S) /\ Len(r) = Len(s) + 1 /\ r[Len(s) + 1] = e
      /\ \A i \in 1..Len(s) : r[i] = s[i]
      /\ Len(s) \in Nat /\ DOMAIN r = 1..Len(r) /\ DOMAIN s = 1..Len(s)
  OBVIOUS
<1> HIDE DEF r
<1>2. \A i \in 1..Len(r) : i \in 1..Len(s) \/ i = Len(s) + 1
  BY <1>1
<1>3. \A x : x \in ToSet(r) <=> x \in ToSet(s) \cup {e}
  <2>1. \A i \in 1..Len(r) : r[i] \in ToSet(s) \cup {e}
    BY <1>1, <1>2 DEF ToSet
  <2>2. Len(s) + 1 \in 1..Len(r) /\ \A i \in 1..Len(s) : i \in 1..Len(r)
    BY <1>1
  <2>3. QED
    BY <1>1, <2>1, <2>2 DEF ToSet
<1>4. ASSUME IsInjective(s), e \notin ToSet(s) PROVE IsInjective(r)
  <2>1. \A i \in 1..Len(s) : s[i] # e
    BY <1>1, <1>4 DEF ToSet
  <2>2. QED
    BY <1>1, <1>2, <1>4, <2>1 DEF IsInjective
<1>5. QED
  BY <1>1, <1>3, <1>4 DEF r

-----------------------------------------------------------------------------
(*****************************************************************************)
(* Types                                                                     *)
(*****************************************************************************)

LEMMA AskedStep ==
  ASSUME TypeOK, [Next]_vars
  PROVE  /\ asked' \subseteq Datagram /\ id' \in [Queries -> Ids]
         /\ left' \in [Queries -> Nat] /\ fresh' \in Nat
         /\ sockets' \subseteq Families /\ upstreams' \subseteq Servers
         /\ pending' \in Seq(Queries) /\ torn' \subseteq Queries
<1> USE LocalResolverAssumption DEF TypeOK
<1>t. Counted(fresh) \in Nat /\ \A q \in Queries : Counted(left[q]) \in Nat
  BY DEF Counted
<1>1. CASE Request \/ Bind \/ Launch \/ LoopEnds \/ SignalStopped \/ Select
           \/ NoQueryRead \/ NoClient \/ ServedAll \/ UNCHANGED vars
  BY <1>1 DEF Request, Bind, Launch, LoopEnds, SignalStopped, Select, NoQueryRead, NoClient,
              ServedAll, vars, serverVars, udpVars, clientVars
<1>2. CASE Joined \/ LaunchFails
  <2>1. ToSet(pending) \subseteq Queries
    BY DEF ToSet
  <2>2. FreeState /\ UNCHANGED id
    BY <1>2 DEF Joined, LaunchFails
  <2>3. left' \in [Queries -> Nat] /\ pending' \in Seq(Queries)
    BY <2>2 DEF FreeState
  <2>4. QED
    BY <2>1, <2>2, <2>3 DEF FreeState
<1>3. CASE \E f \in Families : HandleUpstreamReply(f)
  <2>1. UNCHANGED <<serverVars, id, left, asked, torn>>
    BY <1>3 DEF HandleUpstreamReply
  <2>2. pending' = pending \/ \E d \in asked : \E p \in Entry(d) : pending' = RemoveAt(pending, p)
    BY <1>3 DEF HandleUpstreamReply
  <2>3. \A d : Entry(d) \subseteq 1..Len(pending)
    BY DEF Entry
  <2>4. pending' \in Seq(Queries)
    BY <2>2, <2>3, Removed
  <2>5. QED
    BY <2>1, <2>4 DEF serverVars
<1>4. CASE \E q \in Queries : HandleUdpQuery(q)
  <2>1. PICK q \in Queries : HandleUdpQuery(q)
    BY <1>4
  <2>2. UNCHANGED <<sockets, torn>>
    BY <2>1 DEF HandleUdpQuery
  <2>3. CASE UNCHANGED <<upstreams, fresh, udpVars>>
    BY <2>2, <2>3 DEF udpVars
  <2>4. CASE ForwardUdp(q)
    <3>1. upstreams' \subseteq Servers /\ fresh' \in Nat
      BY <2>4 DEF ForwardUdp, RefreshUpstreams
    <3>2. CASE UNCHANGED udpVars
      BY <2>2, <3>1, <3>2 DEF udpVars
    <3>3. CASE \E reached \in ReachedSets, i \in UpstreamIds :
                 /\ pending' = Append(pending, q) /\ id' = [id EXCEPT ![q] = i]
                 /\ left' = [left EXCEPT ![q] = ForwardTicks]
                 /\ asked' = asked \cup [from : reached, id : {i}, q : {q}]
      <4>1. PICK reached \in ReachedSets, i \in UpstreamIds :
                 /\ pending' = Append(pending, q) /\ id' = [id EXCEPT ![q] = i]
                 /\ left' = [left EXCEPT ![q] = ForwardTicks]
                 /\ asked' = asked \cup [from : reached, id : {i}, q : {q}]
        BY <3>3
      <4>2. i \in Ids /\ reached \subseteq Servers
        BY <3>1, <4>1 DEF UpstreamIds, ReachedSets
      <4>3. [from : reached, id : {i}, q : {q}] \subseteq Datagram
        BY <4>2 DEF Datagram
      <4>4. pending' \in Seq(Queries)
        BY <4>1, Added
      <4>5. id' \in [Queries -> Ids] /\ left' \in [Queries -> Nat]
        BY <4>1, <4>2
      <4>6. QED
        BY <2>2, <3>1, <4>1, <4>3, <4>4, <4>5
    <3>4. QED
      BY <2>4, <3>2, <3>3 DEF ForwardUdp
  <2>5. QED
    BY <2>1, <2>3, <2>4 DEF HandleUdpQuery
<1>5. CASE ExpirePendingUdp
  BY <1>5, ErasedKeeps DEF ExpirePendingUdp, serverVars, NotDue
<1>6. CASE ServeTcp
  <2>1. UNCHANGED <<sockets, udpVars, torn>>
    BY <1>6 DEF ServeTcp, Accept, ServeUpstream, ServeNothing, ServeClosed, WriteToClient,
                ReadFromClient, NoClient, CheckDeadline, ServedAll, AtClient, InPass,
                serverVars, udpVars, clientVars
  <2>2. \A c \in Conns : \A t :
          ServeBufferedQuery(c, t) => upstreams' \subseteq Servers /\ fresh' \in Nat
    BY DEF ServeBufferedQuery, Drop, RefreshUpstreams
  <2>3. upstreams' \subseteq Servers /\ fresh' \in Nat
    BY <1>6, <2>2 DEF ServeTcp, Accept, ServeUpstream, ServeNothing, ServeClosed, WriteToClient,
                ReadFromClient, NoClient, CheckDeadline, ServedAll, Drop,
                serverVars, clientVars
  <2>4. QED
    BY <2>1, <2>3 DEF udpVars
<1>7. CASE Tick
  BY <1>7, <1>t DEF Tick
<1>8. QED
  BY <1>1, <1>2, <1>3, <1>4, <1>5, <1>6, <1>7 DEF Next, Owner, Loop, Datagrams, ServeTcp

LEMMA PlacesStep ==
  ASSUME TypeOK, [Next]_vars
  PROVE  /\ owner' \in OwnerStates /\ running' \in BOOLEAN /\ stopped' \in BOOLEAN
         /\ phase' \in Phases /\ turn' \in Conns \cup {None}
         /\ origin' \in [Queries -> Conns \cup {Udp, None}]
<1> USE DEF TypeOK, OwnerStates, Phases, ownerVars, passVars, clientVars
<1>1. CASE Owner
  BY <1>1 DEF Owner, Request, Joined, Bind, Launch, ResetThenLaunch, LaunchFails
<1>2. CASE LoopEnds \/ SignalStopped \/ Select
  BY <1>2 DEF LoopEnds, SignalStopped, Select
<1>3. CASE Datagrams
  BY <1>3 DEF Datagrams, HandleUpstreamReply, HandleUdpQuery, NoQueryRead, ExpirePendingUdp
<1>4. CASE ServeTcp
  <2>1. CASE NoClient \/ ServedAll \/ \E c \in Conns : Accept(c)
    BY <2>1 DEF NoClient, ServedAll, Accept
  <2>2. CASE CheckDeadline \/ \E c \in Conns : ServeUpstream(c)
    BY <2>2 DEF CheckDeadline, ServeUpstream, Drop, InPass
  <2>3. ASSUME NEW c \in Conns, AtClient(c),
               phase' \in {"serve", "deadline"}, origin' \in [Queries -> Conns \cup {Udp, None}]
        PROVE  /\ UNCHANGED ownerVars /\ phase' \in Phases /\ turn' \in Conns \cup {None}
    BY <2>3 DEF AtClient, InPass
  <2>4. ASSUME NEW c \in Conns, ServeNothing(c) \/ ServeClosed(c) \/ WriteToClient(c)
        PROVE  phase' \in {"serve", "deadline"} /\ UNCHANGED origin /\ AtClient(c)
    BY <2>4 DEF ServeNothing, ServeClosed, WriteToClient, ServeBufferedQuery, Drop
  <2>5. ASSUME NEW c \in Conns, ReadFromClient(c)
        PROVE  /\ phase' \in {"serve", "deadline"} /\ AtClient(c)
               /\ origin' \in [Queries -> Conns \cup {Udp, None}]
    BY <2>5 DEF ReadFromClient, ServeBufferedQuery, Drop
  <2>6. QED
    BY <1>4, <2>1, <2>2, <2>3, <2>4, <2>5 DEF ServeTcp
<1>5. CASE Tick \/ UNCHANGED vars
  BY <1>5 DEF Tick, vars
<1>6. QED
  BY <1>1, <1>2, <1>3, <1>4, <1>5 DEF Next, Loop

LEMMA TypeInit == Init => TypeOK
<1> SUFFICES ASSUME Init PROVE TypeOK
  OBVIOUS
<1>1. Fresh("new", 0) \in Session
  BY FreshFields
<1>2. <<>> \in Seq(Queries) /\ <<>> \in Seq(Reply)
  OBVIOUS
<1>3. id \in [Queries -> Ids]
  BY LocalResolverAssumption DEF Init
<1>4. QED
  BY <1>1, <1>2, <1>3 DEF Init, TypeOK, OwnerStates, Phases

LEMMA TypeStep == ASSUME TypeOK, Kept, [Next]_vars PROVE TypeOK'
<1>1. SessionsKept'
  BY KeptStep DEF Kept
<1>2. QED
  BY <1>1, AskedStep, PlacesStep DEF TypeOK, SessionsKept

\* Every variable has its type, however many queries, connections and servers
\* there are and whatever the loop does with them.
THEOREM TypeCorrect == Spec => []TypeOK
<1>1. TypeOK /\ Kept /\ [Next]_vars => TypeOK'
  BY TypeStep
<1>2. QED
  BY <1>1, TypeInit, KeptAlways, PTL DEF Spec

-----------------------------------------------------------------------------
(***************************************************************************)
(* Each query is in one place                                              *)
(***************************************************************************)

\* What an answered query's client was told.
Told(rs) == IF Head(rs).by = "servfail" THEN "failed" ELSE "answered"

\* What has become of query q of a connection in state t.
StatusIn(q, t, told) ==
  IF told[q] # <<>> THEN Told(told[q])
  ELSE IF t.serving = q THEN "waiting"
  ELSE IF t.state = "open" /\ q \in ToSet(t.reader) THEN "new"
  ELSE "dropped"

Sent == [Queries -> Seq(Reply)]

HandedOn(told, q, r) == [told EXCEPT ![q] = Append(@, r)]

\* A query is told its one answer.
LEMMA FirstAnswer ==
  ASSUME NEW told \in Sent, NEW q \in Queries, NEW r \in Reply, told[q] = <<>>,
         NEW after, after = HandedOn(told, q, r)
  PROVE  /\ after \in Sent /\ after[q] = <<r>> /\ after[q] # <<>> /\ Head(after[q]) = r
         /\ Len(after[q]) = 1
         /\ \A p \in Queries \ {q} : after[p] = told[p]
<1>1. after[q] = Append(<<>>, r)
  BY DEF Sent, HandedOn
<1>2. /\ Append(<<>>, r) = <<r>> /\ <<r>> # <<>> /\ Head(<<r>>) = r
      /\ Len(<<r>>) = 1 /\ <<r>> \in Seq(Reply)
  OBVIOUS
<1>3. QED
  BY <1>1, <1>2 DEF Sent, HandedOn

\* The query in service is answered: nothing else of the connection moves.
LEMMA Given ==
  ASSUME NEW c \in Conns, NEW t \in Session, NEW u \in Session, NEW A,
         NEW told \in Sent, NEW r \in Reply, NEW q \in Queries,
         HoldsOwn(c, t, A, told), t.serving = q, told[q] = <<>>,
         u.reader = t.reader, u.serving = q, u.state = t.state, u.out = <<r>>,
         NEW after, after = HandedOn(told, q, r)
  PROVE  /\ HoldsOwn(c, u, A, after)
         /\ \A p \in Queries \ {q} : StatusIn(p, u, after) = StatusIn(p, t, told)
         /\ A[q] = c /\ t.state = "open" /\ StatusIn(q, t, told) = "waiting"
<1>1. /\ after[q] # <<>> /\ \A p \in Queries \ {q} : after[p] = told[p]
  BY FirstAnswer
<1>2. /\ <<r>> # <<>> /\ q # None
      /\ \A p \in Queries : p \in ToSet(t.reader) => p # q
  BY LocalResolverAssumption DEF HoldsOwn
<1>3. HoldsOwn(c, u, A, after)
  BY <1>1, <1>2 DEF HoldsOwn
<1>4. QED
  BY <1>1, <1>3 DEF HoldsOwn, StatusIn

LEMMA QueuedState ==
  ASSUME NEW t \in Session, NEW r \in Reply
  PROVE  QueueResponse(t, r).state = t.state
BY Zenon DEF QueueResponse, Session

LEMMA FailedState ==
  ASSUME NEW t \in Session, t.question \in Queries
  PROVE  LET u == FailTcpForward(t)
         IN u.state = t.state /\ u.reader = t.reader /\ u.serving = t.serving
<1> DEFINE v == [t EXCEPT !.upstream = "none"]
<1>1. v \in Session /\ v.state = t.state /\ v.reader = t.reader /\ v.serving = t.serving
  BY DEF Session
<1>2. Say("servfail", t.question) \in Reply
  BY SayTyped
<1> HIDE DEF v
<1>3. QED
  BY <1>1, <1>2, QueuedFields, QueuedState DEF FailTcpForward, v

\* Of a sequence in which an element is once, the rest does not have it.
LEMMA HeadOnce ==
  ASSUME NEW S, NEW s \in Seq(S), s # <<>>,
         \A i, j \in 1..Len(s) : s[i] = s[j] /\ s[i] # Malformed => i = j
  PROVE  /\ Tail(s) \in Seq(S) /\ Head(s) \in S /\ ToSet(s) = ToSet(Tail(s)) \cup {Head(s)}
         /\ Head(s) # Malformed => Head(s) \notin ToSet(Tail(s))
         /\ \A i, j \in 1..Len(Tail(s)) : Tail(s)[i] = Tail(s)[j] /\ Tail(s)[i] # Malformed => i = j
<1> DEFINE r == Tail(s)
<1>1. /\ r \in Seq(S) /\ Len(r) = Len(s) - 1 /\ Head(s) = s[1] /\ s[1] \in S
      /\ \A i \in 1..Len(r) : r[i] = s[i + 1] /\ i + 1 \in 1..Len(s)
      /\ DOMAIN s = 1..Len(s) /\ DOMAIN r = 1..Len(r) /\ 1 \in 1..Len(s)
      /\ Len(s) \in Nat
  OBVIOUS
<1> HIDE DEF r
<1>2. \A i \in 1..Len(s) : i = 1 \/ (i - 1 \in 1..Len(r) /\ r[i - 1] = s[i])
  <2>1. ASSUME NEW i \in 1..Len(s), i # 1 PROVE i - 1 \in 1..Len(r) /\ (i - 1) + 1 = i
    BY <1>1, <2>1
  <2>2. QED
    BY <1>1, <2>1
<1>3. \A x : x \in ToSet(s) <=> x \in ToSet(r) \cup {Head(s)}
  <2>1. \A i \in 1..Len(s) : s[i] \in ToSet(r) \cup {Head(s)}
    <3>1. ASSUME NEW i \in 1..Len(s), i # 1 PROVE s[i] \in ToSet(r)
      <4>1. i - 1 \in 1..Len(r) /\ r[i - 1] = s[i] /\ DOMAIN r = 1..Len(r)
        BY <1>1, <1>2, <3>1
      <4> QED
        BY <4>1 DEF ToSet
    <3> QED
      BY <1>1, <3>1
  <2>2. \A i \in 1..Len(r) : r[i] \in ToSet(s)
    BY <1>1 DEF ToSet
  <2>3. Head(s) \in ToSet(s)
    BY <1>1 DEF ToSet
  <2>4. /\ \A x : x \in ToSet(s) <=> \E i \in 1..Len(s) : x = s[i]
        /\ \A x : x \in ToSet(r) <=> \E i \in 1..Len(r) : x = r[i]
    BY <1>1 DEF ToSet
  <2>5. QED
    BY <2>1, <2>2, <2>3, <2>4
<1>4. Head(s) # Malformed => Head(s) \notin ToSet(r)
  <2>1. ASSUME NEW i \in 1..Len(r), r[i] = s[1], s[1] # Malformed PROVE FALSE
    <3>1. s[i + 1] = s[1] /\ i + 1 \in 1..Len(s) /\ i + 1 # 1
      BY <1>1, <2>1
    <3>2. QED
      BY <1>1, <2>1, <3>1
  <2>2. QED
    BY <1>1, <2>1 DEF ToSet
<1>5. ASSUME NEW i \in 1..Len(r), NEW j \in 1..Len(r), r[i] = r[j], r[i] # Malformed PROVE i = j
  <2>1. i + 1 = j + 1
    BY <1>1, <1>5
  <2>2. QED
    BY <1>1, <2>1
<1>6. QED
  BY <1>1, <1>3, <1>4, <1>5 DEF r

\* The first query of a reader comes into service.
LEMMA Taken ==
  ASSUME NEW c \in Conns, NEW t \in Session, NEW A, NEW told,
         HoldsOwn(c, t, A, told), t.serving = None, t.out = <<>>,
         t.reader # <<>>, Head(t.reader) # Malformed,
         NEW u \in Session, u.reader = Tail(t.reader), u.serving = Head(t.reader),
         u.state = t.state, u.out = t.out
  PROVE  /\ HoldsOwn(c, u, A, told) /\ u.serving \in Queries /\ told[u.serving] = <<>>
         /\ A[u.serving] = c /\ u.state = "open"
         /\ StatusIn(u.serving, t, told) = "new" /\ StatusIn(u.serving, u, told) = "waiting"
         /\ \A q \in Queries \ {u.serving} : StatusIn(q, u, told) = StatusIn(q, t, told)
<1>1. t.reader \in Seq(Queries \cup {Malformed})
  BY DEF Session
<1>2. /\ Head(t.reader) \in Queries /\ ToSet(t.reader) = ToSet(u.reader) \cup {Head(t.reader)}
      /\ Head(t.reader) \notin ToSet(u.reader)
      /\ \A i, j \in 1..Len(u.reader) :
           u.reader[i] = u.reader[j] /\ u.reader[i] # Malformed => i = j
  <2>1. \A i, j \in 1..Len(t.reader) :
          t.reader[i] = t.reader[j] /\ t.reader[i] # Malformed => i = j
    BY DEF HoldsOwn
  <2>2. QED
    BY <1>1, <2>1, HeadOnce
<1> DEFINE h == Head(t.reader)
<1> HIDE DEF h
<1>3. /\ h \in Queries /\ u.serving = h /\ ToSet(t.reader) = ToSet(u.reader) \cup {h}
      /\ h \notin ToSet(u.reader) /\ u.state = t.state /\ u.out = <<>> /\ t.serving = None
      /\ None \notin Queries
  BY <1>2, LocalResolverAssumption DEF h
<1>4. A[h] = c /\ t.state = "open" /\ told[h] = <<>>
  BY <1>3 DEF HoldsOwn
<1>5. HoldsOwn(c, u, A, told)
  BY <1>2, <1>3, <1>4 DEF HoldsOwn
<1>6. QED
  BY <1>3, <1>4, <1>5 DEF StatusIn

\* c changes from t to u: nothing a client could see, or it is dropped with
\* all it holds, or one query of it comes into service or is answered.
Sees(c, t, u) ==
  \/ /\ replies' = replies /\ u.state = "open"
     /\ \A q \in Queries : origin'[q] = c => StatusIn(q, u, replies') = StatusIn(q, t, replies)
  \/ replies' = replies /\ u = Fresh("closed", 0)
  \/ /\ u.state = "open"
     /\ \E q \in Queries :
          /\ origin'[q] = c /\ replies[q] = <<>>
          /\ \A p \in Queries \ {q} : /\ replies'[p] = replies[p]
                                      /\ StatusIn(p, u, replies') = StatusIn(p, t, replies)
          /\ \/ /\ StatusIn(q, t, replies) = "new" /\ u.serving = q /\ replies' = replies
             \/ /\ StatusIn(q, t, replies) \in {"new", "waiting"}
                /\ \E r \in Reply : replies'[q] = <<r>>

Moves(c, t, u) ==
  /\ session' = [session EXCEPT ![c] = u] /\ u \in Session
  /\ HoldsOwn(c, u, origin', replies') /\ Sees(c, t, u)

\* c, as t, drops.
LEMMA DropMoves ==
  ASSUME NEW c \in Conns, NEW t \in Session, Drop(c)
  PROVE  Moves(c, t, Fresh("closed", 0))
<1> DEFINE u == Fresh("closed", 0)
<1>1. u \in Session /\ u.reader = <<>> /\ u.serving = None
  BY FreshFields DEF Fresh
<1>2. \A q \in Queries : q \notin ToSet(u.reader) /\ u.serving # q
  BY <1>1, LocalResolverAssumption DEF ToSet
<1>3. HoldsOwn(c, u, origin', replies')
  BY <1>1, <1>2 DEF HoldsOwn
<1>4. QED
  BY <1>1, <1>3 DEF Moves, Sees, Drop

\* c, as t, answers the query in service.
LEMMA GivenMoves ==
  ASSUME replies \in Sent, NEW c \in Conns, NEW t \in Session, NEW u \in Session,
         HoldsOwn(c, t, origin', replies), t.serving \in Queries, replies[t.serving] = <<>>,
         u.reader = t.reader, u.serving = t.serving, u.state = t.state,
         NEW r \in Reply, u.out = <<r>>, Responds(c, u)
  PROVE  /\ Moves(c, t, u) /\ u.state = "open" /\ replies'[t.serving] = <<r>>
         /\ \A p \in Queries \ {t.serving} :
              replies'[p] = replies[p] /\ StatusIn(p, u, replies') = StatusIn(p, t, replies)
<1> DEFINE q == t.serving
<1>1. Head(u.out) = r /\ q \in Queries
  OBVIOUS
<1>2. session' = [session EXCEPT ![c] = u] /\ replies' = HandedOn(replies, q, r)
  BY <1>1 DEF Responds, Hand, HandedOn
<1>3. replies'[q] = <<r>> /\ \A p \in Queries \ {q} : replies'[p] = replies[p]
  BY <1>1, <1>2, FirstAnswer
<1>4. /\ HoldsOwn(c, u, origin', replies')
      /\ \A p \in Queries \ {q} : StatusIn(p, u, replies') = StatusIn(p, t, replies)
      /\ origin'[q] = c /\ t.state = "open" /\ StatusIn(q, t, replies) = "waiting"
  BY <1>1, <1>2, Given
<1> HIDE DEF q
<1>5. Sees(c, t, u)
  BY <1>1, <1>3, <1>4 DEF Sees, q
<1>6. QED
  BY <1>2, <1>3, <1>4, <1>5 DEF Moves, q

\* c, as t, is served what it has read.
LEMMA ServeMoves ==
  ASSUME replies \in Sent, NEW c \in Conns, NEW t \in Session, t.state = "open",
         t.out = <<>>, HoldsOwn(c, t, origin', replies), ServeBufferedQuery(c, t)
  PROVE  \E u \in Session : Moves(c, t, u) /\ (phase' # "serve" => u.state = "open")
<1>1. CASE Busy(t) /\ Becomes(c, t)
  BY <1>1 DEF Moves, Sees, Becomes
<1>2. CASE Drop(c)
  BY <1>2, DropMoves, FreshFields DEF Drop
<1>3. CASE ~Busy(t) /\ Head(t.reader) # Malformed /\ phase' = "deadline"
  <2> DEFINE q == Head(t.reader)
             taken == [t EXCEPT !.reader = Tail(@), !.serving = q]
             forward == [taken EXCEPT !.question = q]
  <2>1. t.serving = None /\ t.reader # <<>> /\ t.reader \in Seq(Queries \cup {Malformed})
    BY <1>3 DEF Busy, Session
  <2>2. q \in Queries
    BY <1>3, <2>1, HeadTailProperties
  <2>3. /\ taken \in Session /\ taken.reader = Tail(t.reader) /\ taken.serving = q
        /\ taken.state = t.state /\ taken.out = t.out
    BY <2>1, <2>2, TakenFields DEF Session
  <2>4. /\ forward \in Session /\ forward.reader = Tail(t.reader) /\ forward.serving = q
        /\ forward.state = t.state /\ forward.out = t.out /\ forward.question = q
    BY <2>2, <2>3 DEF Session
  <2> HIDE DEF taken, forward
  <2>5. ASSUME NEW u \in Session, u.reader = Tail(t.reader), u.serving = q,
               u.state = t.state, u.out = t.out
        PROVE  /\ HoldsOwn(c, u, origin', replies) /\ replies[q] = <<>> /\ origin'[q] = c
               /\ u.state = "open" /\ StatusIn(q, t, replies) = "new"
               /\ \A p \in Queries \ {q} : StatusIn(p, u, replies) = StatusIn(p, t, replies)
    BY <1>3, <2>1, <2>5, Taken
  <2>6. ASSUME NEW v \in Session, v.reader = Tail(t.reader), v.serving = q,
               v.state = t.state, v.out = t.out,
               NEW u \in Session, u.reader = v.reader, u.serving = v.serving, u.state = v.state,
               NEW r \in Reply, u.out = <<r>>, Responds(c, u)
        PROVE  Moves(c, t, u) /\ u.state = "open"
    <3>1. /\ HoldsOwn(c, v, origin', replies) /\ replies[q] = <<>> /\ origin'[q] = c
          /\ StatusIn(q, t, replies) = "new"
          /\ \A p \in Queries \ {q} : StatusIn(p, v, replies) = StatusIn(p, t, replies)
      BY <2>5, <2>6
    <3>2. /\ Moves(c, v, u) /\ u.state = "open" /\ replies'[q] = <<r>>
          /\ \A p \in Queries \ {q} :
               replies'[p] = replies[p] /\ StatusIn(p, u, replies') = StatusIn(p, v, replies)
      BY <2>2, <2>6, <3>1, GivenMoves
    <3> HIDE DEF q
    <3>3. Sees(c, t, u)
      BY <2>2, <3>1, <3>2 DEF Sees
    <3>4. QED
      BY <3>2, <3>3 DEF Moves
  <2>7. CASE Responds(c, QueueResponse(taken, Say("rules", q)))
    <3> DEFINE u == QueueResponse(taken, Say("rules", q))
    <3>1. Say("rules", q) \in Reply
      BY <2>2, SayTyped
    <3>2. /\ u \in Session /\ u.reader = taken.reader /\ u.serving = taken.serving
          /\ u.state = taken.state /\ u.out = <<Say("rules", q)>>
      BY <2>3, <3>1, QueuedFields, QueuedState
    <3> HIDE DEF u
    <3>3. QED
      BY <2>3, <2>6, <2>7, <3>1, <3>2 DEF u
  <2>8. CASE Responds(c, FailTcpForward(forward))
    <3> DEFINE u == FailTcpForward(forward)
    <3>1. Say("servfail", q) \in Reply
      BY <2>2, SayTyped
    <3>2. /\ u \in Session /\ u.reader = forward.reader /\ u.serving = forward.serving
          /\ u.state = forward.state /\ u.out = <<Say("servfail", q)>>
      BY <2>2, <2>4, FailedFields, FailedState
    <3> HIDE DEF u
    <3>3. QED
      BY <2>4, <2>6, <2>8, <3>1, <3>2 DEF u
  <2>9. CASE Becomes(c, [forward EXCEPT !.upstream = "connecting", !.idle = ForwardTicks])
    <3> DEFINE u == [forward EXCEPT !.upstream = "connecting", !.idle = ForwardTicks]
    <3>1. /\ u \in Session /\ u.reader = Tail(t.reader) /\ u.serving = q
          /\ u.state = t.state /\ u.out = t.out
      BY <2>4, LocalResolverAssumption DEF Session
    <3> HIDE DEF u, q
    <3>2. /\ HoldsOwn(c, u, origin', replies) /\ replies[q] = <<>> /\ origin'[q] = c
          /\ u.state = "open" /\ StatusIn(q, t, replies) = "new"
          /\ \A p \in Queries \ {q} : StatusIn(p, u, replies) = StatusIn(p, t, replies)
      BY <2>5, <3>1
    <3>3. session' = [session EXCEPT ![c] = u] /\ replies' = replies
      BY <2>9 DEF Becomes, u
    <3>4. Moves(c, t, u)
      BY <2>2, <3>1, <3>2, <3>3 DEF Moves, Sees
    <3>5. QED
      BY <3>1, <3>2, <3>4
  <2>10. QED
    BY <1>3, <2>7, <2>8, <2>9 DEF ServeBufferedQuery, Busy, Drop, taken, forward
<1>4. QED
  BY <1>1, <1>2, <1>3 DEF ServeBufferedQuery

\* What has become of each query, from where it is.
StatusSeen ==
  \A q \in Queries :
    /\ origin[q] = None => StatusOf(q) = "new"
    /\ origin[q] = Udp => StatusOf(q) = IF replies[q] # <<>> THEN Told(replies[q])
                                        ELSE IF q \in ToSet(pending) THEN "waiting" ELSE "dropped"
    /\ \A c \in Conns : origin[q] = c => StatusOf(q) = StatusIn(q, session[c], replies)

LEMMA StatusAt == OnePlace => StatusSeen
<1> SUFFICES ASSUME OnePlace, NEW q \in Queries
             PROVE  /\ origin[q] = None => StatusOf(q) = "new"
                    /\ origin[q] = Udp =>
                         StatusOf(q) = IF replies[q] # <<>> THEN Told(replies[q])
                                       ELSE IF q \in ToSet(pending) THEN "waiting" ELSE "dropped"
                    /\ \A c \in Conns :
                         origin[q] = c => StatusOf(q) = StatusIn(q, session[c], replies)
  BY DEF StatusSeen
<1>1. q \in ToSet(pending) => origin[q] = Udp
  BY DEF OnePlace
<1>2. \A c \in Conns : q \in ToSet(session[c].reader) \/ session[c].serving = q => origin[q] = c
  BY DEF OnePlace, HoldsOwn
<1>3. Udp \notin Conns /\ None \notin Conns /\ None # Udp
  BY LocalResolverAssumption
<1>4. CASE origin[q] = None
  <2>1. replies[q] = <<>> /\ ~Held(q)
    BY <1>1, <1>2, <1>3, <1>4 DEF OnePlace, Held, sessions
  <2>2. QED
    BY <1>3, <1>4, <2>1 DEF StatusOf
<1>5. CASE origin[q] = Udp
  <2>1. ~Buffered(q) /\ (Held(q) <=> q \in ToSet(pending))
    BY <1>2, <1>3, <1>5 DEF Held, Buffered, sessions
  <2>2. QED
    BY <1>3, <1>5, <2>1 DEF StatusOf, Told
<1>6. ASSUME NEW c \in Conns, origin[q] = c
      PROVE  StatusOf(q) = StatusIn(q, session[c], replies)
  <2>1. /\ session[c].serving = q => session[c].state = "open"
    BY DEF OnePlace, HoldsOwn
  <2>2. /\ Buffered(q) <=> session[c].state = "open" /\ q \in ToSet(session[c].reader)
        /\ Held(q) <=> session[c].serving = q
    BY <1>1, <1>2, <1>3, <1>6, <2>1 DEF Held, Buffered, sessions
  <2>3. QED
    BY <1>3, <1>6, <2>2 DEF StatusOf, StatusIn, Told
<1>7. QED
  BY <1>3, <1>4, <1>5, <1>6

LEMMA StatusAtNext == OnePlace' => StatusSeen'
BY StatusAt, PTL

\* Connection c changes, and nothing else: it may take queries in that nobody
\* has seen.
ConnectionMoves(c) ==
  /\ session[c].state = "open" /\ UNCHANGED <<pending, torn>>
  /\ origin' \in [Queries -> Conns \cup {Udp, None}]
  /\ \A q \in Queries : origin'[q] = origin[q] \/ (origin[q] = None /\ origin'[q] = c)
  /\ \E t, u \in Session :
       /\ Moves(c, t, u)
       /\ phase' # "serve" => u.state = "open"
       /\ \A q \in Queries : origin'[q] = c => StatusOf(q) = StatusIn(q, t, replies)

LEMMA ServeUpstreamMoves ==
  ASSUME TypeOK, Kept, OnePlace, ServesOpen, NEW c \in Conns, ServeUpstream(c)
  PROVE  ConnectionMoves(c)
<1> DEFINE t == session[c]
<1>1. /\ t \in Session /\ Attended(t) /\ t.state = "open"
      /\ HoldsOwn(c, t, origin, replies) /\ replies \in Sent
  BY DEF TypeOK, Kept, NothingForgotten, OnePlace, ServesOpen, ServeUpstream, sessions, Sent
<1>2. UNCHANGED <<pending, torn, origin>>
  BY DEF ServeUpstream, InPass, udpVars
<1>3. \A q \in Queries : origin'[q] = c => StatusOf(q) = StatusIn(q, t, replies)
  BY <1>2, StatusAt DEF StatusSeen
<1>4. SUFFICES \E u \in Session : Moves(c, t, u) /\ u.state = "open"
  BY <1>1, <1>2, <1>3 DEF ConnectionMoves, TypeOK
<1>5. ASSUME NEW u \in Session, Becomes(c, u), u.reader = t.reader, u.serving = t.serving,
             u.state = t.state, u.out = t.out
      PROVE  Moves(c, t, u) /\ u.state = "open"
  <2> HIDE DEF t
  <2>1. HoldsOwn(c, u, origin', replies') /\ replies' = replies
    BY <1>1, <1>2, <1>5 DEF HoldsOwn, Becomes
  <2>2. QED
    BY <1>1, <1>5, <2>1 DEF Moves, Sees, StatusIn, Becomes
<1>6. ASSUME t.upstream # "none"
      PROVE  t.serving \in Queries /\ t.question = t.serving /\ replies[t.serving] = <<>>
  BY <1>1, <1>6, LocalResolverAssumption DEF Attended, Session, HoldsOwn
<1>7. ASSUME t.upstream # "none", NEW u \in Session, u.reader = t.reader,
             u.serving = t.serving, u.state = t.state,
             NEW r \in Reply, u.out = <<r>>, Responds(c, u)
      PROVE  Moves(c, t, u) /\ u.state = "open"
  <2> HIDE DEF t
  <2>1. QED
    BY <1>1, <1>2, <1>6, <1>7, GivenMoves
<1>8. CASE Becomes(c, t)
  BY <1>1, <1>5, <1>8
<1>9. CASE t.upstream # "none" /\ Responds(c, FailTcpForward(t))
  <2> DEFINE u == FailTcpForward(t)
  <2>1. /\ u \in Session /\ u.reader = t.reader /\ u.serving = t.serving
        /\ u.state = t.state /\ u.out = <<Say("servfail", t.question)>>
        /\ Say("servfail", t.question) \in Reply
    BY <1>1, <1>6, <1>9, FailedFields, FailedState, SayTyped
  <2> HIDE DEF t, u
  <2>2. QED
    BY <1>7, <1>9, <2>1 DEF u
<1>10. CASE \E next \in {"sending", "waiting"} : Becomes(c, [t EXCEPT !.upstream = next])
  <2>1. PICK next \in {"sending", "waiting"} : Becomes(c, [t EXCEPT !.upstream = next])
    BY <1>10
  <2> DEFINE u == [t EXCEPT !.upstream = next]
  <2>2. /\ u \in Session /\ u.reader = t.reader /\ u.serving = t.serving
        /\ u.state = t.state /\ u.out = t.out
    BY <1>1 DEF Session
  <2> HIDE DEF t, u
  <2>3. QED
    BY <1>5, <2>1, <2>2 DEF u
<1>11. CASE /\ t.upstream = "waiting"
            /\ Responds(c, QueueResponse([t EXCEPT !.upstream = "none"],
                                         Say("upstream", t.question)))
  <2> DEFINE v == [t EXCEPT !.upstream = "none"]
             u == QueueResponse(v, Say("upstream", t.question))
  <2>1. Say("upstream", t.question) \in Reply
    BY <1>6, <1>11, SayTyped
  <2>2. /\ v \in Session /\ v.reader = t.reader /\ v.serving = t.serving /\ v.state = t.state
    BY <1>1 DEF Session
  <2> HIDE DEF v
  <2>3. /\ u \in Session /\ u.reader = t.reader /\ u.serving = t.serving
        /\ u.state = t.state /\ u.out = <<Say("upstream", t.question)>>
    BY <2>1, <2>2, QueuedFields, QueuedState
  <2> HIDE DEF t, u
  <2>4. QED
    BY <1>7, <1>11, <2>1, <2>3 DEF u, v
<1>12. QED
  BY <1>8, <1>9, <1>10, <1>11 DEF ServeUpstream

LEMMA WrittenState ==
  ASSUME NEW t \in Session
  PROVE  Written(t).state = t.state
BY Zenon DEF Written, Session

LEMMA BatchesUnread ==
  ASSUME NEW b \in Batches, NEW q \in Queries, q \in ToSet(b)
  PROVE  origin[q] = None
<1>1. Malformed \notin Queries
  BY LocalResolverAssumption
<1>2. CASE b = <<>>
  BY <1>2 DEF ToSet
<1>3. ASSUME NEW m \in Unread, b = <<m>> PROVE origin[q] = None
  BY <1>1, <1>3 DEF ToSet, Unread
<1>4. ASSUME NEW m \in Unread, NEW n \in Unread, b = <<m, n>> PROVE origin[q] = None
  BY <1>1, <1>4 DEF ToSet, Unread
<1>5. QED
  BY <1>2, <1>3, <1>4 DEF Batches

\* What the client half of a pass finds.
LEMMA AtOpenClient ==
  ASSUME TypeOK, Kept, OnePlace, ServesOpen, NEW c \in Conns, AtClient(c)
  PROVE  /\ session[c] \in Session /\ Attended(session[c]) /\ session[c].state = "open"
         /\ HoldsOwn(c, session[c], origin, replies) /\ replies \in Sent
         /\ UNCHANGED <<pending, torn>>
         /\ \A q \in Queries : origin[q] = c => StatusOf(q) = StatusIn(q, session[c], replies)
<1>1. \A q \in Queries : origin[q] = c => StatusOf(q) = StatusIn(q, session[c], replies)
  BY StatusAt DEF StatusSeen
<1>2. UNCHANGED <<pending, torn>>
  BY DEF AtClient, InPass, udpVars
<1>3. QED
  BY <1>1, <1>2
     DEF TypeOK, Kept, NothingForgotten, OnePlace, ServesOpen, AtClient, sessions, Sent

LEMMA ServeNothingMoves ==
  ASSUME TypeOK, Kept, OnePlace, ServesOpen, NEW c \in Conns, ServeNothing(c) \/ ServeClosed(c)
  PROVE  ConnectionMoves(c)
<1> DEFINE t == session[c]
<1>1. /\ t \in Session /\ Attended(t) /\ t.state = "open"
      /\ HoldsOwn(c, t, origin, replies) /\ replies \in Sent
      /\ UNCHANGED <<pending, torn, origin>>
      /\ \A q \in Queries : origin[q] = c => StatusOf(q) = StatusIn(q, t, replies)
  BY AtOpenClient DEF ServeNothing, ServeClosed, clientVars
<1>2. \E u \in Session : Moves(c, t, u) /\ (phase' # "serve" => u.state = "open")
  <2>1. CASE ServeNothing(c)
    <3>1. session' = [session EXCEPT ![c] = t] /\ replies' = replies
      BY <2>1 DEF ServeNothing, clientVars, TypeOK
    <3> HIDE DEF t
    <3>2. QED
      BY <1>1, <3>1 DEF Moves, Sees
  <2>2. CASE ServeClosed(c)
    <3>1. Moves(c, t, Fresh("closed", 0)) /\ phase' = "serve"
      BY <1>1, <2>2, DropMoves DEF ServeClosed, Drop
    <3>2. QED
      BY <3>1, FreshFields
  <2>3. QED
    BY <2>1, <2>2
<1> HIDE DEF t
<1>3. QED
  BY <1>1, <1>2 DEF ConnectionMoves, TypeOK, t

LEMMA WriteMoves ==
  ASSUME TypeOK, Kept, OnePlace, ServesOpen, NEW c \in Conns, WriteToClient(c)
  PROVE  ConnectionMoves(c)
<1> DEFINE s == session[c]
           t == Written(s)
<1>1. /\ s \in Session /\ Attended(s) /\ s.state = "open"
      /\ HoldsOwn(c, s, origin, replies) /\ replies \in Sent
      /\ UNCHANGED <<pending, torn, origin>>
      /\ \A q \in Queries : origin[q] = c => StatusOf(q) = StatusIn(q, s, replies)
      /\ s.out # <<>> /\ ServeBufferedQuery(c, t)
  BY AtOpenClient DEF WriteToClient
<1> HIDE DEF s
<1>2. /\ t \in Session /\ t.out = <<>> /\ t.serving = None /\ t.reader = s.reader
      /\ t.state = s.state
  BY <1>1, WrittenFields, WrittenState
<1> HIDE DEF t
<1>3. s.serving # None /\ replies[s.serving] # <<>>
  BY <1>1 DEF Attended, HoldsOwn
<1>4. HoldsOwn(c, t, origin', replies)
  BY <1>1, <1>2, LocalResolverAssumption DEF HoldsOwn
<1>5. \A q \in Queries : StatusIn(q, t, replies) = StatusIn(q, s, replies)
  BY <1>2, <1>3, LocalResolverAssumption DEF StatusIn
<1>6. \E u \in Session : Moves(c, t, u) /\ (phase' # "serve" => u.state = "open")
  BY <1>1, <1>2, <1>4, ServeMoves
<1>7. QED
  BY <1>1, <1>2, <1>5, <1>6 DEF ConnectionMoves, TypeOK, s

\* A reader holds what was in it and what has come.
LEMMA Joins ==
  ASSUME NEW S, NEW r \in Seq(S), NEW b \in Seq(S),
         \A i, j \in 1..Len(r) : r[i] = r[j] /\ r[i] # Malformed => i = j,
         IsInjective(b), \A x \in ToSet(r) : x # Malformed => x \notin ToSet(b)
  PROVE  /\ r \o b \in Seq(S) /\ ToSet(r \o b) = ToSet(r) \cup ToSet(b)
         /\ \A i, j \in 1..Len(r \o b) :
              (r \o b)[i] = (r \o b)[j] /\ (r \o b)[i] # Malformed => i = j
<1> DEFINE s == r \o b
<1>1. /\ s \in Seq(S) /\ Len(s) = Len(r) + Len(b) /\ Len(r) \in Nat /\ Len(b) \in Nat
      /\ \A i \in 1..(Len(r) + Len(b)) : s[i] = IF i <= Len(r) THEN r[i] ELSE b[i - Len(r)]
  BY ConcatProperties
<1> HIDE DEF s
<1>2. \A i \in 1..Len(s) : \/ i \in 1..Len(r) /\ s[i] = r[i]
                           \/ i - Len(r) \in 1..Len(b) /\ s[i] = b[i - Len(r)]
  BY <1>1
<1>3. /\ \A i \in 1..Len(r) : i \in 1..Len(s) /\ s[i] = r[i]
      /\ \A i \in 1..Len(b) : i + Len(r) \in 1..Len(s) /\ s[i + Len(r)] = b[i]
  <2>1. ASSUME NEW i \in 1..Len(b)
        PROVE  /\ i + Len(r) \in 1..(Len(r) + Len(b)) /\ ~(i + Len(r) <= Len(r))
               /\ (i + Len(r)) - Len(r) = i
    BY <1>1
  <2>2. QED
    BY <1>1, <2>1
<1>4. /\ \A x : x \in ToSet(s) <=> \E i \in 1..Len(s) : x = s[i]
      /\ \A x : x \in ToSet(r) <=> \E i \in 1..Len(r) : x = r[i]
      /\ \A x : x \in ToSet(b) <=> \E i \in 1..Len(b) : x = b[i]
  <2>1. DOMAIN s = 1..Len(s) /\ DOMAIN r = 1..Len(r) /\ DOMAIN b = 1..Len(b)
    BY <1>1
  <2>2. QED
    BY <2>1 DEF ToSet
<1>5. \A x : x \in ToSet(s) <=> x \in ToSet(r) \cup ToSet(b)
  <2>1. ASSUME NEW x \in ToSet(s) PROVE x \in ToSet(r) \cup ToSet(b)
    <3>1. PICK i \in 1..Len(s) : x = s[i]
      BY <1>4
    <3>2. QED
      BY <1>2, <1>4, <3>1
  <2>2. \A x \in ToSet(r) \cup ToSet(b) : x \in ToSet(s)
    BY <1>3, <1>4
  <2>3. QED
    BY <2>1, <2>2
<1>6. ASSUME NEW i \in 1..Len(s), NEW j \in 1..Len(s), s[i] = s[j], s[i] # Malformed
      PROVE  i = j
  <2>1. CASE i \in 1..Len(r) /\ s[i] = r[i] /\ j \in 1..Len(r) /\ s[j] = r[j]
    BY <1>6, <2>1
  <2>2. CASE /\ i - Len(r) \in 1..Len(b) /\ s[i] = b[i - Len(r)]
             /\ j - Len(r) \in 1..Len(b) /\ s[j] = b[j - Len(r)]
    <3>1. i - Len(r) = j - Len(r)
      <4>1. \A k, l \in 1..Len(b) : b[k] = b[l] => k = l
        BY DEF IsInjective
      <4>2. QED
        BY <1>6, <2>2, <4>1
    <3>2. QED
      BY <1>1, <3>1
  <2>3. ~(s[i] \in ToSet(r) /\ s[i] \in ToSet(b))
    BY <1>6
  <2>4. QED
    BY <1>2, <1>4, <1>6, <2>1, <2>2, <2>3
<1>7. QED
  BY <1>1, <1>5, <1>6 DEF s

LEMMA ReadMoves ==
  ASSUME TypeOK, Kept, OnePlace, ServesOpen, NEW c \in Conns, ReadFromClient(c)
  PROVE  ConnectionMoves(c)
<1> DEFINE s == session[c]
<1>1. /\ s \in Session /\ Attended(s) /\ s.state = "open"
      /\ HoldsOwn(c, s, origin, replies) /\ replies \in Sent
      /\ UNCHANGED <<pending, torn>> /\ s.out = <<>>
      /\ \A q \in Queries : origin[q] = c => StatusOf(q) = StatusIn(q, s, replies)
  BY AtOpenClient DEF ReadFromClient
<1>2. PICK b \in Batches :
        /\ IsInjective(b)
        /\ origin' = [q \in Queries |-> IF q \in ToSet(b) THEN c ELSE origin[q]]
        /\ \/ Drop(c)
           \/ \E n \in Nat : ServeBufferedQuery(c, [s EXCEPT !.reader = @ \o b, !.idle = n])
  <2>1. IdleTicks \in Nat /\ s.idle \in Nat
    BY <1>1, LocalResolverAssumption DEF Session
  <2>2. QED
    BY <2>1 DEF ReadFromClient
<1>3. b \in Seq(Queries \cup {Malformed}) /\ \A q \in Queries : q \in ToSet(b) => origin[q] = None
  BY BatchesTyped, BatchesUnread
<1>4. \A q \in Queries : /\ origin'[q] = IF q \in ToSet(b) THEN c ELSE origin[q]
                         /\ origin'[q] = origin[q] \/ (origin[q] = None /\ origin'[q] = c)
  BY <1>2, <1>3
<1>5. origin' \in [Queries -> Conns \cup {Udp, None}]
  BY <1>2 DEF TypeOK
<1>6. \A q \in Queries : q \in ToSet(b) => replies[q] = <<>> /\ StatusOf(q) = "new"
  BY <1>3, StatusAt DEF StatusSeen, OnePlace
<1>7. ASSUME NEW t \in Session, t.serving = s.serving, t.out = s.out, t.state = s.state,
             t.reader = s.reader \o b
      PROVE  /\ HoldsOwn(c, t, origin', replies)
             /\ \A q \in Queries : origin'[q] = c => StatusOf(q) = StatusIn(q, t, replies)
  <2>1. s.reader \in Seq(Queries \cup {Malformed})
    BY <1>1 DEF Session
  <2>2. \A x \in ToSet(s.reader) : x \in Queries \cup {Malformed}
    BY <2>1 DEF ToSet
  <2>3. \A x \in ToSet(s.reader) : x # Malformed => x \notin ToSet(b)
    BY <1>1, <1>3, <2>2, LocalResolverAssumption DEF HoldsOwn
  <2>4. /\ ToSet(t.reader) = ToSet(s.reader) \cup ToSet(b)
        /\ \A i, j \in 1..Len(t.reader) :
             t.reader[i] = t.reader[j] /\ t.reader[i] # Malformed => i = j
    <3>1. \A i, j \in 1..Len(s.reader) :
            s.reader[i] = s.reader[j] /\ s.reader[i] # Malformed => i = j
      BY <1>1 DEF HoldsOwn
    <3> DEFINE r == s.reader
    <3>2. /\ r \in Seq(Queries \cup {Malformed}) /\ b \in Seq(Queries \cup {Malformed})
          /\ IsInjective(b)
          /\ \A x \in ToSet(r) : x # Malformed => x \notin ToSet(b)
          /\ \A i, j \in 1..Len(r) : r[i] = r[j] /\ r[i] # Malformed => i = j
      BY <1>2, <1>3, <1>7, <2>1, <2>3, <3>1
    <3> DEFINE v == r \o b
    <3>3. t.reader = v
      BY <1>7
    <3> HIDE DEF s, r
    <3>4. /\ ToSet(v) = ToSet(r) \cup ToSet(b)
          /\ \A i, j \in 1..Len(v) : v[i] = v[j] /\ v[i] # Malformed => i = j
      BY ONLY <3>2, Joins
    <3> HIDE DEF v
    <3>5. QED
      BY <3>3, <3>4 DEF r
  <2> HIDE DEF s
  <2>5. HoldsOwn(c, t, origin', replies)
    <3>1. ASSUME NEW q \in Queries, q \in ToSet(t.reader)
          PROVE  /\ origin'[q] = c /\ t.state = "open" /\ replies[q] = <<>> /\ t.serving # q
      <4>1. CASE q \in ToSet(b)
        <5>1. s.serving # q
          BY <1>1, <1>3, <4>1, LocalResolverAssumption DEF HoldsOwn
        <5>2. QED
          BY <1>1, <1>4, <1>6, <1>7, <4>1, <5>1
      <4>2. CASE q \in ToSet(s.reader)
        BY <1>1, <1>4, <1>7, <4>2 DEF HoldsOwn
      <4>3. QED
        BY <2>4, <3>1, <4>1, <4>2
    <3>2. ASSUME NEW q \in Queries, t.serving = q PROVE origin'[q] = c /\ t.state = "open"
      BY <1>1, <1>4, <1>7, <3>2 DEF HoldsOwn
    <3>3. t.serving # None => (replies[t.serving] = <<>> <=> t.out = <<>>)
      BY <1>1, <1>7 DEF HoldsOwn
    <3>4. QED
      BY <2>4, <3>1, <3>2, <3>3 DEF HoldsOwn
  <2>6. ASSUME NEW q \in Queries, origin'[q] = c PROVE StatusOf(q) = StatusIn(q, t, replies)
    <3>1. CASE q \in ToSet(b)
      <4>1. s.serving # q
        BY <1>1, <1>3, <3>1, LocalResolverAssumption DEF HoldsOwn
      <4>2. QED
        BY <1>1, <1>6, <1>7, <2>4, <3>1, <4>1 DEF StatusIn
    <3>2. CASE q \notin ToSet(b)
      BY <1>1, <1>4, <1>7, <2>4, <2>6, <3>2 DEF StatusIn
    <3>3. QED
      BY <3>1, <3>2
  <2>7. QED
    BY <2>5, <2>6
<1>8. ASSUME NEW n \in Nat
      PROVE  LET t == [s EXCEPT !.reader = @ \o b, !.idle = n]
             IN /\ t \in Session /\ t.serving = s.serving /\ t.out = s.out
                /\ t.state = s.state /\ t.reader = s.reader \o b
  BY <1>1, <1>3, ReadFields DEF Session
<1> HIDE DEF s
<1>9. CASE Drop(c)
  <2> DEFINE t == [s EXCEPT !.reader = @ \o b, !.idle = 0]
  <2>1. /\ t \in Session /\ t.serving = s.serving /\ t.out = s.out
        /\ t.state = s.state /\ t.reader = s.reader \o b
    BY <1>8
  <2> HIDE DEF t
  <2>2. Moves(c, t, Fresh("closed", 0)) /\ Fresh("closed", 0) \in Session /\ phase' = "serve"
    BY <1>9, <2>1, DropMoves, FreshFields DEF Drop
  <2>3. QED
    BY <1>1, <1>4, <1>5, <1>7, <2>1, <2>2 DEF ConnectionMoves, s
<1>10. ASSUME NEW n \in Nat, ServeBufferedQuery(c, [s EXCEPT !.reader = @ \o b, !.idle = n])
       PROVE  ConnectionMoves(c)
  <2> DEFINE t == [s EXCEPT !.reader = @ \o b, !.idle = n]
  <2>1. /\ t \in Session /\ t.serving = s.serving /\ t.out = s.out
        /\ t.state = s.state /\ t.reader = s.reader \o b
    BY <1>8
  <2>2. ServeBufferedQuery(c, t)
    BY <1>10
  <2> HIDE DEF t
  <2>3. \E u \in Session : Moves(c, t, u) /\ (phase' # "serve" => u.state = "open")
    BY <1>1, <1>7, <2>1, <2>2, ServeMoves
  <2>4. QED
    BY <1>1, <1>4, <1>5, <1>7, <2>1, <2>3 DEF ConnectionMoves, s
<1>11. QED
  BY <1>2, <1>9, <1>10

LEMMA CheckDeadlineMoves ==
  ASSUME TypeOK, Kept, OnePlace, ServesOpen, CheckDeadline
  PROVE  turn \in Conns /\ ConnectionMoves(turn)
<1> DEFINE c == turn
           t == session[c]
<1>1. /\ c \in Conns /\ t \in Session /\ Attended(t) /\ t.state = "open"
      /\ HoldsOwn(c, t, origin, replies) /\ replies \in Sent
  BY DEF TypeOK, Kept, NothingForgotten, OnePlace, ServesOpen, CheckDeadline, sessions, Sent
<1>2. UNCHANGED <<pending, torn, origin>>
  BY DEF CheckDeadline, InPass, udpVars
<1>3. \A q \in Queries : origin'[q] = c => StatusOf(q) = StatusIn(q, t, replies)
  BY <1>1, <1>2, StatusAt DEF StatusSeen
<1>4. \E u \in Session : Moves(c, t, u) /\ (phase' # "serve" => u.state = "open")
  <2>1. CASE UNCHANGED <<session, replies>> /\ phase' = "serve"
    <3>1. session' = [session EXCEPT ![c] = t] /\ replies' = replies
      BY <2>1 DEF TypeOK
    <3> HIDE DEF t, c
    <3>2. QED
      BY <1>1, <1>2, <2>1, <3>1 DEF Moves, Sees
  <2>2. CASE Drop(c)
    BY <1>1, <2>2, DropMoves, FreshFields DEF Drop
  <2>3. CASE Owed(t) /\ Responds(c, FailTcpForward(t))
    <3> DEFINE u == FailTcpForward(t)
    <3>1. t.serving \in Queries /\ t.question = t.serving /\ replies[t.serving] = <<>>
      BY <1>1, <2>3, LocalResolverAssumption DEF Attended, Session, HoldsOwn, Owed
    <3>2. /\ u \in Session /\ u.reader = t.reader /\ u.serving = t.serving
          /\ u.state = t.state /\ u.out = <<Say("servfail", t.question)>>
          /\ Say("servfail", t.question) \in Reply
      BY <1>1, <3>1, FailedFields, FailedState, SayTyped
    <3>3. HoldsOwn(c, t, origin', replies) /\ Responds(c, u)
      BY <1>1, <1>2, <2>3
    <3> HIDE DEF t, u, c
    <3>4. QED
      BY <1>1, <3>1, <3>2, <3>3, GivenMoves
  <2>4. QED
    BY <2>1, <2>2, <2>3 DEF CheckDeadline
<1> HIDE DEF t
<1>5. QED
  BY <1>1, <1>2, <1>3, <1>4 DEF ConnectionMoves, TypeOK, t

\* A connection holds what it held as long as nobody tells its queries' clients.
LEMMA HoldsKept ==
  ASSUME NEW c \in Conns, NEW t \in Session, NEW u, NEW A, NEW B, NEW told, NEW after,
         HoldsOwn(c, t, A, told),
         u.reader = t.reader, u.serving = t.serving, u.state = t.state, u.out = t.out,
         \A q \in Queries : A[q] = c => B[q] = c /\ after[q] = told[q]
  PROVE  HoldsOwn(c, u, B, after)
<1>1. t.serving \in Queries \cup {None}
  BY DEF Session
<1>2. QED
  BY <1>1 DEF HoldsOwn

LEMMA FreshHolds ==
  ASSUME NEW c, NEW s, NEW n, NEW A, NEW told
  PROVE  HoldsOwn(c, Fresh(s, n), A, told)
<1>1. Fresh(s, n).reader = <<>> /\ Fresh(s, n).serving = None
  BY DEF Fresh
<1>2. ToSet(<<>>) = {} /\ Len(<<>>) = 0
  BY DEF ToSet
<1>3. QED
  BY <1>1, <1>2, LocalResolverAssumption DEF HoldsOwn

\* The connections keep what they hold, and a client that asked by datagram
\* may be told its one answer.
LEMMA DatagramsPlaced ==
  ASSUME TypeOK, OnePlace,
         \A c \in Conns : /\ session'[c].reader = session[c].reader
                          /\ session'[c].serving = session[c].serving
                          /\ session'[c].state = session[c].state
                          /\ session'[c].out = session[c].out,
         torn' = torn,
         \A q \in Queries :
           /\ origin'[q] = origin[q] \/ (origin[q] = None /\ origin'[q] = Udp)
           /\ replies'[q] = replies[q] \/ (origin'[q] = Udp /\ Len(replies'[q]) = 1),
         IsInjective(pending'),
         \A q \in ToSet(pending') : origin'[q] = Udp /\ replies'[q] = <<>> /\ q \notin torn
  PROVE  OnePlace'
<1>1. Udp \notin Conns /\ None \notin Conns /\ None # Udp
  BY LocalResolverAssumption
<1>2. ASSUME NEW c \in Conns PROVE HoldsOwn(c, session'[c], origin', replies')
  <2>1. session[c] \in Session /\ HoldsOwn(c, session[c], origin, replies)
    BY DEF TypeOK, OnePlace
  <2>2. \A q \in Queries : origin[q] = c => origin'[q] = c /\ replies'[q] = replies[q]
    BY <1>1
  <2>3. QED
    BY <2>1, <2>2, HoldsKept
<1>3. ASSUME NEW q \in Queries
      PROVE  /\ origin'[q] = None => replies'[q] = <<>>
             /\ origin'[q] \in Conns => session'[origin'[q]].state # "new"
             /\ q \in torn => origin'[q] = Udp
             /\ Len(replies'[q]) <= 1
  <2>1. /\ origin[q] = None => replies[q] = <<>>
        /\ origin[q] \in Conns => session[origin[q]].state # "new"
        /\ q \in torn => origin[q] = Udp
        /\ Len(replies[q]) <= 1
    BY DEF OnePlace, AnsweredOnce
  <2>2. origin'[q] \in Conns => session'[origin'[q]].state # "new"
    BY <1>1, <2>1
  <2>3. Len(replies'[q]) <= 1
    <3>1. replies'[q] = replies[q] \/ Len(replies'[q]) = 1
      BY <1>1
    <3>2. QED
      <4>1. CASE replies'[q] = replies[q]
        BY <2>1, <4>1, Zenon
      <4>2. CASE Len(replies'[q]) = 1
        BY ONLY <4>2
      <4>3. QED
        BY <3>1, <4>1, <4>2
  <2>4. origin'[q] = None => replies'[q] = <<>>
    BY <1>1, <2>1
  <2>5. q \in torn => origin'[q] = Udp
    BY <1>1, <2>1
  <2>6. QED
    BY <2>2, <2>3, <2>4, <2>5
<1>4. QED
  BY <1>2, <1>3 DEF OnePlace, AnsweredOnce, TypeOK

\* Of a connection that moves, what became of the other clients' queries.
LEMMA MovesOthers ==
  ASSUME TypeOK, OnePlace, NEW c \in Conns, ConnectionMoves(c)
  PROVE  /\ session'[c] \in Session /\ HoldsOwn(c, session'[c], origin', replies')
         /\ session'[c].state \in {"open", "closed"}
         /\ phase' # "serve" => session'[c].state = "open"
         /\ \A d \in Conns \ {c} : session'[d] = session[d]
         /\ \A q \in Queries :
              /\ origin'[q] = origin[q] \/ (origin[q] = None /\ origin'[q] = c)
              /\ \/ replies'[q] = replies[q]
                 \/ origin'[q] = c /\ Len(replies'[q]) = 1
<1>1. PICK t \in Session, u \in Session :
        Moves(c, t, u) /\ (phase' # "serve" => u.state = "open")
  BY DEF ConnectionMoves
<1>2. session' = [session EXCEPT ![c] = u] /\ session'[c] = u
  BY <1>1 DEF Moves, TypeOK
<1>3. \A d \in Conns \ {c} : session'[d] = session[d]
  BY <1>2 DEF TypeOK
<1>4. HoldsOwn(c, u, origin', replies') /\ u.state \in {"open", "closed"}
  BY <1>1 DEF Moves, Sees, Fresh
<1>5. \A q \in Queries :
        \/ replies'[q] = replies[q]
        \/ origin'[q] = c /\ \E r \in Reply : replies'[q] = <<r>>
  BY <1>1 DEF Moves, Sees
<1>6. \A r : Len(<<r>>) = 1
  OBVIOUS
<1>7. QED
  BY <1>1, <1>2, <1>3, <1>4, <1>5, <1>6 DEF ConnectionMoves

LEMMA MovesPlaced ==
  ASSUME TypeOK, OnePlace, NEW c \in Conns, ConnectionMoves(c)
  PROVE  OnePlace'
<1> DEFINE Others == \A q \in Queries :
              /\ origin'[q] = origin[q] \/ (origin[q] = None /\ origin'[q] = c)
              /\ \/ replies'[q] = replies[q]
                 \/ origin'[q] = c /\ Len(replies'[q]) = 1
<1>1. /\ HoldsOwn(c, session'[c], origin', replies') /\ session'[c].state # "new"
      /\ \A d \in Conns \ {c} : session'[d] = session[d]
      /\ Others /\ UNCHANGED <<pending, torn>>
  BY MovesOthers DEF ConnectionMoves
<1>2. Udp \notin Conns /\ None \notin Conns /\ None # Udp
  BY LocalResolverAssumption
<1>3. ASSUME NEW d \in Conns PROVE HoldsOwn(d, session'[d], origin', replies')
  <2>1. CASE d = c
    BY <1>1, <2>1
  <2>2. CASE d # c
    <3>1. session[d] \in Session /\ HoldsOwn(d, session[d], origin, replies)
      BY DEF TypeOK, OnePlace
    <3>2. \A q \in Queries : origin[q] = d => origin'[q] = d /\ replies'[q] = replies[q]
      BY <1>1, <1>2, <2>2
    <3>3. session'[d] = session[d]
      BY <1>1, <2>2
    <3>4. QED
      BY <3>1, <3>2, <3>3, HoldsKept
  <2>3. QED
    BY <2>1, <2>2
<1>4. ASSUME NEW q \in Queries
      PROVE  /\ origin'[q] = None => replies'[q] = <<>>
             /\ origin'[q] \in Conns => session'[origin'[q]].state # "new"
             /\ q \in torn => origin'[q] = Udp
             /\ Len(replies'[q]) <= 1
  <2>1. /\ origin[q] = None => replies[q] = <<>>
        /\ origin[q] \in Conns => session[origin[q]].state # "new"
        /\ q \in torn => origin[q] = Udp
        /\ Len(replies[q]) <= 1
    BY DEF OnePlace, AnsweredOnce
  <2>2. origin'[q] \in Conns => session'[origin'[q]].state # "new"
    BY <1>1, <1>2, <2>1
  <2>3. Len(replies'[q]) <= 1
    <3>1. replies'[q] = replies[q] \/ Len(replies'[q]) = 1
      BY <1>1, <1>2
    <3>2. QED
      <4>1. CASE replies'[q] = replies[q]
        BY <2>1, <4>1, Zenon
      <4>2. CASE Len(replies'[q]) = 1
        BY ONLY <4>2
      <4>3. QED
        BY <3>1, <4>1, <4>2
  <2>4. origin'[q] = None => replies'[q] = <<>>
    BY <1>1, <1>2, <2>1
  <2>5. q \in torn => origin'[q] = Udp
    BY <1>1, <1>2, <2>1
  <2>6. QED
    BY <2>2, <2>3, <2>4, <2>5
<1>5. ToSet(pending) \subseteq Queries
  BY DEF TypeOK, ToSet
<1>6. \A q \in ToSet(pending) : origin'[q] = Udp /\ replies'[q] = <<>> /\ q \notin torn
  BY <1>1, <1>2, <1>5 DEF OnePlace
<1>7. QED
  BY <1>1, <1>3, <1>4, <1>6 DEF OnePlace, AnsweredOnce, TypeOK

\* A client is told by datagram.
LEMMA HandedPlaced ==
  ASSUME TypeOK, OnePlace, NEW q \in Queries, NEW r \in Reply, Hand(q, r), replies[q] = <<>>
  PROVE  /\ replies'[q] = <<r>> /\ Len(replies'[q]) = 1
         /\ \A p \in Queries \ {q} : replies'[p] = replies[p]
<1>1. replies \in Sent /\ replies' = HandedOn(replies, q, r)
  BY DEF TypeOK, Sent, Hand, HandedOn
<1>2. QED
  BY <1>1, FirstAnswer

\* What HandleUpstreamReply does: nothing, or one pending query is answered.
LEMMA ReplyTaken ==
  ASSUME TypeOK, OnePlace, NEW f \in Families, HandleUpstreamReply(f)
  PROVE  /\ UNCHANGED <<session, torn, origin>>
         /\ \/ UNCHANGED <<pending, replies>>
            \/ \E q \in ToSet(pending) : \E by \in {"upstream", "servfail"} :
                 /\ Hand(q, Say(by, q)) /\ Say(by, q) \in Reply
                 /\ IsInjective(pending') /\ ToSet(pending') = ToSet(pending) \ {q}
<1>1. UNCHANGED <<session, torn, origin>>
  BY DEF HandleUpstreamReply
<1>2. CASE UNCHANGED <<pending, replies>>
  BY <1>1, <1>2
<1>3. ASSUME NEW d \in asked, NEW p \in Entry(d), Matches(d, p),
             \/ Hand(pending[p], Say("upstream", d.q))
             \/ Hand(pending[p], Say("servfail", pending[p])),
             pending' = RemoveAt(pending, p)
      PROVE  \E q \in ToSet(pending) : \E by \in {"upstream", "servfail"} :
               /\ Hand(q, Say(by, q)) /\ Say(by, q) \in Reply
               /\ IsInjective(pending') /\ ToSet(pending') = ToSet(pending) \ {q}
  <2>1. p \in 1..Len(pending) /\ pending \in Seq(Queries)
    BY <1>3 DEF Entry, TypeOK
  <2> DEFINE q == pending[p]
  <2>2. q \in ToSet(pending) /\ q \in Queries
    BY <2>1 DEF ToSet
  <2>3. IsInjective(pending') /\ ToSet(pending') = ToSet(pending) \ {q}
    BY <1>3, <2>1, Removed DEF OnePlace
  <2>4. Say("upstream", d.q) = Say("upstream", q)
    BY <1>3 DEF Matches, Say
  <2>5. \A by \in {"upstream", "servfail"} : Say(by, q) \in Reply
    BY <2>2, SayTyped
  <2>6. \E by \in {"upstream", "servfail"} : Hand(q, Say(by, q))
    BY <1>3, <2>4
  <2> HIDE DEF q
  <2>7. QED
    BY <2>2, <2>3, <2>5, <2>6
<1>4. QED
  BY <1>1, <1>2, <1>3 DEF HandleUpstreamReply

\* What HandleUdpQuery does: its query is answered or failed at once, or waits.
LEMMA QueryTaken ==
  ASSUME TypeOK, OnePlace, NEW q \in Queries, HandleUdpQuery(q)
  PROVE  /\ UNCHANGED <<session, torn>> /\ origin[q] = None
         /\ origin' = [origin EXCEPT ![q] = Udp]
         /\ replies[q] = <<>> /\ q \notin ToSet(pending)
         /\ \/ /\ UNCHANGED pending
               /\ \E by \in {"rules", "servfail"} : Hand(q, Say(by, q)) /\ Say(by, q) \in Reply
            \/ /\ UNCHANGED replies
               /\ IsInjective(pending') /\ ToSet(pending') = ToSet(pending) \cup {q}
<1>1. /\ UNCHANGED <<session, torn>> /\ origin[q] = None
      /\ origin' = [origin EXCEPT ![q] = Udp]
  BY DEF HandleUdpQuery
<1>2. replies[q] = <<>> /\ q \notin ToSet(pending)
  BY <1>1, LocalResolverAssumption DEF OnePlace
<1>3. \/ UNCHANGED pending /\ (Hand(q, Say("rules", q)) \/ Hand(q, Say("servfail", q)))
      \/ UNCHANGED replies /\ pending' = Append(pending, q)
  BY DEF HandleUdpQuery, ForwardUdp, udpVars
<1>4. ASSUME pending' = Append(pending, q)
      PROVE  IsInjective(pending') /\ ToSet(pending') = ToSet(pending) \cup {q}
  BY <1>2, <1>4, Added DEF TypeOK, OnePlace
<1>5. QED
  BY <1>1, <1>2, <1>3, <1>4, SayTyped

\* What ExpirePendingUdp does: those whose time is up are failed.
LEMMA ExpiryTaken ==
  ASSUME TypeOK, OnePlace, ExpirePendingUdp
  PROVE  /\ UNCHANGED <<session, torn, origin>> /\ Due \subseteq Queries
         /\ IsInjective(pending') /\ ToSet(pending') = ToSet(pending) \ Due
         /\ \A q \in Due : /\ replies[q] = <<>> /\ q \in ToSet(pending)
                           /\ replies'[q] = <<Say("servfail", q)>> /\ Len(replies'[q]) = 1
                           /\ Say("servfail", q) \in Reply
         /\ \A q \in Queries \ Due : replies'[q] = replies[q]
<1>1. UNCHANGED <<session, torn, origin>>
  BY DEF ExpirePendingUdp
<1>2. ToSet(pending) \subseteq Queries
  BY DEF TypeOK, ToSet
<1>3. /\ IsInjective(pending') /\ ToSet(pending') = ToSet(pending) \ {q \in Queries : left[q] = 0}
  BY ErasedKeeps DEF ExpirePendingUdp, NotDue, TypeOK, OnePlace
<1>4. Due \subseteq Queries /\ ToSet(pending') = ToSet(pending) \ Due
  BY <1>2, <1>3 DEF Due
<1>5. \A q \in Queries : replies'[q] = IF q \in Due
                           THEN Append(replies[q], Say("servfail", q)) ELSE replies[q]
  BY DEF ExpirePendingUdp
<1>6. ASSUME NEW q \in Due
      PROVE  /\ replies[q] = <<>> /\ q \in ToSet(pending) /\ Say("servfail", q) \in Reply
             /\ replies'[q] = <<Say("servfail", q)>> /\ Len(replies'[q]) = 1
  <2>1. q \in ToSet(pending) /\ q \in Queries /\ replies[q] = <<>>
    BY <1>2 DEF Due, OnePlace
  <2>2. \A r : Append(<<>>, r) = <<r>> /\ Len(<<r>>) = 1
    OBVIOUS
  <2>3. QED
    BY <1>5, <1>6, <2>1, <2>2, SayTyped
<1>7. QED
  BY <1>1, <1>3, <1>4, <1>5, <1>6

LEMMA DatagramsStep ==
  ASSUME TypeOK, OnePlace, Datagrams
  PROVE  OnePlace'
<1>0. Udp \notin Conns /\ None \notin Conns /\ None # Udp
  BY LocalResolverAssumption
<1>1. ToSet(pending) \subseteq Queries
  BY DEF TypeOK, ToSet
<1>2. /\ IsInjective(pending)
      /\ \A q \in ToSet(pending) : origin[q] = Udp /\ replies[q] = <<>> /\ q \notin torn
  BY DEF OnePlace
<1>3. ASSUME NEW f \in Families, HandleUpstreamReply(f) PROVE OnePlace'
  <2>1. CASE UNCHANGED <<pending, replies>>
    BY <1>2, <1>3, <2>1, ReplyTaken, DatagramsPlaced
  <2>2. ASSUME NEW q \in ToSet(pending), NEW r \in Reply, Hand(q, r),
               IsInjective(pending'), ToSet(pending') = ToSet(pending) \ {q}
        PROVE  OnePlace'
    <3>1. /\ Len(replies'[q]) = 1 /\ \A p \in Queries \ {q} : replies'[p] = replies[p]
          /\ q \in Queries /\ origin[q] = Udp
      BY <1>1, <1>2, <2>2, HandedPlaced
    <3>2. UNCHANGED <<session, torn, origin>>
      BY <1>3, ReplyTaken
    <3>3. QED
      BY <1>1, <1>2, <2>2, <3>1, <3>2, DatagramsPlaced
  <2>3. QED
    BY <1>3, <2>1, <2>2, ReplyTaken
<1>4. ASSUME NEW q \in Queries, HandleUdpQuery(q) PROVE OnePlace'
  <2>1. /\ UNCHANGED <<session, torn>> /\ origin[q] = None
        /\ \A p \in Queries : origin'[p] = IF p = q THEN Udp ELSE origin[p]
        /\ replies[q] = <<>> /\ q \notin ToSet(pending) /\ q \notin torn
    <3>1. q \notin torn
      BY <1>0, <1>4, QueryTaken DEF OnePlace
    <3>2. QED
      BY <1>4, <3>1, QueryTaken DEF TypeOK
  <2>2. ASSUME UNCHANGED pending, NEW r \in Reply, Hand(q, r) PROVE OnePlace'
    <3>1. /\ Len(replies'[q]) = 1 /\ \A p \in Queries \ {q} : replies'[p] = replies[p]
      BY <2>1, <2>2, HandedPlaced
    <3>2. QED
      BY <1>1, <1>2, <2>1, <2>2, <3>1, DatagramsPlaced
  <2>3. ASSUME UNCHANGED replies, IsInjective(pending'),
               ToSet(pending') = ToSet(pending) \cup {q}
        PROVE  OnePlace'
    BY <1>1, <1>2, <2>1, <2>3, DatagramsPlaced
  <2>4. QED
    BY <1>4, <2>2, <2>3, QueryTaken
<1>5. CASE NoQueryRead
  BY <1>2, <1>5, DatagramsPlaced DEF NoQueryRead, udpVars, clientVars
<1>6. CASE ExpirePendingUdp
  <2>1. /\ UNCHANGED <<session, torn, origin>>
        /\ IsInjective(pending') /\ ToSet(pending') = ToSet(pending) \ Due
        /\ \A q \in Queries : replies'[q] = replies[q]
                              \/ (q \in ToSet(pending) /\ Len(replies'[q]) = 1)
        /\ \A q \in Queries \ Due : replies'[q] = replies[q]
    BY <1>6, ExpiryTaken
  <2>2. QED
    BY <1>1, <1>2, <2>1, DatagramsPlaced
<1>7. QED
  BY <1>3, <1>4, <1>5, <1>6 DEF Datagrams

\* The state is freed: connections close, and datagram queries are torn away.
LEMMA FreeStep ==
  ASSUME TypeOK, OnePlace, FreeState, UNCHANGED <<origin, replies>>
  PROVE  OnePlace'
<1>1. \A c \in Conns : session'[c] \in {session[c], Fresh("closed", 0)}
  BY DEF FreeState, TypeOK
<1>2. Fresh("closed", 0).state = "closed"
  BY DEF Fresh
<1>3. \A c \in Conns : HoldsOwn(c, session'[c], origin', replies')
  BY <1>1, FreshHolds DEF OnePlace
<1>4. pending' = <<>> /\ torn' = torn \cup ToSet(pending)
  BY DEF FreeState
<1>5. IsInjective(<<>>) /\ ToSet(<<>>) = {}
  BY DEF IsInjective, ToSet
<1>6. \A q \in Queries : origin[q] \in Conns => session'[origin[q]].state # "new"
  BY <1>1, <1>2 DEF OnePlace
<1>7. QED
  BY <1>3, <1>4, <1>5, <1>6 DEF OnePlace, AnsweredOnce

LEMMA AcceptStep ==
  ASSUME TypeOK, OnePlace, NEW c \in Conns, Accept(c)
  PROVE  OnePlace'
<1>1. PICK s \in {"open", "closed"}, n \in Nat : session' = [session EXCEPT ![c] = Fresh(s, n)]
  BY LocalResolverAssumption DEF Accept
<1>2. session'[c] = Fresh(s, n) /\ \A d \in Conns \ {c} : session'[d] = session[d]
  BY <1>1 DEF TypeOK
<1>3. Fresh(s, n).state # "new"
  BY DEF Fresh
<1>4. UNCHANGED <<pending, origin, replies, torn>>
  BY DEF Accept, udpVars
<1>5. \A d \in Conns : HoldsOwn(d, session'[d], origin, replies)
  BY <1>2, FreshHolds DEF OnePlace
<1>6. \A q \in Queries : origin[q] \in Conns => session'[origin[q]].state # "new"
  BY <1>2, <1>3 DEF OnePlace
<1>7. QED
  BY <1>4, <1>5, <1>6 DEF OnePlace, AnsweredOnce

\* Every step keeps each query in one place.
LEMMA OnePlaceStep ==
  ASSUME TypeOK, Kept, OnePlace, ServesOpen, [Next]_vars
  PROVE  OnePlace'
<1>1. CASE UNCHANGED <<pending, origin, session, replies, torn>>
  BY <1>1 DEF OnePlace, AnsweredOnce
<1>2. CASE \/ Request \/ Bind \/ Launch \/ LoopEnds \/ SignalStopped \/ Select
           \/ NoClient \/ ServedAll \/ UNCHANGED vars
  BY <1>1, <1>2 DEF Request, Bind, Launch, LoopEnds, SignalStopped, Select, NoClient,
                    ServedAll, vars, udpVars, clientVars
<1>3. CASE Joined \/ LaunchFails
  BY <1>3, FreeStep DEF Joined, LaunchFails
<1>4. CASE Datagrams
  BY <1>4, DatagramsStep
<1>5. CASE \E c \in Conns : Accept(c)
  BY <1>5, AcceptStep
<1>6. CASE \E c \in Conns : ConnectionMoves(c)
  BY <1>6, MovesPlaced
<1>7. CASE Tick
  <2>1. UNCHANGED <<pending, origin, replies, torn>>
    BY <1>7 DEF Tick
  <2>2. \A c \in Conns : session'[c] = [session[c] EXCEPT !.idle = Counted(@)]
    BY <1>7 DEF Tick
  <2>3. ASSUME NEW c \in Conns
        PROVE  /\ session'[c].reader = session[c].reader
               /\ session'[c].serving = session[c].serving
               /\ session'[c].state = session[c].state
               /\ session'[c].out = session[c].out
    <3> DEFINE t == session[c]
    <3>1. t \in Session /\ session'[c] = [t EXCEPT !.idle = Counted(t.idle)]
      BY <2>2 DEF TypeOK
    <3> HIDE DEF t
    <3>2. QED
      BY <3>1, Zenon DEF Session, t
  <2>4. /\ IsInjective(pending)
        /\ \A q \in ToSet(pending) : origin[q] = Udp /\ replies[q] = <<>> /\ q \notin torn
    BY DEF OnePlace
  <2>5. QED
    BY <2>1, <2>3, <2>4, DatagramsPlaced
<1>8. CASE \E c \in Conns : \/ ServeUpstream(c) \/ ServeNothing(c) \/ ServeClosed(c)
                            \/ WriteToClient(c) \/ ReadFromClient(c)
  BY <1>6, <1>8, ServeUpstreamMoves, ServeNothingMoves, WriteMoves, ReadMoves
<1>9. CASE CheckDeadline
  BY <1>6, <1>9, CheckDeadlineMoves
<1>10. QED
  BY <1>2, <1>3, <1>4, <1>5, <1>7, <1>8, <1>9 DEF Next, Owner, Loop, ServeTcp

\* A connection that moved is looked at again in this pass only while it is open.
LEMMA MovesServed ==
  ASSUME TypeOK, OnePlace, ServesOpen, NEW c \in Conns, ConnectionMoves(c),
         phase \in {"serve", "client", "deadline"},
         toServe' = toServe \ {c}, phase' # "serve" => turn' = c
  PROVE  ServesOpen'
<1>1. /\ phase' # "serve" => session'[c].state = "open"
      /\ \A d \in Conns \ {c} : session'[d] = session[d]
  BY MovesOthers
<1>2. toServe \subseteq sessions
  BY DEF ServesOpen
<1>3. toServe' \subseteq sessions'
  BY <1>1, <1>2 DEF sessions
<1>4. phase' # "serve" => turn' \in sessions' \ toServe'
  BY <1>1 DEF sessions
<1>5. QED
  BY <1>3, <1>4 DEF ServesOpen

LEMMA ServesOpenStep ==
  ASSUME TypeOK, Kept, OnePlace, ServesOpen, TakeTurns, [Next]_vars
  PROVE  ServesOpen'
<1> DEFINE Looking == phase \in {"serve", "client", "deadline"}
<1>1. CASE UNCHANGED <<session, phase, toServe, turn>>
  BY <1>1 DEF ServesOpen, sessions
<1>2. CASE ~Looking'
  BY <1>2 DEF ServesOpen
<1>3. CASE Request \/ Bind \/ Launch \/ LoopEnds \/ SignalStopped \/ UNCHANGED vars
  BY <1>1, <1>2, <1>3 DEF Request, Bind, Launch, ResetThenLaunch, LoopEnds, SignalStopped,
                          vars, passVars, clientVars
<1>4. CASE Joined \/ LaunchFails
  BY <1>2, <1>4 DEF Joined, LaunchFails, TakeTurns, passVars
<1>5. CASE Datagrams \/ ServedAll
  BY <1>2, <1>5, SMTT(30) DEF Datagrams, HandleUpstreamReply, HandleUdpQuery, NoQueryRead,
                              ExpirePendingUdp, Families, ServedAll
<1>6. CASE Select \/ NoClient
  BY <1>6 DEF Select, NoClient, clientVars, ServesOpen, sessions
<1>7. ASSUME NEW c \in Conns, Accept(c) PROVE ServesOpen'
  <2>1. /\ phase' = "serve" /\ toServe' = sessions /\ session[c].state = "new"
        /\ \A d \in Conns \ {c} : session'[d] = session[d]
    BY <1>7 DEF Accept, TypeOK
  <2>2. toServe' \subseteq sessions'
    BY <2>1 DEF sessions
  <2>3. QED
    BY <2>1, <2>2 DEF ServesOpen
<1>8. ASSUME NEW c \in Conns, ServeUpstream(c) PROVE ServesOpen'
  <2>1. ConnectionMoves(c)
    BY <1>8, ServeUpstreamMoves
  <2>2. phase = "serve" /\ toServe' = toServe \ {c} /\ turn' = c
    BY <1>8 DEF ServeUpstream
  <2>3. QED
    BY <2>1, <2>2, MovesServed
<1>9. ASSUME NEW c \in Conns,
             ServeNothing(c) \/ ServeClosed(c) \/ WriteToClient(c) \/ ReadFromClient(c)
      PROVE  ServesOpen'
  <2>1. ConnectionMoves(c)
    BY <1>9, ServeNothingMoves, WriteMoves, ReadMoves
  <2>2. phase = "client" /\ turn = c /\ UNCHANGED <<toServe, turn>>
    BY <1>9 DEF ServeNothing, ServeClosed, WriteToClient, ReadFromClient, AtClient
  <2>3. toServe' = toServe \ {c}
    BY <2>2 DEF ServesOpen
  <2>4. QED
    BY <2>1, <2>2, <2>3, MovesServed
<1>10. CASE CheckDeadline
  <2>1. turn \in Conns /\ ConnectionMoves(turn)
    BY <1>10, CheckDeadlineMoves
  <2>2. phase = "deadline" /\ UNCHANGED <<toServe, turn>>
    BY <1>10 DEF CheckDeadline
  <2>3. toServe' = toServe \ {turn}
    BY <2>2 DEF ServesOpen
  <2>4. QED
    BY <2>1, <2>2, <2>3, MovesServed
<1>11. CASE Tick
  <2>1. UNCHANGED <<phase, toServe, turn>>
    BY <1>11 DEF Tick, passVars
  <2>2. ASSUME NEW c \in Conns PROVE session'[c].state = session[c].state
    <3> DEFINE t == session[c]
    <3>1. t \in Session /\ session'[c] = [t EXCEPT !.idle = Counted(t.idle)]
      BY <1>11 DEF TypeOK, Tick
    <3> HIDE DEF t
    <3>2. QED
      BY <3>1, Zenon DEF Session, t
  <2>3. sessions' = sessions
    BY <2>2 DEF sessions
  <2>4. QED
    BY <2>1, <2>3 DEF ServesOpen
<1>12. QED
  BY <1>3, <1>4, <1>5, <1>6, <1>7, <1>8, <1>9, <1>10, <1>11 DEF Next, Owner, Loop, ServeTcp

\* What every step keeps.
ResolverKept == TypeOK /\ TakeTurns /\ Kept /\ OnePlace /\ ServesOpen

LEMMA ResolverKeptAlways == Spec => []ResolverKept
<1>1. Init => OnePlace /\ ServesOpen
  <2> SUFFICES ASSUME Init PROVE OnePlace /\ ServesOpen
    OBVIOUS
  <2>1. IsInjective(<<>>) /\ ToSet(<<>>) = {} /\ Len(<<>>) = 0
    BY DEF IsInjective, ToSet
  <2>2. \A c \in Conns : HoldsOwn(c, session[c], origin, replies)
    BY FreshHolds DEF Init
  <2>3. None \notin Conns /\ None # Udp
    BY LocalResolverAssumption
  <2>4. OnePlace
    BY <2>1, <2>2, <2>3 DEF Init, OnePlace, AnsweredOnce
  <2>5. QED
    BY <2>4 DEF Init, ServesOpen
<1>2. Init => TakeTurns
  BY DEF Init, TakeTurns
<1>3. TypeOK /\ TakeTurns /\ Kept /\ OnePlace /\ ServesOpen /\ [Next]_vars
        => OnePlace' /\ ServesOpen'
  BY OnePlaceStep, ServesOpenStep
<1>4. QED
  BY <1>1, <1>2, <1>3, TypeCorrect, KeptAlways, TakeTurnsStep, PTL DEF Spec, ResolverKept

\* No client is told twice, however late or often the upstreams answer, and
\* whatever is read, timed out or torn down meanwhile.
THEOREM ToldOnce == Spec => []AnsweredOnce
<1>1. ResolverKept => AnsweredOnce
  BY DEF ResolverKept, OnePlace
<1>2. QED
  BY <1>1, ResolverKeptAlways, PTL

\* Every query is in one place, from its client to its one answer: in one
\* reader, in service on one connection, pending once, or done with.
THEOREM InOnePlace == Spec => []OnePlace
<1>1. ResolverKept => OnePlace
  BY DEF ResolverKept
<1>2. QED
  BY <1>1, ResolverKeptAlways, PTL

-----------------------------------------------------------------------------
(*****************************************************************************)
(* What a client of the service can see                                      *)
(*****************************************************************************)

\* What a client of the service can see.
seen == <<[q \in Queries |-> StatusOf(q)], Gone, phase \notin {"none", "ended"}>>
Up == phase \notin {"none", "ended"}

LEMMA ToldStatus ==
  /\ \A rs : Told(rs) \in {"failed", "answered"}
  /\ \A r : Told(<<r>>) = IF r.by = "servfail" THEN "failed" ELSE "answered"
  /\ \A q, t, told : StatusIn(q, t, told) \in {"new", "waiting", "answered", "failed", "dropped"}
<1>1. \A r : Head(<<r>>) = r
  OBVIOUS
<1>2. QED
  BY <1>1 DEF Told, StatusIn

\* A query that stays where it is keeps its status.
LEMMA SeenKept ==
  ASSUME OnePlace, OnePlace', NEW q \in Queries, origin[q] \in Conns \cup {Udp, None},
         origin'[q] = origin[q], replies'[q] = replies[q],
         q \in ToSet(pending') <=> q \in ToSet(pending),
         origin[q] \in Conns =>
           /\ session'[origin[q]].reader = session[origin[q]].reader
           /\ session'[origin[q]].serving = session[origin[q]].serving
           /\ session'[origin[q]].state = session[origin[q]].state
  PROVE  StatusOf(q)' = StatusOf(q)
<1>1. StatusSeen /\ StatusSeen'
  BY StatusAt, StatusAtNext
<1>2. CASE origin[q] = None
  BY <1>1, <1>2 DEF StatusSeen
<1>3. CASE origin[q] = Udp
  BY <1>1, <1>3 DEF StatusSeen
<1>4. CASE origin[q] \in Conns
  <2>1. PICK c \in Conns : origin[q] = c
    BY <1>4
  <2>2. StatusOf(q) = StatusIn(q, session[c], replies)
    BY <1>1, <2>1 DEF StatusSeen
  <2>3. StatusOf(q)' = StatusIn(q, session'[c], replies')
    BY <1>1, <2>1 DEF StatusSeen
  <2>4. StatusIn(q, session'[c], replies') = StatusIn(q, session[c], replies)
    BY <2>1 DEF StatusIn
  <2>5. QED
    BY <2>2, <2>3, <2>4
<1>5. QED
  BY <1>2, <1>3, <1>4

\* One query's status changes, or none.
LEMMA OneSeen ==
  ASSUME NEW q \in Queries, Gone' = Gone, Up, Up',
         \A p \in Queries \ {q} : StatusOf(p)' = StatusOf(p),
         \/ StatusOf(q)' = StatusOf(q)
         \/ /\ StatusOf(q) = "new" /\ q \notin Gone
            /\ StatusOf(q)' \in {"waiting", "answered", "failed"}
         \/ StatusOf(q) = "waiting" /\ StatusOf(q)' \in {"answered", "failed"}
  PROVE  Service!Next \/ UNCHANGED seen
<1> DEFINE st == [p \in Queries |-> StatusOf(p)]
           s == StatusOf(q)'
<1>1. st' = [st EXCEPT ![q] = s]
  BY DEF st
<1>2. st[q] = StatusOf(q)
  OBVIOUS
<1>3. CASE s = StatusOf(q)
  <2>1. \A p \in Queries : StatusOf(p)' = StatusOf(p)
    BY <1>3
  <2>2. QED
    BY <2>1 DEF seen, Up
<1>4. CASE StatusOf(q) = "new" /\ q \notin Gone /\ s = "waiting"
  <2>1. Service!TakeIn(q)
    <3> HIDE DEF s
    <3>1. QED
      BY <1>1, <1>2, <1>4 DEF Service!TakeIn, Up
  <2>2. QED
    BY <2>1 DEF Service!Next
<1>5. CASE StatusOf(q) = "new" /\ q \notin Gone /\ s = "answered"
  <2>1. Service!AnswerAtOnce(q)
    <3> HIDE DEF s
    <3>1. QED
      BY <1>1, <1>2, <1>5 DEF Service!AnswerAtOnce, Up
  <2>2. QED
    BY <2>1 DEF Service!Next
<1>6. CASE StatusOf(q) = "new" /\ s = "failed"
  <2>1. Service!Refuse(q)
    <3> HIDE DEF s
    <3>1. QED
      BY <1>1, <1>2, <1>6 DEF Service!Refuse, Up
  <2>2. QED
    BY <2>1 DEF Service!Next
<1>7. CASE StatusOf(q) = "waiting" /\ s = "answered"
  <2>1. Service!Answer(q)
    <3> HIDE DEF s
    <3>1. QED
      BY <1>1, <1>2, <1>7 DEF Service!Answer, Up
  <2>2. QED
    BY <2>1 DEF Service!Next
<1>8. CASE StatusOf(q) = "waiting" /\ s = "failed"
  <2>1. st' = [p \in Queries |-> IF p \in {q} THEN "failed" ELSE st[p]]
    <3>1. \A p \in Queries : StatusOf(p)' = IF p \in {q} THEN "failed" ELSE st[p]
      BY <1>8
    <3>2. QED
      BY <3>1
  <2>2. \A p \in {q} : st[p] = "waiting"
    BY <1>8
  <2>3. Service!Fail({q})
    BY <2>1, <2>2 DEF Service!Fail, Up
  <2>4. {q} \in SUBSET Queries
    OBVIOUS
  <2>5. QED
    BY <2>3, <2>4 DEF Service!Next
<1>9. QED
  BY <1>3, <1>4, <1>5, <1>6, <1>7, <1>8

\* Clients leave, with what they were waiting for.
LEMMA LeaveSeen ==
  ASSUME NEW G \in SUBSET Queries, Gone' = Gone \cup G, Up' <=> Up,
         \A q \in Queries : StatusOf(q)' \in {"new", "waiting", "answered", "failed", "dropped"},
         \A q \in Queries \ G : StatusOf(q)' = StatusOf(q),
         \A q \in G : \/ StatusOf(q)' = StatusOf(q) /\ StatusOf(q) # "waiting"
                      \/ StatusOf(q) \in {"new", "waiting"} /\ StatusOf(q)' = "dropped"
  PROVE  Service!Next \/ UNCHANGED seen
<1> DEFINE st == [p \in Queries |-> StatusOf(p)]
<1>1. CASE G = {}
  <2>1. \A p \in Queries : StatusOf(p)' = StatusOf(p)
    BY <1>1
  <2>2. QED
    BY <1>1, <2>1 DEF seen, Up
<1>2. CASE G # {}
  <2>1. st' \in [Queries -> Service!Status]
    BY DEF Service!Status
  <2>2. ASSUME NEW q \in Queries
        PROVE  \/ st'[q] = st[q] /\ ~(q \in G /\ st[q] = "waiting")
               \/ q \in G /\ st[q] \in {"new", "waiting"} /\ st'[q] = "dropped"
    <3>1. st'[q] = StatusOf(q)' /\ st[q] = StatusOf(q)
      OBVIOUS
    <3>2. QED
      BY <3>1
  <2>3. Service!Leave(G)
    BY <1>2, <2>1, <2>2 DEF Service!Leave, Up
  <2>4. QED
    BY <2>3 DEF Service!Next
<1>3. QED
  BY <1>1, <1>2

\* A connection's move, seen from outside.
LEMMA MovesSeen ==
  ASSUME TypeOK, OnePlace, OnePlace', NEW c \in Conns, ConnectionMoves(c), Up, Up'
  PROVE  Service!Next \/ UNCHANGED seen
<1>0. Udp \notin Conns /\ None \notin Conns /\ None # Udp
  BY LocalResolverAssumption
<1>1. PICK t \in Session, u \in Session :
        /\ Moves(c, t, u)
        /\ \A q \in Queries : origin'[q] = c => StatusOf(q) = StatusIn(q, t, replies)
  BY DEF ConnectionMoves
<1>2. /\ session[c].state = "open" /\ UNCHANGED <<pending, torn>>
      /\ \A q \in Queries : origin'[q] = origin[q] \/ (origin[q] = None /\ origin'[q] = c)
  BY DEF ConnectionMoves
<1>3. session'[c] = u /\ \A d \in Conns \ {c} : session'[d] = session[d]
  BY <1>1 DEF Moves, TypeOK
<1>4. \A q \in Queries : origin'[q] = c => StatusOf(q)' = StatusIn(q, u, replies')
  BY <1>3, StatusAtNext DEF StatusSeen
<1>5. Sees(c, t, u)
  BY <1>1 DEF Moves
<1>6. ASSUME NEW q \in Queries, origin'[q] # c PROVE StatusOf(q)' = StatusOf(q)
  <2>1. origin'[q] = origin[q] /\ origin[q] # c /\ origin[q] \in Conns \cup {Udp, None}
    BY <1>2, <1>6 DEF TypeOK
  <2>2. replies'[q] = replies[q]
    BY <1>6, MovesOthers
  <2>3. origin[q] \in Conns => session'[origin[q]] = session[origin[q]]
    BY <1>3, <2>1
  <2>4. QED
    BY <1>2, <2>1, <2>2, <2>3, SeenKept
<1>7. ASSUME u.state = "open" PROVE Gone' = Gone
  <2>1. ASSUME NEW q \in Queries
        PROVE  (origin'[q] \in Conns /\ session'[origin'[q]].state = "closed")
                 <=> (origin[q] \in Conns /\ session[origin[q]].state = "closed")
    <3>1. CASE origin'[q] = c
      BY <1>0, <1>2, <1>3, <1>7, <3>1
    <3>2. CASE origin'[q] # c
      BY <1>2, <1>3, <3>2
    <3>3. QED
      BY <3>1, <3>2
  <2>2. QED
    BY <1>2, <2>1 DEF Gone
<1>8. ASSUME NEW q \in Queries, origin'[q] = c PROVE q \notin Gone
  <2>1. q \notin torn
    BY <1>0, <1>2, <1>8 DEF OnePlace
  <2>2. QED
    BY <1>0, <1>2, <1>8, <2>1 DEF Gone
<1>9. CASE /\ replies' = replies /\ u.state = "open"
           /\ \A q \in Queries :
                origin'[q] = c => StatusIn(q, u, replies') = StatusIn(q, t, replies)
  <2>1. \A q \in Queries : StatusOf(q)' = StatusOf(q)
    BY <1>1, <1>4, <1>6, <1>9
  <2>2. QED
    BY <1>7, <1>9, <2>1 DEF seen, Up
<1>10. CASE replies' = replies /\ u = Fresh("closed", 0)
  <2> DEFINE G == {q \in Queries : origin'[q] = c}
  <2>1. u.state = "closed" /\ u.serving = None
    BY <1>10 DEF Fresh
  <2>2. ASSUME NEW q \in Queries
        PROVE  (origin'[q] \in Conns /\ session'[origin'[q]].state = "closed")
                 <=> ((origin[q] \in Conns /\ session[origin[q]].state = "closed") \/ q \in G)
    <3>1. CASE origin'[q] = c
      BY <1>3, <2>1, <3>1
    <3>2. CASE origin'[q] # c
      BY <1>2, <1>3, <3>2
    <3>3. QED
      BY <3>1, <3>2
  <2>3. Gone' = Gone \cup G
    BY <1>2, <2>2 DEF Gone
  <2>4. ASSUME NEW q \in G
        PROVE  \/ StatusOf(q)' = StatusOf(q) /\ StatusOf(q) # "waiting"
               \/ StatusOf(q) \in {"new", "waiting"} /\ StatusOf(q)' = "dropped"
    <3>1. StatusOf(q) = StatusIn(q, t, replies) /\ StatusOf(q)' = StatusIn(q, u, replies)
      BY <1>1, <1>4, <1>10
    <3>2. replies[q] # <<>> => StatusOf(q)' = StatusOf(q) /\ StatusOf(q) # "waiting"
      BY <3>1, ToldStatus DEF StatusIn
    <3>3. replies[q] = <<>> => /\ StatusOf(q)' = "dropped"
                               /\ StatusOf(q) \in {"new", "waiting", "dropped"}
      BY <2>1, <3>1, LocalResolverAssumption DEF StatusIn
    <3>4. QED
      BY <3>2, <3>3
  <2>5. ASSUME NEW q \in Queries
        PROVE  StatusOf(q)' \in {"new", "waiting", "answered", "failed", "dropped"}
    BY DEF StatusOf
  <2>6. \A q \in Queries \ G : StatusOf(q)' = StatusOf(q)
    BY <1>6
  <2>7. QED
    <3> HIDE DEF G
    <3>1. G \in SUBSET Queries
      BY DEF G
    <3>2. QED
      BY <2>3, <2>4, <2>5, <2>6, <3>1, LeaveSeen
<1>11. ASSUME u.state = "open", NEW q \in Queries, origin'[q] = c, replies[q] = <<>>,
              \A p \in Queries \ {q} : /\ replies'[p] = replies[p]
                                       /\ StatusIn(p, u, replies') = StatusIn(p, t, replies),
              \/ /\ StatusIn(q, t, replies) = "new" /\ u.serving = q /\ replies' = replies
              \/ /\ StatusIn(q, t, replies) \in {"new", "waiting"}
                 /\ \E r \in Reply : replies'[q] = <<r>>
       PROVE  Service!Next \/ UNCHANGED seen
  <2>1. \A p \in Queries \ {q} : StatusOf(p)' = StatusOf(p)
    BY <1>1, <1>4, <1>6, <1>11
  <2>2. StatusOf(q) = StatusIn(q, t, replies) /\ StatusOf(q)' = StatusIn(q, u, replies')
    BY <1>1, <1>4, <1>11
  <2>3. \/ StatusOf(q) = "new" /\ StatusOf(q)' = "waiting"
        \/ StatusOf(q) \in {"new", "waiting"} /\ StatusOf(q)' \in {"answered", "failed"}
    <3>1. CASE StatusIn(q, t, replies) = "new" /\ u.serving = q /\ replies' = replies
      <4>1. StatusIn(q, u, replies') = "waiting"
        BY <1>11, <3>1 DEF StatusIn
      <4>2. QED
        BY <2>2, <3>1, <4>1
    <3>2. ASSUME NEW r \in Reply, replies'[q] = <<r>>,
                 StatusIn(q, t, replies) \in {"new", "waiting"}
          PROVE  StatusOf(q) \in {"new", "waiting"} /\ StatusOf(q)' \in {"answered", "failed"}
      <4>1. <<r>> # <<>>
        OBVIOUS
      <4>2. StatusIn(q, u, replies') \in {"answered", "failed"}
        BY <3>2, <4>1, ToldStatus DEF StatusIn
      <4>3. QED
        BY <2>2, <3>2, <4>2
    <3>3. QED
      BY <1>11, <3>1, <3>2
  <2>4. q \notin Gone /\ Gone' = Gone
    BY <1>7, <1>8, <1>11
  <2>5. QED
    BY <2>1, <2>3, <2>4, OneSeen
<1>12. QED
  BY <1>5, <1>9, <1>10, <1>11 DEF Sees

\* Datagrams, seen from outside.
LEMMA DatagramsSeen ==
  ASSUME TypeOK, OnePlace, OnePlace', Datagrams
  PROVE  Service!Next \/ UNCHANGED seen
<1>0. Udp \notin Conns /\ None \notin Conns /\ None # Udp
  BY LocalResolverAssumption
<1>1. Up /\ Up' /\ ToSet(pending) \subseteq Queries
  BY SMTT(30) DEF Datagrams, HandleUpstreamReply, HandleUdpQuery, NoQueryRead, ExpirePendingUdp,
                  Families, Up, TypeOK, ToSet
<1>2. UNCHANGED <<session, torn>>
  BY DEF Datagrams, HandleUpstreamReply, HandleUdpQuery, NoQueryRead, ExpirePendingUdp, clientVars
<1>3. \A q \in Queries : origin[q] \in Conns \cup {Udp, None}
  BY DEF TypeOK
<1>4. ASSUME NEW q \in Queries, origin'[q] = origin[q], replies'[q] = replies[q],
             q \in ToSet(pending') <=> q \in ToSet(pending)
      PROVE  StatusOf(q)' = StatusOf(q)
  BY <1>2, <1>3, <1>4, SeenKept
<1>5. \A q \in ToSet(pending) : StatusOf(q) = "waiting"
  BY <1>1, StatusAt DEF StatusSeen, OnePlace
<1>6. \A q \in Queries : origin'[q] = Udp =>
        StatusOf(q)' = IF replies'[q] # <<>> THEN Told(replies'[q])
                       ELSE IF q \in ToSet(pending') THEN "waiting" ELSE "dropped"
  BY StatusAtNext DEF StatusSeen
<1>7. \A by, q : Say(by, q).by = by /\ <<Say(by, q)>> # <<>>
  BY DEF Say
<1>8. ASSUME NEW f \in Families, HandleUpstreamReply(f) PROVE Service!Next \/ UNCHANGED seen
  <2>1. UNCHANGED origin /\ Gone' = Gone
    BY <1>2, <1>8, ReplyTaken DEF Gone
  <2>2. CASE UNCHANGED <<pending, replies>>
    <3>1. \A q \in Queries : StatusOf(q)' = StatusOf(q)
      BY <1>4, <2>1, <2>2
    <3>2. QED
      BY <1>1, <2>1, <3>1 DEF seen, Up
  <2>3. ASSUME NEW q \in ToSet(pending), NEW by \in {"upstream", "servfail"},
               Hand(q, Say(by, q)), Say(by, q) \in Reply, ToSet(pending') = ToSet(pending) \ {q}
        PROVE  Service!Next \/ UNCHANGED seen
    <3>1. q \in Queries /\ replies[q] = <<>> /\ origin[q] = Udp
      BY <1>1, <2>3 DEF OnePlace
    <3>2. replies'[q] = <<Say(by, q)>> /\ \A p \in Queries \ {q} : replies'[p] = replies[p]
      BY <2>3, <3>1, HandedPlaced
    <3>3. \A p \in Queries \ {q} : StatusOf(p)' = StatusOf(p)
      BY <1>4, <2>1, <2>3, <3>2
    <3>4. StatusOf(q) = "waiting" /\ StatusOf(q)' \in {"answered", "failed"}
      BY <1>5, <1>6, <1>7, <2>1, <3>1, <3>2, ToldStatus
    <3>5. QED
      BY <1>1, <2>1, <3>1, <3>3, <3>4, OneSeen
  <2>4. QED
    BY <1>8, <2>2, <2>3, ReplyTaken
<1>9. ASSUME NEW q \in Queries, HandleUdpQuery(q) PROVE Service!Next \/ UNCHANGED seen
  <2>1. /\ origin[q] = None /\ \A p \in Queries : origin'[p] = IF p = q THEN Udp ELSE origin[p]
        /\ replies[q] = <<>> /\ q \notin ToSet(pending)
    BY <1>9, QueryTaken DEF TypeOK
  <2>2. Gone' = Gone /\ q \notin Gone
    <3>1. \A p \in Queries : (origin'[p] \in Conns /\ session'[origin'[p]].state = "closed")
                               <=> (origin[p] \in Conns /\ session[origin[p]].state = "closed")
      BY <1>0, <1>2, <2>1
    <3>2. q \notin torn
      BY <1>0, <2>1 DEF OnePlace
    <3>3. QED
      BY <1>0, <1>2, <2>1, <3>1, <3>2 DEF Gone
  <2>3. StatusOf(q) = "new"
    BY <2>1, StatusAt DEF StatusSeen
  <2>4. ASSUME UNCHANGED pending, NEW by \in {"rules", "servfail"},
               Hand(q, Say(by, q)), Say(by, q) \in Reply
        PROVE  Service!Next \/ UNCHANGED seen
    <3>1. replies'[q] = <<Say(by, q)>> /\ \A p \in Queries \ {q} : replies'[p] = replies[p]
      BY <2>1, <2>4, HandedPlaced
    <3>2. \A p \in Queries \ {q} : StatusOf(p)' = StatusOf(p)
      BY <1>4, <2>1, <2>4, <3>1
    <3>3. StatusOf(q)' \in {"answered", "failed"}
      BY <1>6, <1>7, <2>1, <3>1, ToldStatus
    <3>4. QED
      BY <1>1, <2>2, <2>3, <3>2, <3>3, OneSeen
  <2>5. ASSUME UNCHANGED replies, ToSet(pending') = ToSet(pending) \cup {q}
        PROVE  Service!Next \/ UNCHANGED seen
    <3>1. \A p \in Queries \ {q} : StatusOf(p)' = StatusOf(p)
      BY <1>4, <2>1, <2>5
    <3>2. StatusOf(q)' = "waiting"
      BY <1>6, <2>1, <2>5
    <3>3. QED
      BY <1>1, <2>2, <2>3, <3>1, <3>2, OneSeen
  <2>6. QED
    BY <1>9, <2>4, <2>5, QueryTaken
<1>10. CASE NoQueryRead
  <2>1. UNCHANGED <<pending, origin, replies>>
    BY <1>10 DEF NoQueryRead, udpVars, clientVars
  <2>2. (\A q \in Queries : StatusOf(q)' = StatusOf(q)) /\ Gone' = Gone
    BY <1>2, <1>4, <2>1 DEF Gone
  <2>3. QED
    BY <1>1, <2>2 DEF seen, Up
<1>11. CASE ExpirePendingUdp
  <2> DEFINE st == [q \in Queries |-> StatusOf(q)]
  <2>1. /\ UNCHANGED origin /\ Gone' = Gone /\ Due \subseteq Queries
        /\ ToSet(pending') = ToSet(pending) \ Due
    BY <1>2, <1>11, ExpiryTaken DEF Gone
  <2>2. \A q \in Queries \ Due : StatusOf(q)' = StatusOf(q)
    <3>1. \A q \in Queries \ Due : replies'[q] = replies[q]
      BY <1>11, ExpiryTaken
    <3>2. QED
      BY <1>4, <2>1, <3>1
  <2>3. ASSUME NEW q \in Due PROVE StatusOf(q) = "waiting" /\ StatusOf(q)' = "failed"
    <3>1. q \in Queries /\ q \in ToSet(pending) /\ replies'[q] = <<Say("servfail", q)>>
      BY <1>11, <2>1, ExpiryTaken
    <3>2. origin'[q] = Udp
      BY <2>1, <3>1 DEF OnePlace
    <3>3. Told(replies'[q]) = "failed" /\ replies'[q] # <<>>
      BY <1>7, <3>1, ToldStatus
    <3>4. QED
      BY <1>5, <1>6, <3>1, <3>2, <3>3
  <2>4. CASE Due = {}
    <3>1. \A q \in Queries : StatusOf(q)' = StatusOf(q)
      BY <2>2, <2>4
    <3>2. QED
      BY <1>1, <2>1, <3>1 DEF seen, Up
  <2>5. CASE Due # {}
    <3>1. \A q \in Queries : StatusOf(q)' = IF q \in Due THEN "failed" ELSE st[q]
      BY <2>2, <2>3
    <3>2. st' = [q \in Queries |-> IF q \in Due THEN "failed" ELSE st[q]]
      BY <3>1
    <3>3. \A q \in Due : st[q] = "waiting"
      BY <2>1, <2>3
    <3>4. Service!Fail(Due)
      BY <1>1, <2>1, <2>5, <3>2, <3>3 DEF Service!Fail, Up
    <3>5. QED
      BY <2>1, <3>4 DEF Service!Next
  <2>6. QED
    BY <2>4, <2>5
<1>12. QED
  BY <1>8, <1>9, <1>10, <1>11 DEF Datagrams

\* The state is freed, seen from outside.
LEMMA FreeSeen ==
  ASSUME TypeOK, OnePlace, OnePlace', FreeState, UNCHANGED <<origin, replies>>, Up' <=> Up
  PROVE  Service!Next \/ UNCHANGED seen
<1>0. Udp \notin Conns /\ None \notin Conns /\ None # Udp
  BY LocalResolverAssumption
<1>1. /\ \A c \in Conns : session'[c] = IF session[c].state = "open" THEN Fresh("closed", 0)
                                        ELSE session[c]
      /\ torn' = torn \cup ToSet(pending) /\ pending' = <<>>
  BY DEF FreeState, sessions
<1>2. /\ Fresh("closed", 0).state = "closed" /\ Fresh("closed", 0).serving = None
      /\ ToSet(<<>>) = {} /\ ToSet(pending) \subseteq Queries
  BY DEF Fresh, ToSet, TypeOK
<1> DEFINE G == ToSet(pending)
                \cup {q \in Queries : origin[q] \in Conns /\ session[origin[q]].state = "open"}
<1>3. Gone' = Gone \cup G
  <2>1. ASSUME NEW q \in Queries
        PROVE  (origin'[q] \in Conns /\ session'[origin'[q]].state = "closed")
                 <=> /\ origin[q] \in Conns
                     /\ session[origin[q]].state \in {"closed", "open"}
    BY <1>1, <1>2
  <2>2. QED
    BY <1>1, <2>1 DEF Gone
<1>4. \A q \in Queries : origin[q] \in Conns \cup {Udp, None}
  BY DEF TypeOK
<1>5. ASSUME NEW q \in Queries \ G PROVE StatusOf(q)' = StatusOf(q)
  <2>1. q \in ToSet(pending') <=> q \in ToSet(pending)
    BY <1>1, <1>2
  <2>2. origin[q] \in Conns => session'[origin[q]] = session[origin[q]]
    BY <1>1
  <2>3. QED
    BY <1>4, <2>1, <2>2, SeenKept
<1>6. ASSUME NEW q \in G
      PROVE  \/ StatusOf(q)' = StatusOf(q) /\ StatusOf(q) # "waiting"
             \/ StatusOf(q) \in {"new", "waiting"} /\ StatusOf(q)' = "dropped"
  <2>1. CASE q \in ToSet(pending)
    <3>1. q \in Queries /\ origin[q] = Udp /\ replies[q] = <<>>
      BY <1>2, <2>1 DEF OnePlace
    <3>2. StatusOf(q) = "waiting"
      BY <2>1, <3>1, StatusAt DEF StatusSeen
    <3>3. StatusOf(q)' = "dropped"
      BY <1>1, <1>2, <3>1, StatusAtNext DEF StatusSeen
    <3>4. QED
      BY <3>2, <3>3
  <2>2. ASSUME NEW c \in Conns, q \in Queries, origin[q] = c, session[c].state = "open"
        PROVE  \/ StatusOf(q)' = StatusOf(q) /\ StatusOf(q) # "waiting"
               \/ StatusOf(q) \in {"new", "waiting"} /\ StatusOf(q)' = "dropped"
    <3>1. StatusOf(q) = StatusIn(q, session[c], replies)
      BY <2>2, StatusAt DEF StatusSeen
    <3>2. StatusOf(q)' = StatusIn(q, Fresh("closed", 0), replies)
      BY <1>1, <2>2, StatusAtNext DEF StatusSeen
    <3>3. replies[q] # <<>> => StatusOf(q)' = StatusOf(q) /\ StatusOf(q) # "waiting"
      BY <3>1, <3>2, ToldStatus DEF StatusIn
    <3>4. replies[q] = <<>> => /\ StatusOf(q)' = "dropped"
                               /\ StatusOf(q) \in {"new", "waiting", "dropped"}
      BY <1>2, <2>2, <3>1, <3>2, LocalResolverAssumption DEF StatusIn
    <3>5. QED
      BY <3>3, <3>4
  <2>3. QED
    BY <2>1, <2>2
<1>7. \A q \in Queries : StatusOf(q)' \in {"new", "waiting", "answered", "failed", "dropped"}
  BY DEF StatusOf
<1>8. G \in SUBSET Queries
  BY <1>2
<1> HIDE DEF G
<1>9. QED
  BY <1>3, <1>5, <1>6, <1>7, <1>8, LeaveSeen

LEMMA ServiceInit == Init => Service!Init
<1> SUFFICES ASSUME Init PROVE Service!Init
  OBVIOUS
<1>1. \A q \in Queries : StatusOf(q) = "new"
  <2>1. ToSet(<<>>) = {}
    BY DEF ToSet
  <2>2. \A c \in Conns : session[c].state = "new"
    BY DEF Init, Fresh
  <2>3. QED
    BY <2>1, <2>2 DEF Init, StatusOf, Held, sessions
<1>2. Gone = {}
  BY LocalResolverAssumption DEF Init, Gone
<1>3. QED
  BY <1>1, <1>2 DEF Init, Service!Init

LEMMA ServiceStep ==
  ASSUME ResolverKept, ResolverKept', [Next]_vars
  PROVE  Service!Next \/ UNCHANGED seen
<1> USE DEF ResolverKept
<1>1. ASSUME UNCHANGED <<pending, origin, replies, torn>>,
             \A c \in Conns : /\ session'[c].reader = session[c].reader
                              /\ session'[c].serving = session[c].serving
                              /\ session'[c].state = session[c].state
      PROVE  (\A q \in Queries : StatusOf(q)' = StatusOf(q)) /\ Gone' = Gone
  <2>1. ASSUME NEW q \in Queries PROVE StatusOf(q)' = StatusOf(q)
    <3>1. origin[q] \in Conns \cup {Udp, None}
      BY DEF TypeOK
    <3>2. QED
      BY <1>1, <3>1, SeenKept
  <2>2. QED
    BY <1>1, <2>1 DEF Gone
<1>2. ASSUME UNCHANGED <<pending, origin, replies, torn, session>>, Up' <=> Up
      PROVE  UNCHANGED seen
  <2>1. (\A q \in Queries : StatusOf(q)' = StatusOf(q)) /\ Gone' = Gone
    BY <1>1, <1>2
  <2>2. QED
    BY <1>2, <2>1 DEF seen, Up
<1>3. CASE \/ Request \/ Bind \/ LoopEnds \/ Select \/ NoClient \/ ServedAll
           \/ (Launch /\ UNCHANGED phase) \/ UNCHANGED vars
  BY <1>2, <1>3 DEF Request, Bind, LoopEnds, Select, NoClient, ServedAll, Launch, vars,
                    udpVars, clientVars, passVars, Up
<1>4. CASE Launch /\ phase' = "select"
  <2>1. UNCHANGED <<pending, origin, replies, torn, session>> /\ phase = "none"
    BY <1>4 DEF Launch, ResetThenLaunch, udpVars, clientVars, TakeTurns
  <2>2. (\A q \in Queries : StatusOf(q)' = StatusOf(q)) /\ Gone' = Gone
    BY <1>1, <2>1
  <2>3. Service!ComeUp
    BY <1>4, <2>1, <2>2 DEF Service!ComeUp
  <2>4. QED
    BY <2>3 DEF Service!Next
<1>5. CASE SignalStopped
  <2>1. UNCHANGED <<pending, origin, replies, torn, session>>
        /\ phase = "ending" /\ phase' = "ended"
    BY <1>5 DEF SignalStopped, udpVars, clientVars
  <2>2. (\A q \in Queries : StatusOf(q)' = StatusOf(q)) /\ Gone' = Gone
    BY <1>1, <2>1
  <2>3. Service!GoDown
    BY <2>1, <2>2 DEF Service!GoDown
  <2>4. QED
    BY <2>3 DEF Service!Next
<1>6. CASE Joined \/ LaunchFails
  <2>1. FreeState /\ UNCHANGED <<origin, replies>> /\ (Up' <=> Up)
    BY <1>6 DEF Joined, LaunchFails, Up, passVars
  <2>2. QED
    BY <2>1, FreeSeen
<1>7. CASE Datagrams
  BY <1>7, DatagramsSeen
<1>8. ASSUME NEW c \in Conns, ConnectionMoves(c),
             phase \in {"serve", "client", "deadline"}, phase' \in {"serve", "client", "deadline"}
      PROVE  Service!Next \/ UNCHANGED seen
  <2>1. Up /\ Up'
    BY <1>8 DEF Up
  <2>2. QED
    BY <1>8, <2>1, MovesSeen
<1>9. ASSUME NEW c \in Conns, ServeUpstream(c) PROVE Service!Next \/ UNCHANGED seen
  <2>1. phase \in {"serve", "client", "deadline"} /\ phase' \in {"serve", "client", "deadline"}
    BY <1>9 DEF ServeUpstream
  <2>2. QED
    BY <1>8, <1>9, <2>1, ServeUpstreamMoves
<1>10. ASSUME NEW c \in Conns,
              ServeNothing(c) \/ ServeClosed(c) \/ WriteToClient(c) \/ ReadFromClient(c)
       PROVE  Service!Next \/ UNCHANGED seen
  <2>1. phase \in {"serve", "client", "deadline"} /\ phase' \in {"serve", "client", "deadline"}
    BY <1>10 DEF ServeNothing, ServeClosed, WriteToClient, ReadFromClient, AtClient, Drop,
                 ServeBufferedQuery
  <2>2. QED
    BY <1>8, <1>10, <2>1, ServeNothingMoves, WriteMoves, ReadMoves
<1>11. CASE CheckDeadline
  <2>1. phase \in {"serve", "client", "deadline"} /\ phase' \in {"serve", "client", "deadline"}
    BY <1>11 DEF CheckDeadline, Drop
  <2>2. QED
    BY <1>8, <1>11, <2>1, CheckDeadlineMoves
<1>12. ASSUME NEW c \in Conns, Accept(c) PROVE Service!Next \/ UNCHANGED seen
  <2>1. /\ UNCHANGED <<pending, origin, replies, torn>> /\ session[c].state = "new"
        /\ \A d \in Conns \ {c} : session'[d] = session[d]
        /\ Up /\ Up'
    BY <1>12 DEF Accept, udpVars, TypeOK, Up
  <2>2. \A q \in Queries : origin[q] # c
    BY <2>1 DEF OnePlace
  <2>3. \A q \in Queries : origin[q] \in Conns => session'[origin[q]] = session[origin[q]]
    BY <2>1, <2>2
  <2>4. ASSUME NEW q \in Queries PROVE StatusOf(q)' = StatusOf(q)
    <3>1. origin[q] \in Conns \cup {Udp, None}
      BY DEF TypeOK
    <3>2. QED
      BY <2>1, <2>3, <3>1, SeenKept
  <2>5. Gone' = Gone
    BY <2>1, <2>3 DEF Gone
  <2>6. QED
    BY <2>1, <2>4, <2>5 DEF seen, Up
<1>13. CASE Tick
  <2>1. UNCHANGED <<pending, origin, replies, torn, phase>>
    BY <1>13 DEF Tick, passVars
  <2>2. ASSUME NEW c \in Conns
        PROVE  /\ session'[c].reader = session[c].reader
               /\ session'[c].serving = session[c].serving
               /\ session'[c].state = session[c].state
    <3> DEFINE t == session[c]
    <3>1. t \in Session /\ session'[c] = [t EXCEPT !.idle = Counted(t.idle)]
      BY <1>13 DEF TypeOK, Tick
    <3> HIDE DEF t
    <3>2. QED
      BY <3>1, Zenon DEF Session, t
  <2>3. (\A q \in Queries : StatusOf(q)' = StatusOf(q)) /\ Gone' = Gone
    BY <1>1, <2>1, <2>2
  <2>4. QED
    BY <2>1, <2>3 DEF seen, Up
<1>14. QED
  <2>1. Launch => UNCHANGED phase \/ phase' = "select"
    BY DEF Launch, ResetThenLaunch
  <2>2. QED
    BY <1>3, <1>4, <1>5, <1>6, <1>7, <1>9, <1>10, <1>11, <1>12, <1>13, <2>1
    DEF Next, Owner, Loop, ServeTcp

\* The local server keeps the safety half of what QueryService promises: a
\* query is taken in, then answered or failed once, unless its client leaves.
THEOREM ImplementsServiceSafely == Spec => Service!Safety
<1>1. Init => Service!Init
  BY ServiceInit
<1>2. ResolverKept /\ ResolverKept' /\ [Next]_vars => [Service!Next]_(Service!vars)
  BY ServiceStep DEF seen, Service!vars
<1>3. QED
  BY <1>1, <1>2, ResolverKeptAlways, PTL DEF Spec, Service!Safety
=============================================================================
