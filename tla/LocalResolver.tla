---------------------------- MODULE LocalResolver ----------------------------
(***************************************************************************)
(* The local DNS server of src/src/dns/resolver.cpp: one loop thread that  *)
(* answers what its rules name and forwards the rest to the machine's own  *)
(* servers, over UDP under a transaction id of its own and over TCP with   *)
(* one connection per client, and the thread that starts and stops it.     *)
(*                                                                         *)
(* What the rules say of a query is left open. Deadlines are countdowns,   *)
(* floored at zero, and Tick alone lets time pass.                         *)
(***************************************************************************)
EXTENDS Naturals, Sequences, FiniteSets, SequencesExt

CONSTANTS
  Queries,       \* well-formed queries that clients may send, each one once
  Question,      \* what each query asks
  Conns,         \* TCP connections that clients may open, each one once
  Servers4,      \* the DNS servers an adapter may list, by family
  Servers6,
  Ids,           \* transaction ids
  MaxPending,    \* kMaxPendingUdp
  MaxSessions,   \* kMaxTcpSessions
  MaxQueried,    \* kUpstreamsQueried
  MaxBuffered,   \* messages TcpSessionReader holds before its bound is hit
  ForwardTicks,  \* kForwardTimeoutMs
  IdleTicks,     \* kTcpIdleTimeoutMs
  RefreshTicks,  \* kUpstreamRefreshMs
  Udp, Malformed, None

Servers == Servers4 \cup Servers6

ASSUME LocalResolverAssumption ==
  /\ IsFiniteSet(Queries) /\ IsFiniteSet(Conns) /\ IsFiniteSet(Servers)
  /\ DOMAIN Question = Queries /\ Ids # {}
  /\ MaxPending \in Nat /\ MaxSessions \in Nat \ {0} /\ MaxQueried \in Nat \ {0}
  /\ MaxBuffered \in Nat
  /\ ForwardTicks \in Nat \ {0} /\ IdleTicks \in Nat \ {0}
  /\ RefreshTicks \in Nat \ {0}
  /\ Udp \notin Conns /\ Malformed \notin Queries /\ None \notin Queries
  /\ None \notin Conns \cup {Udp}

VARIABLES
  owner,      \* where the thread inside Start or Stop is
  running,    \* LocalResolver::m_running
  stopped,    \* LocalResolver::m_stopped is signalled
  phase,      \* where the loop is in its pass
  toServe,    \* sessions this pass has still to look at
  turn,       \* the session ServiceSession works on
  sockets,    \* families of the upstream sockets that could be opened
  upstreams,  \* ResolverState::upstreams
  fresh,      \* how long they are still used unread
  pending,    \* ResolverState::pending
  id,         \* PendingUdp::upstreamId
  left,       \* PendingUdp::deadline, as a countdown
  asked,      \* datagrams sent to upstreams: each may be answered, late or twice
  origin,     \* who asked: None until the loop has read the query
  session,    \* what the loop knows of each connection
  replies,    \* what each query's client was handed, in order
  torn        \* the datagram queries that were freed with the state

ownerVars == <<owner, running, stopped>>
passVars == <<phase, toServe, turn>>
serverVars == <<sockets, upstreams, fresh>>
udpVars == <<pending, id, left, asked>>
clientVars == <<origin, session, replies, torn>>
vars == <<ownerVars, passVars, serverVars, udpVars, clientVars>>

Family(s) == IF s \in Servers4 THEN "v4" ELSE "v6"
Families == {"v4", "v6"}
Datagram == [from : Servers, id : Ids, q : Queries]
Reply == [by : {"rules", "upstream", "servfail"}, to : {Question[q] : q \in Queries}]
OwnerStates == {"idle", "stopping", "starting", "binding", "resetting", "launching"}
Phases == {"none", "select", "v4", "v6", "udp", "accept", "serve", "client",
           "deadline", "expire", "ending", "ended"}

\* TcpSession: `serving` is the query `busy` is set for, `question` the one
\* FailTcpForward would answer, `idle` the deadline.
Session ==
  [state : {"new", "open", "closed"}, reader : Seq(Queries \cup {Malformed}),
   serving : Queries \cup {None}, question : Queries \cup {None},
   out : Seq(Reply), upstream : {"none", "connecting", "sending", "waiting"},
   idle : Nat]

Fresh(state, ticks) ==
  [state |-> state, reader |-> <<>>, serving |-> None, question |-> None,
   out |-> <<>>, upstream |-> "none", idle |-> ticks]

sessions == {c \in Conns : session[c].state = "open"}

Init ==
  /\ owner = "idle" /\ running = FALSE /\ stopped = TRUE
  /\ phase = "none" /\ toServe = {} /\ turn = None
  /\ sockets = {} /\ upstreams = {} /\ fresh = 0
  /\ pending = <<>> /\ asked = {}
  /\ id = [q \in Queries |-> CHOOSE i \in Ids : TRUE]
  /\ left = [q \in Queries |-> 0]
  /\ origin = [q \in Queries |-> None]
  /\ session = [c \in Conns |-> Fresh("new", 0)]
  /\ replies = [q \in Queries |-> <<>>]
  /\ torn = {}
-----------------------------------------------------------------------------
(***************************************************************************)
(* Start and Stop                                                          *)
(***************************************************************************)

\* Stop(), or Start(), which begins with it.
Request ==
  /\ owner = "idle"
  /\ owner' \in {"stopping", "starting"}
  /\ running' = FALSE
  /\ UNCHANGED <<stopped, passVars, serverVars, udpVars, clientVars>>

\* m_state.reset(): every socket closes and what was in flight is gone.
FreeState ==
  /\ sockets' = {} /\ upstreams' = {} /\ fresh' = 0
  /\ pending' = <<>> /\ asked' = {} /\ torn' = torn \cup ToSet(pending)
  /\ left' = [q \in Queries |-> 0]
  /\ session' = [c \in Conns |-> IF c \in sessions THEN Fresh("closed", 0)
                                 ELSE session[c]]

\* The loop is joined, or there was none.
Joined ==
  /\ owner \in {"stopping", "starting"}
  /\ phase \in {"none", "ended"}
  /\ phase' = "none"
  /\ owner' = IF owner = "stopping" THEN "idle" ELSE "binding"
  /\ FreeState
  /\ UNCHANGED <<running, stopped, toServe, turn, id, origin, replies>>

\* Both listeners and an upstream socket of one family at least, or nothing.
Bind ==
  /\ owner = "binding"
  /\ \/ /\ owner' = "idle"
        /\ UNCHANGED <<running, sockets>>
     \/ /\ owner' = "resetting"
        /\ running' = TRUE
        /\ sockets' \in SUBSET Families \ {{}}
  /\ UNCHANGED <<stopped, passVars, upstreams, fresh, udpVars, clientVars>>

\* Mutant: the event is reset once the loop is already running.
ResetLate ==
  \/ /\ owner = "resetting"
     /\ owner' = "launching" /\ phase' = "select"
     /\ UNCHANGED stopped
  \/ /\ owner = "launching"
     /\ owner' = "idle" /\ stopped' = FALSE
     /\ UNCHANGED phase

\* ResetEvent comes before the thread exists.
ResetThenLaunch ==
  \/ /\ owner = "resetting"
     /\ owner' = "launching" /\ stopped' = FALSE
     /\ UNCHANGED phase
  \/ /\ owner = "launching"
     /\ owner' = "idle" /\ phase' = "select"
     /\ UNCHANGED stopped

Launch ==
  /\ ResetThenLaunch
  /\ UNCHANGED <<running, toServe, turn, serverVars, udpVars, clientVars>>

\* std::thread throws.
LaunchFails ==
  /\ owner = "launching"
  /\ owner' = "idle"
  /\ running' = FALSE /\ stopped' = TRUE
  /\ FreeState
  /\ UNCHANGED <<passVars, id, origin, replies>>
-----------------------------------------------------------------------------
(***************************************************************************)
(* The pass, and datagrams                                                 *)
(***************************************************************************)

\* The flag was cleared while the last pass ran, or select() failed.
LoopEnds ==
  /\ phase = "select"
  /\ phase' = "ending"
  /\ running' = FALSE
  /\ UNCHANGED <<owner, stopped, toServe, turn, serverVars, udpVars, clientVars>>

SignalStopped ==
  /\ phase = "ending"
  /\ phase' = "ended"
  /\ stopped' = TRUE
  /\ UNCHANGED <<owner, running, toServe, turn, serverVars, udpVars, clientVars>>

GoesOn == running

\* select() comes back with a socket, or with none when its tick is over.
Select ==
  /\ phase = "select" /\ GoesOn
  /\ \/ phase' = "v4" /\ UNCHANGED toServe
     \/ phase' = "serve" /\ toServe' = sessions
  /\ UNCHANGED <<ownerVars, turn, serverVars, udpVars, clientVars>>

Say(by, q) == [by |-> by, to |-> Question[q]]
Hand(q, r) == replies' = [replies EXCEPT ![q] = Append(@, r)]

\* The pending query HandleUpstreamReply takes a datagram's id to be for.
Entry(d) ==
  {p \in 1..Len(pending) : /\ id[pending[p]] = d.id
                           /\ \A o \in 1..(p - 1) : id[pending[o]] # d.id}

\* Mutant: the question is not compared.
MatchesById(d, p) == d.from \in upstreams

\* A datagram is the answer to p when a server in use sent it and it repeats
\* p's question; the id is checked by Entry.
Matches(d, p) ==
  d.from \in upstreams /\ Question[pending[p]] = Question[d.q]

\* One datagram is read from the upstream socket of family f, or none. A
\* reply over the client's size is cut to it, or replaced by a failure.
HandleUpstreamReply(f) ==
  /\ phase = f
  /\ phase' = IF f = "v4" THEN "v6" ELSE "udp"
  /\ \/ UNCHANGED <<pending, replies>>
     \/ /\ f \in sockets
        /\ \E d \in asked : \E p \in Entry(d) :
             /\ Family(d.from) = f
             /\ Matches(d, p)
             /\ \/ Hand(pending[p], Say("upstream", d.q))
                \/ Hand(pending[p], Say("servfail", pending[p]))
             /\ pending' = RemoveAt(pending, p)
  /\ UNCHANGED <<ownerVars, toServe, turn, serverVars, id, left, asked, origin,
                 session, torn>>

\* The list is read again when it is old; the machine's may be any by then.
RefreshUpstreams ==
  IF fresh > 0 THEN UNCHANGED <<upstreams, fresh>>
  ELSE upstreams' \in SUBSET Servers /\ fresh' = RefreshTicks

\* The 64 draws hit an id that is not in use if there is one; failing that
\* the last one drawn is used all the same.
UpstreamIds ==
  LET taken == {id[q] : q \in ToSet(pending)}
  IN IF Ids \subseteq taken THEN Ids ELSE Ids \ taken

\* The servers that sendto reached, among the first MaxQueried that have a
\* socket of their family.
ReachedSets ==
  {S \in SUBSET {s \in upstreams' : Family(s) \in sockets} :
     Cardinality(S) <= MaxQueried}

Room == Len(pending) < MaxPending

ForwardUdp(q) ==
  /\ RefreshUpstreams
  /\ \E reached \in ReachedSets, i \in UpstreamIds :
       \/ /\ ~Room \/ reached = {}
          /\ Hand(q, Say("servfail", q))
          /\ UNCHANGED udpVars
       \/ /\ Room /\ reached # {}
          /\ pending' = Append(pending, q)
          /\ id' = [id EXCEPT ![q] = i]
          /\ left' = [left EXCEPT ![q] = ForwardTicks]
          /\ asked' = asked \cup [from : reached, id : {i}, q : {q}]
          /\ UNCHANGED replies

HandleUdpQuery(q) ==
  /\ phase = "udp"
  /\ phase' = "accept"
  /\ origin[q] = None
  /\ origin' = [origin EXCEPT ![q] = Udp]
  /\ \/ Hand(q, Say("rules", q)) /\ UNCHANGED <<upstreams, fresh, udpVars>>
     \/ ForwardUdp(q)
  /\ UNCHANGED <<ownerVars, toServe, turn, sockets, session, torn>>

\* No datagram, or one that ParseQuery rejects.
NoQueryRead ==
  /\ phase = "udp"
  /\ phase' = "accept"
  /\ UNCHANGED <<ownerVars, toServe, turn, serverVars, udpVars, clientVars>>

\* Mutant: entries go without a word.
DueUntold == {}

\* The entries whose deadline has passed, and the others.
Due == {q \in ToSet(pending) : left[q] = 0}

\* What one walk along s that erases the members of T leaves of it.
Erased(s, T) ==
  LET walk[n \in 0..Len(s)] ==
        IF n = 0 THEN <<>>
        ELSE IF s[n] \in T THEN walk[n - 1] ELSE Append(walk[n - 1], s[n])
  IN walk[Len(s)]

NotDue == Erased(pending, {q \in Queries : left[q] = 0})

ExpirePendingUdp ==
  /\ phase = "expire"
  /\ phase' = "select"
  /\ replies' = [q \in Queries |-> IF q \in Due
                   THEN Append(replies[q], Say("servfail", q)) ELSE replies[q]]
  /\ pending' = NotDue
  /\ UNCHANGED <<ownerVars, toServe, turn, serverVars, id, left, asked, origin,
                 session, torn>>
-----------------------------------------------------------------------------
(***************************************************************************)
(* TCP sessions                                                            *)
(***************************************************************************)

ListFull == Cardinality(sessions) >= MaxSessions

\* AcceptTcpClient. The newcomer is not among the sockets select() reported,
\* so this pass has nothing to do for it.
Accept(c) ==
  /\ phase = "accept"
  /\ session[c].state = "new"
  /\ \/ session' = [session EXCEPT ![c] = Fresh("closed", 0)]
     \/ ~ListFull /\ session' = [session EXCEPT ![c] = Fresh("open", IdleTicks)]
  /\ phase' = "serve"
  /\ toServe' = sessions
  /\ UNCHANGED <<ownerVars, turn, serverVars, udpVars, origin, replies, torn>>

NoClient ==
  /\ phase = "accept"
  /\ phase' = "serve"
  /\ toServe' = sessions
  /\ UNCHANGED <<ownerVars, turn, serverVars, udpVars, clientVars>>

\* TcpClientConnection::QueueResponse.
QueueResponse(t, r) == [t EXCEPT !.out = <<r>>, !.idle = IdleTicks]

FailTcpForward(t) ==
  QueueResponse([t EXCEPT !.upstream = "none"], Say("servfail", t.question))

\* Connection c becomes t, with nothing new for its client.
Becomes(c, t) == session' = [session EXCEPT ![c] = t] /\ UNCHANGED replies

\* Connection c becomes t, which holds the response to the query in service.
Responds(c, t) == session' = [session EXCEPT ![c] = t] /\ Hand(t.serving, Head(t.out))

\* The session is closed and erased, with all it held.
Drop(c) ==
  /\ phase' = "serve"
  /\ session' = [session EXCEPT ![c] = Fresh("closed", 0)]
  /\ UNCHANGED <<upstreams, fresh, replies>>

\* Nothing to serve: a query is in service already, or none is complete.
Busy(t) == t.serving # None \/ t.reader = <<>>

\* ServeBufferedQuery and StartTcpForward on connection c as t: answered from
\* the rules, forwarded to the first upstream, or failed at once.
ServeBufferedQuery(c, t) ==
  \/ /\ Busy(t)
     /\ phase' = "deadline"
     /\ Becomes(c, t)
     /\ UNCHANGED <<upstreams, fresh>>
  \/ /\ ~Busy(t) /\ Head(t.reader) = Malformed
     /\ Drop(c)
  \/ /\ ~Busy(t) /\ Head(t.reader) # Malformed
     /\ phase' = "deadline"
     /\ LET q == Head(t.reader)
            taken == [t EXCEPT !.reader = Tail(@), !.serving = q]
            forward == [taken EXCEPT !.question = q]
        IN \/ /\ Responds(c, QueueResponse(taken, Say("rules", q)))
              /\ UNCHANGED <<upstreams, fresh>>
           \/ /\ RefreshUpstreams
              /\ \/ Responds(c, FailTcpForward(forward))
                 \/ /\ upstreams' # {}
                    /\ Becomes(c, [forward EXCEPT !.upstream = "connecting",
                                                  !.idle = ForwardTicks])

InPass == UNCHANGED <<ownerVars, sockets, udpVars, torn>>

\* The upstream half of ServiceSession. A response it queues leaves nothing
\* for the client half, whose socket was not watched for writing.
ServeUpstream(c) ==
  /\ phase = "serve"
  /\ c \in toServe
  /\ toServe' = toServe \ {c}
  /\ turn' = c
  /\ LET t == session[c]
     IN \/ phase' = "client" /\ Becomes(c, t)
        \/ /\ t.upstream # "none"
           /\ phase' = "deadline"
           /\ Responds(c, FailTcpForward(t))
        \/ /\ t.upstream \in {"connecting", "sending"}
           /\ phase' = "client"
           /\ \E next \in {"sending", "waiting"} :
                Becomes(c, [t EXCEPT !.upstream = next])
        \/ /\ t.upstream = "waiting"
           /\ phase' = "deadline"
           /\ Responds(c, QueueResponse([t EXCEPT !.upstream = "none"],
                                        Say("upstream", t.question)))
  /\ InPass
  /\ UNCHANGED <<upstreams, fresh, origin>>

\* The loop is at the client half of c.
AtClient(c) == phase = "client" /\ turn = c /\ UNCHANGED <<toServe, turn>> /\ InPass

\* c's socket is not ready, would block, or took part of the response.
ServeNothing(c) ==
  /\ AtClient(c)
  /\ phase' = "deadline"
  /\ UNCHANGED <<upstreams, fresh, clientVars>>

\* The client is gone or its socket failed.
ServeClosed(c) ==
  /\ AtClient(c)
  /\ Drop(c)
  /\ UNCHANGED origin

\* Mutant: the query stays in service.
WrittenStillBusy(t) == [t EXCEPT !.out = <<>>, !.idle = IdleTicks]

\* The last byte of the response is out.
Written(t) == [t EXCEPT !.out = <<>>, !.serving = None, !.idle = IdleTicks]

WriteToClient(c) ==
  /\ AtClient(c)
  /\ session[c].out # <<>>
  /\ ServeBufferedQuery(c, Written(session[c]))
  /\ UNCHANGED origin

\* The messages one recv() can complete: none, or up to two.
Unread == {q \in Queries : origin[q] = None} \cup {Malformed}
Batches ==
  {<<>>} \cup {<<m>> : m \in Unread}
    \cup {<<m, n>> : m \in Unread \ {Malformed}, n \in Unread}

\* ReadFromClient: at its bound the reader reports a broken stream.
ReadFromClient(c) ==
  /\ AtClient(c)
  /\ session[c].out = <<>>
  /\ \E batch \in Batches :
       LET t == session[c]
       IN /\ IsInjective(batch)
          /\ origin' = [q \in Queries |-> IF q \in ToSet(batch) THEN c ELSE origin[q]]
          /\ \/ /\ Len(t.reader) + Len(batch) > MaxBuffered
                /\ Drop(c)
             \/ /\ Len(t.reader) + Len(batch) <= MaxBuffered
                /\ ServeBufferedQuery(c,
                     [t EXCEPT !.reader = @ \o batch,
                               !.idle = IF t.serving = None THEN IdleTicks ELSE @])

\* An answer is owed and none has come.
Owed(t) == t.serving # None /\ t.out = <<>>

\* The end of ServiceSession: whoever is owed an answer when time is up gets
\* one, and the others are dropped.
CheckDeadline ==
  /\ phase = "deadline"
  /\ LET t == session[turn]
     IN \/ /\ t.idle > 0
           /\ phase' = "serve"
           /\ UNCHANGED <<upstreams, fresh, session, replies>>
        \/ /\ t.idle = 0 /\ Owed(t)
           /\ phase' = "serve"
           /\ Responds(turn, FailTcpForward(t))
           /\ UNCHANGED <<upstreams, fresh>>
        \/ t.idle = 0 /\ ~Owed(t) /\ Drop(turn)
  /\ InPass
  /\ UNCHANGED <<toServe, turn, origin>>

ServedAll ==
  /\ phase = "serve"
  /\ toServe = {}
  /\ phase' = "expire"
  /\ turn' = None
  /\ UNCHANGED <<ownerVars, toServe, serverVars, udpVars, clientVars>>

Counted(n) == IF n > 0 THEN n - 1 ELSE 0

\* Time passes for every deadline at once.
Tick ==
  /\ \/ fresh > 0
     \/ \E q \in ToSet(pending) : left[q] > 0
     \/ \E c \in sessions : session[c].idle > 0
  /\ fresh' = Counted(fresh)
  /\ left' = [q \in Queries |-> Counted(left[q])]
  /\ session' = [c \in Conns |-> [session[c] EXCEPT !.idle = Counted(@)]]
  /\ UNCHANGED <<ownerVars, passVars, sockets, upstreams, pending, id, asked,
                 origin, replies, torn>>
-----------------------------------------------------------------------------
Owner == Request \/ Joined \/ Bind \/ Launch \/ LaunchFails

Datagrams ==
  \/ \E f \in Families : HandleUpstreamReply(f)
  \/ \E q \in Queries : HandleUdpQuery(q)
  \/ NoQueryRead
  \/ ExpirePendingUdp

ServeTcp ==
  \/ \E c \in Conns : \/ Accept(c)
                      \/ ServeUpstream(c) \/ ServeNothing(c) \/ ServeClosed(c)
                      \/ WriteToClient(c) \/ ReadFromClient(c)
  \/ NoClient \/ CheckDeadline \/ ServedAll

\* One pass of LocalResolver::Loop.
Loop == LoopEnds \/ SignalStopped \/ Select \/ Datagrams \/ ServeTcp

Next == Owner \/ Loop \/ Tick

Spec == Init /\ [][Next]_vars

\* The loop and the clock are fair, and a thread inside Start or Stop goes
\* through with it; nobody has to start, stop or ask anything.
FairSpec ==
  Spec /\ WF_vars(Loop) /\ WF_vars(Tick) /\ WF_vars(owner # "idle" /\ Owner)
-----------------------------------------------------------------------------
(***************************************************************************)
(* Properties                                                              *)
(***************************************************************************)

\* Every variable keeps its type.
TypeOK ==
  /\ owner \in OwnerStates /\ running \in BOOLEAN /\ stopped \in BOOLEAN
  /\ phase \in Phases /\ toServe \subseteq Conns /\ turn \in Conns \cup {None}
  /\ sockets \subseteq Families /\ upstreams \subseteq Servers /\ fresh \in Nat
  /\ pending \in Seq(Queries) /\ id \in [Queries -> Ids]
  /\ left \in [Queries -> Nat] /\ asked \subseteq Datagram
  /\ origin \in [Queries -> Conns \cup {Udp, None}] /\ torn \subseteq Queries
  /\ session \in [Conns -> Session]
  /\ replies \in [Queries -> Seq(Reply)]

\* No client is told twice, however late or often the upstreams answer.
AnsweredOnce == \A q \in Queries : Len(replies[q]) <= 1

\* What a client is told is about the question it asked, although a
\* transaction id may be given out again while an answer to its last use, or
\* even that use itself, is still under way, and although a connection keeps
\* the query of its last forward.
OwnAnswer ==
  \A q \in Queries : \A i \in 1..Len(replies[q]) : replies[q][i].to = Question[q]

\* A connection that owes an answer has it queued or has asked an upstream for
\* it, never both; an upstream connection is held for a query in service only;
\* and a pipelined query waits in the reader only while another is in service,
\* for nothing but the end of that one makes the loop look at it.
Attended(t) ==
  /\ t.serving # None <=> (t.out # <<>> \/ t.upstream # "none")
  /\ ~(t.out # <<>> /\ t.upstream # "none")
  /\ t.reader # <<>> => t.serving # None
  /\ t.upstream # "none" => t.question = t.serving

NothingForgotten == \A c \in Conns : Attended(session[c])

\* Whoever waits for the event learns of the loop's end: no Start loses it,
\* and while the loop is in a pass it is not signalled.
EndIsSignalled ==
  /\ phase = "ended" /\ owner = "idle" => stopped /\ ~running
  /\ phase \notin {"none", "ended"} => ~stopped

-----------------------------------------------------------------------------
(***************************************************************************)
(* What the safety properties follow from                                  *)
(***************************************************************************)

\* Start and the loop take turns: the one that launches the thread has reset
\* the event, and the thread sets it last.
TakeTurns ==
  /\ owner \in {"binding", "resetting", "launching"} => phase = "none"
  /\ owner = "launching" => ~stopped
  /\ phase \notin {"none", "ended"} => ~stopped
  /\ phase = "ended" => stopped
  /\ phase \in {"ending", "ended"} => ~running

\* The connections keep their shape, and the loop looks at connections only.
SessionsKept ==
  /\ session \in [Conns -> Session] /\ replies \in [Queries -> Seq(Reply)]
  /\ toServe \subseteq Conns
  /\ phase \in {"client", "deadline"} => turn \in Conns

\* Connection c, as t, holds queries of its own only, each in one place: in the
\* reader, once and unanswered, or in service, answered when it is queued.
HoldsOwn(c, t, asker, told) ==
  /\ \A q \in Queries : q \in ToSet(t.reader) \/ t.serving = q =>
       asker[q] = c /\ t.state = "open"
  /\ \A q \in Queries : q \in ToSet(t.reader) => told[q] = <<>> /\ t.serving # q
  /\ \A i, j \in 1..Len(t.reader) :
       t.reader[i] = t.reader[j] /\ t.reader[i] # Malformed => i = j
  /\ t.serving # None => (told[t.serving] = <<>> <=> t.out = <<>>)

\* Every query is in one place, from its client to its one answer.
OnePlace ==
  /\ IsInjective(pending)
  /\ \A q \in ToSet(pending) : origin[q] = Udp /\ replies[q] = <<>> /\ q \notin torn
  /\ \A c \in Conns : HoldsOwn(c, session[c], origin, replies)
  /\ \A q \in Queries : origin[q] = None => replies[q] = <<>>
  /\ \A q \in Queries : origin[q] \in Conns => session[origin[q]].state # "new"
  /\ \A q \in torn : origin[q] = Udp
  /\ AnsweredOnce

\* The pass looks at each open connection once.
ServesOpen ==
  /\ phase \in {"serve", "client", "deadline"} => toServe \subseteq sessions
  /\ phase \in {"client", "deadline"} => turn \in sessions \ toServe
=============================================================================
