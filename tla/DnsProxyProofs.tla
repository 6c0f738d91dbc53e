--------------------------- MODULE DnsProxyProofs ---------------------------
(***************************************************************************)
(* Theorems about DnsProxy, for any number of queries, connections,        *)
(* upstreams and workers and for every value of the bounds: its types, who *)
(* holds each query, what its races and workers are at any moment, and     *)
(* that every step of it is a step of QueryService or changes nothing that *)
(* its clients can see.                                                    *)
(***************************************************************************)
EXTENDS DnsProxyRefinement, TLAPS

-----------------------------------------------------------------------------
(***************************************************************************)
(* Types                                                                   *)
(***************************************************************************)

LEMMA EmptyType == ASSUME NEW S PROVE <<>> \in Seq(S)
OBVIOUS

LEMMA TypeInit == Init => TypeOK
<1> SUFFICES ASSUME Init PROVE TypeOK
  OBVIOUS
<1>1. LoopTypeOK
  BY DEF Init, LoopTypeOK, Phases, StopStates
<1>2. QueryTypeOK
  BY DEF Init, QueryTypeOK
<1>3. RaceTypeOK
  BY DEF Init, RaceTypeOK
<1>4. PoolTypeOK
  <2>1. /\ wpc \in [Workers -> WorkerStates]
        /\ job \in [Workers -> Queries \cup {NoQuery}]
        /\ result \in [Workers -> Results]
    BY DEF Init, WorkerStates, Results
  <2>2. \A w \in Workers : wpc[w] = "idle"
    BY DEF Init
  <2>3. jobs \in Seq(Queries) /\ stopping \in BOOLEAN /\ completions \in Seq(Completion)
    <3>1. jobs = <<>> /\ completions = <<>> /\ stopping = FALSE
      BY DEF Init
    <3>2. QED
      BY <3>1, EmptyType
  <2>4. QED
    BY <2>1, <2>2, <2>3 DEF PoolTypeOK
<1>5. SessionTypeOK
  BY DEF Init, SessionTypeOK
<1>6. QED
  BY <1>1, <1>2, <1>3, <1>4, <1>5 DEF TypeOK

\* Deliver picks, for each connection it releases, a query it answers.
LEMMA DeliverType ==
  ASSUME TypeOK, NEW D \in SUBSET Queries, NEW what \in Answers, Deliver(D, what)
  PROVE  /\ pending' \subseteq Queries /\ left' \in [Queries -> Nat]
         /\ won' \in [Queries -> BOOLEAN]
         /\ replies' \in [Queries -> Seq(Answers)]
         /\ busy' \in [Conns -> BOOLEAN]
         /\ race' \in [Conns -> Queries \cup {NoQuery}]
         /\ out' \in [Conns -> Queries \cup {NoQuery}]
         /\ idle' \in [Conns -> Nat]
<1> DEFINE answered == {q \in D : ~won[q] /\ Reachable(q)}
<1>1. \A c \in Conns : (\E q \in answered : origin[q] = c)
         => (CHOOSE q \in answered : origin[q] = c) \in Queries
  OBVIOUS
<1>2. out' = [c \in Conns |-> IF \E q \in answered : origin[q] = c
                                THEN CHOOSE q \in answered : origin[q] = c
                                ELSE out[c]]
  BY DEF Deliver
<1>3. out' \in [Conns -> Queries \cup {NoQuery}]
  <2> HIDE DEF answered
  <2> QED
    BY <1>1, <1>2 DEF TypeOK, SessionTypeOK
<1>4. replies' \in [Queries -> Seq(Answers)]
  BY DEF Deliver, TypeOK, QueryTypeOK
<1>5. busy' \in [Conns -> BOOLEAN] /\ race' \in [Conns -> Queries \cup {NoQuery}]
  BY DEF Deliver, TypeOK, SessionTypeOK
<1>6. won' \in [Queries -> BOOLEAN]
  BY DEF Deliver, TypeOK, RaceTypeOK
<1>7. pending' \subseteq Queries /\ left' \in [Queries -> Nat]
  BY DEF Deliver, TypeOK, QueryTypeOK
<1>8. idle' \in [Conns -> Nat]
  BY DnsProxyAssumption DEF Deliver, TypeOK, SessionTypeOK
<1>9. QED
  BY <1>3, <1>4, <1>5, <1>6, <1>7, <1>8
LEMMA RegisterType ==
  ASSUME TypeOK, NEW q \in Queries, Register(q)
  PROVE  pending' \subseteq Queries /\ left' \in [Queries -> Nat]
<1>1. pending' \subseteq Queries
  BY DEF Register, TypeOK, QueryTypeOK
<1>2. left' \in [Queries -> Nat]
  BY DnsProxyAssumption DEF Register, TypeOK, QueryTypeOK
<1>3. QED
  BY <1>1, <1>2

LEMMA BeginDispatchType ==
  ASSUME TypeOK, NEW q \in Queries, NEW next \in {"accept", "serve"},
         BeginDispatch(q, next)
  PROVE  /\ phase' = "dispatch" /\ resume' \in {"accept", "serve"}
         /\ dispatching' \in Queries /\ unsubmitted' \subseteq Upstreams
         /\ total' \in [Queries -> Nat] /\ done' \in [Queries -> Nat]
<1>1. total' \in [Queries -> Nat] /\ done' \in [Queries -> Nat]
  BY DEF BeginDispatch, TypeOK, RaceTypeOK
<1>2. QED
  BY <1>1 DEF BeginDispatch

\* What ServiceTcpSession may change, whatever the session's reader held.
LEMMA ServiceType ==
  ASSUME TypeOK, NEW c \in Conns, NEW ms \in Seq(Queries \cup {Malformed}),
         phase = "serve", dispatching' \in Queries \cup {NoQuery},
         ServiceTcpSession(c, ms)
  PROVE  /\ phase' \in {"serve", "dispatch"} /\ resume' \in {"accept", "serve"}
         /\ phase' = "dispatch" => dispatching' \in Queries
         /\ dispatching' \in Queries \cup {NoQuery}
         /\ unsubmitted' \subseteq Upstreams
         /\ total' \in [Queries -> Nat] /\ done' \in [Queries -> Nat]
         /\ pending' \subseteq Queries /\ left' \in [Queries -> Nat]
         /\ busy' \in [Conns -> BOOLEAN]
         /\ race' \in [Conns -> Queries \cup {NoQuery}]
         /\ idle' \in [Conns -> Nat]
         /\ reader' \in [Conns -> Seq(Queries \cup {Malformed})]
<1> DEFINE S == Seq(Queries \cup {Malformed})
<1>1. CASE /\ reader' = [reader EXCEPT ![c] = IF busy[c] THEN ms ELSE <<>>]
           /\ idle' = [idle EXCEPT ![c] = IdleTicks]
           /\ UNCHANGED <<busy, race, pending, left, phase, resume, dispatching,
                          unsubmitted, total, done>>
  <2>1. reader' \in [Conns -> S]
    BY <1>1 DEF TypeOK, SessionTypeOK
  <2>2. idle' \in [Conns -> Nat]
    BY <1>1, DnsProxyAssumption DEF TypeOK, SessionTypeOK
  <2>3. QED
    BY <1>1, <2>1, <2>2
    DEF TypeOK, SessionTypeOK, LoopTypeOK, QueryTypeOK, RaceTypeOK
<1>2. CASE \E i \in 1..Len(ms) :
             /\ ms[i] # Malformed
             /\ reader' = [reader EXCEPT ![c] = Rest(ms, i)]
             /\ busy' = [busy EXCEPT ![c] = TRUE]
             /\ race' = [race EXCEPT ![c] = ms[i]]
             /\ idle' = [idle EXCEPT ![c] = QueryTicks]
             /\ Register(ms[i])
             /\ BeginDispatch(ms[i], "serve")
  <2>1. PICK i \in 1..Len(ms) :
             /\ ms[i] # Malformed
             /\ reader' = [reader EXCEPT ![c] = Rest(ms, i)]
             /\ busy' = [busy EXCEPT ![c] = TRUE]
             /\ race' = [race EXCEPT ![c] = ms[i]]
             /\ idle' = [idle EXCEPT ![c] = QueryTicks]
             /\ Register(ms[i])
             /\ BeginDispatch(ms[i], "serve")
    BY <1>2
  <2>2. ms[i] \in Queries
    BY <2>1
  <2>3. Rest(ms, i) \in S
    BY DEF Rest
  <2>4. reader' \in [Conns -> S] /\ busy' \in [Conns -> BOOLEAN]
    BY <2>1, <2>3 DEF TypeOK, SessionTypeOK
  <2>5. race' \in [Conns -> Queries \cup {NoQuery}] /\ idle' \in [Conns -> Nat]
    BY <2>1, <2>2, DnsProxyAssumption DEF TypeOK, SessionTypeOK
  <2>6. pending' \subseteq Queries /\ left' \in [Queries -> Nat]
    BY <2>1, <2>2, RegisterType
  <2>7. /\ phase' = "dispatch" /\ resume' \in {"accept", "serve"}
        /\ dispatching' \in Queries /\ unsubmitted' \subseteq Upstreams
        /\ total' \in [Queries -> Nat] /\ done' \in [Queries -> Nat]
    BY <2>1, <2>2, BeginDispatchType
  <2>8. QED
    BY <2>4, <2>5, <2>6, <2>7
<1>3. QED
  BY <1>1, <1>2 DEF ServiceTcpSession

LEMMA AppendType ==
  ASSUME NEW S, NEW s \in Seq(S), NEW x \in S
  PROVE  Append(s, x) \in Seq(S)
OBVIOUS

LEMMA TailType ==
  ASSUME NEW S, NEW s \in Seq(S), s # <<>>
  PROVE  Head(s) \in S /\ Tail(s) \in Seq(S)
OBVIOUS

LEMMA TypeStep == TypeOK /\ [Next]_vars => TypeOK'
<1> SUFFICES ASSUME TypeOK, [Next]_vars PROVE TypeOK'
  OBVIOUS
<1> USE DnsProxyAssumption
<1>1. ASSUME LoopEnds PROVE TypeOK'
  <2>1. LoopTypeOK'
    BY <1>1 DEF LoopEnds, TypeOK, LoopTypeOK, Phases, loopVars
  <2>2. QueryTypeOK' /\ RaceTypeOK' /\ PoolTypeOK' /\ SessionTypeOK'
    BY <1>1 DEF LoopEnds, TypeOK, QueryTypeOK, RaceTypeOK, PoolTypeOK,
       SessionTypeOK, queryVars, raceVars, poolVars, sessVars
  <2>3. QED
    BY <2>1, <2>2 DEF TypeOK
<1>2. ASSUME Select PROVE TypeOK'
  <2>1. LoopTypeOK'
    BY <1>2 DEF Select, TypeOK, LoopTypeOK, Phases, loopVars
  <2>2. QueryTypeOK' /\ RaceTypeOK' /\ PoolTypeOK' /\ SessionTypeOK'
    BY <1>2 DEF Select, TypeOK, QueryTypeOK, RaceTypeOK, PoolTypeOK,
       SessionTypeOK, queryVars, raceVars, poolVars, sessVars
  <2>3. QED
    BY <2>1, <2>2 DEF TypeOK
<1>3. ASSUME NEW q \in Queries, HandleQuery(q) PROVE TypeOK'
  <2>1. CASE /\ replies' = [replies EXCEPT ![q] = Append(@, "servfail")]
             /\ phase' = "accept"
             /\ UNCHANGED <<pending, left, resume, dispatching, unsubmitted,
                            total, done>>
    <3>1. replies' \in [Queries -> Seq(Answers)]
      BY <2>1 DEF TypeOK, QueryTypeOK, Answers
    <3>2. origin' \in [Queries -> Conns \cup {Udp, NoQuery}]
      BY <1>3 DEF HandleQuery, TypeOK, QueryTypeOK
    <3>3. LoopTypeOK'
      BY <1>3, <2>1 DEF HandleQuery, TypeOK, LoopTypeOK, Phases
    <3>4. QueryTypeOK'
      BY <2>1, <3>1, <3>2 DEF TypeOK, QueryTypeOK
    <3>5. RaceTypeOK'
      BY <1>3, <2>1 DEF HandleQuery, TypeOK, RaceTypeOK
    <3>6. PoolTypeOK' /\ SessionTypeOK'
      BY <1>3 DEF HandleQuery, TypeOK, PoolTypeOK, SessionTypeOK, poolVars, sessVars
    <3>7. QED
      BY <3>3, <3>4, <3>5, <3>6 DEF TypeOK
  <2>2. CASE Register(q) /\ BeginDispatch(q, "accept") /\ UNCHANGED replies
    <3>1. pending' \subseteq Queries /\ left' \in [Queries -> Nat]
      BY <2>2, RegisterType
    <3>2. /\ phase' = "dispatch" /\ resume' \in {"accept", "serve"}
          /\ dispatching' \in Queries /\ unsubmitted' \subseteq Upstreams
          /\ total' \in [Queries -> Nat] /\ done' \in [Queries -> Nat]
      BY <2>2, BeginDispatchType
    <3>3. origin' \in [Queries -> Conns \cup {Udp, NoQuery}]
      BY <1>3 DEF HandleQuery, TypeOK, QueryTypeOK
    <3>4. LoopTypeOK'
      BY <1>3, <3>2 DEF HandleQuery, TypeOK, LoopTypeOK, Phases
    <3>5. QueryTypeOK'
      BY <2>2, <3>1, <3>3 DEF TypeOK, QueryTypeOK
    <3>6. RaceTypeOK'
      BY <1>3, <3>2 DEF HandleQuery, TypeOK, RaceTypeOK
    <3>7. PoolTypeOK' /\ SessionTypeOK'
      BY <1>3 DEF HandleQuery, TypeOK, PoolTypeOK, SessionTypeOK, poolVars, sessVars
    <3>8. QED
      BY <3>4, <3>5, <3>6, <3>7 DEF TypeOK
  <2>3. QED
    BY <1>3, <2>1, <2>2 DEF HandleQuery
<1>4. ASSUME NoQueryRead PROVE TypeOK'
  <2>1. LoopTypeOK'
    BY <1>4 DEF NoQueryRead, TypeOK, LoopTypeOK, Phases, loopVars
  <2>2. QueryTypeOK' /\ RaceTypeOK' /\ PoolTypeOK' /\ SessionTypeOK'
    BY <1>4 DEF NoQueryRead, TypeOK, QueryTypeOK, RaceTypeOK, PoolTypeOK,
       SessionTypeOK, queryVars, raceVars, poolVars, sessVars
  <2>3. QED
    BY <2>1, <2>2 DEF TypeOK
<1>5. ASSUME NEW u \in Upstreams, Submit(u) PROVE TypeOK'
  <2>1. LoopTypeOK'
    BY <1>5 DEF Submit, TypeOK, LoopTypeOK, Phases, loopVars
  <2>2. RaceTypeOK'
    BY <1>5 DEF Submit, TypeOK, RaceTypeOK, raceVars
  <2>3. PoolTypeOK'
    <3>0. dispatching \in Queries /\ jobs \in Seq(Queries)
      BY <1>5 DEF Submit, TypeOK, PoolTypeOK, LoopTypeOK
    <3>1. jobs' \in Seq(Queries)
      BY <1>5, <3>0, AppendType DEF Submit
    <3>2. QED
      BY <1>5, <3>1 DEF Submit, TypeOK, PoolTypeOK
  <2>4. QueryTypeOK' /\ SessionTypeOK'
    BY <1>5 DEF Submit, TypeOK, QueryTypeOK, SessionTypeOK, queryVars,
       sessVars
  <2>5. QED
    BY <2>1, <2>2, <2>3, <2>4 DEF TypeOK
<1>6. ASSUME EndDispatch PROVE TypeOK'
  <2>1. LoopTypeOK'
    BY <1>6 DEF EndDispatch, TypeOK, LoopTypeOK, Phases, loopVars
  <2>2. PoolTypeOK'
    <3>1. dispatching \in Queries
      BY <1>6 DEF EndDispatch, TypeOK, LoopTypeOK
    <3>2. [q |-> dispatching, r |-> "unusable"] \in Completion
      BY <3>1 DEF Completion, Results
    <3>3. completions' \in Seq(Completion)
      BY <1>6, <3>2, AppendType DEF EndDispatch, TypeOK, PoolTypeOK
    <3>4. QED
      BY <1>6, <3>3 DEF EndDispatch, poolVars, TypeOK, PoolTypeOK
  <2>3. QueryTypeOK' /\ RaceTypeOK' /\ SessionTypeOK'
    BY <1>6 DEF EndDispatch, TypeOK, QueryTypeOK, RaceTypeOK, SessionTypeOK,
       queryVars, raceVars, sessVars
  <2>4. QED
    BY <2>1, <2>2, <2>3 DEF TypeOK
<1>7. ASSUME NEW c \in Conns, Accept(c) PROVE TypeOK'
  <2>1. LoopTypeOK'
    BY <1>7 DEF Accept, CloseSessions, TypeOK, LoopTypeOK, Phases, loopVars
  <2>2. RaceTypeOK'
    BY <1>7 DEF Accept, CloseSessions, TypeOK, RaceTypeOK, raceVars
  <2>3. SessionTypeOK'
    BY <1>7 DEF Accept, CloseSessions, TypeOK, SessionTypeOK, sessVars
  <2>4. QueryTypeOK' /\ PoolTypeOK'
    BY <1>7 DEF Accept, CloseSessions, TypeOK, QueryTypeOK, PoolTypeOK,
       queryVars, poolVars
  <2>5. QED
    BY <2>1, <2>2, <2>3, <2>4 DEF TypeOK
<1>8. ASSUME NoClient PROVE TypeOK'
  <2>1. LoopTypeOK'
    BY <1>8 DEF NoClient, sessions, TypeOK, LoopTypeOK, Phases, loopVars
  <2>2. QueryTypeOK' /\ RaceTypeOK' /\ PoolTypeOK' /\ SessionTypeOK'
    BY <1>8 DEF NoClient, sessions, TypeOK, QueryTypeOK, RaceTypeOK,
       PoolTypeOK, SessionTypeOK, queryVars, raceVars, poolVars, sessVars
  <2>3. QED
    BY <2>1, <2>2 DEF TypeOK
<1>9. ASSUME NEW c \in Conns, ServeNothing(c) PROVE TypeOK'
  <2>1. LoopTypeOK'
    BY <1>9 DEF ServeNothing, Serve, NothingElseServed, TypeOK, LoopTypeOK,
       Phases, loopVars
  <2>2. QueryTypeOK' /\ RaceTypeOK' /\ PoolTypeOK' /\ SessionTypeOK'
    BY <1>9 DEF ServeNothing, Serve, NothingElseServed, TypeOK, QueryTypeOK,
       RaceTypeOK, PoolTypeOK, SessionTypeOK, queryVars, raceVars, poolVars,
       sessVars
  <2>3. QED
    BY <2>1, <2>2 DEF TypeOK
<1>10. ASSUME NEW c \in Conns, ServeClosed(c) PROVE TypeOK'
  <2>1. LoopTypeOK'
    BY <1>10 DEF ServeClosed, Serve, NothingElseServed, CloseSessions, TypeOK,
       LoopTypeOK, Phases, loopVars
  <2>2. RaceTypeOK'
    BY <1>10 DEF ServeClosed, Serve, NothingElseServed, CloseSessions, TypeOK,
       RaceTypeOK, raceVars
  <2>3. SessionTypeOK'
    BY <1>10 DEF ServeClosed, Serve, NothingElseServed, CloseSessions, TypeOK,
       SessionTypeOK, sessVars
  <2>4. QueryTypeOK' /\ PoolTypeOK'
    BY <1>10 DEF ServeClosed, Serve, NothingElseServed, CloseSessions, TypeOK,
       QueryTypeOK, PoolTypeOK, queryVars, poolVars
  <2>5. QED
    BY <2>1, <2>2, <2>3, <2>4 DEF TypeOK
<1>11. ASSUME NEW c \in Conns, ServeWritten(c) PROVE TypeOK'
  <2>1. /\ toServe' \subseteq Conns /\ out' \in [Conns -> Queries \cup {NoQuery}]
        /\ ServiceTcpSession(c, reader[c]) /\ phase = "serve"
        /\ UNCHANGED <<running, batch, won, poolVars, completions, replies, stop,
                       origin, cancelled, conn>>
    BY <1>11 DEF ServeWritten, Serve, TypeOK, LoopTypeOK, SessionTypeOK
  <2>2. reader[c] \in Seq(Queries \cup {Malformed})
    BY DEF TypeOK, SessionTypeOK
  <2>3. dispatching' \in Queries \cup {NoQuery}
    BY <2>1, <2>2 DEF ServiceTcpSession, BeginDispatch, TypeOK, LoopTypeOK
  <2>4. /\ phase' \in {"serve", "dispatch"} /\ resume' \in {"accept", "serve"}
        /\ phase' = "dispatch" => dispatching' \in Queries
        /\ unsubmitted' \subseteq Upstreams
        /\ total' \in [Queries -> Nat] /\ done' \in [Queries -> Nat]
        /\ pending' \subseteq Queries /\ left' \in [Queries -> Nat]
        /\ busy' \in [Conns -> BOOLEAN]
        /\ race' \in [Conns -> Queries \cup {NoQuery}]
        /\ idle' \in [Conns -> Nat]
        /\ reader' \in [Conns -> Seq(Queries \cup {Malformed})]
    BY <2>1, <2>2, <2>3, ServiceType
  <2>5. LoopTypeOK'
    BY <2>1, <2>3, <2>4 DEF TypeOK, LoopTypeOK, Phases
  <2>6. QueryTypeOK'
    BY <2>1, <2>4 DEF TypeOK, QueryTypeOK
  <2>7. RaceTypeOK'
    BY <2>1, <2>4 DEF TypeOK, RaceTypeOK
  <2>8. PoolTypeOK'
    BY <2>1 DEF poolVars, TypeOK, PoolTypeOK
  <2>9. SessionTypeOK'
    BY <2>1, <2>4 DEF TypeOK, SessionTypeOK
  <2>10. QED
    BY <2>5, <2>6, <2>7, <2>8, <2>9 DEF TypeOK
<1>12. ASSUME NEW c \in Conns, ServeFragment(c) PROVE TypeOK'
  <2>1. /\ toServe' \subseteq Conns /\ out' \in [Conns -> Queries \cup {NoQuery}]
        /\ ServiceTcpSession(c, reader[c]) /\ phase = "serve"
        /\ UNCHANGED <<running, batch, won, poolVars, completions, replies, stop,
                       origin, cancelled, conn>>
    BY <1>12 DEF ServeFragment, Serve, TypeOK, LoopTypeOK, SessionTypeOK
  <2>2. reader[c] \in Seq(Queries \cup {Malformed})
    BY DEF TypeOK, SessionTypeOK
  <2>3. dispatching' \in Queries \cup {NoQuery}
    BY <2>1, <2>2 DEF ServiceTcpSession, BeginDispatch, TypeOK, LoopTypeOK
  <2>4. /\ phase' \in {"serve", "dispatch"} /\ resume' \in {"accept", "serve"}
        /\ phase' = "dispatch" => dispatching' \in Queries
        /\ unsubmitted' \subseteq Upstreams
        /\ total' \in [Queries -> Nat] /\ done' \in [Queries -> Nat]
        /\ pending' \subseteq Queries /\ left' \in [Queries -> Nat]
        /\ busy' \in [Conns -> BOOLEAN]
        /\ race' \in [Conns -> Queries \cup {NoQuery}]
        /\ idle' \in [Conns -> Nat]
        /\ reader' \in [Conns -> Seq(Queries \cup {Malformed})]
    BY <2>1, <2>2, <2>3, ServiceType
  <2>5. LoopTypeOK'
    BY <2>1, <2>3, <2>4 DEF TypeOK, LoopTypeOK, Phases
  <2>6. QueryTypeOK'
    BY <2>1, <2>4 DEF TypeOK, QueryTypeOK
  <2>7. RaceTypeOK'
    BY <2>1, <2>4 DEF TypeOK, RaceTypeOK
  <2>8. PoolTypeOK'
    BY <2>1 DEF poolVars, TypeOK, PoolTypeOK
  <2>9. SessionTypeOK'
    BY <2>1, <2>4 DEF TypeOK, SessionTypeOK
  <2>10. QED
    BY <2>5, <2>6, <2>7, <2>8, <2>9 DEF TypeOK
<1>13. ASSUME NEW c \in Conns, NEW m \in Queries \cup {Malformed}, ServeMessage(c, m) PROVE TypeOK'
  <2>1. /\ toServe' \subseteq Conns
        /\ ServiceTcpSession(c, Append(reader[c], m)) /\ phase = "serve"
        /\ UNCHANGED <<running, batch, won, poolVars, completions, replies, stop,
                       cancelled, conn, out>>
    BY <1>13 DEF ServeMessage, Serve, TypeOK, LoopTypeOK
  <2>0. origin' \in [Queries -> Conns \cup {Udp, NoQuery}]
    BY <1>13 DEF ServeMessage, TypeOK, QueryTypeOK
  <2>2. Append(reader[c], m) \in Seq(Queries \cup {Malformed})
    BY DEF TypeOK, SessionTypeOK
  <2>3. dispatching' \in Queries \cup {NoQuery}
    BY <2>1, <2>2 DEF ServiceTcpSession, BeginDispatch, TypeOK, LoopTypeOK
  <2>4. /\ phase' \in {"serve", "dispatch"} /\ resume' \in {"accept", "serve"}
        /\ phase' = "dispatch" => dispatching' \in Queries
        /\ unsubmitted' \subseteq Upstreams
        /\ total' \in [Queries -> Nat] /\ done' \in [Queries -> Nat]
        /\ pending' \subseteq Queries /\ left' \in [Queries -> Nat]
        /\ busy' \in [Conns -> BOOLEAN]
        /\ race' \in [Conns -> Queries \cup {NoQuery}]
        /\ idle' \in [Conns -> Nat]
        /\ reader' \in [Conns -> Seq(Queries \cup {Malformed})]
    BY <2>1, <2>2, <2>3, ServiceType
  <2>5. LoopTypeOK'
    BY <2>1, <2>3, <2>4 DEF TypeOK, LoopTypeOK, Phases
  <2>6. QueryTypeOK'
    BY <2>0, <2>1, <2>4 DEF TypeOK, QueryTypeOK
  <2>7. RaceTypeOK'
    BY <2>1, <2>4 DEF TypeOK, RaceTypeOK
  <2>8. PoolTypeOK'
    BY <2>1 DEF poolVars, TypeOK, PoolTypeOK
  <2>9. SessionTypeOK'
    BY <2>1, <2>4 DEF TypeOK, SessionTypeOK
  <2>10. QED
    BY <2>5, <2>6, <2>7, <2>8, <2>9 DEF TypeOK
<1>14. ASSUME ServedAll PROVE TypeOK'
  <2>1. LoopTypeOK'
    BY <1>14 DEF ServedAll, TypeOK, LoopTypeOK, Phases, loopVars
  <2>2. QueryTypeOK' /\ RaceTypeOK' /\ PoolTypeOK' /\ SessionTypeOK'
    BY <1>14 DEF ServedAll, TypeOK, QueryTypeOK, RaceTypeOK, PoolTypeOK,
       SessionTypeOK, queryVars, raceVars, poolVars, sessVars
  <2>3. QED
    BY <2>1, <2>2 DEF TypeOK
<1>15. ASSUME Drain PROVE TypeOK'
  <2>1. LoopTypeOK'
    BY <1>15 DEF Drain, TypeOK, LoopTypeOK, Phases, loopVars, PoolTypeOK
  <2>2. PoolTypeOK'
    BY <1>15 DEF Drain, TypeOK, PoolTypeOK, WorkerStates, poolVars
  <2>3. QueryTypeOK' /\ RaceTypeOK' /\ SessionTypeOK'
    BY <1>15 DEF Drain, TypeOK, QueryTypeOK, RaceTypeOK, SessionTypeOK,
       queryVars, raceVars, sessVars
  <2>4. QED
    BY <2>1, <2>2, <2>3 DEF TypeOK
<1>16. ASSUME Collect PROVE TypeOK'
  <2> DEFINE q == Head(batch).q
             r == Head(batch).r
  <2>1. Head(batch) \in Completion /\ batch' \in Seq(Completion)
    BY <1>16, TailType DEF Collect, TypeOK, LoopTypeOK
  <2>2. q \in Queries
    BY <2>1 DEF Completion
  <2>3. LoopTypeOK'
    BY <1>16, <2>1 DEF Collect, TypeOK, LoopTypeOK
  <2>4. PoolTypeOK'
    BY <1>16 DEF Collect, poolVars, TypeOK, PoolTypeOK
  <2>5. cancelled' \in [Queries -> BOOLEAN]
    BY <1>16 DEF Collect, CancelLosers, TypeOK, RaceTypeOK
  <2>6. CASE UNCHANGED <<pending, left, won, replies, busy, race, out, idle>>
    <3>1. QueryTypeOK'
      BY <1>16, <2>6 DEF Collect, TypeOK, QueryTypeOK
    <3>2. RaceTypeOK'
      BY <1>16, <2>5, <2>6 DEF Collect, TypeOK, RaceTypeOK
    <3>3. SessionTypeOK'
      BY <1>16, <2>6 DEF Collect, TypeOK, SessionTypeOK
    <3>4. QED
      BY <2>3, <2>4, <3>1, <3>2, <3>3 DEF TypeOK
  <2>7. ASSUME NEW what \in Answers, Deliver({q}, what) PROVE TypeOK'
    <3>1. /\ pending' \subseteq Queries /\ left' \in [Queries -> Nat]
          /\ won' \in [Queries -> BOOLEAN]
          /\ replies' \in [Queries -> Seq(Answers)]
          /\ busy' \in [Conns -> BOOLEAN]
          /\ race' \in [Conns -> Queries \cup {NoQuery}]
          /\ out' \in [Conns -> Queries \cup {NoQuery}]
          /\ idle' \in [Conns -> Nat]
      <4> HIDE DEF q
      <4> QED
        BY <2>2, <2>7, DeliverType
    <3>2. QueryTypeOK'
      BY <1>16, <3>1 DEF Collect, TypeOK, QueryTypeOK
    <3>3. RaceTypeOK'
      BY <1>16, <2>5, <3>1 DEF Collect, TypeOK, RaceTypeOK
    <3>4. SessionTypeOK'
      BY <1>16, <3>1 DEF Collect, TypeOK, SessionTypeOK
    <3>5. QED
      BY <2>3, <2>4, <3>2, <3>3, <3>4 DEF TypeOK
  <2>8. \/ Deliver({q}, "answer") \/ Deliver({q}, "servfail")
        \/ UNCHANGED <<pending, left, won, replies, busy, race, out, idle>>
    BY <1>16 DEF Collect
  <2>9. QED
    BY <2>6, <2>7, <2>8 DEF Answers
<1>17. ASSUME Collected PROVE TypeOK'
  <2>1. LoopTypeOK'
    BY <1>17 DEF Collected, TypeOK, LoopTypeOK, Phases, loopVars
  <2>2. QueryTypeOK' /\ RaceTypeOK' /\ PoolTypeOK' /\ SessionTypeOK'
    BY <1>17 DEF Collected, TypeOK, QueryTypeOK, RaceTypeOK, PoolTypeOK,
       SessionTypeOK, queryVars, raceVars, poolVars, sessVars
  <2>3. QED
    BY <2>1, <2>2 DEF TypeOK
<1>18. ASSUME ExpireQueries PROVE TypeOK'
  <2>1. DueQueries \in SUBSET Queries
    BY DEF DueQueries, TypeOK, QueryTypeOK
  <2>2. /\ pending' \subseteq Queries /\ left' \in [Queries -> Nat]
        /\ won' \in [Queries -> BOOLEAN]
        /\ replies' \in [Queries -> Seq(Answers)]
        /\ busy' \in [Conns -> BOOLEAN]
        /\ race' \in [Conns -> Queries \cup {NoQuery}]
        /\ out' \in [Conns -> Queries \cup {NoQuery}]
        /\ idle' \in [Conns -> Nat]
    BY <1>18, <2>1, DeliverType DEF ExpireQueries, Answers
  <2>3. LoopTypeOK'
    BY <1>18 DEF ExpireQueries, TypeOK, LoopTypeOK, Phases
  <2>4. PoolTypeOK'
    BY <1>18 DEF ExpireQueries, poolVars, TypeOK, PoolTypeOK
  <2>5. RaceTypeOK'
    BY <1>18, <2>2 DEF ExpireQueries, TypeOK, RaceTypeOK
  <2>6. QueryTypeOK' /\ SessionTypeOK'
    BY <1>18, <2>2 DEF ExpireQueries, TypeOK, QueryTypeOK, SessionTypeOK
  <2>7. QED
    BY <2>3, <2>4, <2>5, <2>6 DEF TypeOK
<1>19. ASSUME ExpireTcpSessions PROVE TypeOK'
  <2>1. LoopTypeOK'
    BY <1>19 DEF ExpireTcpSessions, CloseSessions, TypeOK, LoopTypeOK, Phases,
       loopVars
  <2>2. RaceTypeOK'
    BY <1>19 DEF ExpireTcpSessions, CloseSessions, TypeOK, RaceTypeOK,
       raceVars
  <2>3. SessionTypeOK'
    BY <1>19 DEF ExpireTcpSessions, CloseSessions, TypeOK, SessionTypeOK,
       sessVars
  <2>4. QueryTypeOK' /\ PoolTypeOK'
    BY <1>19 DEF ExpireTcpSessions, CloseSessions, TypeOK, QueryTypeOK,
       PoolTypeOK, queryVars, poolVars
  <2>5. QED
    BY <2>1, <2>2, <2>3, <2>4 DEF TypeOK
<1>20. ASSUME NEW w \in Workers, Take(w) PROVE TypeOK'
  <2>1. PoolTypeOK'
    BY <1>20 DEF Take, OnlyPool, TypeOK, PoolTypeOK, WorkerStates, poolVars
  <2>2. LoopTypeOK' /\ QueryTypeOK' /\ RaceTypeOK' /\ SessionTypeOK'
    BY <1>20 DEF Take, OnlyPool, TypeOK, LoopTypeOK, QueryTypeOK, RaceTypeOK,
       SessionTypeOK, loopVars, queryVars, raceVars, sessVars
  <2>3. QED
    BY <2>1, <2>2 DEF TypeOK
<1>21. ASSUME NEW w \in Workers, Ask(w) PROVE TypeOK'
  <2>1. PoolTypeOK'
    BY <1>21 DEF Ask, OnlyPool, TypeOK, PoolTypeOK, WorkerStates, poolVars,
       Results
  <2>2. LoopTypeOK' /\ QueryTypeOK' /\ RaceTypeOK' /\ SessionTypeOK'
    BY <1>21 DEF Ask, OnlyPool, TypeOK, LoopTypeOK, QueryTypeOK, RaceTypeOK,
       SessionTypeOK, loopVars, queryVars, raceVars, sessVars
  <2>3. QED
    BY <2>1, <2>2 DEF TypeOK
<1>22. ASSUME NEW w \in Workers, NEW r \in Results, QueryUpstream(w, r) PROVE TypeOK'
  <2>1. PoolTypeOK'
    BY <1>22 DEF QueryUpstream, OnlyPool, TypeOK, PoolTypeOK, WorkerStates,
       poolVars, Results
  <2>2. LoopTypeOK' /\ QueryTypeOK' /\ RaceTypeOK' /\ SessionTypeOK'
    BY <1>22 DEF QueryUpstream, OnlyPool, TypeOK, LoopTypeOK, QueryTypeOK,
       RaceTypeOK, SessionTypeOK, loopVars, queryVars, raceVars, sessVars
  <2>3. QED
    BY <2>1, <2>2 DEF TypeOK
<1>23. ASSUME NEW w \in Workers, Count(w) PROVE TypeOK'
  <2>1. RaceTypeOK'
    <3>1. job[w] \in Queries
      BY <1>23 DEF Count, TypeOK, PoolTypeOK
    <3>2. done' \in [Queries -> Nat]
      BY <1>23, <3>1 DEF Count, TypeOK, RaceTypeOK
    <3>3. QED
      BY <1>23, <3>2 DEF Count, OnlyPool, TypeOK, RaceTypeOK
  <2>2. PoolTypeOK'
    BY <1>23 DEF Count, OnlyPool, TypeOK, PoolTypeOK, WorkerStates, poolVars
  <2>3. LoopTypeOK' /\ QueryTypeOK' /\ SessionTypeOK'
    BY <1>23 DEF Count, OnlyPool, TypeOK, LoopTypeOK, QueryTypeOK,
       SessionTypeOK, loopVars, queryVars, sessVars
  <2>4. QED
    BY <2>1, <2>2, <2>3 DEF TypeOK
<1>24. ASSUME NEW w \in Workers, Post(w) PROVE TypeOK'
  <2>1. PoolTypeOK'
    <3>1. job[w] \in Queries
      BY <1>24 DEF Post, TypeOK, PoolTypeOK
    <3>2. [q |-> job[w], r |-> result[w]] \in Completion
      BY <3>1 DEF Completion, TypeOK, PoolTypeOK
    <3>3. completions' \in Seq(Completion)
      BY <1>24, <3>2, AppendType DEF Post, TypeOK, PoolTypeOK
    <3>4. QED
      BY <1>24, <3>3 DEF Post, OnlyPool, TypeOK, PoolTypeOK, WorkerStates, Results
  <2>2. LoopTypeOK' /\ QueryTypeOK' /\ RaceTypeOK' /\ SessionTypeOK'
    BY <1>24 DEF Post, OnlyPool, TypeOK, LoopTypeOK, QueryTypeOK, RaceTypeOK,
       SessionTypeOK, loopVars, queryVars, raceVars, sessVars
  <2>3. QED
    BY <2>1, <2>2 DEF TypeOK
<1>25. ASSUME NEW w \in Workers, Exit(w) PROVE TypeOK'
  <2>1. PoolTypeOK'
    BY <1>25 DEF Exit, OnlyPool, TypeOK, PoolTypeOK, WorkerStates, poolVars
  <2>2. LoopTypeOK' /\ QueryTypeOK' /\ RaceTypeOK' /\ SessionTypeOK'
    BY <1>25 DEF Exit, OnlyPool, TypeOK, LoopTypeOK, QueryTypeOK, RaceTypeOK,
       SessionTypeOK, loopVars, queryVars, raceVars, sessVars
  <2>3. QED
    BY <2>1, <2>2 DEF TypeOK
<1>26. ASSUME StopRequest PROVE TypeOK'
  <2>1. LoopTypeOK'
    BY <1>26 DEF StopRequest, TypeOK, LoopTypeOK, Phases, loopVars, StopStates
  <2>2. QueryTypeOK' /\ RaceTypeOK' /\ PoolTypeOK' /\ SessionTypeOK'
    BY <1>26 DEF StopRequest, TypeOK, QueryTypeOK, RaceTypeOK, PoolTypeOK,
       SessionTypeOK, queryVars, raceVars, poolVars, sessVars
  <2>3. QED
    BY <2>1, <2>2 DEF TypeOK
<1>27. ASSUME StopCancel PROVE TypeOK'
  <2>1. LoopTypeOK'
    BY <1>27 DEF StopCancel, TypeOK, LoopTypeOK, Phases, loopVars, StopStates
  <2>2. RaceTypeOK'
    BY <1>27 DEF StopCancel, TypeOK, RaceTypeOK, raceVars
  <2>3. QueryTypeOK' /\ PoolTypeOK' /\ SessionTypeOK'
    BY <1>27 DEF StopCancel, TypeOK, QueryTypeOK, PoolTypeOK, SessionTypeOK,
       queryVars, poolVars, sessVars
  <2>4. QED
    BY <2>1, <2>2, <2>3 DEF TypeOK
<1>28. ASSUME Shutdown PROVE TypeOK'
  <2>1. LoopTypeOK'
    BY <1>28 DEF Shutdown, TypeOK, LoopTypeOK, Phases, loopVars, StopStates
  <2>2. PoolTypeOK'
    BY <1>28 DEF Shutdown, TypeOK, PoolTypeOK, WorkerStates, poolVars
  <2>3. QueryTypeOK' /\ RaceTypeOK' /\ SessionTypeOK'
    BY <1>28 DEF Shutdown, TypeOK, QueryTypeOK, RaceTypeOK, SessionTypeOK,
       queryVars, raceVars, sessVars
  <2>4. QED
    BY <2>1, <2>2, <2>3 DEF TypeOK
<1>29. ASSUME StopFree PROVE TypeOK'
  <2>1. LoopTypeOK'
    BY <1>29 DEF StopFree, TypeOK, LoopTypeOK, Phases, loopVars, StopStates
  <2>2. QueryTypeOK'
    BY <1>29 DEF StopFree, TypeOK, QueryTypeOK, Answers, queryVars
  <2>3. PoolTypeOK'
    BY <1>29 DEF StopFree, TypeOK, PoolTypeOK, WorkerStates, poolVars
  <2>4. SessionTypeOK'
    BY <1>29 DEF StopFree, TypeOK, SessionTypeOK, sessVars
  <2>5. RaceTypeOK'
    BY <1>29 DEF StopFree, TypeOK, RaceTypeOK, raceVars
  <2>6. QED
    BY <2>1, <2>2, <2>3, <2>4, <2>5 DEF TypeOK
<1>30. ASSUME Tick PROVE TypeOK'
  <2>1. QueryTypeOK'
    BY <1>30 DEF Tick, TypeOK, QueryTypeOK, Answers, queryVars
  <2>2. SessionTypeOK'
    BY <1>30 DEF Tick, TypeOK, SessionTypeOK, sessVars
  <2>3. LoopTypeOK' /\ RaceTypeOK' /\ PoolTypeOK'
    BY <1>30 DEF Tick, TypeOK, LoopTypeOK, RaceTypeOK, PoolTypeOK, loopVars,
       raceVars, poolVars
  <2>4. QED
    BY <2>1, <2>2, <2>3 DEF TypeOK
<1>31. CASE UNCHANGED vars
  BY <1>31 DEF vars, TypeOK, LoopTypeOK, QueryTypeOK, RaceTypeOK, PoolTypeOK, SessionTypeOK, loopVars, queryVars, raceVars, poolVars, sessVars
<1>32. QED
  BY <1>1, <1>2, <1>3, <1>4, <1>5, <1>6, <1>7, <1>8, <1>9, <1>10, <1>11,
     <1>12, <1>13, <1>14, <1>15, <1>16, <1>17, <1>18, <1>19, <1>20, <1>21,
     <1>22, <1>23, <1>24, <1>25, <1>26, <1>27, <1>28, <1>29, <1>30, <1>31
  DEF Next, Loop, Intake, ServeTcp, Harvest, Worker, Stop

\* Every variable keeps its type, and a worker that works has a query to work
\* for, whatever the numbers of clients, upstreams and threads are.
THEOREM TypeCorrect == Spec => []TypeOK
<1>1. Init => TypeOK
  BY TypeInit
<1>2. TypeOK /\ [Next]_vars => TypeOK'
  BY TypeStep
<1>3. QED
  BY <1>1, <1>2, PTL DEF Spec

-----------------------------------------------------------------------------
(***************************************************************************)
(* Custody: a query is in one place at a time, a connection is served one  *)
(* query and written one response at a time, and no client is answered     *)
(* twice                                                                   *)
(***************************************************************************)

\* What Custody speaks of, apart from where the loop and Stop() are.
held == <<pending, origin, replies, won, conn, busy, race, out, reader>>

LEMMA AppendLength ==
  ASSUME NEW S, NEW s \in Seq(S), NEW x \in S
  PROVE  Append(s, x) # <<>> /\ Len(Append(s, x)) = Len(s) + 1
<1>1. Len(Append(s, x)) = Len(s) + 1 /\ Len(s) \in Nat
  OBVIOUS
<1> QED
  BY <1>1

LEMMA CustodyInit == Init => Custody
<1> SUFFICES ASSUME Init PROVE Custody
  OBVIOUS
<1> USE DnsProxyAssumption DEF Init
<1>1. ServesTheList /\ StopsAfterLoop /\ UnreadUntouched /\ PendingUndecided
  BY DEF ServesTheList, StopsAfterLoop, UnreadUntouched, PendingUndecided
<1>2. SenderOpened
  BY DEF SenderOpened
<1>3. ReaderUnregistered /\ GoneHoldsNothing /\ WritesBeforeAsking
  BY DEF ReaderUnregistered, GoneHoldsNothing, WritesBeforeAsking
<1>4. OneQueryPerConnection /\ AnsweredOnce /\ Accounted
  BY DEF OneQueryPerConnection, AnsweredOnce, Accounted
<1>5. QED
  BY <1>1, <1>2, <1>3, <1>4 DEF Custody

\* A step that only moves the loop, or Stop(), on.
LEMMA CustodyMoves ==
  ASSUME Custody, UNCHANGED held, ServesTheList', StopsAfterLoop',
         stop = "freed" => stop' = "freed"
  PROVE  Custody'
<1>1. sessions' = sessions
  BY DEF held, sessions
<1>2. /\ UnreadUntouched' /\ SenderOpened' /\ PendingUndecided'
      /\ ReaderUnregistered' /\ GoneHoldsNothing' /\ WritesBeforeAsking'
  BY DEF held, Custody, UnreadUntouched, SenderOpened, PendingUndecided,
     ReaderUnregistered, GoneHoldsNothing, WritesBeforeAsking
<1>3. OneQueryPerConnection' /\ AnsweredOnce' /\ Accounted'
  BY <1>1 DEF held, Custody, OneQueryPerConnection, AnsweredOnce, Accounted
<1>4. QED
  BY <1>2, <1>3 DEF Custody

\* Sessions D leave the list; a new connection may join it.
LEMMA CustodyCloses ==
  ASSUME TypeOK, Custody, NEW D \in SUBSET sessions, CloseSessions(D),
         UNCHANGED <<pending, origin, replies, won, stop>>,
         conn' \in [Conns -> {"new", "open", "closed"}],
         \A c \in D : conn'[c] = "closed",
         \A c \in sessions \ D : conn'[c] = "open",
         \A c \in Conns \ sessions : conn[c] = "closed" => conn'[c] = "closed",
         ServesTheList', StopsAfterLoop'
  PROVE  Custody'
<1> USE DEF Custody, CloseSessions
<1>1. /\ sessions \ D \subseteq sessions'
      /\ \A c \in D : c \notin sessions'
      /\ \A c \in sessions' : c \notin sessions => conn[c] = "new"
  BY DEF sessions, TypeOK, SessionTypeOK
<1>2. \A c \in Conns : /\ busy'[c] <=> busy[c] /\ c \notin D
                       /\ race'[c] = IF c \in D THEN NoQuery ELSE race[c]
                       /\ out'[c] = IF c \in D THEN NoQuery ELSE out[c]
                       /\ reader'[c] = IF c \in D THEN <<>> ELSE reader[c]
  OBVIOUS
<1>3. UnreadUntouched' /\ PendingUndecided' /\ AnsweredOnce'
  BY DEF UnreadUntouched, PendingUndecided, AnsweredOnce
<1>4. SenderOpened'
  BY DEF SenderOpened, sessions, TypeOK, SessionTypeOK
<1>5. ReaderUnregistered'
  BY <1>2 DEF ReaderUnregistered
<1>6. GoneHoldsNothing' /\ WritesBeforeAsking'
  BY <1>1, <1>2 DEF GoneHoldsNothing, WritesBeforeAsking, sessions
<1>7. OneQueryPerConnection'
  <2>1. \A q \in pending : origin[q] \in sessions' => origin[q] \in sessions \ D
    BY <1>1 DEF SenderOpened, sessions, TypeOK, QueryTypeOK
  <2>2. QED
    BY <1>2, <2>1 DEF OneQueryPerConnection, sessions
<1>8. Accounted'
  <2>1. \A q \in Queries : origin[q] \in sessions' =>
          origin[q] = NoQuery \/ origin[q] \in sessions \ D
    BY <1>1 DEF SenderOpened, sessions
  <2>2. QED
    BY <1>2, <2>1 DEF Accounted, sessions
<1>9. QED
  BY <1>3, <1>4, <1>5, <1>6, <1>7, <1>8

\* The queries of D are decided: each client that is still there is answered.
LEMMA CustodyDelivers ==
  ASSUME TypeOK, Custody, NEW D \in SUBSET pending, NEW what \in Answers,
         Deliver(D, what), UNCHANGED <<origin, conn, reader, stop>>,
         ServesTheList', StopsAfterLoop'
  PROVE  Custody'
<1> USE DEF Custody
<1>1. sessions' = sessions /\ pending' = pending \ D /\ D \subseteq Queries
  BY DEF sessions, Deliver, TypeOK, QueryTypeOK
<1>2. \A q \in D : origin[q] \in sessions =>
        race[origin[q]] = q /\ busy[origin[q]] /\ out[origin[q]] = NoQuery
  BY <1>1, DnsProxyAssumption
  DEF OneQueryPerConnection, WritesBeforeAsking, sessions
<1>3. \A c \in Conns : c \in Released(D) <=> \E q \in D : origin[q] = c /\ c \in sessions
  BY DEF Released
<1>4. \A c \in Conns :
        /\ busy'[c] <=> busy[c] /\ c \notin Released(D)
        /\ race'[c] = IF c \in Released(D) THEN NoQuery ELSE race[c]
  BY DEF Deliver
<1>5. \A q \in Queries :
        replies'[q] = IF q \in D /\ Reachable(q) THEN Append(replies[q], what)
                                                 ELSE replies[q]
  BY <1>1 DEF Deliver, PendingUndecided
<1>6. \A q \in Queries : won'[q] <=> won[q] \/ q \in D
  BY DEF Deliver
<1>7. \A c \in Conns : out'[c] = out[c] \/ c \in Released(D)
  <2>1. \A c \in Conns : out'[c] # out[c] =>
          \E q \in D : ~won[q] /\ Reachable(q) /\ origin[q] = c
    BY DEF Deliver
  <2>2. QED
    BY <1>3, <2>1, DnsProxyAssumption DEF Reachable
<1>8. UnreadUntouched'
  BY <1>1, <1>5, <1>6 DEF UnreadUntouched, PendingUndecided
<1>9. SenderOpened' /\ PendingUndecided'
  <2>1. SenderOpened'
    BY DEF SenderOpened
  <2>2. ASSUME NEW q \in pending'
        PROVE  origin'[q] # NoQuery /\ replies'[q] = <<>> /\ ~won'[q]
    BY <1>1, <1>5, <1>6, <2>2 DEF PendingUndecided, TypeOK, QueryTypeOK
  <2>3. QED
    BY <2>1, <2>2 DEF PendingUndecided
<1>10. ReaderUnregistered'
  <2> SUFFICES ASSUME NEW c \in Conns, NEW i \in 1..Len(reader[c]),
                      reader[c][i] # Malformed
               PROVE  /\ replies'[reader[c][i]] = <<>> /\ ~won'[reader[c][i]]
                      /\ reader[c][i] \notin pending'
    BY DEF ReaderUnregistered
  <2>1. reader[c] \in Seq(Queries \cup {Malformed})
    BY DEF TypeOK, SessionTypeOK
  <2>2. reader[c][i] \in Queries \ D
    BY <2>1 DEF ReaderUnregistered
  <2>3. QED
    BY <1>1, <1>5, <1>6, <2>2 DEF ReaderUnregistered
<1>11. GoneHoldsNothing'
  BY <1>3, <1>4, <1>7 DEF GoneHoldsNothing, sessions
<1>12. WritesBeforeAsking'
  BY <1>4, <1>7 DEF WritesBeforeAsking
<1>13. OneQueryPerConnection'
  BY <1>1, <1>2, <1>3, <1>4 DEF OneQueryPerConnection, GoneHoldsNothing, sessions
<1>14. AnsweredOnce'
  <2>1. ASSUME NEW q \in Queries PROVE Len(replies'[q]) <= 1
    <3>1. CASE q \in D /\ Reachable(q)
      <4>1. replies[q] = <<>> /\ replies'[q] = Append(replies[q], what)
        BY <1>5, <3>1 DEF PendingUndecided
      <4>2. QED
        BY <4>1, AppendLength, EmptyType
    <3>2. CASE ~(q \in D /\ Reachable(q))
      BY <1>5, <3>2 DEF AnsweredOnce
    <3>3. QED
      BY <3>1, <3>2
  <2>2. QED
    BY <2>1 DEF AnsweredOnce
<1>15. Accounted'
  <2>1. ASSUME NEW q \in D, Reachable(q) PROVE replies'[q] # <<>>
    <3>1. replies[q] \in Seq(Answers) /\ replies'[q] = Append(replies[q], what)
      BY <1>1, <1>5, <2>1 DEF TypeOK, QueryTypeOK
    <3>2. QED
      BY <3>1, AppendLength
  <2>2. ASSUME NEW q \in D, ~Reachable(q)
        PROVE  origin[q] = NoQuery \/ (origin[q] \in Conns /\ origin[q] \notin sessions)
    BY <1>1, <2>2 DEF Reachable, TypeOK, QueryTypeOK
  <2>3. \A q \in Queries \ D : replies'[q] = replies[q]
    BY <1>5
  <2>4. QED
    BY <1>1, <2>1, <2>2, <2>3 DEF Accounted
<1>16. QED
  BY <1>8, <1>9, <1>10, <1>11, <1>12, <1>13, <1>14, <1>15

\* The session of c, whose reader holds ms, is served. What is new in ms, if
\* anything, is a query c has just sent.
LEMMA CustodyServes ==
  ASSUME TypeOK, Custody, NEW c \in sessions,
         NEW ms \in Seq(Queries \cup {Malformed}),
         phase = "serve", c \in toServe, toServe' = toServe \ {c},
         ServiceTcpSession(c, ms),
         UNCHANGED <<replies, won, conn, stop>>,
         origin' \in [Queries -> Conns \cup {Udp, NoQuery}],
         out' = [out EXCEPT ![c] = NoQuery],
         \A q \in Queries :
           \/ origin'[q] = origin[q]
           \/ /\ origin[q] = NoQuery /\ origin'[q] = c
              /\ \E j \in 1..Len(ms) : ms[j] = q,
         \A i \in 1..Len(reader[c]) : \E j \in 1..Len(ms) : ms[j] = reader[c][i],
         \A i \in 1..Len(ms) : ms[i] # Malformed =>
           /\ origin'[ms[i]] = c /\ replies[ms[i]] = <<>>
           /\ ms[i] \notin pending /\ ~won[ms[i]]
           /\ \A j \in 1..Len(ms) : ms[j] = ms[i] => j = i
  PROVE  Custody'
<1> USE DEF Custody
<1>1. sessions' = sessions /\ c \in Conns /\ conn[c] = "open"
  BY DEF sessions
<1>2. \A q \in pending : origin'[q] = origin[q] /\ origin[q] # NoQuery
  BY DEF PendingUndecided, TypeOK, QueryTypeOK
<1>3. \A d \in Conns \ {c} : \A i \in 1..Len(reader[d]) :
        reader[d][i] # Malformed => origin'[reader[d][i]] = d
  <2> SUFFICES ASSUME NEW d \in Conns \ {c}, NEW i \in 1..Len(reader[d]),
                      reader[d][i] # Malformed
               PROVE  origin'[reader[d][i]] = d
    OBVIOUS
  <2>1. origin[reader[d][i]] = d
    BY DEF ReaderUnregistered
  <2>2. reader[d][i] \in Queries
    <3>1. reader[d] \in Seq(Queries \cup {Malformed})
      BY DEF TypeOK, SessionTypeOK
    <3>2. QED
      BY <3>1
  <2>3. QED
    BY <2>1, <2>2, DnsProxyAssumption
<1>4. SenderOpened' /\ UnreadUntouched' /\ AnsweredOnce'
  <2>1. SenderOpened'
    BY <1>1 DEF SenderOpened
  <2>2. UnreadUntouched' /\ AnsweredOnce'
    BY DnsProxyAssumption DEF UnreadUntouched, AnsweredOnce
  <2>3. QED
    BY <2>1, <2>2
<1>5. \A d \in Conns : out'[d] = IF d = c THEN NoQuery ELSE out[d]
  BY DEF TypeOK, SessionTypeOK
<1>6. StopsAfterLoop' /\ ServesTheList'
  <2>1. phase' \in {"serve", "dispatch"} /\ (phase' = "dispatch" => resume' = "serve")
    BY DEF ServiceTcpSession, BeginDispatch
  <2>2. StopsAfterLoop'
    BY DEF StopsAfterLoop
  <2>3. ServesTheList'
    BY <1>1, <2>1 DEF ServesTheList
  <2>4. QED
    BY <2>2, <2>3
<1>7. CASE /\ busy[c] \/ \A i \in 1..Len(ms) : ms[i] = Malformed
           /\ reader' = [reader EXCEPT ![c] = IF busy[c] THEN ms ELSE <<>>]
           /\ UNCHANGED <<busy, race, pending>>
  <2>1. \A d \in Conns : reader'[d] = IF d = c THEN (IF busy[c] THEN ms ELSE <<>>)
                                               ELSE reader[d]
    BY <1>7 DEF TypeOK, SessionTypeOK
  <2>2. PendingUndecided'
    BY <1>2, <1>7 DEF PendingUndecided
  <2>3. ReaderUnregistered'
    BY <1>3, <1>7, <2>1 DEF ReaderUnregistered
  <2>4. GoneHoldsNothing' /\ WritesBeforeAsking'
    BY <1>1, <1>5, <1>7, <2>1 DEF GoneHoldsNothing, WritesBeforeAsking
  <2>5. OneQueryPerConnection'
    BY <1>1, <1>2, <1>7 DEF OneQueryPerConnection
  <2>6. Accounted'
    <3> SUFFICES ASSUME NEW q \in Queries, origin'[q] # NoQuery, q \notin pending,
                        replies[q] = <<>>, stop # "freed"
                 PROVE  /\ origin'[q] \in Conns
                        /\ \/ origin'[q] \notin sessions
                           \/ \E i \in 1..Len(reader'[origin'[q]]) :
                                reader'[origin'[q]][i] = q
      BY <1>1, <1>7 DEF Accounted
    <3>1. CASE origin'[q] = c
      <4>1. \E j \in 1..Len(ms) : ms[j] = q
        BY <1>1, <1>7, <3>1 DEF Accounted
      <4>2. busy[c]
        BY <1>7, <4>1, DnsProxyAssumption
      <4>3. QED
        BY <1>1, <2>1, <3>1, <4>1, <4>2
    <3>2. CASE origin'[q] # c
      BY <2>1, <3>2 DEF Accounted, sessions
    <3>3. QED
      BY <3>1, <3>2
  <2>7. QED
    BY <1>4, <1>6, <2>2, <2>3, <2>4, <2>5, <2>6
<1>8. CASE /\ ~busy[c]
           /\ \E i \in 1..Len(ms) :
                /\ ms[i] # Malformed
                /\ \A j \in 1..(i - 1) : ms[j] = Malformed
                /\ reader' = [reader EXCEPT ![c] = Rest(ms, i)]
                /\ busy' = [busy EXCEPT ![c] = TRUE]
                /\ race' = [race EXCEPT ![c] = ms[i]]
                /\ Register(ms[i])
  <2>1. PICK i \in 1..Len(ms) :
                /\ ms[i] # Malformed
                /\ \A j \in 1..(i - 1) : ms[j] = Malformed
                /\ reader' = [reader EXCEPT ![c] = Rest(ms, i)]
                /\ busy' = [busy EXCEPT ![c] = TRUE]
                /\ race' = [race EXCEPT ![c] = ms[i]]
                /\ Register(ms[i])
    BY <1>8
  <2>2. /\ ms[i] \in Queries /\ origin'[ms[i]] = c /\ replies[ms[i]] = <<>>
        /\ ms[i] \notin pending /\ ~won[ms[i]] /\ pending' = pending \cup {ms[i]}
    BY <2>1 DEF Register
  <2>3. /\ Len(Rest(ms, i)) = Len(ms) - i
        /\ \A k \in 1..(Len(ms) - i) : Rest(ms, i)[k] = ms[i + k]
    BY DEF Rest
  <2>4. \A d \in Conns :
          /\ reader'[d] = IF d = c THEN Rest(ms, i) ELSE reader[d]
          /\ busy'[d] <=> busy[d] \/ d = c
          /\ race'[d] = IF d = c THEN ms[i] ELSE race[d]
    BY <2>1 DEF TypeOK, SessionTypeOK
  <2>5. PendingUndecided'
    BY <1>1, <1>2, <2>2, DnsProxyAssumption DEF PendingUndecided
  <2>6. ReaderUnregistered'
    <3> SUFFICES ASSUME NEW d \in Conns, NEW k \in 1..Len(reader'[d]),
                        reader'[d][k] # Malformed
                 PROVE  /\ origin'[reader'[d][k]] = d /\ replies[reader'[d][k]] = <<>>
                        /\ reader'[d][k] \notin pending' /\ ~won[reader'[d][k]]
                        /\ \A j \in 1..Len(reader'[d]) :
                             reader'[d][j] = reader'[d][k] => j = k
      BY DEF ReaderUnregistered
    <3>1. CASE d = c
      <4>1. /\ k \in 1..(Len(ms) - i) /\ reader'[d] = Rest(ms, i)
            /\ reader'[d][k] = ms[i + k] /\ i + k \in 1..Len(ms)
        BY <2>3, <2>4, <3>1
      <4>2. ms[i + k] # ms[i]
        BY <4>1
      <4>3. \A j \in 1..Len(Rest(ms, i)) : Rest(ms, i)[j] = ms[i + k] => j = k
        BY <2>3, <4>1
      <4>4. QED
        BY <2>2, <3>1, <4>1, <4>2, <4>3
    <3>2. CASE d # c
      BY <1>3, <2>2, <2>4, <3>2 DEF ReaderUnregistered
    <3>3. QED
      BY <3>1, <3>2
  <2>7. GoneHoldsNothing' /\ WritesBeforeAsking'
    BY <1>1, <1>5, <2>4 DEF GoneHoldsNothing, WritesBeforeAsking
  <2>8. OneQueryPerConnection'
    <3>1. \A q \in pending : origin[q] # c
      BY <1>1, <1>8, DnsProxyAssumption
      DEF OneQueryPerConnection, TypeOK, QueryTypeOK
    <3>2. \A d \in Conns : /\ busy'[d] <=> race'[d] # NoQuery
                           /\ busy'[d] => race'[d] \in pending' /\ origin'[race'[d]] = d
      BY <1>2, <2>2, <2>4, DnsProxyAssumption DEF OneQueryPerConnection
    <3>3. \A q \in pending' : origin'[q] \in sessions => race'[origin'[q]] = q
      BY <1>2, <2>2, <2>4, <3>1 DEF OneQueryPerConnection, sessions
    <3>4. QED
      BY <1>1, <3>2, <3>3 DEF OneQueryPerConnection
  <2>9. Accounted'
    <3> SUFFICES ASSUME NEW q \in Queries, origin'[q] # NoQuery, q \notin pending',
                        replies[q] = <<>>, stop # "freed"
                 PROVE  /\ origin'[q] \in Conns
                        /\ \/ origin'[q] \notin sessions
                           \/ \E k \in 1..Len(reader'[origin'[q]]) :
                                reader'[origin'[q]][k] = q
      BY <1>1 DEF Accounted
    <3>1. CASE origin'[q] = c
      <4>1. PICK j \in 1..Len(ms) : ms[j] = q
        BY <1>1, <2>2, <3>1 DEF Accounted
      <4>2. j > i
        BY <2>1, <2>2, <4>1, DnsProxyAssumption
      <4>3. (j - i) \in 1..(Len(ms) - i) /\ Rest(ms, i)[j - i] = q
        BY <2>3, <4>1, <4>2
      <4>4. QED
        BY <1>1, <2>3, <2>4, <3>1, <4>3
    <3>2. CASE origin'[q] # c
      BY <2>2, <2>4, <3>2 DEF Accounted, sessions
    <3>3. QED
      BY <3>1, <3>2
  <2>10. QED
    BY <1>4, <1>6, <2>5, <2>6, <2>7, <2>8, <2>9
<1>9. QED
  BY <1>7, <1>8 DEF ServiceTcpSession

\* A datagram is read: it is registered, or refused at the cap.
LEMMA CustodyReads ==
  ASSUME TypeOK, Custody, NEW q \in Queries, HandleQuery(q)
  PROVE  Custody'
<1> USE DEF Custody
<1>1. /\ origin[q] = NoQuery /\ replies[q] = <<>> /\ ~won[q] /\ q \notin pending
      /\ \A p \in Queries : origin'[p] = IF p = q THEN Udp ELSE origin[p]
      /\ phase = "udp" /\ UNCHANGED <<won, conn, busy, race, out, reader, stop, toServe>>
  BY DEF HandleQuery, sessVars, UnreadUntouched, PendingUndecided, TypeOK, QueryTypeOK
<1>2. \/ pending' = pending \cup {q} /\ replies' = replies
      \/ pending' = pending /\ replies' = [replies EXCEPT ![q] = Append(@, "servfail")]
  BY DEF HandleQuery, Register
<1>3. \A p \in Queries : replies'[p] = replies[p] \/ (p = q /\ pending' = pending)
  BY <1>2 DEF TypeOK, QueryTypeOK
<1>4. Len(replies'[q]) <= 1 /\ (q \in pending' \/ replies'[q] # <<>>)
  <2>1. CASE pending' = pending \cup {q} /\ replies' = replies
    BY <1>1, <2>1
  <2>2. CASE pending' = pending /\ replies' = [replies EXCEPT ![q] = Append(@, "servfail")]
    <3>1. replies'[q] = Append(<<>>, "servfail")
      BY <1>1, <2>2 DEF TypeOK, QueryTypeOK
    <3>2. QED
      BY <3>1
  <2>3. QED
    BY <1>2, <2>1, <2>2
<1>5. sessions' = sessions
  BY <1>1 DEF sessions
<1>6. ServesTheList' /\ StopsAfterLoop'
  <2>1. phase' = "accept" \/ (phase' = "dispatch" /\ resume' = "accept")
    BY DEF HandleQuery, BeginDispatch
  <2>2. toServe = {} /\ stop \notin {"cancelling", "shutdown", "freed"}
    BY <1>1 DEF ServesTheList, StopsAfterLoop
  <2>3. QED
    BY <1>1, <1>5, <2>1, <2>2 DEF ServesTheList, StopsAfterLoop
<1>7. UnreadUntouched' /\ PendingUndecided'
  BY <1>1, <1>2, <1>3, DnsProxyAssumption
  DEF UnreadUntouched, PendingUndecided, TypeOK, QueryTypeOK
<1>8. SenderOpened'
  BY <1>1, DnsProxyAssumption DEF SenderOpened
<1>9. ReaderUnregistered'
  <2> SUFFICES ASSUME NEW c \in Conns, NEW i \in 1..Len(reader[c]),
                      reader[c][i] # Malformed
               PROVE  /\ origin'[reader[c][i]] = c /\ replies'[reader[c][i]] = <<>>
                      /\ reader[c][i] \notin pending'
    BY <1>1 DEF ReaderUnregistered
  <2>1. reader[c] \in Seq(Queries \cup {Malformed})
    BY DEF TypeOK, SessionTypeOK
  <2>2. reader[c][i] \in Queries /\ reader[c][i] # q
    BY <1>1, <2>1, DnsProxyAssumption DEF ReaderUnregistered
  <2>3. QED
    BY <1>1, <1>2, <1>3, <2>2 DEF ReaderUnregistered
<1>10. GoneHoldsNothing' /\ WritesBeforeAsking'
  BY <1>1 DEF GoneHoldsNothing, WritesBeforeAsking
<1>11. OneQueryPerConnection'
  <2>1. origin[q] = NoQuery /\ origin' = [origin EXCEPT ![q] = Udp]
    BY <1>1 DEF HandleQuery
  <2>2. \A c \in Conns : busy[c] => race[c] \in pending' /\ origin'[race[c]] = c
    <3> SUFFICES ASSUME NEW c \in Conns, busy[c]
                 PROVE  race[c] \in pending' /\ origin'[race[c]] = c
      OBVIOUS
    <3>1. race[c] \in pending /\ origin[race[c]] = c
      BY DEF OneQueryPerConnection
    <3>2. race[c] # q
      BY <2>1, <3>1, DnsProxyAssumption
    <3>3. QED
      BY <1>2, <2>1, <3>1, <3>2 DEF TypeOK, QueryTypeOK
  <2>3. \A p \in pending' : origin'[p] \in sessions' => race[origin'[p]] = p
    <3> SUFFICES ASSUME NEW p \in pending', origin'[p] \in sessions'
                 PROVE  race[origin'[p]] = p
      OBVIOUS
    <3>1. p # q
      BY <2>1, DnsProxyAssumption DEF sessions, TypeOK, QueryTypeOK
    <3>2. p \in pending /\ origin'[p] = origin[p]
      BY <1>2, <2>1, <3>1 DEF TypeOK, QueryTypeOK
    <3>3. QED
      BY <1>5, <3>2 DEF OneQueryPerConnection
  <2>4. QED
    BY <1>1, <2>2, <2>3 DEF OneQueryPerConnection
<1>12. AnsweredOnce'
  BY <1>3, <1>4 DEF AnsweredOnce
<1>13. Accounted'
  BY <1>1, <1>2, <1>3, <1>4, <1>5 DEF Accounted
<1>14. QED
  BY <1>6, <1>7, <1>8, <1>9, <1>10, <1>11, <1>12, <1>13

LEMMA CustodyFrees ==
  ASSUME TypeOK, Custody, StopFree
  PROVE  Custody'
<1> USE DEF Custody, StopFree
<1>1. /\ sessions' = {} /\ pending' = {} /\ stop' = "freed" /\ phase' = "ended"
      /\ toServe' = {} /\ UNCHANGED <<origin, won, replies>>
  BY DEF sessions, StopsAfterLoop, ServesTheList, loopVars, raceVars
<1>2. \A c \in Conns : /\ conn'[c] = "new" => conn[c] = "new"
                       /\ ~busy'[c] /\ race'[c] = NoQuery /\ out'[c] = NoQuery
                       /\ reader'[c] = <<>>
  OBVIOUS
<1>3. ServesTheList' /\ StopsAfterLoop' /\ UnreadUntouched' /\ PendingUndecided'
  BY <1>1 DEF ServesTheList, StopsAfterLoop, UnreadUntouched, PendingUndecided
<1>4. SenderOpened' /\ ReaderUnregistered'
  BY <1>1, <1>2 DEF SenderOpened, ReaderUnregistered
<1>5. GoneHoldsNothing' /\ WritesBeforeAsking'
  BY <1>1, <1>2 DEF GoneHoldsNothing, WritesBeforeAsking
<1>6. OneQueryPerConnection' /\ AnsweredOnce' /\ Accounted'
  BY <1>1, <1>2 DEF OneQueryPerConnection, AnsweredOnce, Accounted
<1>7. QED
  BY <1>3, <1>4, <1>5, <1>6

\* Accept closes a session of the list, the newcomer, or nothing.
LEMMA AcceptCloses ==
  ASSUME NEW c \in Conns, Accept(c)
  PROVE  \E D \in SUBSET Conns, kept \in BOOLEAN :
          /\ D \subseteq sessions \/ (D = {c} /\ ~kept)
          /\ conn' = [d \in Conns |-> IF d = c /\ kept THEN "open"
                                      ELSE IF d \in D \cup {c} THEN "closed"
                                      ELSE conn[d]]
          /\ CloseSessions(D)
<1>1. PICK evicted \in IF ~ListFull THEN {{}}
                       ELSE IF Victims = {} THEN {{c}} ELSE {{v} : v \in Victims},
           prepared \in BOOLEAN :
        LET kept == prepared /\ c \notin evicted
        IN  /\ conn' = [d \in Conns |-> IF d = c /\ kept THEN "open"
                                       ELSE IF d \in evicted \cup {c} THEN "closed"
                                       ELSE conn[d]]
            /\ CloseSessions(evicted)
  BY DEF Accept
<1>2. evicted \subseteq sessions \/ evicted = {c}
  BY <1>1 DEF Victims
<1>3. evicted \in SUBSET Conns
  BY <1>2 DEF sessions
<1>4. (prepared /\ c \notin evicted) \in BOOLEAN
  OBVIOUS
<1>5. QED
  BY <1>1, <1>2, <1>3, <1>4

\* What holds of the reader's messages ms once a new one has come in for c.
MessageTaken(c, ms) ==
  /\ ms \in Seq(Queries \cup {Malformed})
  /\ origin' \in [Queries -> Conns \cup {Udp, NoQuery}]
  /\ \A q \in Queries :
       \/ origin'[q] = origin[q]
       \/ origin[q] = NoQuery /\ origin'[q] = c /\ \E j \in 1..Len(ms) : ms[j] = q
  /\ \A i \in 1..Len(reader[c]) : \E j \in 1..Len(ms) : ms[j] = reader[c][i]
  /\ \A i \in 1..Len(ms) : ms[i] # Malformed =>
       /\ origin'[ms[i]] = c /\ replies[ms[i]] = <<>>
       /\ ms[i] \notin pending /\ ~won[ms[i]]
       /\ origin[ms[i]] = NoQuery \/ \E j \in 1..Len(reader[c]) : reader[c][j] = ms[i]
       /\ \A j \in 1..Len(ms) : ms[j] = ms[i] => j = i

LEMMA MessageArrives ==
  ASSUME TypeOK, Custody, NEW c \in Conns, NEW m \in Queries \cup {Malformed},
         ServeMessage(c, m)
  PROVE  MessageTaken(c, Append(reader[c], m))
<1> DEFINE ms == Append(reader[c], m)
<1>1. \/ m = Malformed /\ UNCHANGED origin
      \/ m # Malformed /\ origin[m] = NoQuery /\ origin' = [origin EXCEPT ![m] = c]
  BY DEF ServeMessage
<1>2. c \in sessions /\ reader[c] \in Seq(Queries \cup {Malformed})
  BY DEF ServeMessage, Serve, Custody, ServesTheList, TypeOK, SessionTypeOK
<1>3. /\ ms \in Seq(Queries \cup {Malformed}) /\ Len(ms) = Len(reader[c]) + 1
      /\ ms[Len(ms)] = m
      /\ \A i \in 1..Len(reader[c]) : ms[i] = reader[c][i] /\ i \in 1..Len(ms)
  BY <1>2
<1>4. \A i \in 1..Len(ms) : i \in 1..Len(reader[c]) \/ i = Len(ms)
  BY <1>2, <1>3
<1>5. \A i \in 1..Len(reader[c]) : reader[c][i] # Malformed =>
        /\ origin[reader[c][i]] = c /\ replies[reader[c][i]] = <<>>
        /\ reader[c][i] \notin pending /\ ~won[reader[c][i]] /\ reader[c][i] \in Queries
        /\ \A j \in 1..Len(reader[c]) : reader[c][j] = reader[c][i] => j = i
  BY <1>2 DEF Custody, ReaderUnregistered, sessions
<1>6. m # Malformed =>
        /\ origin'[m] = c /\ replies[m] = <<>> /\ m \notin pending /\ ~won[m]
        /\ \A i \in 1..Len(reader[c]) : reader[c][i] # m
  BY <1>1, <1>2, <1>5, DnsProxyAssumption
  DEF Custody, UnreadUntouched, PendingUndecided, sessions, TypeOK, QueryTypeOK
<1>7. \A q \in Queries :
        \/ origin'[q] = origin[q]
        \/ origin[q] = NoQuery /\ origin'[q] = c /\ \E j \in 1..Len(ms) : ms[j] = q
  <2>1. Len(ms) \in 1..Len(ms)
    BY <1>2, <1>3
  <2>2. QED
    BY <1>1, <1>3, <2>1 DEF TypeOK, QueryTypeOK
<1>8. \A i \in 1..Len(ms) : ms[i] # Malformed =>
        /\ origin'[ms[i]] = c /\ replies[ms[i]] = <<>>
        /\ ms[i] \notin pending /\ ~won[ms[i]]
        /\ origin[ms[i]] = NoQuery \/ \E j \in 1..Len(reader[c]) : reader[c][j] = ms[i]
        /\ \A j \in 1..Len(ms) : ms[j] = ms[i] => j = i
  <2> HIDE DEF ms
  <2> SUFFICES ASSUME NEW i \in 1..Len(ms), ms[i] # Malformed
               PROVE  /\ origin'[ms[i]] = c /\ replies[ms[i]] = <<>>
                      /\ ms[i] \notin pending /\ ~won[ms[i]]
                      /\ \/ origin[ms[i]] = NoQuery
                         \/ \E j \in 1..Len(reader[c]) : reader[c][j] = ms[i]
                      /\ \A j \in 1..Len(ms) : ms[j] = ms[i] => j = i
    OBVIOUS
  <2>1. CASE i \in 1..Len(reader[c])
    <3>1. ms[i] = reader[c][i] /\ ms[i] # m
      BY <1>3, <1>5, <1>6, <2>1
    <3>2. origin'[ms[i]] = c
      BY <1>2, <1>5, <1>7, <2>1, <3>1, DnsProxyAssumption DEF sessions
    <3>3. \A j \in 1..Len(ms) : ms[j] = ms[i] => j = i
      BY <1>3, <1>4, <1>5, <2>1, <3>1
    <3>4. QED
      BY <1>5, <2>1, <3>1, <3>2, <3>3
  <2>2. CASE i = Len(ms)
    <3>1. \A j \in 1..Len(ms) : ms[j] = ms[i] => j = i
      BY <1>3, <1>4, <1>6, <2>2
    <3>2. QED
      BY <1>1, <1>3, <1>6, <2>2, <3>1
  <2>3. QED
    BY <1>4, <2>1, <2>2
<1>9. origin' \in [Queries -> Conns \cup {Udp, NoQuery}]
  BY <1>1, <1>2 DEF sessions, TypeOK, QueryTypeOK
<1>10. \A i \in 1..Len(reader[c]) : \E j \in 1..Len(ms) : ms[j] = reader[c][i]
  BY <1>3
<1>11. QED
  <2> HIDE DEF ms
  <2>1. MessageTaken(c, ms)
    BY <1>3, <1>7, <1>8, <1>9, <1>10, Zenon DEF MessageTaken
  <2>2. QED
    BY <2>1 DEF ms

LEMMA CustodyStep == TypeOK /\ Custody /\ [Next]_vars => Custody'
<1> SUFFICES ASSUME TypeOK, Custody, [Next]_vars PROVE Custody'
  OBVIOUS
<1>1. CASE LoopEnds
  <2>1. UNCHANGED held /\ (stop = "freed" => stop' = "freed")
    BY <1>1 DEF LoopEnds, held, loopVars, queryVars, raceVars, sessVars
  <2>2. ServesTheList' /\ StopsAfterLoop'
    BY <1>1 DEF LoopEnds, loopVars, queryVars, raceVars, sessVars, sessions,
       Custody, ServesTheList, StopsAfterLoop, TypeOK, LoopTypeOK
  <2>3. QED
    BY <2>1, <2>2, CustodyMoves
<1>2. CASE Select
  <2>1. UNCHANGED held /\ (stop = "freed" => stop' = "freed")
    BY <1>2 DEF Select, held, loopVars, queryVars, raceVars, sessVars
  <2>2. ServesTheList' /\ StopsAfterLoop'
    BY <1>2 DEF Select, loopVars, queryVars, raceVars, sessVars, sessions,
       Custody, ServesTheList, StopsAfterLoop, TypeOK, LoopTypeOK
  <2>3. QED
    BY <2>1, <2>2, CustodyMoves
<1>3. CASE NoQueryRead
  <2>1. UNCHANGED held /\ (stop = "freed" => stop' = "freed")
    BY <1>3 DEF NoQueryRead, held, loopVars, queryVars, raceVars, sessVars
  <2>2. ServesTheList' /\ StopsAfterLoop'
    BY <1>3 DEF NoQueryRead, loopVars, queryVars, raceVars, sessVars, sessions,
       Custody, ServesTheList, StopsAfterLoop, TypeOK, LoopTypeOK
  <2>3. QED
    BY <2>1, <2>2, CustodyMoves
<1>4. CASE EndDispatch
  <2>1. UNCHANGED held /\ (stop = "freed" => stop' = "freed")
    BY <1>4 DEF EndDispatch, held, loopVars, queryVars, raceVars, sessVars
  <2>2. ServesTheList' /\ StopsAfterLoop'
    BY <1>4 DEF EndDispatch, loopVars, queryVars, raceVars, sessVars, sessions,
       Custody, ServesTheList, StopsAfterLoop, TypeOK, LoopTypeOK
  <2>3. QED
    BY <2>1, <2>2, CustodyMoves
<1>5. CASE NoClient
  <2>1. UNCHANGED held /\ (stop = "freed" => stop' = "freed")
    BY <1>5 DEF NoClient, held, loopVars, queryVars, raceVars, sessVars
  <2>2. ServesTheList' /\ StopsAfterLoop'
    BY <1>5 DEF NoClient, loopVars, queryVars, raceVars, sessVars, sessions,
       Custody, ServesTheList, StopsAfterLoop, TypeOK, LoopTypeOK
  <2>3. QED
    BY <2>1, <2>2, CustodyMoves
<1>6. CASE ServedAll
  <2>1. UNCHANGED held /\ (stop = "freed" => stop' = "freed")
    BY <1>6 DEF ServedAll, held, loopVars, queryVars, raceVars, sessVars
  <2>2. ServesTheList' /\ StopsAfterLoop'
    BY <1>6 DEF ServedAll, loopVars, queryVars, raceVars, sessVars, sessions,
       Custody, ServesTheList, StopsAfterLoop, TypeOK, LoopTypeOK
  <2>3. QED
    BY <2>1, <2>2, CustodyMoves
<1>7. CASE Drain
  <2>1. UNCHANGED held /\ (stop = "freed" => stop' = "freed")
    BY <1>7 DEF Drain, queryVars, sessVars, raceVars, held, loopVars, queryVars, raceVars, sessVars
  <2>2. ServesTheList' /\ StopsAfterLoop'
    BY <1>7 DEF Drain, queryVars, sessVars, raceVars, loopVars, queryVars, raceVars, sessVars, sessions,
       Custody, ServesTheList, StopsAfterLoop, TypeOK, LoopTypeOK
  <2>3. QED
    BY <2>1, <2>2, CustodyMoves
<1>8. CASE Collected
  <2>1. UNCHANGED held /\ (stop = "freed" => stop' = "freed")
    BY <1>8 DEF Collected, held, loopVars, queryVars, raceVars, sessVars
  <2>2. ServesTheList' /\ StopsAfterLoop'
    BY <1>8 DEF Collected, loopVars, queryVars, raceVars, sessVars, sessions,
       Custody, ServesTheList, StopsAfterLoop, TypeOK, LoopTypeOK
  <2>3. QED
    BY <2>1, <2>2, CustodyMoves
<1>9. ASSUME NEW c \in Conns, ServeNothing(c) PROVE Custody'
  <2>1. UNCHANGED held /\ (stop = "freed" => stop' = "freed")
    BY <1>9 DEF ServeNothing, Serve, NothingElseServed, held, loopVars, queryVars, raceVars, sessVars
  <2>2. ServesTheList' /\ StopsAfterLoop'
    BY <1>9 DEF ServeNothing, Serve, NothingElseServed, loopVars, queryVars, raceVars, sessVars, sessions,
       Custody, ServesTheList, StopsAfterLoop, TypeOK, LoopTypeOK
  <2>3. QED
    BY <2>1, <2>2, CustodyMoves
<1>10. ASSUME NEW u \in Upstreams, Submit(u) PROVE Custody'
  <2>1. UNCHANGED held /\ (stop = "freed" => stop' = "freed")
    BY <1>10 DEF Submit, held, loopVars, queryVars, raceVars, sessVars
  <2>2. ServesTheList' /\ StopsAfterLoop'
    BY <1>10 DEF Submit, loopVars, queryVars, raceVars, sessVars, sessions,
       Custody, ServesTheList, StopsAfterLoop, TypeOK, LoopTypeOK
  <2>3. QED
    BY <2>1, <2>2, CustodyMoves
<1>11. ASSUME NEW w \in Workers, Worker(w) PROVE Custody'
  <2>1. UNCHANGED held /\ (stop = "freed" => stop' = "freed")
    BY <1>11 DEF Worker, Take, Ask, QueryUpstream, Count, Post, Exit, OnlyPool, held, loopVars, queryVars, raceVars, sessVars
  <2>2. ServesTheList' /\ StopsAfterLoop'
    BY <1>11 DEF Worker, Take, Ask, QueryUpstream, Count, Post, Exit, OnlyPool, loopVars, queryVars, raceVars, sessVars, sessions,
       Custody, ServesTheList, StopsAfterLoop, TypeOK, LoopTypeOK
  <2>3. QED
    BY <2>1, <2>2, CustodyMoves
<1>12. CASE StopRequest
  <2>1. UNCHANGED held /\ (stop = "freed" => stop' = "freed")
    BY <1>12 DEF StopRequest, held, loopVars, queryVars, raceVars, sessVars
  <2>2. ServesTheList' /\ StopsAfterLoop'
    BY <1>12 DEF StopRequest, loopVars, queryVars, raceVars, sessVars, sessions,
       Custody, ServesTheList, StopsAfterLoop, TypeOK, LoopTypeOK
  <2>3. QED
    BY <2>1, <2>2, CustodyMoves
<1>13. CASE StopCancel
  <2>1. UNCHANGED held /\ (stop = "freed" => stop' = "freed")
    BY <1>13 DEF StopCancel, held, loopVars, queryVars, raceVars, sessVars
  <2>2. ServesTheList' /\ StopsAfterLoop'
    BY <1>13 DEF StopCancel, loopVars, queryVars, raceVars, sessVars, sessions,
       Custody, ServesTheList, StopsAfterLoop, TypeOK, LoopTypeOK
  <2>3. QED
    BY <2>1, <2>2, CustodyMoves
<1>14. CASE Shutdown
  <2>1. UNCHANGED held /\ (stop = "freed" => stop' = "freed")
    BY <1>14 DEF Shutdown, held, loopVars, queryVars, raceVars, sessVars
  <2>2. ServesTheList' /\ StopsAfterLoop'
    BY <1>14 DEF Shutdown, loopVars, queryVars, raceVars, sessVars, sessions,
       Custody, ServesTheList, StopsAfterLoop, TypeOK, LoopTypeOK
  <2>3. QED
    BY <2>1, <2>2, CustodyMoves
<1>15. CASE Tick
  <2>1. UNCHANGED held /\ (stop = "freed" => stop' = "freed")
    BY <1>15 DEF Tick, held, loopVars, queryVars, raceVars, sessVars
  <2>2. ServesTheList' /\ StopsAfterLoop'
    BY <1>15 DEF Tick, loopVars, queryVars, raceVars, sessVars, sessions,
       Custody, ServesTheList, StopsAfterLoop, TypeOK, LoopTypeOK
  <2>3. QED
    BY <2>1, <2>2, CustodyMoves
<1>16. CASE UNCHANGED vars
  <2>1. UNCHANGED held /\ (stop = "freed" => stop' = "freed")
    BY <1>16 DEF vars, held, loopVars, queryVars, raceVars, sessVars
  <2>2. ServesTheList' /\ StopsAfterLoop'
    BY <1>16 DEF vars, loopVars, queryVars, raceVars, sessVars, sessions,
       Custody, ServesTheList, StopsAfterLoop, TypeOK, LoopTypeOK
  <2>3. QED
    BY <2>1, <2>2, CustodyMoves
<1>17. ASSUME NEW q \in Queries, HandleQuery(q) PROVE Custody'
  BY <1>17, CustodyReads
<1>18. ASSUME NEW c \in Conns, Accept(c) PROVE Custody'
  <2>1. PICK D \in SUBSET Conns, kept \in BOOLEAN :
          /\ D \subseteq sessions \/ (D = {c} /\ ~kept)
          /\ conn' = [d \in Conns |-> IF d = c /\ kept THEN "open"
                                      ELSE IF d \in D \cup {c} THEN "closed"
                                      ELSE conn[d]]
          /\ CloseSessions(D)
    BY <1>18, AcceptCloses
  <2>2. /\ conn[c] = "new" /\ phase = "accept" /\ phase' = "serve"
        /\ toServe' = sessions' \ {c} /\ UNCHANGED <<pending, origin, replies, won, stop>>
    BY <1>18 DEF Accept, queryVars, sessions
  <2>3. CloseSessions(D \cap sessions)
    <3>1. \A d \in D \ sessions : race[d] = NoQuery /\ ~busy[d] /\ out[d] = NoQuery
                                 /\ reader[d] = <<>>
      BY <2>1, <2>2 DEF Custody, GoneHoldsNothing, OneQueryPerConnection, sessions
    <3>2. QED
      BY <2>1, <3>1, DnsProxyAssumption
      DEF CloseSessions, sessions, TypeOK, SessionTypeOK
  <2>4. ServesTheList' /\ StopsAfterLoop'
    BY <2>2 DEF Custody, ServesTheList, StopsAfterLoop
  <2>5. QED
    BY <2>1, <2>2, <2>3, <2>4, CustodyCloses DEF sessions, TypeOK, SessionTypeOK
<1>19. ASSUME NEW c \in Conns, ServeClosed(c) PROVE Custody'
  <2>1. /\ {c} \in SUBSET sessions /\ CloseSessions({c})
        /\ conn' = [conn EXCEPT ![c] = "closed"]
        /\ UNCHANGED <<pending, origin, replies, won, stop, phase, resume>>
        /\ phase = "serve" /\ toServe' = toServe \ {c}
    BY <1>19
    DEF ServeClosed, Serve, NothingElseServed, Custody, ServesTheList, sessions
  <2>2. ServesTheList' /\ StopsAfterLoop'
    BY <2>1 DEF Custody, ServesTheList, StopsAfterLoop, sessions, TypeOK, SessionTypeOK
  <2>3. QED
    BY <2>1, <2>2, CustodyCloses DEF sessions, TypeOK, SessionTypeOK
<1>20. CASE ExpireTcpSessions
  <2>1. /\ DueSessions \in SUBSET sessions /\ CloseSessions(DueSessions)
        /\ conn' = [c \in Conns |-> IF c \in DueSessions THEN "closed" ELSE conn[c]]
        /\ UNCHANGED <<pending, origin, replies, won, stop, toServe>>
        /\ phase = "reap" /\ phase' = "select"
    BY <1>20 DEF ExpireTcpSessions, DueSessions, queryVars
  <2>2. ServesTheList' /\ StopsAfterLoop'
    BY <2>1 DEF Custody, ServesTheList, StopsAfterLoop
  <2>3. QED
    BY <2>1, <2>2, CustodyCloses DEF sessions, TypeOK, SessionTypeOK
<1>21. ASSUME NEW c \in Conns, ServeWritten(c) PROVE Custody'
  <2>1. /\ phase = "serve" /\ c \in toServe /\ toServe' = toServe \ {c}
        /\ ServiceTcpSession(c, reader[c])
        /\ UNCHANGED <<origin, replies, won, conn, stop>>
        /\ out' = [out EXCEPT ![c] = NoQuery]
    BY <1>21 DEF ServeWritten, Serve
  <2>2. c \in sessions /\ reader[c] \in Seq(Queries \cup {Malformed})
    BY <2>1 DEF Custody, ServesTheList, TypeOK, SessionTypeOK
  <2>3. \A i \in 1..Len(reader[c]) : reader[c][i] # Malformed =>
          /\ origin'[reader[c][i]] = c /\ replies[reader[c][i]] = <<>>
          /\ reader[c][i] \notin pending /\ ~won[reader[c][i]]
          /\ \A j \in 1..Len(reader[c]) : reader[c][j] = reader[c][i] => j = i
    BY <2>1 DEF Custody, ReaderUnregistered
  <2>4. origin' \in [Queries -> Conns \cup {Udp, NoQuery}]
    BY <2>1 DEF TypeOK, QueryTypeOK
  <2>5. QED
    BY <2>1, <2>2, <2>3, <2>4, CustodyServes
<1>22. ASSUME NEW c \in Conns, ServeFragment(c) PROVE Custody'
  <2>1. /\ phase = "serve" /\ c \in toServe /\ toServe' = toServe \ {c}
        /\ ServiceTcpSession(c, reader[c])
        /\ UNCHANGED <<origin, replies, won, conn, stop>>
        /\ out' = [out EXCEPT ![c] = NoQuery]
    BY <1>22 DEF ServeFragment, Serve, Readable, TypeOK, SessionTypeOK
  <2>2. c \in sessions /\ reader[c] \in Seq(Queries \cup {Malformed})
    BY <2>1 DEF Custody, ServesTheList, TypeOK, SessionTypeOK
  <2>3. \A i \in 1..Len(reader[c]) : reader[c][i] # Malformed =>
          /\ origin'[reader[c][i]] = c /\ replies[reader[c][i]] = <<>>
          /\ reader[c][i] \notin pending /\ ~won[reader[c][i]]
          /\ \A j \in 1..Len(reader[c]) : reader[c][j] = reader[c][i] => j = i
    BY <2>1 DEF Custody, ReaderUnregistered
  <2>4. origin' \in [Queries -> Conns \cup {Udp, NoQuery}]
    BY <2>1 DEF TypeOK, QueryTypeOK
  <2>5. QED
    BY <2>1, <2>2, <2>3, <2>4, CustodyServes
<1>23. ASSUME NEW c \in Conns, NEW m \in Queries \cup {Malformed}, ServeMessage(c, m)
      PROVE  Custody'
  <2> DEFINE ms == Append(reader[c], m)
  <2>1. /\ phase = "serve" /\ c \in toServe /\ toServe' = toServe \ {c}
        /\ UNCHANGED <<replies, won, conn, stop>>
        /\ out' = [out EXCEPT ![c] = NoQuery] /\ c \in sessions
    BY <1>23 DEF ServeMessage, Serve, Readable, Custody, ServesTheList, TypeOK, SessionTypeOK
  <2>2. MessageTaken(c, ms)
    BY <1>23, MessageArrives
  <2>3. ServiceTcpSession(c, ms)
    BY <1>23 DEF ServeMessage
  <2>4. QED
    <3> HIDE DEF ms
    <3>1. \A i \in 1..Len(ms) : ms[i] # Malformed =>
            /\ origin'[ms[i]] = c /\ replies[ms[i]] = <<>>
            /\ ms[i] \notin pending /\ ~won[ms[i]]
            /\ \A j \in 1..Len(ms) : ms[j] = ms[i] => j = i
      BY <2>2 DEF MessageTaken
    <3>2. /\ ms \in Seq(Queries \cup {Malformed})
          /\ origin' \in [Queries -> Conns \cup {Udp, NoQuery}]
          /\ \A q \in Queries :
               \/ origin'[q] = origin[q]
               \/ origin[q] = NoQuery /\ origin'[q] = c /\ \E j \in 1..Len(ms) : ms[j] = q
          /\ \A i \in 1..Len(reader[c]) : \E j \in 1..Len(ms) : ms[j] = reader[c][i]
      BY <2>2 DEF MessageTaken
    <3>3. QED
      BY <2>1, <2>3, <3>1, <3>2, CustodyServes, ZenonT(60)
<1>24. CASE Collect
  <2> DEFINE q == Head(batch).q
  <2>1. /\ UNCHANGED <<phase, resume, toServe, origin, conn, reader, stop>>
        /\ \/ UNCHANGED <<pending, won, replies, busy, race, out>>
           \/ q \in pending /\ \E what \in Answers : Deliver({q}, what)
    BY <1>24 DEF Collect, Answers
  <2>2. ServesTheList' /\ StopsAfterLoop'
    BY <2>1 DEF Custody, ServesTheList, StopsAfterLoop, sessions
  <2>3. CASE UNCHANGED <<pending, won, replies, busy, race, out>>
    BY <2>1, <2>2, <2>3, CustodyMoves DEF held
  <2>4. CASE q \in pending /\ \E what \in Answers : Deliver({q}, what)
    <3> HIDE DEF q
    <3>1. PICK what \in Answers : Deliver({q}, what)
      BY <2>4
    <3>2. {q} \in SUBSET pending
      BY <2>4
    <3>3. QED
      BY <2>1, <2>2, <3>1, <3>2, CustodyDelivers
  <2>5. QED
    BY <2>1, <2>3, <2>4
<1>25. CASE ExpireQueries
  <2>1. /\ Deliver(DueQueries, "servfail") /\ DueQueries \in SUBSET pending
        /\ UNCHANGED <<resume, toServe, origin, conn, reader, stop>>
        /\ phase = "expire" /\ phase' = "reap"
    BY <1>25 DEF ExpireQueries, DueQueries
  <2>2. ServesTheList' /\ StopsAfterLoop'
    BY <2>1 DEF Custody, ServesTheList, StopsAfterLoop, sessions
  <2>3. QED
    BY <2>1, <2>2, CustodyDelivers DEF Answers
<1>26. CASE StopFree
  BY <1>26, CustodyFrees
<1>27. QED
  BY <1>1, <1>2, <1>3, <1>4, <1>5, <1>6, <1>7, <1>8, <1>9, <1>10, <1>11, <1>12, <1>13,
     <1>14, <1>15, <1>16, <1>17, <1>18, <1>19, <1>20, <1>21, <1>22, <1>23, <1>24, <1>25, <1>26
  DEF Next, Loop, Intake, ServeTcp, Harvest, Stop

\* Where every query and every session is, for every value of the constants.
THEOREM CustodyHolds == Spec => []Custody
<1>1. Init => TypeOK /\ Custody
  BY TypeInit, CustodyInit
<1>2. TypeOK /\ Custody /\ [Next]_vars => TypeOK' /\ Custody'
  BY TypeStep, CustodyStep
<1>3. QED
  BY <1>1, <1>2, PTL DEF Spec

\* No client is ever handed two responses to one query.
THEOREM NoSecondAnswer == Spec => []AnsweredOnce
<1>1. Custody => AnsweredOnce
  BY DEF Custody
<1>2. QED
  BY <1>1, CustodyHolds, PTL

\* No query that the loop has read is forgotten.
THEOREM NoQueryForgotten == Spec => []Accounted
<1>1. Custody => Accounted
  BY DEF Custody
<1>2. QED
  BY <1>1, CustodyHolds, PTL

\* A connection is busy exactly while one query of its own is being raced.
THEOREM OneQueryAtATime == Spec => []OneQueryPerConnection
<1>1. Custody => OneQueryPerConnection
  BY DEF Custody
<1>2. QED
  BY <1>1, CustodyHolds, PTL

\* Only a delivery queues a response, and it finds nothing queued before it.
LEMMA ResponseKept ==
  TypeOK /\ Custody /\ [Next]_vars =>
    \A c \in Conns : out[c] # NoQuery => out'[c] \in {out[c], NoQuery}
<1> SUFFICES ASSUME TypeOK, Custody, [Next]_vars, NEW c \in Conns, out[c] # NoQuery
             PROVE  out'[c] \in {out[c], NoQuery}
  OBVIOUS
<1>1. ASSUME NEW D \in SUBSET pending, NEW what \in Answers, Deliver(D, what)
      PROVE  out'[c] = out[c]
  <2>1. \A q \in D : origin[q] # c
    BY DnsProxyAssumption, SMTT(30)
    DEF Custody, OneQueryPerConnection, WritesBeforeAsking, GoneHoldsNothing, sessions,
        TypeOK, QueryTypeOK
  <2>2. QED
    BY <1>1, <2>1, SMTT(30) DEF Deliver
<1>2. CASE Collect
  BY <1>1, <1>2 DEF Collect, Answers
<1>3. CASE ExpireQueries
  BY <1>1, <1>3 DEF ExpireQueries, DueQueries, Answers
<1>4. ASSUME NEW D \in SUBSET Conns, CloseSessions(D)
      PROVE  out'[c] \in {out[c], NoQuery}
  BY <1>4 DEF CloseSessions
<1>5. ASSUME NEW d \in Conns, Accept(d) PROVE out'[c] \in {out[c], NoQuery}
  <2>1. PICK D \in SUBSET Conns : CloseSessions(D)
    BY <1>5 DEF Accept, Victims, sessions
  <2>2. QED
    BY <1>4, <2>1
<1>6. ASSUME NEW d \in Conns, ServeClosed(d) PROVE out'[c] \in {out[c], NoQuery}
  BY <1>4, <1>6 DEF ServeClosed
<1>7. CASE ExpireTcpSessions
  BY <1>4, <1>7 DEF ExpireTcpSessions, DueSessions, sessions
<1>8. ASSUME NEW d \in Conns, ServeWritten(d) PROVE out'[c] \in {out[c], NoQuery}
  BY <1>8 DEF ServeWritten, TypeOK, SessionTypeOK
<1>9. CASE StopFree
  BY <1>9 DEF StopFree
<1>10. CASE UNCHANGED out
  BY <1>10
<1>11. QED
  <2>1. \/ Collect \/ ExpireQueries \/ ExpireTcpSessions \/ StopFree \/ UNCHANGED out
        \/ \E d \in Conns : Accept(d) \/ ServeClosed(d) \/ ServeWritten(d)
    BY DEF Next, Loop, Intake, ServeTcp, Harvest, Stop, Worker, vars, sessVars,
       LoopEnds, Select, HandleQuery, NoQueryRead, Submit, EndDispatch, NoClient,
       ServeNothing, ServeFragment, ServeMessage, ServedAll, Drain, Collected,
       Take, Ask, QueryUpstream, Count, Post, Exit, OnlyPool, StopRequest,
       StopCancel, Shutdown, Tick
  <2>2. QED
    BY <1>2, <1>3, <1>5, <1>6, <1>7, <1>8, <1>9, <1>10, <2>1

\* A response that is being written to a connection is never replaced.
THEOREM NoResponseReplaced == Spec => ResponseNotReplaced
<1>1. Spec => []TypeOK
  BY TypeCorrect
<1>2. Spec => []Custody
  BY CustodyHolds
<1>3. TypeOK /\ Custody /\ [Next]_vars =>
        [\A c \in Conns : out[c] # NoQuery => out'[c] \in {out[c], NoQuery}]_vars
  BY ResponseKept
<1>4. QED
  BY <1>1, <1>2, <1>3, PTL DEF Spec, ResponseNotReplaced

-----------------------------------------------------------------------------
(***************************************************************************)
(* Races: a race comes to an end that somebody is told of, and goes on for *)
(* nobody                                                                  *)
(***************************************************************************)

LEMMA RacesInit == Init => Races
<1> SUFFICES ASSUME Init PROVE Races
  OBVIOUS
<1>1. OneAtATime /\ BatchIsSpent /\ BegunByATask /\ BegunWhenRegistered
  BY DEF Init, OneAtATime, BatchIsSpent, BegunByATask, NotBegun, BegunWhenRegistered
<1>2. EndIsAnnounced /\ StopCancelsAll /\ NothingRunsForNobody
  BY DEF Init, EndIsAnnounced, StopCancelsAll, NothingRunsForNobody
<1>3. QED
  BY <1>1, <1>2 DEF Races

\* A step of the loop or of Stop() that queues no task and counts none. It may
\* settle queries, close sessions and take completions.
LEMMA RacesSettle ==
  ASSUME TypeOK, Races,
         UNCHANGED <<wpc, job, done, total, dispatching>>, jobs' \in {jobs, <<>>},
         pending' \subseteq pending,
         \A q \in Queries : /\ cancelled[q] => cancelled'[q]
                            /\ won[q] => won'[q],
         \A q \in pending \ pending' :
           /\ won'[q] \/ stop' = "freed"
           /\ cancelled'[q] \/ done[q] >= total[q],
         \A q \in pending' :
           origin'[q] \in Conns /\ origin'[q] \notin sessions'
             => cancelled'[q] \/ (origin[q] \in Conns /\ origin[q] \notin sessions),
         \A q \in pending' : done[q] >= total[q] /\ Announced(q) => Announced(q)',
         OneAtATime', BatchIsSpent', StopCancelsAll', stop = "freed" => stop' = "freed"
  PROVE  Races'
<1> USE DEF Races
<1>1. BegunByATask'
  <2>1. \A q \in Queries : NotBegun(q) => NotBegun(q)'
    BY DEF NotBegun
  <2>2. QED
    BY <2>1 DEF BegunByATask
<1>2. BegunWhenRegistered'
  BY DEF BegunWhenRegistered
<1>3. EndIsAnnounced'
  BY DEF EndIsAnnounced
<1>4. NothingRunsForNobody'
  BY DEF NothingRunsForNobody
<1>5. QED
  BY <1>1, <1>2, <1>3, <1>4

\* A step that works on races: no query is registered or settled by it.
LEMMA RacesRun ==
  ASSUME TypeOK, Races,
         UNCHANGED <<pending, origin, conn, won, cancelled, total, stop>>,
         \A q \in Queries : done'[q] \in Nat /\ done'[q] >= done[q],
         OneAtATime', BatchIsSpent', BegunByATask', EndIsAnnounced'
  PROVE  Races'
<1> USE DEF Races
<1>1. sessions' = sessions
  BY DEF sessions
<1>2. BegunWhenRegistered' /\ StopCancelsAll'
  BY DEF BegunWhenRegistered, StopCancelsAll
<1>3. NothingRunsForNobody'
  <2>1. \A q \in Queries : done[q] >= total[q] => done'[q] >= total'[q]
    BY DEF TypeOK, RaceTypeOK
  <2>2. QED
    BY <1>1, <2>1 DEF NothingRunsForNobody
<1>4. QED
  BY <1>2, <1>3

\* A query is registered: nothing of its race has begun.
LEMMA RacesRegister ==
  ASSUME TypeOK, Custody, Races, NEW q \in Queries, NEW next \in {"accept", "serve"},
         phase \in {"udp", "serve"}, q \notin pending, ~won[q],
         Register(q), BeginDispatch(q, next),
         UNCHANGED <<conn, won, cancelled, jobs, wpc, job, completions, batch, stop>>,
         \A p \in Queries \ {q} : origin[p] # origin'[p] => p \notin pending,
         origin'[q] \in Conns => origin'[q] \in sessions
  PROVE  Races'
<1> USE DEF Races
<1>1. sessions' = sessions /\ stop \notin {"cancelling", "shutdown", "freed"}
  BY DEF sessions, Custody, StopsAfterLoop
<1>2. total[q] = 0 /\ NotBegun(q)
  BY <1>1 DEF BegunWhenRegistered, BegunByATask
<1>3. /\ pending' = pending \cup {q} /\ phase' = "dispatch" /\ dispatching' = q
      /\ total' = total /\ done' = done
  BY <1>2 DEF Register, BeginDispatch, NotBegun, TypeOK, RaceTypeOK
<1>4. OneAtATime' /\ BatchIsSpent'
  BY <1>1, <1>3 DEF OneAtATime, BatchIsSpent
<1>5. BegunByATask' /\ BegunWhenRegistered' /\ StopCancelsAll'
  BY <1>1, <1>3 DEF BegunByATask, NotBegun, BegunWhenRegistered, StopCancelsAll
<1>6. EndIsAnnounced'
  <2>1. \A p \in pending : done[p] >= total[p] => Announced(p)
    BY DnsProxyAssumption DEF EndIsAnnounced, OneAtATime, TypeOK, QueryTypeOK
  <2>2. \A p \in Queries : Announced(p) => Announced(p)'
    BY DEF Announced
  <2>3. QED
    BY <1>2, <1>3, <2>1, <2>2 DEF EndIsAnnounced, TypeOK, QueryTypeOK
<1>7. NothingRunsForNobody'
  BY <1>1, <1>2, <1>3 DEF NothingRunsForNobody, NotBegun
<1>8. QED
  BY <1>4, <1>5, <1>6, <1>7

LEMMA RacesSubmit ==
  ASSUME TypeOK, Races, NEW u \in Upstreams, Submit(u)
  PROVE  Races'
<1> USE DEF Races
<1>1. /\ phase = "dispatch" /\ phase' = "dispatch" /\ dispatching \in pending
      /\ dispatching \in Queries
      /\ origin[dispatching] \in Conns => origin[dispatching] \in sessions
      /\ UNCHANGED <<dispatching, pending, origin, conn, won, cancelled, done, wpc,
                     job, completions, batch, stop>>
  BY DEF Submit, OneAtATime, TypeOK, LoopTypeOK, queryVars, sessVars
<1>2. sessions' = sessions /\ OneAtATime' /\ BatchIsSpent'
  BY <1>1 DEF sessions, OneAtATime, BatchIsSpent
<1>3. CASE UNCHANGED <<jobs, total>>
  BY <1>1, <1>2, <1>3, RacesSettle DEF TypeOK, QueryTypeOK, StopCancelsAll, Announced
<1>4. CASE /\ jobs' = Append(jobs, dispatching)
           /\ total' = [total EXCEPT ![dispatching] = @ + 1]
  <2>1. \A q \in Queries : total'[q] = IF q = dispatching THEN total[q] + 1 ELSE total[q]
    BY <1>4 DEF TypeOK, RaceTypeOK
  <2>2. /\ Len(jobs') = Len(jobs) + 1 /\ jobs'[Len(jobs) + 1] = dispatching
        /\ \A i \in 1..Len(jobs) : jobs'[i] = jobs[i]
    BY <1>1, <1>4 DEF TypeOK, PoolTypeOK
  <2>3. BegunByATask'
    <3> SUFFICES ASSUME NEW q \in Queries, total'[q] = 0 PROVE NotBegun(q)'
      BY DEF BegunByATask
    <3>1. q # dispatching /\ NotBegun(q)
      BY <2>1 DEF BegunByATask, TypeOK, RaceTypeOK
    <3>2. \A i \in 1..Len(jobs') : i \in 1..Len(jobs) \/ i = Len(jobs) + 1
      BY <2>2 DEF TypeOK, PoolTypeOK
    <3>3. QED
      BY <1>1, <2>2, <3>1, <3>2 DEF NotBegun
  <2>4. BegunWhenRegistered' /\ StopCancelsAll'
    BY <1>1, <2>1 DEF BegunWhenRegistered, StopCancelsAll
  <2>5. EndIsAnnounced'
    <3> SUFFICES ASSUME NEW q \in pending, done[q] >= total'[q]
                 PROVE  Announced(q) \/ (dispatching = q /\ total'[q] = 0)
      BY <1>1 DEF EndIsAnnounced, Announced
    <3>1. q \in Queries /\ done[q] \in Nat /\ total[q] \in Nat
      BY DEF TypeOK, QueryTypeOK, RaceTypeOK
    <3>2. CASE q = dispatching
      <4>1. done[q] > total[q] /\ total[q] # 0
        BY <2>1, <3>1, <3>2 DEF BegunByATask, NotBegun
      <4>2. QED
        BY <3>1, <4>1 DEF EndIsAnnounced
    <3>3. CASE q # dispatching
      BY <2>1, <3>1, <3>3 DEF EndIsAnnounced
    <3>4. QED
      BY <3>2, <3>3
  <2>6. NothingRunsForNobody'
    BY <1>1, <1>2, <2>1 DEF NothingRunsForNobody
  <2>7. QED
    BY <1>2, <2>3, <2>4, <2>5, <2>6
<1>5. QED
  BY <1>3, <1>4 DEF Submit
LEMMA RacesEndDispatch ==
  ASSUME TypeOK, Races, EndDispatch
  PROVE  Races'
<1> USE DEF Races
<1>1. /\ phase = "dispatch" /\ phase' \in {"accept", "serve"} /\ dispatching' = NoQuery
      /\ dispatching \in Queries
      /\ UNCHANGED <<pending, origin, conn, won, cancelled, total, done, jobs, wpc,
                     job, batch, stop>>
  BY DEF EndDispatch, TypeOK, LoopTypeOK, queryVars, raceVars, poolVars, sessVars
<1>2. OneAtATime' /\ BatchIsSpent' /\ BegunByATask'
  BY <1>1 DEF OneAtATime, BatchIsSpent, BegunByATask, NotBegun
<1>3. \A q \in Queries : Announced(q) => Announced(q)'
  <2>1. \A i \in 1..Len(completions) :
          i \in 1..Len(completions') /\ completions'[i] = completions[i]
    BY DEF EndDispatch, TypeOK, PoolTypeOK
  <2>2. QED
    BY <1>1, <2>1 DEF Announced
<1>4. ASSUME NEW q \in Queries, q = dispatching, total[q] = 0
      PROVE  Announced(q)'
  <2> DEFINE x == [q |-> q, r |-> "unusable"]
  <2>1. completions' = Append(completions, x) /\ x \in Completion
    BY <1>1, <1>4 DEF EndDispatch, Completion, Results
  <2>2. Len(completions) + 1 \in 1..Len(completions') /\ completions'[Len(completions) + 1] = x
    BY <2>1 DEF TypeOK, PoolTypeOK
  <2>3. \E i \in 1..Len(completions') : completions'[i].q = q
    BY <2>2
  <2>4. QED
    BY <2>3 DEF Announced
<1>5. EndIsAnnounced'
  BY <1>1, <1>3, <1>4 DEF EndIsAnnounced, TypeOK, QueryTypeOK
<1>6. \A q \in Queries : done'[q] \in Nat /\ done'[q] >= done[q]
  BY <1>1 DEF TypeOK, RaceTypeOK
<1>7. QED
  BY <1>1, <1>2, <1>5, <1>6, RacesRun

\* A worker takes what was queued, works for it, counts it and announces it.
LEMMA RacesWork ==
  ASSUME TypeOK, Races, NEW w \in Workers, Worker(w)
  PROVE  Races'
<1> USE DEF Races
<1>1. /\ UNCHANGED <<pending, origin, conn, won, cancelled, total, stop, phase,
                     dispatching, batch>>
      /\ \A v \in Workers \ {w} : wpc'[v] = wpc[v] /\ job'[v] = job[v]
  BY DEF Worker, Take, Ask, QueryUpstream, Count, Post, Exit, OnlyPool, loopVars,
     queryVars, sessVars, TypeOK, PoolTypeOK
<1>2. OneAtATime' /\ BatchIsSpent'
  BY <1>1 DEF OneAtATime, BatchIsSpent, sessions
<1>3. ASSUME NEW q \in Queries, q # job[w] \/ wpc[w] # "answered"
      PROVE  done'[q] = done[q]
  BY <1>3 DEF Worker, Take, Ask, QueryUpstream, Count, Post, Exit, TypeOK, RaceTypeOK
<1>4. \A q \in Queries : done'[q] \in Nat /\ done'[q] >= done[q]
  BY <1>3 DEF Worker, Count, Take, Ask, QueryUpstream, Post, Exit, TypeOK, RaceTypeOK
<1>5. BegunByATask'
  <2> SUFFICES ASSUME NEW q \in Queries, NotBegun(q) PROVE NotBegun(q)'
    BY <1>1 DEF BegunByATask
  <2>1. done'[q] = 0
    BY <1>3 DEF NotBegun, TypeOK, PoolTypeOK
  <2>2. CASE Take(w)
    <3>1. jobs \in Seq(Queries) /\ jobs # <<>> /\ Head(jobs) # q
      BY <2>2 DEF Take, NotBegun, TypeOK, PoolTypeOK
    <3>2. \A i \in 1..Len(jobs') : i + 1 \in 1..Len(jobs) /\ jobs'[i] = jobs[i + 1]
      BY <2>2, <3>1 DEF Take
    <3>3. job'[w] # q
      BY <2>2, <3>1 DEF Take, TypeOK, PoolTypeOK
    <3>4. QED
      BY <1>1, <2>1, <3>2, <3>3 DEF NotBegun
  <2>3. CASE ~Take(w)
    <3>1. /\ jobs' = jobs
          /\ wpc'[w] \notin {"idle", "exited"} => job'[w] = job[w] /\ wpc[w] \notin {"idle", "exited"}
      BY <2>3 DEF Worker, Ask, QueryUpstream, Count, Post, Exit, TypeOK, PoolTypeOK
    <3>2. QED
      BY <1>1, <2>1, <3>1 DEF NotBegun
  <2>4. QED
    BY <2>2, <2>3
<1>6. \A q \in Queries : Announced(q) => Announced(q)'
  <2>1. \A i \in 1..Len(completions) :
          i \in 1..Len(completions') /\ completions'[i] = completions[i]
    <3>1. completions \in Seq(Completion)
      BY DEF TypeOK, PoolTypeOK
    <3>2. completions' \in {completions, Append(completions, [q |-> job[w], r |-> result[w]])}
      BY DEF Worker, Take, Ask, QueryUpstream, Count, Post, Exit
    <3>3. QED
      BY <3>1, <3>2
  <2>2. wpc[w] = "counted" => \E i \in 1..Len(completions') : completions'[i].q = job[w]
    <3> SUFFICES ASSUME wpc[w] = "counted"
                 PROVE  \E i \in 1..Len(completions') : completions'[i].q = job[w]
      OBVIOUS
    <3> DEFINE x == [q |-> job[w], r |-> result[w]]
    <3>1. completions' = Append(completions, x) /\ x \in Completion
      BY DEF Worker, Take, Ask, QueryUpstream, Count, Post, Exit, Completion, TypeOK, PoolTypeOK
    <3>2. Len(completions) + 1 \in 1..Len(completions') /\ completions'[Len(completions) + 1] = x
      BY <3>1 DEF TypeOK, PoolTypeOK
    <3>3. QED
      BY <3>2
  <2>3. QED
    BY <1>1, <2>1, <2>2 DEF Announced
<1>7. EndIsAnnounced'
  <2> SUFFICES ASSUME NEW q \in pending, done'[q] >= total[q]
               PROVE  Announced(q)' \/ (dispatching = q /\ total[q] = 0)
    BY <1>1 DEF EndIsAnnounced
  <2>1. q \in Queries
    BY DEF TypeOK, QueryTypeOK
  <2>2. CASE wpc[w] = "answered" /\ job[w] = q
    <3>1. wpc'[w] = "counted" /\ job'[w] = q
      BY <2>2 DEF Worker, Take, Ask, QueryUpstream, Count, Post, Exit, TypeOK, PoolTypeOK
    <3>2. QED
      BY <3>1 DEF Announced
  <2>3. CASE ~(wpc[w] = "answered" /\ job[w] = q)
    BY <1>3, <1>6, <2>1, <2>3 DEF EndIsAnnounced
  <2>4. QED
    BY <2>2, <2>3
<1>8. QED
  BY <1>1, <1>2, <1>4, <1>5, <1>7, RacesRun

\* The loop takes the completions, and settles what they decide.
LEMMA RacesDrain ==
  ASSUME TypeOK, Races, Drain
  PROVE  Races'
<1> USE DEF Races
<1>1. \A q \in Queries : Announced(q) => Announced(q)'
  BY DEF Drain, Announced, BatchIsSpent, poolVars
<1>2. OneAtATime' /\ BatchIsSpent' /\ StopCancelsAll'
  BY DEF Drain, OneAtATime, BatchIsSpent, StopCancelsAll, queryVars, raceVars, sessVars,
     sessions
<1>3. QED
  BY <1>1, <1>2, RacesSettle
  DEF Drain, queryVars, raceVars, poolVars, sessVars, sessions, TypeOK, QueryTypeOK

LEMMA RacesCollect ==
  ASSUME TypeOK, Custody, Races, Collect
  PROVE  Races'
<1> USE DEF Races
<1> DEFINE q == Head(batch).q
<1>1. /\ batch \in Seq(Completion) /\ batch # <<>> /\ batch' = Tail(batch)
      /\ phase = "collect" /\ q \in Queries
      /\ UNCHANGED <<wpc, job, done, total, dispatching, jobs, phase, origin, conn,
                     completions, stop>>
  <2>1. batch \in Seq(Completion) /\ batch # <<>>
    BY DEF Collect, TypeOK, LoopTypeOK
  <2>2. Head(batch) \in Completion
    BY <2>1, TailType
  <2>3. QED
    BY <2>1, <2>2 DEF Collect, Completion, poolVars
<1>2. \/ /\ q \in pending /\ Deliver({q}, "answer") /\ cancelled' = CancelLosers(q)
      \/ /\ q \in pending /\ Deliver({q}, "servfail") /\ UNCHANGED cancelled
         /\ done[q] >= total[q]
      \/ /\ UNCHANGED <<pending, won, cancelled>>
         /\ q \in pending => done[q] < total[q]
  <2>1. \/ /\ q \in pending /\ Deliver({q}, "answer") /\ cancelled' = CancelLosers(q)
        \/ /\ q \in pending /\ Deliver({q}, "servfail") /\ UNCHANGED cancelled
           /\ IsLast(q)
        \/ /\ UNCHANGED <<pending, won, cancelled>>
           /\ q \notin pending \/ won[q] \/ ~IsLast(q)
    BY DEF Collect
  <2>2. q \in pending => ~won[q]
    BY DEF Custody, PendingUndecided
  <2>3. ~IsLast(q) => done[q] < total[q]
    BY <1>1 DEF IsLast, TypeOK, RaceTypeOK
  <2>4. QED
    BY <2>1, <2>2, <2>3 DEF IsLast
<1> HIDE DEF q
<1>3. /\ pending' \subseteq pending
      /\ pending' # pending => q \notin pending' /\ pending \ pending' = {q} /\ won'[q]
      /\ pending' # pending => cancelled'[q] \/ done[q] >= total[q]
      /\ \A p \in Queries : cancelled[p] => cancelled'[p]
      /\ \A p \in Queries : won[p] => won'[p]
  <2>1. CASE q \in pending /\ Deliver({q}, "answer") /\ cancelled' = CancelLosers(q)
    BY <1>1, <2>1 DEF Deliver, CancelLosers, TypeOK, RaceTypeOK
  <2>2. CASE /\ q \in pending /\ Deliver({q}, "servfail") /\ UNCHANGED cancelled
             /\ done[q] >= total[q]
    BY <1>1, <2>2 DEF Deliver
  <2>3. CASE UNCHANGED <<pending, won, cancelled>>
    BY <2>3
  <2>4. QED
    BY <1>2, <2>1, <2>2, <2>3
<1>4. q \in pending' => done[q] < total[q]
  BY <1>2 DEF Deliver
<1>5. \A p \in Queries : Announced(p) => p = q \/ Announced(p)'
  <2> SUFFICES ASSUME NEW p \in Queries, NEW i \in 1..Len(batch), batch[i].q = p, p # q
               PROVE  \E j \in 1..Len(batch') : batch'[j].q = p
    BY <1>1 DEF Announced
  <2>1. i # 1
    BY <1>1 DEF q
  <2>2. i - 1 \in 1..Len(batch') /\ batch'[i - 1] = batch[i]
    BY <1>1, <2>1
  <2>3. QED
    BY <2>2
<1>6. sessions' = sessions /\ OneAtATime' /\ BatchIsSpent'
  BY <1>1 DEF sessions, OneAtATime, BatchIsSpent
<1>7. StopCancelsAll'
  BY <1>1, <1>3 DEF StopCancelsAll, TypeOK, QueryTypeOK
<1>8. \A p \in pending' : done[p] >= total[p] /\ Announced(p) => Announced(p)'
  BY <1>3, <1>4, <1>5 DEF TypeOK, QueryTypeOK, RaceTypeOK
<1>9. QED
  BY <1>1, <1>3, <1>6, <1>7, <1>8, RacesSettle

\* Sessions D leave the list: what they were asking is cancelled.
LEMMA RacesClose ==
  ASSUME TypeOK, Custody, Races, NEW D \in SUBSET Conns, CloseSessions(D),
         UNCHANGED <<wpc, job, done, total, dispatching, jobs, pending, origin, won,
                     batch, completions, stop>>,
         \A c \in sessions \ D : conn'[c] = "open",
         OneAtATime', BatchIsSpent'
  PROVE  Races'
<1> USE DEF Races
<1>1. \A q \in Queries : cancelled[q] => cancelled'[q]
  BY DEF CloseSessions
<1>2. \A q \in pending :
        origin[q] \in Conns /\ origin[q] \notin sessions' =>
          cancelled'[q] \/ (origin[q] \in Conns /\ origin[q] \notin sessions)
  <2> SUFFICES ASSUME NEW q \in pending, origin[q] \in sessions, origin[q] \in D
               PROVE  cancelled'[q]
    BY DEF sessions
  <2>1. race[origin[q]] = q /\ q \in Queries
    BY DEF Custody, OneQueryPerConnection, TypeOK, QueryTypeOK
  <2>2. QED
    BY <2>1 DEF CloseSessions
<1>3. StopCancelsAll' /\ \A q \in Queries : Announced(q) => Announced(q)'
  BY <1>1 DEF StopCancelsAll, Announced, TypeOK, QueryTypeOK
<1>4. QED
  BY <1>1, <1>2, <1>3, RacesSettle DEF TypeOK, QueryTypeOK

\* A step that leaves the races alone.
raced == <<pending, origin, conn, won, cancelled, done, total, jobs, wpc, job,
           completions, batch, dispatching>>

LEMMA RacesMove ==
  ASSUME TypeOK, Races, UNCHANGED raced,
         phase' = phase \/ (phase # "dispatch" /\ phase' \notin {"dispatch", "collect"}),
         phase = "collect" /\ phase' # "collect" => batch = <<>>,
         stop' = stop \/ (stop = "none" /\ stop' = "joining")
  PROVE  Races'
<1> USE DEF Races, raced
<1>1. sessions' = sessions /\ \A q \in Queries : Announced(q) => Announced(q)'
  BY DEF sessions, Announced
<1>2. OneAtATime' /\ BatchIsSpent' /\ StopCancelsAll'
  BY <1>1 DEF OneAtATime, BatchIsSpent, StopCancelsAll
<1>3. QED
  BY <1>1, <1>2, RacesSettle DEF TypeOK, QueryTypeOK

\* The session of c is served: at most one query of its reader is registered.
LEMMA RacesServe ==
  ASSUME TypeOK, Custody, Races, NEW c \in sessions,
         NEW ms \in Seq(Queries \cup {Malformed}),
         phase = "serve", ServiceTcpSession(c, ms),
         UNCHANGED <<conn, won, cancelled, jobs, wpc, job, completions, batch, stop>>,
         \A p \in pending : origin'[p] = origin[p],
         \A i \in 1..Len(ms) : ms[i] # Malformed =>
           /\ origin'[ms[i]] = c /\ ms[i] \notin pending /\ ~won[ms[i]]
  PROVE  Races'
<1>1. sessions' = sessions
  BY DEF sessions
<1>2. CASE UNCHANGED <<busy, race, pending, left, phase, resume, dispatching,
                       unsubmitted, total, done>>
  <2>1. OneAtATime' /\ BatchIsSpent' /\ StopCancelsAll'
    BY <1>1, <1>2 DEF Races, OneAtATime, BatchIsSpent, StopCancelsAll
  <2>2. \A q \in Queries : Announced(q) => Announced(q)'
    BY DEF Announced
  <2>3. QED
    BY <1>1, <1>2, <2>1, <2>2, RacesSettle DEF TypeOK, QueryTypeOK
<1>3. CASE \E i \in 1..Len(ms) :
             /\ ms[i] # Malformed
             /\ Register(ms[i])
             /\ BeginDispatch(ms[i], "serve")
  <2>1. PICK i \in 1..Len(ms) : /\ ms[i] # Malformed
                                /\ Register(ms[i])
                                /\ BeginDispatch(ms[i], "serve")
    BY <1>3
  <2>2. /\ ms[i] \in Queries /\ ms[i] \notin pending /\ ~won[ms[i]]
        /\ origin'[ms[i]] \in sessions'
    BY <1>1, <2>1
  <2>3. QED
    BY <2>1, <2>2, RacesRegister
<1>4. QED
  BY <1>2, <1>3 DEF ServiceTcpSession

\* A datagram is read.
LEMMA RacesRead ==
  ASSUME TypeOK, Custody, Races, NEW q \in Queries, HandleQuery(q)
  PROVE  Races'
<1>1. /\ phase = "udp" /\ q \notin pending /\ ~won[q]
      /\ \A p \in Queries : origin'[p] = IF p = q THEN Udp ELSE origin[p]
      /\ UNCHANGED <<conn, won, cancelled, jobs, wpc, job, completions, batch, stop>>
  BY DEF HandleQuery, Custody, UnreadUntouched, PendingUndecided, poolVars, sessVars,
     TypeOK, QueryTypeOK
<1>2. CASE Register(q) /\ BeginDispatch(q, "accept")
  BY <1>1, <1>2, RacesRegister, DnsProxyAssumption
<1>3. CASE phase' = "accept" /\ UNCHANGED <<pending, dispatching, total, done>>
  <2>1. sessions' = sessions /\ \A p \in Queries : Announced(p) => Announced(p)'
    BY <1>1, <1>3 DEF sessions, Announced
  <2>2. OneAtATime' /\ BatchIsSpent' /\ StopCancelsAll'
    BY <1>1, <1>3 DEF Races, OneAtATime, BatchIsSpent, StopCancelsAll
  <2>3. \A p \in pending : p \in Queries /\ origin'[p] = origin[p]
    BY <1>1 DEF TypeOK, QueryTypeOK
  <2>4. QED
    BY <1>1, <1>3, <2>1, <2>2, <2>3, RacesSettle
<1>4. QED
  BY <1>2, <1>3 DEF HandleQuery

LEMMA RacesExpire ==
  ASSUME TypeOK, Races, ExpireQueries
  PROVE  Races'
<1>1. /\ pending' = pending \ DueQueries /\ DueQueries \subseteq pending
      /\ \A q \in Queries : /\ won'[q] <=> won[q] \/ q \in DueQueries
                            /\ cancelled'[q] <=> cancelled[q] \/ q \in DueQueries
      /\ phase = "expire" /\ phase' = "reap"
      /\ UNCHANGED <<origin, conn, done, total, jobs, wpc, job, completions, batch,
                     dispatching, stop>>
  BY DEF ExpireQueries, Deliver, DueQueries, poolVars
<1>2. sessions' = sessions /\ \A p \in Queries : Announced(p) => Announced(p)'
  BY <1>1 DEF sessions, Announced
<1>3. OneAtATime' /\ BatchIsSpent' /\ StopCancelsAll'
  BY <1>1 DEF Races, OneAtATime, BatchIsSpent, StopCancelsAll, TypeOK, QueryTypeOK
<1>4. QED
  BY <1>1, <1>2, <1>3, RacesSettle DEF TypeOK, QueryTypeOK

\* Stop() cancels what is in flight before it takes the queue and the state away.
LEMMA RacesStop ==
  ASSUME TypeOK, Custody, Races, StopCancel \/ Shutdown \/ StopFree
  PROVE  Races'
<1> USE DEF Races
<1>1. /\ phase = "ended" /\ phase' = phase
      /\ UNCHANGED <<origin, won, done, total, wpc, job, batch, dispatching>>
  BY DEF StopCancel, Shutdown, StopFree, Custody, StopsAfterLoop, loopVars, queryVars,
     raceVars, poolVars
<1>2. OneAtATime' /\ BatchIsSpent'
  BY <1>1 DEF OneAtATime, BatchIsSpent
<1>3. CASE StopCancel
  <2>1. StopCancelsAll' /\ sessions' = sessions
    BY <1>3 DEF StopCancel, StopCancelsAll, InFlight, queryVars, sessVars, sessions,
       TypeOK, QueryTypeOK
  <2>2. \A q \in Queries : Announced(q) => Announced(q)'
    BY <1>3 DEF StopCancel, Announced, loopVars, poolVars
  <2>3. QED
    BY <1>1, <1>2, <1>3, <2>1, <2>2, RacesSettle
    DEF StopCancel, queryVars, poolVars, TypeOK, QueryTypeOK
<1>4. CASE Shutdown
  <2>1. StopCancelsAll' /\ sessions' = sessions
    BY <1>4 DEF Shutdown, StopCancelsAll, queryVars, raceVars, sessVars, sessions
  <2>2. \A q \in Queries : Announced(q) => Announced(q)'
    BY <1>4 DEF Shutdown, Announced, loopVars
  <2>3. QED
    BY <1>1, <1>2, <1>4, <2>1, <2>2, RacesSettle
    DEF Shutdown, queryVars, raceVars, TypeOK, QueryTypeOK
<1>5. CASE StopFree
  <2>1. /\ pending' = {} /\ stop = "shutdown" /\ stop' = "freed" /\ jobs' = jobs
        /\ cancelled' = cancelled
    BY <1>5 DEF StopFree, raceVars, poolVars
  <2>2. StopCancelsAll'
    BY <2>1 DEF StopCancelsAll
  <2>3. \A q \in pending : cancelled[q]
    BY <2>1 DEF StopCancelsAll
  <2>4. QED
    BY <1>1, <1>2, <2>1, <2>2, <2>3, RacesSettle
<1>6. QED
  BY <1>3, <1>4, <1>5

LEMMA RacesStep == TypeOK /\ Custody /\ Races /\ [Next]_vars => Races'
<1> SUFFICES ASSUME TypeOK, Custody, Races, [Next]_vars PROVE Races'
  OBVIOUS
<1>1. CASE LoopEnds
  BY <1>1, RacesMove DEF LoopEnds, raced,
     loopVars, queryVars, raceVars, poolVars, sessVars
<1>2. CASE Select
  BY <1>2, RacesMove DEF Select, raced,
     loopVars, queryVars, raceVars, poolVars, sessVars
<1>3. CASE NoQueryRead
  BY <1>3, RacesMove DEF NoQueryRead, raced,
     loopVars, queryVars, raceVars, poolVars, sessVars
<1>4. CASE NoClient
  BY <1>4, RacesMove DEF NoClient, raced,
     loopVars, queryVars, raceVars, poolVars, sessVars
<1>5. CASE ServedAll
  BY <1>5, RacesMove DEF ServedAll, raced,
     loopVars, queryVars, raceVars, poolVars, sessVars
<1>6. CASE Collected
  BY <1>6, RacesMove DEF Collected, raced,
     loopVars, queryVars, raceVars, poolVars, sessVars
<1>7. ASSUME NEW c \in Conns, ServeNothing(c) PROVE Races'
  BY <1>7, RacesMove DEF ServeNothing, Serve, NothingElseServed, raced,
     loopVars, queryVars, raceVars, poolVars, sessVars
<1>8. CASE StopRequest
  BY <1>8, RacesMove DEF StopRequest, raced,
     loopVars, queryVars, raceVars, poolVars, sessVars
<1>9. CASE Tick
  BY <1>9, RacesMove DEF Tick, raced,
     loopVars, queryVars, raceVars, poolVars, sessVars
<1>10. CASE UNCHANGED vars
  BY <1>10, RacesMove DEF vars, raced,
     loopVars, queryVars, raceVars, poolVars, sessVars
<1>11. ASSUME NEW q \in Queries, HandleQuery(q) PROVE Races'
  BY <1>11, RacesRead
<1>12. ASSUME NEW u \in Upstreams, Submit(u) PROVE Races'
  BY <1>12, RacesSubmit
<1>13. CASE EndDispatch
  BY <1>13, RacesEndDispatch
<1>14. ASSUME NEW w \in Workers, Worker(w) PROVE Races'
  BY <1>14, RacesWork
<1>15. CASE Drain
  BY <1>15, RacesDrain
<1>16. CASE Collect
  BY <1>16, RacesCollect
<1>17. CASE ExpireQueries
  BY <1>17, RacesExpire
<1>18. CASE StopCancel \/ Shutdown \/ StopFree
  BY <1>18, RacesStop
<1>19. ASSUME NEW c \in Conns, Accept(c) PROVE Races'
  <2>1. PICK D \in SUBSET Conns :
          /\ CloseSessions(D)
          /\ \A d \in sessions \ D : conn'[d] = "open"
    BY <1>19 DEF Accept, Victims, sessions, TypeOK, SessionTypeOK
  <2>2. OneAtATime' /\ BatchIsSpent'
    BY <1>19 DEF Accept, Races, OneAtATime, BatchIsSpent
  <2>3. QED
    BY <1>19, <2>1, <2>2, RacesClose DEF Accept, queryVars, poolVars
<1>20. ASSUME NEW c \in Conns, ServeClosed(c) PROVE Races'
  <2>1. /\ {c} \in SUBSET Conns /\ CloseSessions({c})
        /\ \A d \in sessions \ {c} : conn'[d] = "open"
    BY <1>20 DEF ServeClosed, sessions, TypeOK, SessionTypeOK
  <2>2. OneAtATime' /\ BatchIsSpent'
    BY <1>20 DEF ServeClosed, Serve, NothingElseServed, Races, OneAtATime, BatchIsSpent
  <2>3. QED
    BY <1>20, <2>1, <2>2, RacesClose DEF ServeClosed, Serve, NothingElseServed, poolVars
<1>21. CASE ExpireTcpSessions
  <2>1. /\ DueSessions \in SUBSET Conns /\ CloseSessions(DueSessions)
        /\ \A d \in sessions \ DueSessions : conn'[d] = "open"
    BY <1>21 DEF ExpireTcpSessions, DueSessions, sessions
  <2>2. OneAtATime' /\ BatchIsSpent'
    BY <1>21 DEF ExpireTcpSessions, Races, OneAtATime, BatchIsSpent
  <2>3. QED
    BY <1>21, <2>1, <2>2, RacesClose DEF ExpireTcpSessions, queryVars, poolVars
<1>22. ASSUME NEW c \in Conns, ServeWritten(c) \/ ServeFragment(c) PROVE Races'
  <2>1. /\ phase = "serve" /\ ServiceTcpSession(c, reader[c]) /\ c \in sessions
        /\ UNCHANGED <<origin, conn, won, cancelled, jobs, wpc, job, completions, batch, stop>>
    BY <1>22
    DEF ServeWritten, ServeFragment, Serve, Custody, ServesTheList, poolVars
  <2>2. reader[c] \in Seq(Queries \cup {Malformed})
    BY <2>1 DEF sessions, TypeOK, SessionTypeOK
  <2>3. \A i \in 1..Len(reader[c]) : reader[c][i] # Malformed =>
          origin[reader[c][i]] = c /\ reader[c][i] \notin pending /\ ~won[reader[c][i]]
    BY <2>1 DEF Custody, ReaderUnregistered, sessions
  <2>4. QED
    BY <2>1, <2>2, <2>3, RacesServe
<1>23. ASSUME NEW c \in Conns, NEW m \in Queries \cup {Malformed}, ServeMessage(c, m)
      PROVE  Races'
  <2> DEFINE ms == Append(reader[c], m)
  <2>1. /\ phase = "serve" /\ ServiceTcpSession(c, ms) /\ c \in sessions
        /\ UNCHANGED <<conn, won, cancelled, jobs, wpc, job, completions, batch, stop>>
    BY <1>23 DEF ServeMessage, Serve, Custody, ServesTheList, poolVars
  <2>2. MessageTaken(c, ms)
    BY <1>23, MessageArrives
  <2>3. \A p \in pending : origin'[p] = origin[p]
    BY <2>2 DEF MessageTaken, Custody, PendingUndecided, TypeOK, QueryTypeOK
  <2>4. QED
    <3> HIDE DEF ms
    <3> QED
      BY <2>1, <2>2, <2>3, RacesServe DEF MessageTaken
<1>24. QED
  BY <1>1, <1>2, <1>3, <1>4, <1>5, <1>6, <1>7, <1>8, <1>9, <1>10, <1>11, <1>12, <1>13,
     <1>14, <1>15, <1>16, <1>17, <1>18, <1>19, <1>20, <1>21, <1>22, <1>23
  DEF Next, Loop, Intake, ServeTcp, Harvest, Stop

\* What every race is at any moment, for every value of the constants.
THEOREM RacesHold == Spec => []Races
<1>1. Init => TypeOK /\ Custody /\ Races
  BY TypeInit, CustodyInit, RacesInit
<1>2. TypeOK /\ Custody /\ Races /\ [Next]_vars => TypeOK' /\ Custody' /\ Races'
  BY TypeStep, CustodyStep, RacesStep
<1>3. QED
  BY <1>1, <1>2, PTL DEF Spec

\* A race that has run out of tasks is never left to its deadline: the loop is
\* about to be told.
THEOREM NoFailureIsLost == Spec => []FailureIsPosted
<1>1. TypeOK /\ Races => FailureIsPosted
  BY DEF Races, EndIsAnnounced, FailureIsPosted, TypeOK, QueryTypeOK
<1>2. QED
  BY <1>1, TypeCorrect, RacesHold, PTL

\* What is decided, or whose client has gone, is cancelled or has run out.
THEOREM NoWorkForNobody == Spec => []NothingRunsForNobody
<1>1. Races => NothingRunsForNobody
  BY DEF Races
<1>2. QED
  BY <1>1, RacesHold, PTL
-----------------------------------------------------------------------------
(***************************************************************************)
(* What the service sees                                                   *)
(***************************************************************************)

\* What the service sees of the forwarder.
seen == <<[q \in Queries |-> StatusOf(q)], Gone, phase # "ended">>

LEMMA ServiceInit == Init => Service!Init
<1> SUFFICES ASSUME Init PROVE Service!Init
  OBVIOUS
<1>1. \A q \in Queries : StatusOf(q) = "new"
  BY DEF Init, StatusOf
<1>2. Gone = {}
  BY DnsProxyAssumption DEF Init, Gone
<1>3. QED
  BY <1>1, <1>2 DEF Service!Init

\* A query that no step has moved has the status it had.
LEMMA StatusKept ==
  ASSUME NEW q \in Queries, replies'[q] = replies[q],
         q \in pending' <=> q \in pending, Reachable(q)' <=> Reachable(q),
         origin'[q] = NoQuery \/ Unread(q)' <=> origin[q] = NoQuery \/ Unread(q)
  PROVE  StatusOf(q)' = StatusOf(q)
BY DEF StatusOf

\* A step that touches neither a query nor a session is not seen.
LEMMA SeenKept ==
  ASSUME UNCHANGED <<replies, pending, origin, conn, reader>>,
         stop = "freed" <=> stop' = "freed", phase = "ended" <=> phase' = "ended"
  PROVE  UNCHANGED seen
<1>1. sessions' = sessions /\ Gone' = Gone
  BY DEF sessions, Gone
<1>2. \A q \in Queries : /\ Reachable(q)' <=> Reachable(q)
                         /\ Unread(q)' <=> Unread(q)
  BY <1>1 DEF Reachable, Unread
<1>3. \A q \in Queries : StatusOf(q)' = StatusOf(q)
  BY <1>2, StatusKept
<1>4. QED
  BY <1>1, <1>3 DEF seen

\* Every query of a reader is unanswered, unregistered and its sender's.
LEMMA UnreadIsNew ==
  ASSUME TypeOK, Custody, NEW q \in Queries, Unread(q)
  PROVE  /\ origin[q] \in sessions /\ replies[q] = <<>> /\ q \notin pending
         /\ StatusOf(q) = "new"
<1>1. PICK c \in sessions : \E i \in 1..Len(reader[c]) : reader[c][i] = q
  BY DEF Unread
<1>2. origin[q] = c /\ replies[q] = <<>> /\ q \notin pending
  BY <1>1, DnsProxyAssumption DEF Custody, ReaderUnregistered, sessions
<1>3. QED
  BY <1>1, <1>2 DEF StatusOf

LEMMA HeadOfFirst ==
  ASSUME NEW what \in Answers
  PROVE  Append(<<>>, what) # <<>> /\ Head(Append(<<>>, what)) = what
OBVIOUS

\* The queries of D that can be told are answered or failed; the others had
\* been dropped already.
LEMMA DeliverSeen ==
  ASSUME TypeOK, Custody, NEW D \in SUBSET pending, NEW what \in Answers,
         Deliver(D, what), UNCHANGED <<origin, conn, reader, stop>>
  PROVE  /\ Gone' = Gone
         /\ \A q \in D : Reachable(q) => StatusOf(q) = "waiting"
         /\ \A q \in Queries :
              StatusOf(q)' = IF q \in D /\ Reachable(q)
                               THEN IF what = "answer" THEN "answered" ELSE "failed"
                               ELSE StatusOf(q)
<1>1. /\ sessions' = sessions /\ Gone' = Gone /\ pending' = pending \ D
      /\ \A q \in Queries : Reachable(q)' <=> Reachable(q)
      /\ \A q \in Queries : Unread(q)' <=> Unread(q)
  BY DEF Deliver, sessions, Gone, Reachable, Unread
<1>2. \A q \in pending : q \in Queries /\ replies[q] = <<>> /\ origin[q] # NoQuery /\ ~won[q]
  BY DEF Custody, PendingUndecided, TypeOK, QueryTypeOK
<1>3. \A q \in Queries : replies'[q] = IF q \in D /\ Reachable(q)
                                         THEN Append(replies[q], what) ELSE replies[q]
  BY <1>2 DEF Deliver
<1>4. ASSUME NEW q \in D, Reachable(q)
      PROVE  /\ StatusOf(q) = "waiting"
             /\ StatusOf(q)' = IF what = "answer" THEN "answered" ELSE "failed"
  <2>1. StatusOf(q) = "waiting"
    BY <1>2, <1>4 DEF StatusOf
  <2>2. replies'[q] = Append(<<>>, what) /\ Append(<<>>, what) # <<>>
        /\ Head(Append(<<>>, what)) = what
    BY <1>2, <1>3, <1>4, HeadOfFirst
  <2>3. QED
    BY <2>1, <2>2 DEF StatusOf
<1>5. ASSUME NEW q \in D, ~Reachable(q) PROVE StatusOf(q)' = StatusOf(q)
  <2>1. q \in Queries /\ replies'[q] = replies[q] /\ replies[q] = <<>> /\ ~Unread(q)
    BY <1>2, <1>3, <1>5, UnreadIsNew
  <2>2. StatusOf(q) = "dropped" /\ StatusOf(q)' = "dropped"
    BY <1>1, <1>2, <1>5, <2>1 DEF StatusOf
  <2>3. QED
    BY <2>2
<1>6. ASSUME NEW q \in Queries \ D PROVE StatusOf(q)' = StatusOf(q)
  BY <1>1, <1>3, StatusKept
<1>7. QED
  BY <1>1, <1>4, <1>5, <1>6

\* Sessions D leave the list, and a new connection may join it.
LEMMA CloseSeen ==
  ASSUME TypeOK, Custody, NEW D \in SUBSET Conns, CloseSessions(D),
         UNCHANGED <<pending, origin, replies, stop>>,
         phase # "ended" <=> phase' # "ended",
         \A c \in Conns : \/ conn'[c] = conn[c] /\ c \notin D
                          \/ c \in D /\ conn'[c] = "closed"
                          \/ c \notin D /\ conn[c] = "new" /\ conn'[c] \in {"open", "closed"},
         stop # "freed"
  PROVE  Service!Next \/ UNCHANGED seen
<1> DEFINE G == Gone' \ Gone
<1>1. Gone \subseteq Gone' /\ G \in SUBSET Queries
  BY DEF Gone
<1>2. ASSUME NEW q \in Queries, origin[q] \in D, conn[origin[q]] = "open"
      PROVE  q \in G
  BY <1>2, DnsProxyAssumption DEF Gone
<1>3. ASSUME NEW q \in Queries, origin[q] \notin D \/ conn[origin[q]] # "open"
      PROVE  StatusOf(q)' = StatusOf(q) /\ q \notin G
  <2>1. origin[q] \in Conns => conn[origin[q]] # "new"
    BY DEF Custody, SenderOpened
  <2>2. q \notin G
    BY <1>3, <2>1 DEF Gone, TypeOK, SessionTypeOK
  <2>3. Reachable(q)' <=> Reachable(q)
    BY <1>3, <2>1, DnsProxyAssumption DEF Reachable, sessions
  <2>4. Unread(q)' <=> Unread(q)
    <3>1. ASSUME Unread(q) PROVE Unread(q)'
      <4>1. PICK c \in sessions : \E i \in 1..Len(reader[c]) : reader[c][i] = q
        BY <3>1 DEF Unread
      <4>2. origin[q] = c /\ c \notin D
        BY <1>3, <4>1, DnsProxyAssumption DEF Custody, ReaderUnregistered, sessions
      <4>3. c \in sessions' /\ reader'[c] = reader[c]
        BY <4>1, <4>2 DEF sessions, CloseSessions
      <4>4. QED
        BY <4>1, <4>3 DEF Unread
    <3>2. ASSUME Unread(q)' PROVE Unread(q)
      <4>1. PICK c \in sessions' : \E i \in 1..Len(reader'[c]) : reader'[c][i] = q
        BY <3>2 DEF Unread
      <4>2. c \notin D /\ reader'[c] = reader[c]
        BY <4>1 DEF sessions, CloseSessions
      <4>3. reader[c] # <<>>
        BY <4>1, <4>2
      <4>4. c \in sessions
        BY <4>1, <4>3 DEF Custody, GoneHoldsNothing, sessions
      <4>5. QED
        BY <4>1, <4>2, <4>4 DEF Unread
    <3>3. QED
      BY <3>1, <3>2
  <2>5. QED
    BY <2>2, <2>3, <2>4, StatusKept
<1>4. ASSUME NEW q \in Queries, origin[q] \in D, conn[origin[q]] = "open"
      PROVE  /\ StatusOf(q) \in {"new", "waiting"} => StatusOf(q)' = "dropped"
             /\ StatusOf(q) \notin {"new", "waiting"} => StatusOf(q)' = StatusOf(q)
  <2>1. origin[q] \notin sessions' /\ origin[q] # NoQuery /\ origin[q] # Udp
    BY <1>4, DnsProxyAssumption DEF sessions
  <2>2. ~Unread(q)'
    <3> SUFFICES ASSUME Unread(q)' PROVE FALSE
      OBVIOUS
    <3>1. PICK c \in sessions' : \E i \in 1..Len(reader'[c]) : reader'[c][i] = q
      BY DEF Unread
    <3>2. c \notin D /\ reader'[c] = reader[c] /\ c \in Conns
      BY <3>1 DEF sessions, CloseSessions
    <3>3. origin[q] = c
      BY <3>1, <3>2, DnsProxyAssumption DEF Custody, ReaderUnregistered
    <3>4. QED
      BY <1>4, <3>2, <3>3
  <2>3. QED
    BY <2>1, <2>2 DEF StatusOf, Reachable
<1>5. CASE G = {}
  <2>1. \A q \in Queries : StatusOf(q)' = StatusOf(q)
    BY <1>2, <1>3, <1>5
  <2>2. Gone' = Gone
    BY <1>1, <1>5
  <2>3. QED
    BY <2>1, <2>2 DEF seen
<1>6. CASE G # {}
  <2>1. /\ [q \in Queries |-> StatusOf(q)]' \in [Queries -> Service!Status]
        /\ \A q \in Queries :
             \/ StatusOf(q)' = StatusOf(q) /\ ~(q \in G /\ StatusOf(q) = "waiting")
             \/ q \in G /\ StatusOf(q) \in {"new", "waiting"} /\ StatusOf(q)' = "dropped"
    <3>1. \A q \in Queries : StatusOf(q)' \in Service!Status
      BY DEF StatusOf, Service!Status
    <3>2. QED
      BY <1>2, <1>3, <1>4, <3>1
  <2>2. Service!Leave(G)
    BY <1>1, <1>6, <2>1 DEF Service!Leave
  <2>3. QED
    BY <1>1, <2>2 DEF Service!Next
<1>7. QED
  BY <1>5, <1>6

\* The session of c, whose reader becomes ms, is served.
LEMMA ServeSeen ==
  ASSUME TypeOK, Custody, NEW c \in sessions,
         NEW ms \in Seq(Queries \cup {Malformed}),
         phase = "serve", ServiceTcpSession(c, ms),
         UNCHANGED <<replies, conn, stop>>,
         origin' \in [Queries -> Conns \cup {Udp, NoQuery}],
         \A q \in Queries :
           \/ origin'[q] = origin[q]
           \/ /\ origin[q] = NoQuery /\ origin'[q] = c
              /\ \E j \in 1..Len(ms) : ms[j] = q,
         \A i \in 1..Len(reader[c]) : \E j \in 1..Len(ms) : ms[j] = reader[c][i],
         \A i \in 1..Len(ms) : ms[i] # Malformed =>
           /\ origin'[ms[i]] = c /\ replies[ms[i]] = <<>> /\ ms[i] \notin pending
           /\ origin[ms[i]] = NoQuery \/ \E j \in 1..Len(reader[c]) : reader[c][j] = ms[i]
           /\ \A j \in 1..Len(ms) : ms[j] = ms[i] => j = i
  PROVE  Service!Next \/ UNCHANGED seen
<1>1. /\ sessions' = sessions /\ c \in Conns /\ conn[c] = "open" /\ phase' # "ended"
      /\ stop # "freed"
  BY DEF sessions, ServiceTcpSession, BeginDispatch, Custody, StopsAfterLoop
<1>2. Gone' = Gone
  BY <1>1, DnsProxyAssumption DEF Gone
<1>3. \A q \in Queries : origin[q] # NoQuery => (Reachable(q)' <=> Reachable(q))
  BY <1>1 DEF Reachable
<1>4. \A d \in Conns \ {c} : reader'[d] = reader[d]
  BY DEF ServiceTcpSession, TypeOK, SessionTypeOK
<1>5. \A q \in Queries : Unread(q) =>
        Unread(q)' \/ (\E j \in 1..Len(ms) : ms[j] = q)
  BY <1>1, <1>4, SMTT(30) DEF Unread, sessions
<1>6. ASSUME NEW q \in Queries, \E j \in 1..Len(ms) : ms[j] = q
      PROVE  /\ StatusOf(q) = "new" /\ origin'[q] = c /\ replies'[q] = <<>>
             /\ q \notin pending /\ Reachable(q)'
  <2>1. q # Malformed /\ origin'[q] = c /\ replies[q] = <<>> /\ q \notin pending
    BY <1>6, DnsProxyAssumption
  <2>2. origin[q] = NoQuery \/ Unread(q)
    BY <1>6, <2>1 DEF Unread
  <2>3. QED
    BY <1>1, <2>1, <2>2 DEF StatusOf, Reachable
<1>7. ASSUME NEW q \in Queries, ~ \E j \in 1..Len(ms) : ms[j] = q,
             \A p \in Queries : Unread(p)' => Unread(p) \/ \E j \in 1..Len(ms) : ms[j] = p,
             q \in pending' <=> q \in pending
      PROVE  StatusOf(q)' = StatusOf(q)
  <2>1. origin'[q] = origin[q] /\ (Unread(q)' <=> Unread(q))
    BY <1>5, <1>7
  <2>2. Reachable(q)' <=> Reachable(q)
    BY <1>1, <2>1 DEF Reachable
  <2>3. QED
    BY <1>7, <2>1, <2>2 DEF StatusOf
<1>8. CASE /\ busy[c] \/ \A i \in 1..Len(ms) : ms[i] = Malformed
           /\ reader' = [reader EXCEPT ![c] = IF busy[c] THEN ms ELSE <<>>]
           /\ UNCHANGED pending
  <2>1. reader'[c] = IF busy[c] THEN ms ELSE <<>>
    BY <1>1, <1>8 DEF TypeOK, SessionTypeOK
  <2>2. \A p \in Queries : Unread(p)' => Unread(p) \/ \E j \in 1..Len(ms) : ms[j] = p
    BY <1>1, <1>4, <2>1 DEF Unread, sessions
  <2>3. ASSUME NEW q \in Queries, \E j \in 1..Len(ms) : ms[j] = q
        PROVE  StatusOf(q)' = StatusOf(q)
    <3>1. busy[c] /\ reader'[c] = ms
      BY <1>8, <2>1, <2>3, DnsProxyAssumption
    <3>2. Unread(q)'
      BY <1>1, <2>3, <3>1 DEF Unread
    <3>3. QED
      BY <1>6, <1>8, <2>3, <3>2 DEF StatusOf
  <2>4. \A q \in Queries : StatusOf(q)' = StatusOf(q)
    BY <1>7, <1>8, <2>2, <2>3
  <2>5. QED
    BY <1>1, <1>2, <2>4 DEF seen
<1>9. CASE \E i \in 1..Len(ms) :
             /\ ms[i] # Malformed
             /\ \A j \in 1..(i - 1) : ms[j] = Malformed
             /\ reader' = [reader EXCEPT ![c] = Rest(ms, i)]
             /\ Register(ms[i])
  <2>1. PICK i \in 1..Len(ms) :
             /\ ms[i] # Malformed
             /\ \A j \in 1..(i - 1) : ms[j] = Malformed
             /\ reader' = [reader EXCEPT ![c] = Rest(ms, i)]
             /\ Register(ms[i])
    BY <1>9
  <2> DEFINE taken == ms[i]
  <2>2. taken \in Queries /\ pending' = pending \cup {taken}
    BY <2>1 DEF Register
  <2>3. /\ reader'[c] = Rest(ms, i) /\ Len(Rest(ms, i)) = Len(ms) - i
        /\ \A k \in 1..(Len(ms) - i) : Rest(ms, i)[k] = ms[i + k]
    BY <1>1, <2>1 DEF Rest, TypeOK, SessionTypeOK
  <2>4. \A p \in Queries : Unread(p)' => Unread(p) \/ \E j \in 1..Len(ms) : ms[j] = p
    <3> SUFFICES ASSUME NEW p \in Queries, NEW k \in 1..Len(reader'[c]), reader'[c][k] = p
                 PROVE  \E j \in 1..Len(ms) : ms[j] = p
      BY <1>1, <1>4 DEF Unread, sessions
    <3>1. k \in 1..(Len(ms) - i) /\ ms[i + k] = p
      BY <2>3
    <3>2. i + k \in 1..Len(ms)
      BY <3>1
    <3>3. QED
      BY <3>1, <3>2
  <2>5. PICK q \in Queries : q = ms[i]
    BY <2>2
  <2>6. StatusOf(q) = "new" /\ StatusOf(q)' = "waiting" /\ origin'[q] = c
    <3>1. \E j \in 1..Len(ms) : ms[j] = q
      BY <2>5
    <3>2. /\ StatusOf(q) = "new" /\ replies'[q] = <<>> /\ Reachable(q)' /\ q \in pending'
          /\ origin'[q] = c
      BY <1>6, <2>2, <2>5, <3>1
    <3>3. QED
      BY <3>2 DEF StatusOf
  <2>7. ASSUME NEW p \in Queries \ {q} PROVE StatusOf(p)' = StatusOf(p)
    <3>1. p \in pending' <=> p \in pending
      BY <2>2, <2>5
    <3>2. CASE \E j \in 1..Len(ms) : ms[j] = p
      <4>1. PICK j \in 1..Len(ms) : ms[j] = p
        BY <3>2
      <4>2. j > i
        BY <2>1, <2>5, <4>1, DnsProxyAssumption
      <4>3. j - i \in 1..Len(reader'[c]) /\ reader'[c][j - i] = p
        BY <2>3, <4>1, <4>2
      <4>4. Unread(p)'
        BY <1>1, <4>3 DEF Unread
      <4>5. QED
        BY <1>6, <2>5, <3>1, <3>2, <4>4 DEF StatusOf
    <3>3. CASE ~ \E j \in 1..Len(ms) : ms[j] = p
      BY <1>7, <2>4, <3>1, <3>3
    <3>4. QED
      BY <3>2, <3>3
  <2>8. q \notin Gone
    BY <1>1, <1>2, <2>6 DEF Gone
  <2>9. Service!TakeIn(q)
    <3>1. [p \in Queries |-> StatusOf(p)]'
            = [[p \in Queries |-> StatusOf(p)] EXCEPT ![q] = "waiting"]
      <4>1. \A p \in Queries : StatusOf(p)' = IF p = q THEN "waiting" ELSE StatusOf(p)
        BY <2>6, <2>7
      <4>2. QED
        BY <4>1
    <3>2. QED
      BY <1>1, <1>2, <2>6, <2>8, <3>1 DEF Service!TakeIn
  <2>10. QED
    BY <2>9 DEF Service!Next
<1>10. QED
  BY <1>8, <1>9 DEF ServiceTcpSession

\* A datagram is read: its query is taken in, or refused at the cap.
LEMMA ReadSeen ==
  ASSUME TypeOK, Custody, NEW q \in Queries, HandleQuery(q)
  PROVE  Service!Next \/ UNCHANGED seen
<1>1. /\ origin[q] = NoQuery /\ replies[q] = <<>> /\ q \notin pending /\ origin'[q] = Udp
      /\ \A p \in Queries \ {q} : origin'[p] = origin[p]
      /\ UNCHANGED <<conn, reader, stop>> /\ phase = "udp" /\ phase' # "ended"
  BY DEF HandleQuery, BeginDispatch, Custody, UnreadUntouched, PendingUndecided, sessVars,
     TypeOK, QueryTypeOK
<1>2. sessions' = sessions /\ \A p \in Queries : Unread(p)' <=> Unread(p)
  BY <1>1 DEF sessions, Unread
<1>3. Gone' = Gone
  BY <1>1, DnsProxyAssumption DEF Gone
<1>4. StatusOf(q) = "new" /\ Reachable(q)'
  BY <1>1 DEF StatusOf, Reachable
<1>5. ASSUME NEW p \in Queries \ {q}, replies'[p] = replies[p], p \in pending' <=> p \in pending
      PROVE  StatusOf(p)' = StatusOf(p)
  BY <1>1, <1>2, <1>5, StatusKept DEF Reachable
<1>6. CASE Register(q) /\ UNCHANGED replies
  <2>1. StatusOf(q)' = "waiting"
    BY <1>1, <1>4, <1>6 DEF StatusOf, Register
  <2>2. \A p \in Queries \ {q} : StatusOf(p)' = StatusOf(p)
    BY <1>5, <1>6 DEF Register
  <2>3. [p \in Queries |-> StatusOf(p)]'
          = [[p \in Queries |-> StatusOf(p)] EXCEPT ![q] = "waiting"]
    BY <2>1, <2>2
  <2>4. q \notin Gone
    BY <1>1, DnsProxyAssumption DEF Gone, Custody, StopsAfterLoop
  <2>5. Service!TakeIn(q)
    BY <1>1, <1>3, <1>4, <2>3, <2>4 DEF Service!TakeIn
  <2>6. QED
    BY <2>5 DEF Service!Next
<1>7. CASE UNCHANGED pending /\ replies' = [replies EXCEPT ![q] = Append(@, "servfail")]
  <2>1. replies'[q] = Append(<<>>, "servfail")
    BY <1>1, <1>7 DEF TypeOK, QueryTypeOK
  <2>2. replies'[q] # <<>> /\ Head(replies'[q]) = "servfail"
    BY <2>1, HeadOfFirst DEF Answers
  <2>3. StatusOf(q)' = "failed"
    BY <2>2 DEF StatusOf
  <2>4. \A p \in Queries \ {q} : StatusOf(p)' = StatusOf(p)
    BY <1>5, <1>7 DEF TypeOK, QueryTypeOK
  <2>5. [p \in Queries |-> StatusOf(p)]'
          = [[p \in Queries |-> StatusOf(p)] EXCEPT ![q] = "failed"]
    BY <2>3, <2>4
  <2>6. Service!Refuse(q)
    BY <1>1, <1>3, <1>4, <2>5 DEF Service!Refuse
  <2>7. QED
    BY <2>6 DEF Service!Next
<1>8. QED
  BY <1>6, <1>7 DEF HandleQuery

\* The state goes: every client that is still there is dropped.
LEMMA FreeSeen ==
  ASSUME TypeOK, Custody, StopFree
  PROVE  Service!Next \/ UNCHANGED seen
<1> DEFINE G == Queries \ Gone
<1>1. /\ stop = "shutdown" /\ stop' = "freed" /\ pending' = {} /\ sessions' = {}
      /\ UNCHANGED <<origin, replies, phase>>
  BY DEF StopFree, sessions, loopVars
<1>2. Gone' = Gone \cup G
  BY <1>1 DEF Gone
<1>3. \A q \in Queries : ~Unread(q)'
  BY <1>1 DEF Unread
<1>4. ASSUME NEW q \in Queries
      PROVE  \/ StatusOf(q)' = StatusOf(q) /\ StatusOf(q) # "waiting"
             \/ q \in G /\ StatusOf(q) \in {"new", "waiting"} /\ StatusOf(q)' = "dropped"
  <2>1. CASE replies[q] # <<>> \/ origin[q] = NoQuery
    BY <1>1, <2>1, DnsProxyAssumption
    DEF StatusOf, Reachable, sessions, Custody, PendingUndecided
  <2>2. CASE replies[q] = <<>> /\ origin[q] # NoQuery
    <3>1. StatusOf(q)' = "dropped"
      BY <1>1, <1>3, <2>2 DEF StatusOf
    <3>2. StatusOf(q) \in {"new", "waiting"} => q \in G
      <4>1. ASSUME Reachable(q) PROVE q \in G
        BY <1>1, <4>1, DnsProxyAssumption DEF Gone, Reachable, sessions
      <4>2. Unread(q) => Reachable(q)
        BY UnreadIsNew DEF Reachable
      <4>3. QED
        BY <2>2, <4>1, <4>2 DEF StatusOf
    <3>3. StatusOf(q) \in {"new", "waiting", "dropped"}
      BY <2>2 DEF StatusOf
    <3>4. QED
      BY <3>1, <3>2, <3>3
  <2>3. QED
    BY <2>1, <2>2
<1>5. CASE G = {}
  <2>1. \A q \in Queries : StatusOf(q)' = StatusOf(q)
    BY <1>4, <1>5
  <2>2. QED
    BY <1>1, <1>2, <1>5, <2>1 DEF seen
<1>6. CASE G # {}
  <2>1. [q \in Queries |-> StatusOf(q)]' \in [Queries -> Service!Status]
    <3>1. \A q \in Queries : StatusOf(q)' \in Service!Status
      BY DEF StatusOf, Service!Status
    <3>2. QED
      BY <3>1
  <2>2. Service!Leave(G)
    BY <1>1, <1>2, <1>4, <1>6, <2>1 DEF Service!Leave
  <2>3. QED
    BY <2>2 DEF Service!Next
<1>7. QED
  BY <1>5, <1>6

LEMMA ServiceStep ==
  TypeOK /\ Custody /\ [Next]_vars => Service!Next \/ UNCHANGED seen
<1> SUFFICES ASSUME TypeOK, Custody, [Next]_vars
             PROVE  Service!Next \/ UNCHANGED seen
  OBVIOUS
<1>1. CASE LoopEnds
  <2>1. /\ UNCHANGED <<replies, pending, origin, conn, reader, stop>>
        /\ phase = "select" /\ phase' = "ended"
    BY <1>1 DEF LoopEnds, queryVars, sessVars
  <2>2. Gone' = Gone /\ sessions' = sessions
    BY <2>1 DEF Gone, sessions
  <2>3. \A q \in Queries : StatusOf(q)' = StatusOf(q)
    BY <2>1, <2>2 DEF StatusOf, Reachable, Unread
  <2>4. [q \in Queries |-> StatusOf(q)]' = [q \in Queries |-> StatusOf(q)]
    BY <2>3
  <2>5. Service!GoDown
    BY <2>1, <2>2, <2>4 DEF Service!GoDown
  <2>6. QED
    BY <2>5 DEF Service!Next
<1>2. CASE \/ Select \/ NoQueryRead \/ EndDispatch \/ NoClient \/ ServedAll
           \/ Drain \/ Collected \/ Tick \/ UNCHANGED vars
           \/ \E u \in Upstreams : Submit(u)
           \/ \E c \in Conns : ServeNothing(c)
           \/ \E w \in Workers : Worker(w)
  <2>1. CASE Select \/ NoQueryRead \/ NoClient \/ ServedAll \/ Collected
    BY <2>1, SeenKept
    DEF Select, NoQueryRead, NoClient, ServedAll, Collected, queryVars, sessVars
  <2>2. CASE EndDispatch \/ Drain
    BY <2>2, SeenKept
    DEF EndDispatch, Drain, queryVars, sessVars, TypeOK, LoopTypeOK
  <2>3. CASE Tick \/ UNCHANGED vars
    BY <2>3, SeenKept DEF Tick, vars, loopVars, queryVars, sessVars
  <2>4. ASSUME NEW u \in Upstreams, Submit(u) PROVE UNCHANGED seen
    BY <2>4, SeenKept DEF Submit, queryVars, sessVars
  <2>5. ASSUME NEW c \in Conns, ServeNothing(c) PROVE UNCHANGED seen
    BY <2>5, SeenKept DEF ServeNothing, Serve, NothingElseServed, sessVars
  <2>6. ASSUME NEW w \in Workers, Worker(w) PROVE UNCHANGED seen
    BY <2>6, SeenKept
    DEF Worker, Take, Ask, QueryUpstream, Count, Post, Exit, OnlyPool, loopVars,
       queryVars, sessVars
  <2>7. QED
    BY <1>2, <2>1, <2>2, <2>3, <2>4, <2>5, <2>6
<1>3. CASE StopRequest \/ StopCancel \/ Shutdown
  <2>1. /\ UNCHANGED <<replies, pending, origin, conn, reader, phase>>
        /\ stop # "freed" /\ stop' # "freed"
    BY <1>3 DEF StopRequest, StopCancel, Shutdown, loopVars, queryVars, sessVars
  <2>2. QED
    BY <2>1, SeenKept
<1>4. CASE StopFree
  BY <1>4, FreeSeen
<1>5. ASSUME NEW q \in Queries, HandleQuery(q)
      PROVE  Service!Next \/ UNCHANGED seen
  BY <1>5, ReadSeen
<1>6. ASSUME NEW D \in SUBSET pending, Deliver(D, "servfail"), phase' # "ended",
             UNCHANGED <<origin, conn, reader, stop>>, phase # "ended"
      PROVE  Service!Next \/ UNCHANGED seen
  <2> DEFINE F == {q \in D : Reachable(q)}
  <2>1. /\ Gone' = Gone /\ F \subseteq Queries
        /\ \A q \in F : StatusOf(q) = "waiting"
        /\ \A q \in Queries :
             StatusOf(q)' = IF q \in F THEN "failed" ELSE StatusOf(q)
    BY <1>6, DeliverSeen DEF Answers, TypeOK, QueryTypeOK
  <2>2. [q \in Queries |-> StatusOf(q)]'
          = [q \in Queries |-> IF q \in F THEN "failed" ELSE [p \in Queries |-> StatusOf(p)][q]]
    <3> HIDE DEF F
    <3> QED
      BY <2>1
  <2>3. CASE F = {}
    <3>1. \A q \in Queries : StatusOf(q)' = StatusOf(q)
      BY <2>1, <2>3
    <3>2. QED
      BY <1>6, <2>1, <3>1 DEF seen
  <2>4. CASE F # {}
    <3> HIDE DEF F
    <3>1. \A q \in F : [p \in Queries |-> StatusOf(p)][q] = "waiting"
      BY <2>1
    <3>2. Service!Fail(F)
      BY <1>6, <2>1, <2>2, <2>4, <3>1 DEF Service!Fail
    <3>3. QED
      BY <2>1, <3>2 DEF Service!Next
  <2>5. QED
    BY <2>3, <2>4
<1>7. CASE ExpireQueries
  BY <1>6, <1>7 DEF ExpireQueries, DueQueries
<1>8. CASE Collect
  <2> DEFINE h == Head(batch).q
  <2>1. /\ phase = "collect" /\ UNCHANGED <<phase, origin, conn, reader, stop>>
        /\ \/ h \in pending /\ Deliver({h}, "answer")
           \/ h \in pending /\ Deliver({h}, "servfail")
           \/ UNCHANGED <<pending, replies>>
    BY <1>8 DEF Collect
  <2> HIDE DEF h
  <2>6. phase # "ended" /\ phase' # "ended"
    BY <2>1
  <2>2. CASE h \in pending /\ Deliver({h}, "servfail")
    BY <1>6, <2>1, <2>2
  <2>3. CASE UNCHANGED <<pending, replies>>
    BY <2>1, <2>3, SeenKept
  <2>4. CASE h \in pending /\ Deliver({h}, "answer")
    <3>1. PICK q \in pending : q = h
      BY <2>4
    <3>2. q \in Queries /\ {q} \in SUBSET pending /\ Deliver({q}, "answer")
      BY <2>4, <3>1 DEF TypeOK, QueryTypeOK
    <3>3. /\ Gone' = Gone
          /\ Reachable(q) => StatusOf(q) = "waiting"
          /\ \A p \in Queries :
               StatusOf(p)' = IF p \in {q} /\ Reachable(p) THEN "answered" ELSE StatusOf(p)
      BY <2>1, <3>2, DeliverSeen DEF Answers
    <3>4. CASE Reachable(q)
      <4>1. [p \in Queries |-> StatusOf(p)]'
              = [[p \in Queries |-> StatusOf(p)] EXCEPT ![q] = "answered"]
        BY <3>2, <3>3, <3>4
      <4>2. Service!Answer(q)
        BY <2>6, <3>2, <3>3, <3>4, <4>1 DEF Service!Answer
      <4>3. QED
        BY <3>2, <4>2 DEF Service!Next
    <3>5. CASE ~Reachable(q)
      <4>1. \A p \in Queries : StatusOf(p)' = StatusOf(p)
        BY <3>3, <3>5
      <4>2. QED
        BY <2>6, <3>3, <4>1 DEF seen
    <3>6. QED
      BY <3>4, <3>5
  <2>5. QED
    BY <2>1, <2>2, <2>3, <2>4
<1>9. ASSUME NEW c \in Conns, Accept(c)
      PROVE  Service!Next \/ UNCHANGED seen
  <2>1. PICK D \in SUBSET Conns, kept \in BOOLEAN :
          /\ D \subseteq sessions \/ (D = {c} /\ ~kept)
          /\ conn' = [d \in Conns |-> IF d = c /\ kept THEN "open"
                                      ELSE IF d \in D \cup {c} THEN "closed"
                                      ELSE conn[d]]
          /\ CloseSessions(D)
    BY <1>9, AcceptCloses
  <2>2. /\ conn[c] = "new" /\ phase = "accept" /\ phase' = "serve" /\ stop # "freed"
        /\ UNCHANGED <<pending, origin, replies, stop>>
    BY <1>9 DEF Accept, queryVars, Custody, StopsAfterLoop
  <2>3. \A d \in Conns :
          \/ conn'[d] = conn[d] /\ d \notin D
          \/ d \in D /\ conn'[d] = "closed"
          \/ d \notin D /\ conn[d] = "new" /\ conn'[d] \in {"open", "closed"}
    BY <2>1, <2>2 DEF sessions
  <2>4. QED
    BY <2>1, <2>2, <2>3, CloseSeen
<1>10. ASSUME NEW c \in Conns, ServeClosed(c)
       PROVE  Service!Next \/ UNCHANGED seen
  <2>1. /\ CloseSessions({c}) /\ UNCHANGED <<pending, origin, replies, stop, phase>>
        /\ conn' = [conn EXCEPT ![c] = "closed"] /\ stop # "freed"
    BY <1>10
    DEF ServeClosed, Serve, NothingElseServed, Custody, StopsAfterLoop
  <2>2. \A d \in Conns : \/ conn'[d] = conn[d] /\ d \notin {c}
                         \/ d \in {c} /\ conn'[d] = "closed"
    BY <2>1 DEF TypeOK, SessionTypeOK
  <2>3. QED
    BY <2>1, <2>2, CloseSeen
<1>11. CASE ExpireTcpSessions
  <2>1. /\ CloseSessions(DueSessions) /\ UNCHANGED <<pending, origin, replies, stop>>
        /\ phase = "reap" /\ phase' = "select" /\ stop # "freed"
        /\ DueSessions \in SUBSET Conns
        /\ \A d \in Conns : \/ conn'[d] = conn[d] /\ d \notin DueSessions
                            \/ d \in DueSessions /\ conn'[d] = "closed"
    BY <1>11 DEF ExpireTcpSessions, DueSessions, sessions, queryVars, Custody, StopsAfterLoop
  <2>2. QED
    BY <2>1, CloseSeen
<1>12. ASSUME NEW c \in Conns, ServeWritten(c) \/ ServeFragment(c)
       PROVE  Service!Next \/ UNCHANGED seen
  <2>1. /\ phase = "serve" /\ ServiceTcpSession(c, reader[c]) /\ c \in sessions
        /\ UNCHANGED <<origin, replies, conn, stop>>
    BY <1>12 DEF ServeWritten, ServeFragment, Serve, Custody, ServesTheList
  <2>2. reader[c] \in Seq(Queries \cup {Malformed})
    BY <2>1 DEF sessions, TypeOK, SessionTypeOK
  <2>3. \A i \in 1..Len(reader[c]) : reader[c][i] # Malformed =>
          /\ origin[reader[c][i]] = c /\ replies[reader[c][i]] = <<>>
          /\ reader[c][i] \notin pending
          /\ \A j \in 1..Len(reader[c]) : reader[c][j] = reader[c][i] => j = i
    BY <2>1 DEF Custody, ReaderUnregistered, sessions
  <2>4. origin' \in [Queries -> Conns \cup {Udp, NoQuery}]
    BY <2>1 DEF TypeOK, QueryTypeOK
  <2>5. QED
    BY <2>1, <2>2, <2>3, <2>4, ServeSeen
<1>13. ASSUME NEW c \in Conns, NEW m \in Queries \cup {Malformed}, ServeMessage(c, m)
       PROVE  Service!Next \/ UNCHANGED seen
  <2> DEFINE ms == Append(reader[c], m)
  <2>1. /\ phase = "serve" /\ ServiceTcpSession(c, ms) /\ c \in sessions
        /\ UNCHANGED <<replies, conn, stop>>
    BY <1>13 DEF ServeMessage, Serve, Custody, ServesTheList
  <2>2. MessageTaken(c, ms)
    BY <1>13, MessageArrives
  <2>3. QED
    <3> HIDE DEF ms
    <3> QED
      BY <2>1, <2>2, ServeSeen DEF MessageTaken
<1>14. QED
  BY <1>1, <1>2, <1>3, <1>4, <1>5, <1>7, <1>8, <1>9, <1>10, <1>11, <1>12, <1>13
  DEF Next, Loop, Intake, ServeTcp, Harvest, Stop

\* The forwarder keeps the safety half of what QueryService promises: a query
\* is taken in, then answered or failed once, unless its client leaves.
THEOREM ImplementsServiceSafely == Spec => Service!Safety
<1>1. Init => Service!Init
  BY ServiceInit
<1>2. TypeOK /\ Custody /\ [Next]_vars => [Service!Next]_(Service!vars)
  BY ServiceStep DEF seen, Service!vars
<1>3. Spec => []TypeOK
  BY TypeCorrect
<1>4. Spec => []Custody
  BY CustodyHolds
<1>5. QED
  BY <1>1, <1>2, <1>3, <1>4, PTL DEF Spec, Service!Safety
=============================================================================
