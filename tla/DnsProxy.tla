------------------------------ MODULE DnsProxy ------------------------------
(***************************************************************************)
(* The forwarder of src/src/dns/dns_proxy.cpp: one loop thread that owns   *)
(* every client, a fixed pool of worker threads that ask the upstreams,    *)
(* and the thread that calls Stop().                                       *)
(*                                                                         *)
(* A query that is registered is raced: one task per upstream is queued,   *)
(* each task posts one completion, the first usable answer wins, and the   *)
(* client is told SERVFAIL when every task has failed or the deadline has  *)
(* passed.                                                                 *)
(*                                                                         *)
(* Time is kept as countdowns: left[q] and idle[c] are the deadline minus  *)
(* the present, floored at zero, so Tick is the only action that lets time *)
(* pass and no absolute clock bounds a behaviour.                          *)
(***************************************************************************)
EXTENDS Naturals, Sequences, FiniteSets

CONSTANTS
  Queries,      \* well-formed queries that clients may send, each one once
  Conns,        \* TCP connections that clients may open, each one once
  Upstreams,    \* the upstreams of the listener
  Workers,      \* the pool's threads
  MaxPending,   \* kMaxPendingQueries
  MaxSessions,  \* kMaxTcpSessions
  MaxQueued,    \* WorkerPool::m_maxQueued
  MaxBuffered,  \* messages TcpSessionReader holds before its bound is hit
  QueryTicks,   \* timeoutMs + kTickMs
  IdleTicks,    \* kTcpIdleTimeoutMs
  Udp, Malformed, NoQuery

ASSUME DnsProxyAssumption ==
  /\ IsFiniteSet(Queries) /\ IsFiniteSet(Conns) /\ IsFiniteSet(Upstreams)
  /\ MaxPending \in Nat /\ MaxSessions \in Nat \ {0}
  /\ MaxQueued \in Nat /\ MaxBuffered \in Nat
  /\ QueryTicks \in Nat \ {0} /\ IdleTicks \in Nat \ {0}
  /\ Udp \notin Conns /\ Malformed \notin Queries /\ NoQuery \notin Queries
  /\ NoQuery \notin Conns \cup {Udp}

VARIABLES
  running,      \* DnsProxy::m_running
  phase,        \* where the loop is in its pass
  resume,       \* the phase the loop goes back to after DispatchQuery
  toServe,      \* sessions this pass has still to look at
  dispatching,  \* the query inside DispatchQuery
  unsubmitted,  \* upstreams DispatchQuery has not reached yet
  batch,        \* DrainCompletions' `finished`
  pending,      \* DnsProxyState::pending
  origin,       \* who asked: NoQuery until the loop has read the query
  left,         \* PendingQuery::deadline, as a countdown
  won,          \* RaceState::won
  cancelled,    \* RaceState::cancel
  done,         \* RaceState::done
  total,        \* RaceState::total
  jobs,         \* WorkerPool::m_jobs, as the query each job works for
  stopping,     \* WorkerPool::m_stopping
  wpc,          \* where each worker is
  job,          \* the query each worker works for
  result,       \* what the worker's upstream gave
  completions,  \* DnsProxyState::completions
  conn,         \* "open" is a member of DnsProxyState::sessions
  busy,         \* TcpSession::busy
  race,         \* TcpSession::race
  out,          \* the query whose response is being written
  idle,         \* TcpClientConnection::deadline, as a countdown
  reader,       \* messages of TcpSessionReader not yet taken
  replies,      \* what each query's client was handed, in order
  stop          \* where the thread inside StopLocked is

loopVars == <<running, phase, resume, toServe, dispatching, unsubmitted, batch>>
queryVars == <<pending, origin, left>>
raceVars == <<won, cancelled, done, total>>
poolVars == <<jobs, stopping, wpc, job, result>>
sessVars == <<conn, busy, race, out, idle, reader>>
vars == <<loopVars, queryVars, raceVars, poolVars, completions, sessVars,
          replies, stop>>

Answers == {"answer", "servfail"}
Results == {"valid", "unusable"}
Completion == [q : Queries, r : Results]

Phases == {"select", "udp", "accept", "serve", "dispatch", "drain", "collect",
           "expire", "reap", "ended"}
WorkerStates == {"idle", "taken", "asking", "answered", "counted", "exited"}
StopStates == {"none", "joining", "cancelling", "shutdown", "freed"}

sessions == {c \in Conns : conn[c] = "open"}

\* The client a query is to be answered to is still there.
Reachable(q) == origin[q] = Udp \/ origin[q] \in sessions

Init ==
  /\ running = TRUE /\ phase = "select" /\ resume = "accept"
  /\ toServe = {} /\ dispatching = NoQuery /\ unsubmitted = {}
  /\ batch = <<>>
  /\ pending = {}
  /\ origin = [q \in Queries |-> NoQuery]
  /\ left = [q \in Queries |-> 0]
  /\ won = [q \in Queries |-> FALSE]
  /\ cancelled = [q \in Queries |-> FALSE]
  /\ done = [q \in Queries |-> 0]
  /\ total = [q \in Queries |-> 0]
  /\ jobs = <<>> /\ stopping = FALSE
  /\ wpc = [w \in Workers |-> "idle"]
  /\ job = [w \in Workers |-> NoQuery]
  /\ result = [w \in Workers |-> "unusable"]
  /\ completions = <<>>
  /\ conn = [c \in Conns |-> "new"]
  /\ busy = [c \in Conns |-> FALSE]
  /\ race = [c \in Conns |-> NoQuery]
  /\ out = [c \in Conns |-> NoQuery]
  /\ idle = [c \in Conns |-> 0]
  /\ reader = [c \in Conns |-> <<>>]
  /\ replies = [q \in Queries |-> <<>>]
  /\ stop = "none"
-----------------------------------------------------------------------------
(***************************************************************************)
(* Waiting                                                                 *)
(***************************************************************************)

\* The flag was cleared while the last pass ran, or select() failed.
LoopEnds ==
  /\ phase = "select"
  /\ running' = FALSE
  /\ phase' = "ended"
  /\ UNCHANGED <<resume, toServe, dispatching, unsubmitted, batch, queryVars,
                 raceVars, poolVars, completions, sessVars, replies, stop>>

\* select() comes back with a socket, or with none when its tick is over.
Select ==
  /\ phase = "select"
  /\ running
  /\ phase' \in {"udp", "drain"}
  /\ UNCHANGED <<running, resume, toServe, dispatching, unsubmitted, batch,
                 queryVars, raceVars, poolVars, completions, sessVars,
                 replies, stop>>
-----------------------------------------------------------------------------
(***************************************************************************)
(* Intake                                                                  *)
(***************************************************************************)

\* The head of DispatchQuery; `next` is where its caller continues.
BeginDispatch(q, next) ==
  /\ phase' = "dispatch"
  /\ resume' = next
  /\ dispatching' = q
  /\ unsubmitted' = Upstreams
  /\ total' = [total EXCEPT ![q] = 0]
  /\ done' = [done EXCEPT ![q] = 0]

Register(q) ==
  /\ pending' = pending \cup {q}
  /\ left' = [left EXCEPT ![q] = QueryTicks]

\* Mutant: the refusal at the cap does not return.
HandleQueryRefusedGoesOn(q) ==
  /\ phase = "udp"
  /\ origin[q] = NoQuery
  /\ origin' = [origin EXCEPT ![q] = Udp]
  /\ replies' = IF Cardinality(pending) >= MaxPending
                  THEN [replies EXCEPT ![q] = Append(@, "servfail")] ELSE replies
  /\ Register(q)
  /\ BeginDispatch(q, "accept")
  /\ UNCHANGED <<running, toServe, batch, won, cancelled, poolVars,
                 completions, sessVars, stop>>

HandleQuery(q) ==
  /\ phase = "udp"
  /\ origin[q] = NoQuery
  /\ origin' = [origin EXCEPT ![q] = Udp]
  /\ \/ /\ Cardinality(pending) >= MaxPending
        /\ replies' = [replies EXCEPT ![q] = Append(@, "servfail")]
        /\ phase' = "accept"
        /\ UNCHANGED <<pending, left, resume, dispatching, unsubmitted, total,
                       done>>
     \/ /\ Cardinality(pending) < MaxPending
        /\ Register(q)
        /\ BeginDispatch(q, "accept")
        /\ UNCHANGED replies
  /\ UNCHANGED <<running, toServe, batch, won, cancelled, poolVars,
                 completions, sessVars, stop>>

\* No datagram, or one that ParseQuery rejects.
NoQueryRead ==
  /\ phase = "udp"
  /\ phase' = "accept"
  /\ UNCHANGED <<running, resume, toServe, dispatching, unsubmitted, batch,
                 queryVars, raceVars, poolVars, completions, sessVars,
                 replies, stop>>

\* One turn of DispatchQuery's loop. A full queue refuses the task.
Submit(u) ==
  /\ phase = "dispatch"
  /\ u \in unsubmitted
  /\ unsubmitted' = unsubmitted \ {u}
  /\ \/ /\ ~stopping /\ Len(jobs) < MaxQueued
        /\ jobs' = Append(jobs, dispatching)
        /\ total' = [total EXCEPT ![dispatching] = @ + 1]
     \/ /\ stopping \/ Len(jobs) >= MaxQueued
        /\ UNCHANGED <<jobs, total>>
  /\ UNCHANGED <<running, phase, resume, toServe, dispatching, batch,
                 queryVars, won, cancelled, done, stopping, wpc, job, result,
                 completions, sessVars, replies, stop>>

\* The tail of DispatchQuery: a race nobody runs is failed by the loop.
EndDispatch ==
  /\ phase = "dispatch"
  /\ unsubmitted = {}
  /\ phase' = resume
  /\ dispatching' = NoQuery
  /\ completions' = IF total[dispatching] = 0
                      THEN Append(completions, [q |-> dispatching, r |-> "unusable"])
                      ELSE completions
  /\ UNCHANGED <<running, resume, toServe, unsubmitted, batch, queryVars,
                 raceVars, poolVars, sessVars, replies, stop>>
-----------------------------------------------------------------------------
(***************************************************************************)
(* TCP sessions                                                            *)
(***************************************************************************)

\* The sessions of D leave the list: their sockets are closed and the races
\* they wait for are cancelled. What the list held of them is gone.
CloseSessions(D) ==
  /\ cancelled' = [q \in Queries |-> cancelled[q] \/ \E c \in D : race[c] = q]
  /\ busy' = [c \in Conns |-> busy[c] /\ c \notin D]
  /\ race' = [c \in Conns |-> IF c \in D THEN NoQuery ELSE race[c]]
  /\ out' = [c \in Conns |-> IF c \in D THEN NoQuery ELSE out[c]]
  /\ reader' = [c \in Conns |-> IF c \in D THEN <<>> ELSE reader[c]]

ListFull == Cardinality(sessions) >= MaxSessions

\* The sessions AcceptTcpClient may evict: idle longest among those not busy.
Victims ==
  {v \in sessions : /\ ~busy[v]
                    /\ \A c \in sessions : ~busy[c] => idle[v] <= idle[c]}

\* The newcomer is not among the sockets select() reported.
Accept(c) ==
  /\ phase = "accept"
  /\ conn[c] = "new"
  /\ \E evicted \in IF ~ListFull THEN {{}}
                    ELSE IF Victims = {} THEN {{c}}   \* the newcomer is refused
                    ELSE {{v} : v \in Victims},
        prepared \in BOOLEAN :
       LET kept == prepared /\ c \notin evicted
       IN /\ conn' = [d \in Conns |-> IF d = c /\ kept THEN "open"
                                      ELSE IF d \in evicted \cup {c} THEN "closed"
                                      ELSE conn[d]]
          /\ idle' = [d \in Conns |-> IF d = c /\ kept THEN IdleTicks
                                      ELSE IF d \in evicted THEN 0
                                      ELSE idle[d]]
          /\ CloseSessions(evicted)
          /\ toServe' = {d \in Conns \ {c} : conn'[d] = "open"}
  /\ phase' = "serve"
  /\ UNCHANGED <<running, resume, dispatching, unsubmitted, batch, queryVars,
                 won, done, total, poolVars, completions, replies, stop>>

NoClient ==
  /\ phase = "accept"
  /\ phase' = "serve"
  /\ toServe' = sessions
  /\ UNCHANGED <<running, resume, dispatching, unsubmitted, batch, queryVars,
                 raceVars, poolVars, completions, sessVars, replies, stop>>

\* What TcpSessionReader keeps when message i is handed out.
Rest(ms, i) == SubSeq(ms, i + 1, Len(ms))

\* ServiceTcpSession on connection c whose reader holds ms: messages that
\* ParseQuery rejects are skipped up to the first query. The caller has just
\* armed the idle deadline.
ServiceTcpSession(c, ms) ==
  \/ /\ busy[c] \/ \A i \in 1..Len(ms) : ms[i] = Malformed
     /\ reader' = [reader EXCEPT ![c] = IF busy[c] THEN ms ELSE <<>>]
     /\ idle' = [idle EXCEPT ![c] = IdleTicks]
     /\ UNCHANGED <<busy, race, pending, left, phase, resume, dispatching,
                    unsubmitted, total, done>>
  \/ /\ ~busy[c]
     /\ \E i \in 1..Len(ms) :
          /\ ms[i] # Malformed
          /\ \A j \in 1..(i - 1) : ms[j] = Malformed
          /\ reader' = [reader EXCEPT ![c] = Rest(ms, i)]
          /\ busy' = [busy EXCEPT ![c] = TRUE]
          /\ race' = [race EXCEPT ![c] = ms[i]]
          /\ idle' = [idle EXCEPT ![c] = QueryTicks]
          /\ Register(ms[i])
          /\ BeginDispatch(ms[i], "serve")

\* The loop is done with c in this pass.
Serve(c) ==
  /\ phase = "serve"
  /\ c \in toServe
  /\ toServe' = toServe \ {c}
  /\ UNCHANGED <<running, batch, won, poolVars, completions, replies, stop>>

NothingElseServed ==
  UNCHANGED <<phase, resume, dispatching, unsubmitted, pending, left, total, done>>

\* c's socket is not ready, would block, or took part of the response.
ServeNothing(c) ==
  /\ Serve(c)
  /\ NothingElseServed
  /\ UNCHANGED <<origin, cancelled, sessVars>>

\* The client is gone, its framing is broken, or its socket failed.
ServeClosed(c) ==
  /\ Serve(c)
  /\ conn' = [conn EXCEPT ![c] = "closed"]
  /\ idle' = [idle EXCEPT ![c] = 0]
  /\ CloseSessions({c})
  /\ NothingElseServed
  /\ UNCHANGED origin

\* Mutant: every session is watched for reading.
ReadableAlways(c) == TRUE

\* The socket is only watched for reading when no response is being written.
Readable(c) == out[c] = NoQuery

\* The last byte of the response is out.
ServeWritten(c) ==
  /\ Serve(c)
  /\ out[c] # NoQuery
  /\ out' = [out EXCEPT ![c] = NoQuery]
  /\ ServiceTcpSession(c, reader[c])
  /\ UNCHANGED <<origin, cancelled, conn>>

\* Bytes that complete no message.
ServeFragment(c) ==
  /\ Serve(c)
  /\ Readable(c)
  /\ ServiceTcpSession(c, reader[c])
  /\ UNCHANGED <<origin, cancelled, conn, out>>

\* Bytes that complete the message m, a query or one ParseQuery will reject.
ServeMessage(c, m) ==
  /\ Serve(c)
  /\ Readable(c)
  /\ Len(reader[c]) < MaxBuffered
  /\ \/ m = Malformed /\ UNCHANGED origin
     \/ m # Malformed /\ origin[m] = NoQuery /\ origin' = [origin EXCEPT ![m] = c]
  /\ ServiceTcpSession(c, Append(reader[c], m))
  /\ UNCHANGED <<cancelled, conn, out>>

ServedAll ==
  /\ phase = "serve"
  /\ toServe = {}
  /\ phase' = "drain"
  /\ UNCHANGED <<running, resume, toServe, dispatching, unsubmitted, batch,
                 queryVars, raceVars, poolVars, completions, sessVars,
                 replies, stop>>
-----------------------------------------------------------------------------
(***************************************************************************)
(* Harvesting                                                              *)
(***************************************************************************)

\* The connections that the queries of D kept busy.
Released(D) == {origin[q] : q \in {d \in D : origin[d] \in sessions}}

\* Deliver for every query of D that is still undecided, and erase D from
\* `pending`. A UDP client is sent the response, a TCP client has it queued on
\* its connection, which is then no longer busy; a TCP client that has gone
\* gets nothing.
Deliver(D, what) ==
  LET answered == {q \in D : ~won[q] /\ Reachable(q)}
  IN  /\ pending' = pending \ D
      /\ left' = [q \in Queries |-> IF q \in D THEN 0 ELSE left[q]]
      /\ won' = [q \in Queries |-> won[q] \/ q \in D]
      /\ replies' = [q \in Queries |-> IF q \in answered
                                         THEN Append(replies[q], what)
                                         ELSE replies[q]]
      /\ busy' = [c \in Conns |-> busy[c] /\ c \notin Released(D)]
      /\ race' = [c \in Conns |-> IF c \in Released(D) THEN NoQuery ELSE race[c]]
      /\ out' = [c \in Conns |-> IF \E q \in answered : origin[q] = c
                                   THEN CHOOSE q \in answered : origin[q] = c
                                   ELSE out[c]]
      /\ idle' = [c \in Conns |-> IF c \in Released(D) THEN IdleTicks ELSE idle[c]]

\* DrainCompletions takes what has been posted.
Drain ==
  /\ phase = "drain"
  /\ batch' = completions
  /\ completions' = <<>>
  /\ phase' = "collect"
  /\ UNCHANGED <<running, resume, toServe, dispatching, unsubmitted, queryVars,
                 raceVars, poolVars, sessVars, replies, stop>>

\* One completion of the batch. The loop decides with the number of tasks
\* counted at that moment, not with the number it has seen completions of.
IsLast(q) == done[q] >= total[q]

\* Mutant: the losers' answers are ignored, their work goes on.
CancelLosersNever(q) == cancelled

CancelLosers(q) == [cancelled EXCEPT ![q] = TRUE]

Collect ==
  /\ phase = "collect"
  /\ batch # <<>>
  /\ batch' = Tail(batch)
  /\ LET q == Head(batch).q
         r == Head(batch).r
     IN  \/ /\ q \in pending /\ ~won[q] /\ r = "valid"
            /\ Deliver({q}, "answer")
            /\ cancelled' = CancelLosers(q)
         \/ /\ q \in pending /\ ~won[q] /\ r # "valid" /\ IsLast(q)
            /\ Deliver({q}, "servfail")
            /\ UNCHANGED cancelled
         \/ /\ \/ q \notin pending
               \/ won[q]
               \/ r # "valid" /\ ~IsLast(q)
            /\ UNCHANGED <<pending, left, won, replies, busy, race, out, idle,
                           cancelled>>
  /\ UNCHANGED <<running, phase, resume, toServe, dispatching, unsubmitted,
                 origin, done, total, poolVars, completions, conn, reader, stop>>

Collected ==
  /\ phase = "collect"
  /\ batch = <<>>
  /\ phase' = "expire"
  /\ UNCHANGED <<running, resume, toServe, dispatching, unsubmitted, batch,
                 queryVars, raceVars, poolVars, completions, sessVars,
                 replies, stop>>

\* Mutant: what was cancelled is taken for finished.
DueUncancelled == {q \in pending : left[q] = 0 /\ ~cancelled[q]}

DueQueries == {q \in pending : left[q] = 0}

\* Mutant: the query is dropped without a word to its client.
ExpireQueriesSilently ==
  /\ phase = "expire"
  /\ pending' = pending \ DueQueries
  /\ left' = left
  /\ cancelled' = [q \in Queries |-> cancelled[q] \/ q \in DueQueries]
  /\ phase' = "reap"
  /\ UNCHANGED <<running, resume, toServe, dispatching, unsubmitted, batch,
                 origin, won, done, total, poolVars, completions, sessVars,
                 replies, stop>>

ExpireQueries ==
  /\ phase = "expire"
  /\ Deliver(DueQueries, "servfail")
  /\ cancelled' = [q \in Queries |-> cancelled[q] \/ q \in DueQueries]
  /\ phase' = "reap"
  /\ UNCHANGED <<running, resume, toServe, dispatching, unsubmitted, batch,
                 origin, done, total, poolVars, completions, conn, reader, stop>>

DueSessions == {c \in sessions : idle[c] = 0}

\* Reads the clock again: time may have passed since ExpireQueries did.
ExpireTcpSessions ==
  /\ phase = "reap"
  /\ CloseSessions(DueSessions)
  /\ conn' = [c \in Conns |-> IF c \in DueSessions THEN "closed" ELSE conn[c]]
  /\ phase' = "select"
  /\ UNCHANGED <<running, resume, toServe, dispatching, unsubmitted, batch,
                 queryVars, won, done, total, poolVars, completions, idle,
                 replies, stop>>
-----------------------------------------------------------------------------
(***************************************************************************)
(* The worker pool                                                         *)
(***************************************************************************)

OnlyPool == UNCHANGED <<loopVars, queryVars, won, cancelled, total, stopping,
                        sessVars, replies, stop>>

Take(w) ==
  /\ wpc[w] = "idle"
  /\ jobs # <<>>
  /\ job' = [job EXCEPT ![w] = Head(jobs)]
  /\ jobs' = Tail(jobs)
  /\ wpc' = [wpc EXCEPT ![w] = "taken"]
  /\ OnlyPool /\ UNCHANGED <<done, result, completions>>

\* A query already decided is not asked.
Ask(w) ==
  /\ wpc[w] = "taken"
  /\ result' = [result EXCEPT ![w] = "unusable"]
  /\ wpc' = [wpc EXCEPT ![w] = IF won[job[w]] THEN "answered" ELSE "asking"]
  /\ OnlyPool /\ UNCHANGED <<done, jobs, job, completions>>

\* The upstream answers, fails, times out, or has its socket closed by Cancel.
QueryUpstream(w, r) ==
  /\ wpc[w] = "asking"
  /\ result' = [result EXCEPT ![w] = r]
  /\ wpc' = [wpc EXCEPT ![w] = "answered"]
  /\ OnlyPool /\ UNCHANGED <<done, jobs, job, completions>>

\* The task is counted before what it found is posted.
Count(w) ==
  /\ wpc[w] = "answered"
  /\ done' = [done EXCEPT ![job[w]] = @ + 1]
  /\ wpc' = [wpc EXCEPT ![w] = "counted"]
  /\ OnlyPool /\ UNCHANGED <<jobs, job, result, completions>>

\* Mutant: empty failures are not posted.
PostAnswersOnly(w) ==
  /\ wpc[w] = "counted"
  /\ completions' = IF result[w] = "valid"
                      THEN Append(completions, [q |-> job[w], r |-> result[w]])
                      ELSE completions
  /\ job' = [job EXCEPT ![w] = NoQuery]
  /\ result' = [result EXCEPT ![w] = "unusable"]
  /\ wpc' = [wpc EXCEPT ![w] = "idle"]
  /\ OnlyPool /\ UNCHANGED <<done, jobs>>

Post(w) ==
  /\ wpc[w] = "counted"
  /\ completions' = Append(completions, [q |-> job[w], r |-> result[w]])
  /\ job' = [job EXCEPT ![w] = NoQuery]
  /\ result' = [result EXCEPT ![w] = "unusable"]
  /\ wpc' = [wpc EXCEPT ![w] = "idle"]
  /\ OnlyPool /\ UNCHANGED <<done, jobs>>

Exit(w) ==
  /\ wpc[w] = "idle"
  /\ stopping /\ jobs = <<>>
  /\ wpc' = [wpc EXCEPT ![w] = "exited"]
  /\ OnlyPool /\ UNCHANGED <<done, jobs, job, result, completions>>
-----------------------------------------------------------------------------
(***************************************************************************)
(* StopLocked                                                              *)
(***************************************************************************)

StopRequest ==
  /\ stop = "none"
  /\ running' = FALSE
  /\ stop' = "joining"
  /\ UNCHANGED <<phase, resume, toServe, dispatching, unsubmitted, batch,
                 queryVars, raceVars, poolVars, completions, sessVars, replies>>

InFlight == pending \cup {q \in Queries : \E c \in sessions : race[c] = q}

\* The loop thread is joined, then everything in flight is cancelled.
StopCancel ==
  /\ stop = "joining"
  /\ phase = "ended"
  /\ cancelled' = [q \in Queries |-> cancelled[q] \/ q \in InFlight]
  /\ stop' = "cancelling"
  /\ UNCHANGED <<loopVars, queryVars, won, done, total, poolVars, completions,
                 sessVars, replies>>

\* Mutant: the queue is cleared, the flag is not set.
ShutdownWithoutFlag ==
  /\ stop = "cancelling"
  /\ jobs' = <<>>
  /\ stop' = "shutdown"
  /\ UNCHANGED <<loopVars, queryVars, raceVars, stopping, wpc, job, result,
                 completions, sessVars, replies>>

\* WorkerPool::Shutdown up to the joins.
Shutdown ==
  /\ stop = "cancelling"
  /\ stopping' = TRUE
  /\ jobs' = <<>>
  /\ stop' = "shutdown"
  /\ UNCHANGED <<loopVars, queryVars, raceVars, wpc, job, result, completions,
                 sessVars, replies>>

\* Every worker is joined and the state goes, with the queries and the
\* connections it still held.
StopFree ==
  /\ stop = "shutdown"
  /\ \A w \in Workers : wpc[w] = "exited"
  /\ stop' = "freed"
  /\ pending' = {}
  /\ left' = [q \in Queries |-> 0]
  /\ completions' = <<>>
  /\ conn' = [c \in Conns |-> IF c \in sessions THEN "closed" ELSE conn[c]]
  /\ idle' = [c \in Conns |-> 0]
  /\ busy' = [c \in Conns |-> FALSE]
  /\ race' = [c \in Conns |-> NoQuery]
  /\ out' = [c \in Conns |-> NoQuery]
  /\ reader' = [c \in Conns |-> <<>>]
  /\ UNCHANGED <<loopVars, origin, raceVars, poolVars, replies>>

\* Time passes for every deadline at once.
Tick ==
  /\ \/ \E q \in pending : left[q] > 0
     \/ \E c \in sessions : idle[c] > 0
  /\ left' = [q \in Queries |-> IF left[q] > 0 THEN left[q] - 1 ELSE 0]
  /\ idle' = [c \in Conns |-> IF idle[c] > 0 THEN idle[c] - 1 ELSE 0]
  /\ UNCHANGED <<loopVars, pending, origin, raceVars, poolVars, completions,
                 conn, busy, race, out, reader, replies, stop>>
-----------------------------------------------------------------------------
Intake ==
  \/ \E q \in Queries : HandleQuery(q)
  \/ NoQueryRead
  \/ \E u \in Upstreams : Submit(u)
  \/ EndDispatch

ServeTcp ==
  \/ \E c \in Conns : Accept(c)
  \/ NoClient
  \/ \E c \in Conns : \/ ServeNothing(c) \/ ServeClosed(c)
                      \/ ServeWritten(c) \/ ServeFragment(c)
                      \/ \E m \in Queries \cup {Malformed} : ServeMessage(c, m)
  \/ ServedAll

Harvest == Drain \/ Collect \/ Collected \/ ExpireQueries \/ ExpireTcpSessions

\* One pass of DnsProxy::Loop.
Loop == LoopEnds \/ Select \/ Intake \/ ServeTcp \/ Harvest

Worker(w) ==
  \/ Take(w) \/ Ask(w) \/ Count(w) \/ Post(w) \/ Exit(w)
  \/ \E r \in Results : QueryUpstream(w, r)

Stop == StopRequest \/ StopCancel \/ Shutdown \/ StopFree

Next == Loop \/ (\E w \in Workers : Worker(w)) \/ Stop \/ Tick

Spec == Init /\ [][Next]_vars

\* Only the loop and the clock are fair: a worker may sit in an upstream for
\* ever, and no client has to send anything.
FairSpec == Spec /\ WF_vars(Loop) /\ WF_vars(Tick)

\* Workers too: a query has a timeout of its own, and a thread that asked for
\* the stop goes through with it.
PoolGoesOn ==
  /\ WF_vars(StopCancel \/ Shutdown \/ StopFree)
  /\ \A w \in Workers : WF_vars(Worker(w))
-----------------------------------------------------------------------------
(***************************************************************************)
(* Properties                                                              *)
(***************************************************************************)

LoopTypeOK ==
  /\ running \in BOOLEAN /\ phase \in Phases /\ resume \in {"accept", "serve"}
  /\ toServe \subseteq Conns
  /\ dispatching \in Queries \cup {NoQuery} /\ unsubmitted \subseteq Upstreams
  /\ phase = "dispatch" => dispatching \in Queries
  /\ batch \in Seq(Completion) /\ stop \in StopStates

QueryTypeOK ==
  /\ pending \subseteq Queries
  /\ origin \in [Queries -> Conns \cup {Udp, NoQuery}]
  /\ left \in [Queries -> Nat]
  /\ replies \in [Queries -> Seq(Answers)]

RaceTypeOK ==
  /\ won \in [Queries -> BOOLEAN] /\ cancelled \in [Queries -> BOOLEAN]
  /\ done \in [Queries -> Nat] /\ total \in [Queries -> Nat]

PoolTypeOK ==
  /\ jobs \in Seq(Queries) /\ stopping \in BOOLEAN
  /\ wpc \in [Workers -> WorkerStates]
  /\ job \in [Workers -> Queries \cup {NoQuery}]
  /\ \A w \in Workers : wpc[w] \notin {"idle", "exited"} => job[w] \in Queries
  /\ result \in [Workers -> Results]
  /\ completions \in Seq(Completion)

SessionTypeOK ==
  /\ conn \in [Conns -> {"new", "open", "closed"}]
  /\ busy \in [Conns -> BOOLEAN]
  /\ race \in [Conns -> Queries \cup {NoQuery}]
  /\ out \in [Conns -> Queries \cup {NoQuery}]
  /\ idle \in [Conns -> Nat]
  /\ reader \in [Conns -> Seq(Queries \cup {Malformed})]

\* Every variable keeps its type, and who works has a query to work for.
TypeOK ==
  LoopTypeOK /\ QueryTypeOK /\ RaceTypeOK /\ PoolTypeOK /\ SessionTypeOK

\* No client is handed two responses to one query, whichever of the winner,
\* the last failure, the deadline and the refusal at the cap come together.
AnsweredOnce == \A q \in Queries : Len(replies[q]) <= 1

\* A query the loop has read is never forgotten: it is still being raced, or
\* its client was answered, or the TCP client is gone, or it waits in the
\* reader of a connection that is being served something else.
Accounted ==
  \A q \in Queries :
    \/ origin[q] = NoQuery \/ q \in pending \/ replies[q] # <<>>
    \/ stop = "freed"
    \/ /\ origin[q] \in Conns
       /\ \/ origin[q] \notin sessions
          \/ \E i \in 1..Len(reader[origin[q]]) : reader[origin[q]][i] = q

\* A connection is busy exactly while one query of its own is being raced:
\* neither a query it will never be told about nor two at once.
OneQueryPerConnection ==
  /\ \A c \in Conns : busy[c] <=> race[c] # NoQuery
  /\ \A c \in Conns : busy[c] => race[c] \in pending /\ origin[race[c]] = c
  /\ \A q \in pending : origin[q] \in sessions => race[origin[q]] = q

\* A response that is being written is never replaced by another one: the
\* client would get the tail of an answer whose head it never saw.
ResponseNotReplaced ==
  [][\A c \in Conns : out[c] # NoQuery => out'[c] \in {out[c], NoQuery}]_vars

\* What makes the five properties above inductive, as one statement: at any
\* moment a query is in one place only. It is unread, or in the reader of the
\* connection that sent it, or pending, or settled; the loop only ever serves
\* sessions of the list; and a session that has left the list holds nothing.
ServesTheList ==
  /\ toServe \subseteq sessions
  /\ phase \in {"serve", "dispatch"} \/ toServe = {}
  /\ phase = "dispatch" /\ resume = "accept" => toServe = {}

StopsAfterLoop == stop \in {"cancelling", "shutdown", "freed"} => phase = "ended"

UnreadUntouched ==
  \A q \in Queries : origin[q] = NoQuery => replies[q] = <<>> /\ ~won[q]

SenderOpened == \A q \in Queries : origin[q] \in Conns => conn[origin[q]] # "new"

PendingUndecided ==
  \A q \in pending : origin[q] # NoQuery /\ replies[q] = <<>> /\ ~won[q]

ReaderUnregistered ==
  \A c \in Conns : \A i \in 1..Len(reader[c]) :
    reader[c][i] # Malformed =>
      /\ origin[reader[c][i]] = c /\ replies[reader[c][i]] = <<>>
      /\ reader[c][i] \notin pending /\ ~won[reader[c][i]]
      /\ \A j \in 1..Len(reader[c]) : reader[c][j] = reader[c][i] => j = i

GoneHoldsNothing ==
  \A c \in Conns : conn[c] # "open" => ~busy[c] /\ out[c] = NoQuery /\ reader[c] = <<>>

WritesBeforeAsking == \A c \in Conns : out[c] # NoQuery => ~busy[c]

Custody ==
  /\ ServesTheList /\ StopsAfterLoop
  /\ UnreadUntouched /\ SenderOpened /\ PendingUndecided /\ ReaderUnregistered
  /\ GoneHoldsNothing /\ WritesBeforeAsking
  /\ OneQueryPerConnection /\ AnsweredOnce /\ Accounted

\* Something that makes the loop look at q is on its way.
Announced(q) ==
  \/ \E i \in 1..Len(completions) : completions[i].q = q
  \/ \E i \in 1..Len(batch) : batch[i].q = q
  \/ \E w \in Workers : wpc[w] = "counted" /\ job[w] = q

\* A race whose tasks have all been counted is never left to its deadline:
\* something is on its way that makes the loop look at it.
FailureIsPosted ==
  \A q \in pending : done[q] >= total[q] /\ dispatching # q => Announced(q)

\* A query is abandoned rather than merely ignored: once it is decided or its
\* client has gone, no task of it goes on without having been cancelled.
NothingRunsForNobody ==
  \A q \in Queries :
    q \notin pending \/ (origin[q] \in Conns /\ origin[q] \notin sessions)
      => cancelled[q] \/ done[q] >= total[q]

\* What makes the two properties above inductive. The loop only queues tasks of
\* a query that is pending and whose client is there; a race nobody has queued
\* a task of has not begun; and a race that has begun was registered.
OneAtATime ==
  /\ phase # "dispatch" => dispatching = NoQuery
  /\ phase = "dispatch" =>
       /\ dispatching \in pending
       /\ origin[dispatching] \in Conns => origin[dispatching] \in sessions

NotBegun(q) ==
  /\ done[q] = 0
  /\ \A i \in 1..Len(jobs) : jobs[i] # q
  /\ \A w \in Workers : wpc[w] \notin {"idle", "exited"} => job[w] # q

BegunByATask == \A q \in Queries : total[q] = 0 => NotBegun(q)

BegunWhenRegistered ==
  \A q \in Queries : total[q] # 0 => q \in pending \/ won[q] \/ stop = "freed"

EndIsAnnounced ==
  \A q \in pending :
    done[q] >= total[q] => Announced(q) \/ (dispatching = q /\ total[q] = 0)

BatchIsSpent == phase # "collect" => batch = <<>>

StopCancelsAll ==
  stop \in {"cancelling", "shutdown", "freed"} => \A q \in pending : cancelled[q]

Races ==
  /\ OneAtATime /\ BatchIsSpent /\ BegunByATask /\ BegunWhenRegistered
  /\ EndIsAnnounced /\ StopCancelsAll /\ NothingRunsForNobody

\* Every registered query comes to an end, by its deadline at the latest, even
\* when every worker hangs in an upstream; unless the loop itself has ended.
Resolved == \A q \in Queries : q \in pending ~> q \notin pending \/ phase = "ended"

\* A requested stop completes, when no worker hangs: the loop ends and every
\* worker can be joined.
StopCompletes == PoolGoesOn => (stop = "joining" ~> stop = "freed")

(***************************************************************************)
(* Said of the program, and refuted by what it does: README, section 6.    *)
(***************************************************************************)
\* A usable answer that is counted, posted or in the batch.
AnswerAtHand(q) ==
  \/ \E i \in 1..Len(batch) : batch[i] = [q |-> q, r |-> "valid"]
  \/ \E i \in 1..Len(completions) : completions[i] = [q |-> q, r |-> "valid"]
  \/ \E w \in Workers : wpc[w] = "counted" /\ job[w] = q /\ result[w] = "valid"

\* "Only when it was the last one out is the client told the lookup failed."
\* (dns_proxy.cpp, DrainCompletions): no usable answer to the query is at hand
\* when a failed completion makes the loop answer SERVFAIL.
FailedOnlyByTheLast ==
  [][phase = "collect" =>
       \A q \in Queries : replies'[q] = Append(replies[q], "servfail")
                            => ~AnswerAtHand(q)]_vars
=============================================================================
