------------------------------ MODULE Upstream ------------------------------
(***************************************************************************)
(* One exchange with an upstream server, from src/src/dns: cancel.cpp,     *)
(* socket_utils.*, network_utils.cpp, the four clients and                 *)
(* dnscrypt_cert_cache.h.                                                  *)
(*                                                                         *)
(* The tasks of a query race; whoever started the query cancels it with a  *)
(* token that closes the sockets its tasks sleep on. A closed socket's     *)
(* value is anybody's next socket, so a socket has one closer: the token   *)
(* or the handle on the task's stack. DNSCrypt tasks first need the        *)
(* provider's certificate, which the first to miss it fetches for all. One *)
(* provider is modelled; the cache treats each alike.                      *)
(***************************************************************************)
EXTENDS Naturals, Sequences, SequencesExt

CONSTANTS
  Queries, Tasks,
  QueryOf,     \* the query a task belongs to
  Transport,   \* how it asks: "plain", "tls" (DoT and DoH) or "dnscrypt"
  Handles,     \* the socket values there are
  Slots,       \* enough identities for the fetches waited for
  Nobody,
  Environments \* which of EventNames may happen together and which tasks
               \* there are, case by case

EventNames ==
  {"nosocket", \* a socket cannot be had
   "throw",    \* a fetch ends with an exception
   "lapse"}    \* certificates and cooldowns run out

UpstreamAssumption ==
  /\ QueryOf \in [Tasks -> Queries]
  /\ Transport \in [Tasks -> {"plain", "tls", "dnscrypt"}]
  /\ Environments \subseteq SUBSET (EventNames \cup Tasks)
  /\ Nobody \notin Tasks \cup Slots

VARIABLES
  os,         \* the task each socket value was last given to, until closed
  pc, phase,  \* where a task is, and which exchange it is in
  held,       \* the SocketHandles on its stack: value and whether registered
  outcome,    \* what the exchange has brought so far
  fetching,   \* whether it is fetching the certificate, without a token
  slot,       \* the round it fetches or waits for
  canc,       \* how far each query's Cancel has got
  registered, \* m_sockets of each token, with the task that registered each
  doomed,     \* the sockets a Cancel has taken and has still to close
  usable,     \* whether the provider's cached certificate is usable
  cooling,    \* whether its last Failure is still heeded
  pending,    \* its m_pending
  published,  \* the result of each round: "running", "valid" or "invalid"
  events      \* what this behaviour has to reckon with; chosen once

task == <<pc, phase, outcome, fetching, slot>>
token == <<canc, registered, doomed>>
cache == <<usable, cooling, pending, published>>
vars == <<os, task, held, token, cache, events>>

Init ==
  /\ os = [h \in Handles |-> Nobody]
  /\ pc = [t \in Tasks |-> "idle"] /\ phase = [t \in Tasks |-> "udp"]
  /\ held = [t \in Tasks |-> <<>>] /\ outcome = [t \in Tasks |-> "none"]
  /\ fetching = [t \in Tasks |-> FALSE] /\ slot = [t \in Tasks |-> Nobody]
  /\ canc = [q \in Queries |-> "no"]
  /\ registered = [q \in Queries |-> {}] /\ doomed = [q \in Queries |-> {}]
  /\ usable = FALSE /\ cooling = FALSE
  /\ pending = Nobody /\ published = [s \in Slots |-> "running"]
  /\ events \in Environments

At(t, label) == pc[t] = label
Goto(t, label) == pc' = [pc EXCEPT ![t] = label]
TasksOf(q) == {t \in Tasks : QueryOf[t] = q}
Cancelled(t) == ~fetching[t] /\ canc[QueryOf[t]] # "no"
Socket(t) == Last(held[t]).h
-----------------------------------------------------------------------------
(***************************************************************************)
(* Cancelling (cancel.cpp)                                                 *)
(***************************************************************************)

\* The flag is set first, then the list taken, then its sockets closed.
Cancel(q) ==
  /\ canc[q] = "no" /\ \E t \in TasksOf(q) : pc[t] \notin {"idle", "done"}
  /\ canc' = [canc EXCEPT ![q] = "flagged"]
  /\ UNCHANGED <<os, task, held, registered, doomed, cache, events>>

TakeSockets(q) ==
  /\ canc[q] = "flagged" /\ canc' = [canc EXCEPT ![q] = "taken"]
  /\ doomed' = [doomed EXCEPT ![q] = registered[q]]
  /\ registered' = [registered EXCEPT ![q] = {}]
  /\ UNCHANGED <<os, task, held, cache, events>>

CloseDoomed(q) ==
  /\ canc[q] = "taken"
  /\ IF doomed[q] = {} THEN canc' = [canc EXCEPT ![q] = "over"] /\ UNCHANGED <<os, doomed>>
     ELSE \E e \in doomed[q] :
            /\ os' = [os EXCEPT ![e[1]] = Nobody]
            /\ doomed' = [doomed EXCEPT ![q] = @ \ {e}] /\ UNCHANGED canc
  /\ UNCHANGED <<task, held, registered, cache, events>>

\* Tasks are joined before their token dies; the next query has its own.
NextQuery(q) ==
  /\ \A t \in TasksOf(q) \cap events : pc[t] = "done"
  /\ canc[q] \in {"no", "over"}
  /\ canc' = [canc EXCEPT ![q] = "no"]
  /\ pc' = [t \in Tasks |-> IF QueryOf[t] = q THEN "idle" ELSE pc[t]]
  /\ outcome' = [t \in Tasks |-> IF QueryOf[t] = q THEN "none" ELSE outcome[t]]
  /\ phase' = [t \in Tasks |-> IF QueryOf[t] = q THEN "udp" ELSE phase[t]]
  /\ UNCHANGED <<os, slot, fetching, held, registered, doomed, cache, events>>
-----------------------------------------------------------------------------
(***************************************************************************)
(* The certificate (dnscrypt_cert_cache.h)                                 *)
(***************************************************************************)

FirstPhase(t) == IF Transport[t] = "tls" THEN "dial" ELSE "udp"

StartExchange(t) ==
  /\ Goto(t, "open") /\ phase' = [phase EXCEPT ![t] = FirstPhase(t)]
  /\ outcome' = [outcome EXCEPT ![t] = "none"]

Begin(t) ==
  /\ t \in events /\ At(t, "idle") /\ canc[QueryOf[t]] = "no"
  /\ IF Transport[t] = "dnscrypt" THEN Goto(t, "get") /\ UNCHANGED <<phase, outcome>>
     ELSE StartExchange(t)
  /\ UNCHANGED <<os, fetching, slot, held, token, cache, events>>

Unreferenced(s) == s # pending /\ \A t \in Tasks : slot[t] # s

UseCached(t) == usable /\ StartExchange(t) /\ UNCHANGED <<fetching, slot, pending, published>>

HeedFailure(t) ==
  /\ ~usable /\ cooling /\ Goto(t, "done")
  /\ UNCHANGED <<phase, outcome, fetching, slot, pending, published>>

JoinRound(t) ==
  /\ ~usable /\ ~cooling /\ pending # Nobody
  /\ slot' = [slot EXCEPT ![t] = pending] /\ Goto(t, "wait")
  /\ UNCHANGED <<phase, outcome, fetching, pending, published>>

StartRound(t) ==
  /\ ~usable /\ ~cooling /\ pending = Nobody
  /\ \E s \in Slots :
       /\ Unreferenced(s) /\ s = CHOOSE r \in Slots : Unreferenced(r)
       /\ pending' = s /\ slot' = [slot EXCEPT ![t] = s]
       /\ published' = [published EXCEPT ![s] = "running"]
  /\ fetching' = [fetching EXCEPT ![t] = TRUE] /\ StartExchange(t)

\* What is usable is used, a provider that failed is left alone, and of those
\* who still need the certificate the first fetches it.
Get(t) ==
  /\ At(t, "get")
  /\ UseCached(t) \/ HeedFailure(t) \/ JoinRound(t) \/ StartRound(t)
  /\ UNCHANGED <<os, held, token, usable, cooling, events>>

\* Mutant: waiting for a certificate is not given up.
WaitOn(t) == FALSE
GiveUp(t) == Cancelled(t)

\* The slot is the waiter's own reference, whatever the map holds by now.
WaitForRound(t) ==
  /\ At(t, "wait")
  /\ \/ published[slot[t]] = "valid" /\ StartExchange(t)
     \/ published[slot[t]] = "invalid" /\ Goto(t, "done") /\ UNCHANGED <<phase, outcome>>
     \/ /\ published[slot[t]] = "running" /\ GiveUp(t)
        /\ Goto(t, "done") /\ UNCHANGED <<phase, outcome>>
  /\ slot' = [slot EXCEPT ![t] = Nobody]
  /\ UNCHANGED <<os, fetching, held, token, cache, events>>

\* Mutant: a round that failed leaves its slot to those who come.
RetireValid(t) == IF pending = slot[t] /\ outcome[t] = "answer" THEN Nobody ELSE pending
Retire(t) == IF pending = slot[t] THEN Nobody ELSE pending

\* A certificate may be too near its end to be used twice.
Settle(t) ==
  /\ At(t, "settle") /\ Goto(t, "publish")
  /\ pending' = Retire(t)
  /\ IF outcome[t] = "answer" THEN usable' \in BOOLEAN /\ cooling' = FALSE
     ELSE cooling' = TRUE /\ UNCHANGED usable
  /\ UNCHANGED <<os, phase, outcome, fetching, slot, held, token, published, events>>

Publish(t) ==
  /\ At(t, "publish") /\ fetching' = [fetching EXCEPT ![t] = FALSE]
  /\ slot' = [slot EXCEPT ![t] = Nobody]
  /\ published' = [published EXCEPT ![slot[t]] =
                     IF outcome[t] = "answer" THEN "valid" ELSE "invalid"]
  /\ IF outcome[t] = "answer" THEN StartExchange(t)
     ELSE Goto(t, "done") /\ UNCHANGED <<phase, outcome>>
  /\ UNCHANGED <<os, held, token, usable, cooling, pending, events>>

\* A certificate nears its end; the cooldown of a failure is over.
Lapse ==
  /\ "lapse" \in events
  /\ \/ usable /\ usable' = FALSE /\ UNCHANGED cooling
     \/ cooling /\ cooling' = FALSE /\ UNCHANGED usable
  /\ UNCHANGED <<os, task, held, token, pending, published, events>>
-----------------------------------------------------------------------------
(***************************************************************************)
(* Sockets                                                                 *)
(***************************************************************************)

Top(t, e) == [held EXCEPT ![t] = Front(@) \o <<e>>]
Pop(t) == [held EXCEPT ![t] = Front(@)]

\* An exchange that failed: DNSCrypt goes on to TCP with its first socket
\* still on the stack; anything else unwinds.
Failed(t) ==
  IF phase[t] = "udp" /\ (fetching[t] \/ Transport[t] = "dnscrypt")
  THEN phase' = [phase EXCEPT ![t] = "tcp"] /\ Goto(t, "open")
  ELSE Goto(t, "unwind") /\ UNCHANGED phase

GivenSocket(t, h) ==
  /\ os[h] = Nobody /\ os' = [os EXCEPT ![h] = t]
  /\ held' = [held EXCEPT ![t] = Append(@, [h |-> h, reg |-> FALSE])]
  /\ Goto(t, IF phase[t] = "dial" THEN "check" ELSE "register") /\ UNCHANGED phase

Open(t) ==
  /\ At(t, "open")
  /\ \/ \E h \in Handles : GivenSocket(t, h)
     \/ /\ "nosocket" \in events \/ \A h \in Handles : os[h] # Nobody
        /\ Failed(t) /\ UNCHANGED <<os, held>>
  /\ UNCHANGED <<outcome, fetching, slot, token, cache, events>>

\* A handle forgets a socket the token refused, which has closed it.
ForgottenHandle(t) == Pop(t)

Unlisted(t) == fetching[t] /\ Goto(t, "check") /\ UNCHANGED <<os, held, registered>>

\* A token that was cancelled closes the socket as it refuses it.
Refused(t) ==
  /\ ~fetching[t] /\ Cancelled(t) /\ Goto(t, "unwind")
  /\ os' = [os EXCEPT ![Socket(t)] = Nobody] /\ held' = ForgottenHandle(t)
  /\ UNCHANGED registered

Listed(t) ==
  /\ ~fetching[t] /\ ~Cancelled(t) /\ Goto(t, "check")
  /\ registered' = [registered EXCEPT ![QueryOf[t]] = @ \cup {<<Socket(t), t>>}]
  /\ held' = Top(t, [h |-> Socket(t), reg |-> TRUE]) /\ UNCHANGED os

Register(t) ==
  /\ At(t, "register") /\ (Unlisted(t) \/ Refused(t) \/ Listed(t))
  /\ UNCHANGED <<phase, outcome, fetching, slot, canc, doomed, cache, events>>

\* WaitFor: a slice sees the flag or a closed socket, or the deadline passes.
GiveUpWaiting(t) ==
  /\ At(t, "check") /\ (Cancelled(t) \/ os[Socket(t)] = Nobody) /\ Failed(t)
  /\ UNCHANGED <<os, outcome, fetching, slot, held, token, cache, events>>

Expire(t) ==
  /\ At(t, "check") /\ Failed(t)
  /\ UNCHANGED <<os, outcome, fetching, slot, held, token, cache, events>>

Ready(t) ==
  /\ At(t, "check") /\ ~Cancelled(t) /\ os[Socket(t)] # Nobody /\ Goto(t, "use")
  /\ UNCHANGED <<os, phase, outcome, fetching, slot, held, token, cache, events>>

\* Connecting, sending and receiving wait alike: one wait stands for them all.
Use(t) ==
  /\ At(t, "use")
  /\ \/ Failed(t) /\ UNCHANGED outcome
     \/ /\ os[Socket(t)] # Nobody /\ phase[t] = "dial"
        /\ phase' = [phase EXCEPT ![t] = "tls"] /\ Goto(t, "register") /\ UNCHANGED outcome
     \/ os[Socket(t)] # Nobody /\ phase[t] # "dial"
        /\ \/ Goto(t, "unwind") /\ outcome' = [outcome EXCEPT ![t] = "answer"]
              /\ UNCHANGED phase
           \/ /\ phase[t] = "udp" /\ Transport[t] = "plain"
              /\ outcome' = [outcome EXCEPT ![t] = "truncated"]
              /\ Goto(t, "unwind") /\ UNCHANGED phase
  /\ UNCHANGED <<os, fetching, slot, held, token, cache, events>>

\* Mutant: what was registered is left to the token to close.
TakenBackNever(t) == ~Last(held[t]).reg
TakenBack(t) ==
  Last(held[t]).reg => \E e \in registered[QueryOf[t]] : e[1] = Socket(t)

\* ReleaseAndClose, for each handle on the stack, the newest first.
Unwind(t) ==
  /\ At(t, "unwind") /\ held[t] # <<>> /\ held' = Pop(t)
  /\ registered' = [registered EXCEPT ![QueryOf[t]] =
                      {e \in @ : ~Last(held[t]).reg \/ e[1] # Socket(t)}]
  /\ os' = IF TakenBack(t) THEN [os EXCEPT ![Socket(t)] = Nobody] ELSE os
  /\ UNCHANGED <<pc, phase, outcome, fetching, slot, canc, doomed, cache, events>>

\* A truncated datagram is asked again over a stream.
Unwound(t) ==
  /\ At(t, "unwind") /\ held[t] = <<>>
  /\ IF outcome[t] = "truncated" /\ phase[t] = "udp"
     THEN /\ phase' = [phase EXCEPT ![t] = "tcp"] /\ Goto(t, "open")
          /\ outcome' = [outcome EXCEPT ![t] = "none"]
     ELSE Goto(t, IF fetching[t] THEN "settle" ELSE "done") /\ UNCHANGED <<phase, outcome>>
  /\ UNCHANGED <<os, fetching, slot, held, token, cache, events>>

\* An exception out of a fetch: its sockets are closed, its slot stays.
Throw(t) ==
  /\ "throw" \in events /\ At(t, "settle") /\ Goto(t, "done")
  /\ fetching' = [fetching EXCEPT ![t] = FALSE] /\ slot' = [slot EXCEPT ![t] = Nobody]
  /\ UNCHANGED <<os, phase, outcome, held, token, cache, events>>

CancelStep(q) == TakeSockets(q) \/ CloseDoomed(q)
Step(t) ==
  \/ Get(t) \/ WaitForRound(t) \/ Settle(t) \/ Publish(t)
  \/ Open(t) \/ Register(t) \/ GiveUpWaiting(t) \/ Use(t)
  \/ Unwind(t) \/ Unwound(t)

Next ==
  \/ Lapse
  \/ \E q \in Queries : Cancel(q) \/ CancelStep(q) \/ NextQuery(q)
  \/ \E t \in Tasks : Begin(t) \/ Step(t) \/ Expire(t) \/ Ready(t) \/ Throw(t)

Spec == Init /\ [][Next]_vars

\* Threads run; a query that was begun is cancelled when it is won or late; the
\* deadline of a fetch, which no token bounds, passes. Nothing is said of the
\* servers.
FairSpec ==
  /\ Spec
  /\ \A q \in Queries : WF_vars(Cancel(q)) /\ WF_vars(CancelStep(q))
  /\ \A t \in Tasks : WF_vars(Step(t)) /\ WF_vars(fetching[t] /\ Expire(t))
-----------------------------------------------------------------------------
(***************************************************************************)
(* Properties                                                              *)
(***************************************************************************)

\* A stack holds the datagram's socket and the stream's at most.
Stacks == {s \in Seq([h : Handles, reg : BOOLEAN]) : Len(s) <= 2}

\* Every variable has its type.
TypeOK ==
  /\ os \in [Handles -> Tasks \cup {Nobody}]
  /\ pc \in [Tasks -> {"idle", "get", "wait", "settle", "publish", "open", "register", "check",
                       "use", "unwind", "done"}]
  /\ phase \in [Tasks -> {"udp", "tcp", "dial", "tls"}]
  /\ held \in [Tasks -> Stacks]
  /\ outcome \in [Tasks -> {"none", "answer", "truncated"}]
  /\ fetching \in [Tasks -> BOOLEAN] /\ slot \in [Tasks -> Slots \cup {Nobody}]
  /\ canc \in [Queries -> {"no", "flagged", "taken", "over"}]
  /\ registered \in [Queries -> SUBSET (Handles \X Tasks)]
  /\ doomed \in [Queries -> SUBSET (Handles \X Tasks)]
  /\ usable \in BOOLEAN /\ cooling \in BOOLEAN
  /\ pending \in Slots \cup {Nobody}
  /\ published \in [Slots -> {"running", "valid", "invalid"}] /\ events \in Environments

\* A socket is closed once, by the token or by its handle, and never after its
\* value has become somebody else's socket (socket_utils.h:150-172,
\* cancel.cpp:31-69).
ClosesItsOwn ==
  /\ \A q \in Queries : \A e \in registered[q] \cup doomed[q] : os[e[1]] = e[2]
  /\ \A t \in Tasks : pc[t] = "unwind" /\ held[t] # <<>> /\ TakenBack(t) => os[Socket(t)] = t

\* When a query's tasks and its cancellation are over, none of their sockets is
\* left open (socket_utils.h:174-190, cancel.cpp:25-30).
NothingLeaks ==
  \A q \in Queries :
    canc[q] \in {"no", "over"} /\ (\A t \in TasksOf(q) : pc[t] \in {"idle", "done"}) =>
      \A h \in Handles : os[h] \notin TasksOf(q)

\* A provider has one fetch at a time, and whoever finds its slot finds a fetch
\* that will answer it, unless an exception took it away
\* (dnscrypt_cert_cache.h:139-163, 172-186).
OneFetchBehindTheSlot ==
  /\ pending # Nobody => published[pending] = "running"
  /\ "throw" \notin events =>
       \A t, u \in Tasks : fetching[t] /\ fetching[u] =>
         t = u \/ pc[t] = "publish" \/ pc[u] = "publish"
  /\ "throw" \notin events /\ pending # Nobody =>
       \E t \in Tasks : fetching[t] /\ slot[t] = pending

\* However deaf the servers are, and whatever became of the fetch it waits for,
\* a query that was cancelled is rid of its tasks (cancel.h:21-35,
\* dnscrypt_cert_cache.h:225-234).
CancelledEnds ==
  \A q \in Queries :
    canc[q] = "flagged" ~> \A t \in TasksOf(q) : pc[t] \in {"idle", "done"}

-----------------------------------------------------------------------------
(***************************************************************************)
(* What the safety properties follow from                                  *)
(***************************************************************************)

\* A task has sockets on its stack only while it is in an exchange, and how
\* many is a matter of how far it has come; what it has still to register is
\* on top.
StackInOrder(t) ==
  /\ pc[t] \in {"idle", "get", "wait", "settle", "publish", "done"} => held[t] = <<>>
  /\ pc[t] \in {"idle", "get", "wait", "done"} => ~fetching[t]
  /\ pc[t] \in {"settle", "publish"} => fetching[t]
  /\ pc[t] = "open" => Len(held[t]) <= IF phase[t] = "tcp" THEN 1 ELSE 0
  /\ pc[t] \in {"register", "check", "use"} =>
       held[t] # <<>> /\ Len(held[t]) <= IF phase[t] = "tcp" THEN 2 ELSE 1
  /\ pc[t] = "register" \/ (phase[t] = "dial" /\ pc[t] \in {"check", "use"}) =>
       ~Last(held[t]).reg
  /\ pc[t] = "register" => phase[t] # "dial"
  /\ t \notin events => pc[t] = "idle"

StacksInOrder == \A t \in Tasks : StackInOrder(t)

\* Of the sockets on a stack, those its handles close and those left to the
\* token; and all a query's token has still to close.
Own(s) == {i \in 1..Len(s) : ~s[i].reg}
Left(s) == {i \in 1..Len(s) : s[i].reg}
Entrusted(q) == registered[q] \cup doomed[q]

\* The token of q closes sockets of its tasks that are open.
EntrustedOpen(q) ==
  \A h \in Handles, t \in Tasks : <<h, t>> \in Entrusted(q) => os[h] = t /\ QueryOf[t] = q

\* What is on its list is on a stack too.
ListedHeld(q) ==
  \A h \in Handles, t \in Tasks :
    <<h, t>> \in registered[q] => \E i \in Left(held[t]) : held[t][i].h = h

\* A cancellation closes what it has taken, and nothing is listed after that.
ListsInTurn(q) ==
  /\ canc[q] \in {"no", "flagged", "over"} => doomed[q] = {}
  /\ canc[q] \in {"taken", "over"} => registered[q] = {}

\* Until the list is taken, what a task left to the token is on it, once.
LeftListed(q) ==
  canc[q] \in {"no", "flagged"} =>
    \A t \in TasksOf(q) : \A i \in Left(held[t]) :
      /\ <<held[t][i].h, t>> \in registered[q]
      /\ \A j \in Left(held[t]) : held[t][j].h = held[t][i].h => j = i

\* What a handle closes itself is open and its task's, and nobody else closes it.
OwnOpen(t) ==
  \A i \in Own(held[t]) :
    /\ os[held[t][i].h] = t /\ <<held[t][i].h, t>> \notin Entrusted(QueryOf[t])
    /\ \A j \in Own(held[t]) : held[t][j].h = held[t][i].h => j = i

\* Every open socket has its closer.
HasCloser(h) ==
  \A t \in Tasks : os[h] = t =>
    <<h, t>> \in Entrusted(QueryOf[t]) \/ \E i \in Own(held[t]) : held[t][i].h = h

\* A socket has one closer: the token of its query or a handle of its task.
OneCloser ==
  /\ \A q \in Queries : EntrustedOpen(q) /\ ListedHeld(q) /\ ListsInTurn(q) /\ LeftListed(q)
  /\ \A t \in Tasks : OwnOpen(t)
  /\ \A h \in Handles : HasCloser(h)

\* Nobody shares a round it fetches for; until it is settled it is the
\* provider's, and once it is the slot is gone before its waiters hear of it.
RoundInOrder(t) ==
  fetching[t] =>
    /\ slot[t] \in Slots
    /\ \A u \in Tasks : fetching[u] /\ slot[u] = slot[t] => u = t
    /\ pc[t] = "publish" => slot[t] # pending
    /\ "throw" \notin events /\ pc[t] # "publish" => slot[t] = pending

RoundsInOrder ==
  /\ \A t \in Tasks : RoundInOrder(t)
  /\ pending # Nobody => published[pending] = "running"
  /\ "throw" \notin events /\ pending # Nobody =>
       \E t \in Tasks : fetching[t] /\ slot[t] = pending

(***************************************************************************)
(* Said of the program, and refuted by what it does: README, section 6.    *)
(***************************************************************************)
\* What a task reads or writes is its own socket.
UsesItsOwn == \A t \in Tasks : pc[t] = "use" => os[Socket(t)] \in {t, Nobody}
=============================================================================
