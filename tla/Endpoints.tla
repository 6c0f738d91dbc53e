------------------------------ MODULE Endpoints ------------------------------
(***************************************************************************)
(* Whether the services can have the endpoints they need, and what is done *)
(* to whoever is in the way: platform/ports.cpp, and the parts of          *)
(* app/services.cpp that ask it (RequiredPorts, EnforceCleanSlate, the     *)
(* question before a start, KillPortHolders, AwaitPortsReleased) with the  *)
(* declarations app/payload.cpp reads.                                     *)
(*                                                                         *)
(* The only test is a bind, so every question opens sockets, one at a      *)
(* time, on a machine where other programs, and other threads of this one, *)
(* bind and close theirs meanwhile.                                        *)
(*                                                                         *)
(* External: which binds the system refuses (the measured table of         *)
(* ports.h) and with which error; a process told to end does so at once or *)
(* not within the wait.                                                    *)
(***************************************************************************)
EXTENDS Naturals, Sequences, FiniteSetsExt

CONSTANTS
  Starters,       \* threads that call Start or Stop
  Calls,          \* [Starters -> SUBSET {"interactive", "quiet", "stop"}]
  Others,         \* processes of other programs, or of an earlier run
  ImageOf,        \* [Others -> ImageNames]
  ParentOf,       \* [Others -> Others \cup {Nobody}]
  Stubborn,       \* processes that do not end within the wait
  Scenarios,      \* [declared, open]: what the payload's files declare, and
                  \* the sockets that are open at the beginning
  LocalAddresses, \* the literals an interface of this machine has
  ExcludedPorts,  \* ports the system gives to nobody
  MaxMoves,       \* how often other processes open or close a socket
  Nobody

ImageNames == {"ours", "moved", "foreign", "critical", "unknown"}
V4 == {"any4", "lo1", "lo2"}
V6 == {"any6", "lo6"}
Literals == V4 \cup V6
Wildcards == {"any4", "any6"}
Modes == {"default", "reuse", "exclusive"}
Self == "self"
System == "system"     \* pid 4, where http.sys holds its ports
MainThread == "main"
Threads == Starters \cup {MainThread}

\* What the files declare, as far as it can be told apart, and open sockets.
Texts == Literals \cup {"", "name"}
Listeners == [address : Texts, port : Nat]
Entries == [address : Texts, port : Nat, transport : {"tcp", "udp", "both", "other"},
            mode : Modes \cup {"other"}]
SocketsOf(processes) ==
  [by : processes, of : Nat, address : Texts, port : Nat, transport : {"tcp", "udp"},
   mode : Modes \cup {"other"}, listed : BOOLEAN]

EndpointsAssumption ==
  /\ {Self, System, MainThread, Nobody} \cap (Others \cup Starters) = {}
  /\ Others \cap Starters = {} /\ Nobody \notin {Self, System, MainThread}
  /\ Calls \in [Starters -> SUBSET {"interactive", "quiet", "stop"}]
  /\ ImageOf \in [Others -> ImageNames]
  /\ ParentOf \in [Others -> Others \cup {Nobody}]
  /\ LocalAddresses \subseteq Literals
  /\ MaxMoves \in Nat
  /\ \A s \in Scenarios :
       /\ s.declared.ports \in Seq(Entries) /\ s.declared.listeners \in Seq(Listeners)
       /\ s.declared.resolver \in Texts
       /\ s.open \subseteq SocketsOf(Others \cup {System})
       /\ \A x \in s.open : x.port \notin ExcludedPorts

VARIABLES
  claims,   \* what the files declare: [address, port, transport, mode]
  sockets,  \* every socket bound on the machine
  killed,   \* <<thread, process>>: who has terminated whom
  th,       \* what each thread is doing
  opMx,     \* who holds operationMutex
  up,       \* the services hold their endpoints
  moves,    \* how often other processes have moved
  met       \* processes that have held a required endpoint at some time

vars == <<claims, sockets, killed, th, opMx, up, moves, met>>

(***************************************************************************)
(* What is declared.  An entry of [Ports] that cannot be read is skipped.  *)
(***************************************************************************)
Readable(entry) ==
  /\ entry.transport \in {"tcp", "udp", "both"}
  /\ entry.mode \in Modes
  /\ entry.address # "" /\ entry.port \in 1..65535
LoadPortClaims(declared) ==
  LET claimsOf[n \in 0..Len(declared.ports)] ==
        IF n = 0 THEN <<>>
        ELSE IF Readable(declared.ports[n]) THEN Append(claimsOf[n - 1], declared.ports[n])
        ELSE claimsOf[n - 1]
  IN claimsOf[Len(declared.ports)]

Exclusively(endpoint) ==
  [address |-> endpoint.address, port |-> endpoint.port, transport |-> "both", mode |-> "exclusive"]
LoadResolverEndpoint(declared) ==
  [address |-> IF declared.resolver \in {"lo1", "lo2", "lo6"} THEN declared.resolver ELSE "lo1",
   port |-> 53]
RequiredPorts(declared) ==
  LoadPortClaims(declared) \o [i \in DOMAIN declared.listeners |-> Exclusively(declared.listeners[i])]
    \o <<Exclusively(LoadResolverEndpoint(declared))>>

Claims == DOMAIN claims
Claim(i) == claims[i]
Legs(i) ==
  CASE Claim(i).transport = "tcp" -> <<"tcp">>
    [] Claim(i).transport = "udp" -> <<"udp">>
    [] OTHER -> <<"tcp", "udp">>

(***************************************************************************)
(* Who holds what.                                                         *)
(***************************************************************************)
PidOf(s) == IF s.by \in Threads THEN Self ELSE s.by
ConflictsWithPort(holder, claim) == TRUE
ConflictsWith(holder, claim) ==
  \/ claim \in V4 /\ holder = "any6"
  \/ /\ {holder, claim} \subseteq V4 \/ {holder, claim} \subseteq V6
     /\ holder = claim \/ {holder, claim} \cap Wildcards # {}
Meets(s, i) == s.port = Claim(i).port /\ Claim(i).transport \in {s.transport, "both"}
BlockersOf(i) ==
  IF Claim(i).address \notin Literals THEN {}
  ELSE {PidOf(s) : s \in {x \in sockets : /\ x.listed /\ Meets(x, i)
                                          /\ ConflictsWith(x.address, Claim(i).address)}}

\* The concrete addresses a socket bound there takes; a v6 wildcard is dual-stack.
Covers(address) ==
  CASE address = "any4" -> {"lo1", "lo2"}
    [] address = "any6" -> {"lo1", "lo2", "lo6"}
    [] OTHER -> {address}
Holds(s, i) == Meets(s, i) /\ Covers(s.address) \cap Covers(Claim(i).address) # {}

\* The system refuses to bind beside s.
Refuses(s, i, t) ==
  /\ s.transport = t /\ Holds(s, i)
  /\ IF "exclusive" \in {s.mode, Claim(i).mode} THEN TRUE
     ELSE s.address = Claim(i).address /\ ~(s.mode = "reuse" /\ Claim(i).mode = "reuse")
\* ... and says that access is denied rather than that the address is in use.
Denies(s, i) ==
  IF s.mode = "exclusive" THEN s.address \in Wildcards /\ Claim(i).address \notin Wildcards
  ELSE s.address \in Wildcards /\ Claim(i).mode = "reuse"

StatusTaken(i, error) == IF error = "access" THEN "inuse" ELSE error
Status(i, error) ==
  IF error = "access" THEN IF BlockersOf(i) # {} THEN "inuse" ELSE "unavailable" ELSE error

TryBindOne(i, t) ==
  LET refusing == {s \in sockets : Refuses(s, i, t)}
      address == Claim(i).address
  IN CASE address \notin Literals -> "notaliteral"
       [] address \in Literals \ LocalAddresses -> "notlocal"
       [] OTHER ->
            Status(i, IF Claim(i).port \in ExcludedPorts THEN "access"
                      ELSE IF refusing = {} THEN "bound"
                      ELSE IF \E s \in refusing : s.listed /\ Denies(s, i) THEN "access"
                      ELSE "inuse")

Own(t) == {s \in sockets : s.by = t}
Probe(t, i, leg) ==
  [by |-> t, of |-> i, address |-> Claim(i).address, port |-> Claim(i).port, transport |-> leg,
   mode |-> Claim(i).mode, listed |-> leg = "udp"]

(***************************************************************************)
(* A pass over some claims, in the order they are declared in.  CanBindAll *)
(* keeps every socket until its end, CanBind and the second half of an     *)
(* audit close them after each claim.                                      *)
(***************************************************************************)
Idle == [pc |-> "idle", call |-> "none", answer |-> "none", todo |-> {}, keep |-> FALSE,
         held |-> {}, leg |-> 1, sub |-> "none", found |-> [i \in {} |-> "none"], claim |-> 0,
         victims |-> {}, calm |-> TRUE]

Alive(p) == \A t \in Threads : <<t, p>> \notin killed
Running(t) == Alive(Self)
Going(t, pc) == Running(t) /\ th[t].pc = pc /\ th[t].sub = "none"

Pass(r, todo, keep) ==
  [r EXCEPT !.todo = todo, !.keep = keep, !.leg = 1, !.found = [i \in {} |-> "none"],
            !.sub = IF todo = {} THEN "ended" ELSE "bind", !.calm = TRUE]
CanBindAll(r) == Pass(r, Claims, TRUE)
Rest(r, i) == IF r.todo # {i} /\ r.keep THEN "bind" ELSE "close"

Audits == {"look", "check", "naming"}
\* Anybody else's socket that comes or goes disturbs a pass.
Disturbed(f, t) ==
  [u \in Threads |-> IF u = t \/ sockets' = sockets \/ f[u].pc \notin Audits THEN f[u]
                     ELSE [f[u] EXCEPT !.calm = FALSE]]

\* What is closed of a claim's sockets when one of them is refused.
RollBack(t, i) == {s \in th[t].held : s.of = i}

Concluded(r, i, status) ==
  [r EXCEPT !.found = [j \in DOMAIN @ \cup {i} |-> IF j = i THEN status ELSE r.found[j]],
            !.todo = @ \ {i}, !.leg = 1, !.sub = Rest(r, i)]

\* A claim is taken whole or not at all.
Refused(r, i, status) == [Concluded(r, i, status) EXCEPT !.held = {s \in r.held : s.of # i}]
Half(r, probe) == [r EXCEPT !.leg = 2, !.held = r.held \cup {probe}]
Whole(r, i, probe) == [Concluded(r, i, "bound") EXCEPT !.held = r.held \cup {probe}]

TryBindClaim(t) ==
  LET r == th[t]
      i == Min(r.todo)
      leg == Legs(i)[r.leg]
      outcome == TryBindOne(i, leg)
      probe == Probe(t, i, leg)
  IN /\ Running(t) /\ r.sub = "bind"
     /\ sockets' = IF outcome = "bound" THEN sockets \cup {probe} ELSE sockets \ RollBack(t, i)
     /\ th' = Disturbed([th EXCEPT ![t] =
                IF outcome # "bound" THEN Refused(r, i, outcome)
                ELSE IF r.leg = Len(Legs(i)) THEN Whole(r, i, probe) ELSE Half(r, probe)], t)
     /\ UNCHANGED <<claims, killed, opMx, up, moves, met>>

CloseSockets(t) ==
  /\ Running(t) /\ th[t].sub = "close"
  /\ sockets' = sockets \ th[t].held
  /\ th' = Disturbed([th EXCEPT ![t].held = {},
                        ![t].sub = IF th[t].todo = {} THEN "ended" ELSE "bind"], t)
  /\ UNCHANGED <<claims, killed, opMx, up, moves, met>>

Ended(t, pc) == Running(t) /\ th[t].pc = pc /\ th[t].sub = "ended"
Failed(r) == {i \in DOMAIN r.found : r.found[i] # "bound"}
AllBound(r) == r.keep /\ Failed(r) = {}
Step(t, r) ==
  th' = [th EXCEPT ![t] = r] /\ UNCHANGED <<claims, sockets, killed, opMx, up, moves, met>>
Entered(r, pc) == [Idle EXCEPT !.pc = pc, !.call = r.call, !.answer = r.answer, !.claim = r.claim]

(***************************************************************************)
(* AuditClaims: what failed in the group is asked again on its own.        *)
(***************************************************************************)
AskAlone(t) ==
  /\ th[t].pc \in Audits /\ Ended(t, th[t].pc) /\ th[t].keep /\ ~AllBound(th[t])
  /\ Step(t, [Pass(th[t], Failed(th[t]), FALSE) EXCEPT !.calm = th[t].calm])

Audited(t, pc) == Ended(t, pc) /\ (AllBound(th[t]) \/ ~th[t].keep)
Found(r, kinds) == {i \in DOMAIN r.found : ~r.keep /\ r.found[i] \in kinds}
Contradicted(r) == Found(r, {"bound"})
Unavailable(r) == Found(r, {"inuse"})
Invalid(r) == Found(r, {"notaliteral", "notlocal", "unavailable"})
HasConfigurationFault(r) == Contradicted(r) \cup Invalid(r) # {}

(***************************************************************************)
(* Start: the look and the question before the lock.                       *)
(***************************************************************************)
Call(t, c) ==
  /\ t \in Starters /\ Going(t, "idle") /\ th[MainThread].pc = "done"
  /\ Step(t, IF c = "interactive" /\ ~up THEN CanBindAll([th[t] EXCEPT !.pc = "look", !.call = c])
             ELSE [th[t] EXCEPT !.pc = "lock", !.call = c, !.answer = "notasked"])

Looked(t) ==
  /\ Audited(t, "look")
  /\ Step(t, Entered(th[t], IF HasConfigurationFault(th[t]) THEN "done"
                            ELSE IF Unavailable(th[t]) # {} THEN "asking" ELSE "lock"))

Answer(t, answer) ==
  /\ Going(t, "asking")
  /\ Step(t, [th[t] EXCEPT !.pc = IF answer = "yes" THEN "lock" ELSE "done", !.answer = answer])

(***************************************************************************)
(* StartLocked, as far as the endpoints go, and StopLocked.                *)
(***************************************************************************)
Lock(t) ==
  /\ Going(t, "lock") /\ opMx = Nobody
  /\ opMx' = t
  /\ IF th[t].call = "stop"
     THEN /\ sockets' = {s \in sockets : s.by # Self} /\ up' = FALSE
          /\ th' = Disturbed([th EXCEPT ![t] = CanBindAll([@ EXCEPT !.pc = "await"])], t)
     ELSE /\ th' = [th EXCEPT ![t] = IF up THEN Entered(@, "unlock")
                                     ELSE CanBindAll([@ EXCEPT !.pc = "check"])]
          /\ UNCHANGED <<sockets, up>>
  /\ UNCHANGED <<claims, killed, moves, met>>

\* portsApproved is TRUE unless the user was asked and declined.
Checked(t) ==
  /\ Audited(t, "check")
  /\ Step(t, Entered(th[t], IF HasConfigurationFault(th[t]) THEN "unlock"
                            ELSE IF Unavailable(th[t]) # {} THEN "http" ELSE "launch"))

(***************************************************************************)
(* KillPortHolders.                                                        *)
(***************************************************************************)
StopHttp(t) ==
  /\ Going(t, "http")
  /\ \E left \in {{}, {s \in sockets : s.by = System}} :
       sockets' = {s \in sockets : s.by # System} \cup left
  /\ th' = Disturbed([th EXCEPT ![t].pc = "free", ![t].claim = 0], t)
  /\ UNCHANGED <<claims, killed, opMx, up, moves, met>>

FreeNext(t) ==
  /\ Going(t, "free")
  /\ LET i == th[t].claim + 1 IN
     Step(t, IF i \notin Claims THEN CanBindAll([th[t] EXCEPT !.pc = "verdict", !.claim = 0])
             ELSE Pass([th[t] EXCEPT !.claim = i], {i}, FALSE))

\* The holders of a claim that does not bind, as the tables have them now.
ReadHolders(t) ==
  /\ Ended(t, "free")
  /\ Step(t, [Entered(th[t], "free") EXCEPT !.victims =
                IF Failed(th[t]) = {} THEN {} ELSE BlockersOf(th[t].claim),
                !.pc = IF Failed(th[t]) = {} THEN "free" ELSE "kill"])

IsSystemCritical(p) == p = System \/ (p \in Others /\ ImageOf[p] \in {"critical", "unknown"})
Spared(t, p) == th[t].pc = "kill" /\ IsSystemCritical(p)

Children(set) == {p \in Others : ParentOf[p] \in set}
CollectTree(p) ==
  LET one == {p} \cup Children({p}) IN
  {q \in one \cup Children(one) : Alive(q)} \cup (IF p = Self THEN {Self} ELSE {})

KillTree(t, p) ==
  LET gone == CollectTree(p) \ Stubborn IN
    /\ killed' = killed \cup {<<t, q>> : q \in gone}
    /\ sockets' = {s \in sockets : PidOf(s) \notin gone}
    /\ th' = Disturbed([th EXCEPT ![t].victims = @ \ {p}], IF gone = {} THEN t ELSE Nobody)
    /\ up' = (up /\ Self \notin gone)

Victim(t, p) ==
  /\ Running(t) /\ th[t].pc \in {"kill", "paths", "ports"} /\ p \in th[t].victims
  /\ IF Spared(t, p)
     THEN th' = [th EXCEPT ![t].victims = @ \ {p}] /\ UNCHANGED <<killed, sockets, up>>
     ELSE KillTree(t, p)
  /\ UNCHANGED <<claims, opMx, moves, met>>

HoldersDone(t) ==
  /\ Going(t, "kill") /\ th[t].victims = {}
  /\ Step(t, Entered(th[t], "free"))

\* The whole set has to bind together, whatever was terminated.
Freed(t) ==
  /\ Ended(t, "verdict")
  /\ Step(t, IF AllBound(th[t]) THEN Entered(th[t], "launch")
             ELSE CanBindAll([th[t] EXCEPT !.pc = "naming"]))
Named(t) == Audited(t, "naming") /\ Step(t, Entered(th[t], "unlock"))

(***************************************************************************)
(* The services come up only if their endpoints are still there; a start   *)
(* that fails stops what it brought up, and waits for the endpoints.       *)
(***************************************************************************)
CanHold == \A i \in Claims : \A k \in DOMAIN Legs(i) : TryBindOne(i, Legs(i)[k]) = "bound"
ServiceSockets == UNION {{[Probe(Self, i, Legs(i)[k]) EXCEPT !.listed = TRUE] :
                            k \in DOMAIN Legs(i)} : i \in Claims}
Launch(t) ==
  /\ Going(t, "launch")
  /\ up' = CanHold
  /\ sockets' = IF CanHold THEN sockets \cup ServiceSockets ELSE sockets
  /\ th' = Disturbed([th EXCEPT ![t] = IF CanHold THEN [@ EXCEPT !.pc = "unlock"]
                                       ELSE CanBindAll([@ EXCEPT !.pc = "await"])], t)
  /\ UNCHANGED <<claims, killed, opMx, moves, met>>

\* Tried until it binds, or the deadline has passed.
AwaitPortsReleased(t, late) ==
  /\ Ended(t, "await")
  /\ Step(t, IF AllBound(th[t]) \/ late THEN Entered(th[t], "unlock") ELSE CanBindAll(th[t]))

Unlock(t) ==
  /\ Going(t, "unlock")
  /\ opMx' = Nobody
  /\ th' = [th EXCEPT ![t] = [Entered(@, "done") EXCEPT !.claim = 0]]
  /\ UNCHANGED <<claims, sockets, killed, up, moves, met>>

(***************************************************************************)
(* EnforceCleanSlate, before anything else.                                *)
(***************************************************************************)
SweepPaths ==
  /\ Going(MainThread, "idle")
  /\ Step(MainThread, [th[MainThread] EXCEPT !.pc = "paths", !.claim = 0,
                         !.victims = {p \in Others : Alive(p) /\ ImageOf[p] = "ours"}])

OursAndHolding(p) == p \in Others /\ ImageOf[p] = "ours"
SweepPorts ==
  /\ Running(MainThread) /\ th[MainThread].pc \in {"paths", "ports"} /\ th[MainThread].victims = {}
  /\ LET i == th[MainThread].claim + 1 IN
     Step(MainThread, IF i \notin Claims THEN [th[MainThread] EXCEPT !.pc = "done"]
                      ELSE [th[MainThread] EXCEPT !.pc = "ports", !.claim = i,
                              !.victims = {p \in BlockersOf(i) : OursAndHolding(p)}])

(***************************************************************************)
(* Other processes open and close their sockets.                           *)
(***************************************************************************)
Holding(set) == {s.by : s \in {x \in set : \E i \in Claims : Holds(x, i)}}
Moved(next) ==
  /\ moves < MaxMoves /\ moves' = moves + 1
  /\ sockets' = next /\ met' = met \cup Holding(next)
  /\ th' = Disturbed(th, Nobody)
  /\ UNCHANGED <<claims, killed, opMx, up>>

Grab(p, i) ==
  /\ Alive(p) /\ Claim(i).port \notin ExcludedPorts
  /\ \A s \in sockets : ~Refuses(s, i, Legs(i)[1])
  /\ Moved(sockets \cup {Probe(p, i, Legs(i)[1])})
Release(p) == Own(p) # {} /\ Moved(sockets \ Own(p))

Init ==
  /\ \E s \in Scenarios : claims = RequiredPorts(s.declared) /\ sockets = s.open
  /\ killed = {} /\ moves = 0
  /\ th = [t \in Threads |-> Idle]
  /\ opMx = Nobody /\ up = FALSE
  /\ met = Holding(sockets)

ThreadStep(t) ==
  \/ TryBindClaim(t) \/ CloseSockets(t) \/ AskAlone(t)
  \/ Looked(t) \/ Lock(t) \/ Checked(t) \/ StopHttp(t) \/ FreeNext(t) \/ ReadHolders(t)
  \/ \E p \in Others \cup {Self, System} : Victim(t, p)
  \/ HoldersDone(t) \/ Freed(t) \/ Named(t) \/ Launch(t) \/ Unlock(t)
  \/ \E late \in BOOLEAN : AwaitPortsReleased(t, late)
MainStep == SweepPaths \/ SweepPorts

Next ==
  \/ \E t \in Threads : ThreadStep(t)
  \/ MainStep
  \/ \E t \in Starters : \/ \E c \in Calls[t] : Call(t, c)
                         \/ \E answer \in {"yes", "no"} : Answer(t, answer)
  \/ \E p \in Others : Release(p) \/ \E i \in Claims : Grab(p, i)

Spec == Init /\ [][Next]_vars

-----------------------------------------------------------------------------
Processes == Others \cup {Self, System}
Findings ==
  UNION {[tried -> {"bound", "inuse", "notaliteral", "notlocal", "unavailable"}] :
           tried \in SUBSET Claims}
PassStates ==
  [pc : {"idle", "paths", "ports", "done", "look", "asking", "lock", "check", "http", "free",
         "kill", "verdict", "naming", "launch", "await", "unlock"},
   call : {"none", "interactive", "quiet", "stop"}, answer : {"none", "notasked", "yes", "no"},
   todo : SUBSET Claims, keep : BOOLEAN, held : SUBSET SocketsOf(Threads), leg : {1, 2},
   sub : {"none", "bind", "close", "ended"},
   found : Findings, claim : 0..Len(claims), victims : SUBSET Processes, calm : BOOLEAN]

TypeOK ==
  /\ claims \in Seq(Entries)
  /\ sockets \subseteq SocketsOf(Processes \cup Threads)
  /\ killed \subseteq Threads \X Processes
  /\ th \in [Threads -> PassStates]
  /\ opMx \in Starters \cup {Nobody}
  /\ up \in BOOLEAN
  /\ moves \in 0..MaxMoves
  /\ met \subseteq Processes \cup Threads

\* Terminating a program over a conflict it is no part of is the damage this
\* code can do (ports.h, HoldersOf): before a start only the leftovers of this
\* program are terminated, and later only a process that has held a required
\* endpoint, with what it has started.
Leftovers == {p \in Others : ImageOf[p] = "ours"}
Trees(set) == set \cup Children(set) \cup Children(Children(set))
OnlyThoseInTheWay ==
  \A k \in killed :
    IF k[1] = MainThread THEN k[2] \in Trees(Leftovers)
    ELSE k[2] \in Trees(met) \cup {Self}

\* What an audit says, when nobody has opened or closed a socket during it: a
\* claim said to be taken is held by somebody else, a claim said to be the
\* declarations' own fault is in nobody's hands, and if nothing is said the
\* whole set can be had.
Taken(t, i) == \E s \in sockets \ Own(t) : \E l \in {"tcp", "udp"} : Refuses(s, i, l)
AuditsAreRight ==
  \A t \in Threads, pc \in Audits :
    Audited(t, pc) /\ th[t].calm =>
      /\ \A i \in Unavailable(th[t]) : Taken(t, i)
      /\ \A i \in Contradicted(th[t]) : ~Taken(t, i)
      /\ Failed(th[t]) = {} => CanHold

-----------------------------------------------------------------------------
(***************************************************************************)
(* What makes the properties inductive.                                    *)
(***************************************************************************)
\* The sweep is the main thread's alone and comes before every call; whoever a
\* thread is about to terminate is a leftover, or has been in the way.
Pursues(t, r) ==
  /\ t = MainThread =>
       /\ r.pc \in {"idle", "paths", "ports", "done"} /\ r.sub = "none"
       /\ r.victims \subseteq Leftovers
  /\ t \in Starters =>
       /\ r.pc \notin {"paths", "ports"} /\ r.victims \subseteq met \cup {Self}
       /\ r.pc = "free" /\ r.sub # "none" => r.claim # 0
VictimsInTheWay == \A t \in Threads : Pursues(t, th[t])

\* Nobody holds an endpoint unseen, and nobody holds what nobody is given.
HoldersMet ==
  \A s \in sockets :
    /\ s.port \notin ExcludedPorts
    /\ (\E i \in Claims : Holds(s, i)) => s.by \in Threads \cup {Self} \cup met

\* A thread's sockets are those of its pass: of the whole group, or of the one
\* claim that is asked on its own.
InHand(t) ==
  LET r == th[t] IN
  /\ Own(t) = r.held
  /\ r.sub = "bind" => r.todo # {} /\ r.leg <= Len(Legs(Min(r.todo)))
  /\ r.sub # "bind" => r.leg = 1
  /\ r.sub \in {"none", "ended"} => r.held = {}
  /\ r.sub = "ended" => r.todo = {}
  /\ r.sub = "bind" /\ ~r.keep => \A s \in r.held : r.leg = 2 /\ s.transport = "tcp"

\* What t could bind if its own sockets were closed.
FreeLeg(t, i, leg) ==
  /\ Claim(i).address \in Literals \cap LocalAddresses /\ Claim(i).port \notin ExcludedPorts
  /\ \A s \in sockets \ Own(t) : ~Refuses(s, i, leg)
Free(t, i) == \A k \in DOMAIN Legs(i) : FreeLeg(t, i, Legs(i)[k])

\* What an undisturbed audit has found so far is so; in its second half that a
\* claim is not asked again means that it was free.
FoundIsSo(t) ==
  LET r == th[t] IN
  r.pc \in Audits /\ r.calm =>
    /\ \A i \in Claims : i \in r.todo \/ i \in DOMAIN r.found \/ (~r.keep /\ Free(t, i))
    /\ \A i \in DOMAIN r.found :
         /\ r.found[i] = "bound" => Free(t, i)
         /\ r.found[i] = "inuse" /\ ~r.keep => Taken(t, i)
    /\ r.sub = "bind" /\ r.leg = 2 => FreeLeg(t, Min(r.todo), "tcp")

PassesInOrder == Alive(Self) => \A t \in Threads : InHand(t) /\ FoundIsSo(t)

(***************************************************************************)
(* Said of the program, and refuted by what it does: README, section 6.    *)
(***************************************************************************)
\* services.h:103: if an endpoint is held by a foreign process, an interactive
\* call prompts before freeing it; a non-interactive one reports through the log
\* instead. The code lets a call that asks nobody terminate it.
AskedFirst ==
  \A k \in killed : k[1] # MainThread => th[k[1]].answer = "yes"

\* services.cpp:998: the holders are others. A second look, taken by another
\* thread before it has the lock, makes this program the holder.
SparesItself == Alive(Self)
=============================================================================
