---------------------------- MODULE ServiceStack ----------------------------
(***************************************************************************)
(* The local stack of src/src/app/services.cpp: four components brought up *)
(* and taken down as one, by whoever calls Start, Stop or CleanCache, by   *)
(* the supervisor when a component stops on its own, and by the end of the *)
(* program.                                                                *)
(*                                                                         *)
(* All of them are threads that meet at operationMutex. A supervisor is a  *)
(* thread for each time the stack is armed: it waits, says that it has     *)
(* finished, and only then reacts, so it can be disarmed from its own      *)
(* reaction. The generation counter is kept as what it decides: whether    *)
(* the stack a supervisor was armed for is still the present one.          *)
(***************************************************************************)
EXTENDS Naturals, FiniteSets

CONSTANTS
  Callers,   \* detached workers that run the user's commands
  Sups,      \* supervisor threads that may exist at the same time
  Main,      \* the thread of wWinMain, whose Runtime ends
  Kinds,     \* which of KindNames the workers are asked for
  Faults,    \* which of FaultNames may happen
  NoThread

KindNames == {"start", "autostart", "stop", "clean"}
FaultNames == {"down",      \* a component stops on its own
               "launch",    \* a component cannot be started
               "holder",    \* another program takes a required port
               "config",    \* the payload declares endpoints it cannot have
               "dnsclient", \* the DNS Client service is off
               "thread"}    \* a supervisor thread cannot be created

ASSUME ServiceStackAssumption ==
  /\ Kinds \subseteq KindNames /\ Faults \subseteq FaultNames
  /\ Callers \cap Sups = {} /\ Main \notin Callers \cup Sups
  /\ NoThread \notin Callers \cup Sups \cup {Main}

Components == {"DnsProxy", "Nginx", "SniGate", "DnsRedirection"}
Threads == Callers \cup Sups \cup {Main}

VARIABLES
  pc,           \* where each thread is
  kind,         \* what each worker was asked for
  asked,        \* the user was asked about the ports in this call
  next,         \* where a thread goes on after StopLocked
  opMx,         \* who holds operationMutex
  published,    \* Ctx() finds the state
  shuttingDown,
  up,           \* each component: "down", "up", or "failed" and not taken down
  armed,        \* the supervisor thread that Disarm would wait for
  cancel,       \* m_cancel of each supervisor
  current,      \* the generation it captured is the present one
  held          \* a required port is held by another program

callVars == <<kind, asked>>
stackVars == <<up, armed, cancel, current>>
vars == <<pc, callVars, next, opMx, published, shuttingDown, stackVars, held>>

CallerStates ==
  {"idle", "audit", "asking", "lock", "check", "disarm", "down", "client",
   "ports", "proxy", "nginx", "gate", "redirect", "arm", "unlock",
   "unlockTell", "telling", "tellLocked"}
SupStates == {"none", "waiting", "finished", "lock", "check", "disarm", "down",
              "unlockTell", "unlock", "telling"}
MainStates == {"running", "unpublished", "lock", "check", "disarm", "down",
               "unlock", "drain", "returned"}

Init ==
  /\ pc = [t \in Threads |-> IF t = Main THEN "running"
                             ELSE IF t \in Sups THEN "none" ELSE "idle"]
  /\ kind = [t \in Callers |-> "stop"]
  /\ asked = [t \in Callers |-> FALSE]
  /\ next = [t \in Threads |-> "unlock"]
  /\ opMx = NoThread
  /\ published = TRUE /\ shuttingDown = FALSE
  /\ up = [c \in Components |-> "down"]
  /\ armed = NoThread
  /\ cancel = [s \in Sups |-> FALSE]
  /\ current = [s \in Sups |-> FALSE]
  /\ held = FALSE
-----------------------------------------------------------------------------
Goes(t, l) == pc' = [pc EXCEPT ![t] = l]

\* What a call returns to, and its locals with it.
Over(t) == IF t \in Sups THEN "none" ELSE "idle"
Returns(t) ==
  /\ kind' = [r \in Callers |-> IF r = t THEN "stop" ELSE kind[r]]
  /\ asked' = [r \in Callers |-> r # t /\ asked[r]]

\* AnythingRunning: something is left that a stop has to take back. A proxy
\* whose loop has ended on its own is not counted.
AnythingRunning ==
  \/ up["DnsProxy"] = "up"
  \/ \E c \in Components \ {"DnsProxy"} : up[c] # "down"

AllRunning == \A c \in Components : up[c] = "up"

\* Mutant: the destructor waits for its own reference as well.
HoldsStateOwn(t) == pc[t] \notin {"idle", "none", "waiting", "finished"}

\* A call holds its reference to the state until it returns.
HoldsState(t) ==
  t # Main /\ pc[t] \notin {"idle", "none", "waiting", "finished"}
-----------------------------------------------------------------------------
(***************************************************************************)
(* A command, before the lock                                              *)
(***************************************************************************)

\* Start, Stop or CleanCache is called. An interactive start of a stack that
\* is down looks at the ports first.
Begin(t, k) ==
  /\ pc[t] = "idle" /\ published
  /\ kind' = [kind EXCEPT ![t] = k]
  /\ Goes(t, IF k = "start" /\ ~AnythingRunning THEN "audit" ELSE "lock")
  /\ UNCHANGED <<asked, next, opMx, published, shuttingDown, stackVars, held>>

Audit(t) ==
  /\ pc[t] = "audit"
  /\ \/ "config" \in Faults /\ Goes(t, "telling")
     \/ Goes(t, IF held THEN "asking" ELSE "lock")
  /\ UNCHANGED <<callVars, next, opMx, published, shuttingDown, stackVars, held>>

\* The user answers whether the holders may be terminated.
Answer(t, yes) ==
  /\ pc[t] = "asking"
  /\ IF yes
     THEN /\ asked' = [asked EXCEPT ![t] = TRUE]
          /\ Goes(t, "lock")
          /\ UNCHANGED kind
     ELSE Returns(t) /\ Goes(t, "idle")
  /\ UNCHANGED <<next, opMx, published, shuttingDown, stackVars, held>>

Lock(t) ==
  /\ pc[t] = "lock"
  /\ opMx = NoThread
  /\ opMx' = t
  /\ Goes(t, "check")
  /\ UNCHANGED <<callVars, next, published, shuttingDown, stackVars, held>>

\* After the lock is released: the message box of a start that failed, or of
\* a component that stopped.
Unlock(t) ==
  /\ pc[t] \in {"unlock", "unlockTell"}
  /\ opMx' = NoThread
  /\ Goes(t, IF pc[t] = "unlockTell" THEN "telling"
             ELSE IF t = Main THEN "drain" ELSE Over(t))
  /\ Returns(t)
  /\ UNCHANGED <<next, published, shuttingDown, stackVars, held>>

\* The user closes a message box.
Dismiss(t) ==
  /\ \/ pc[t] = "telling" /\ Goes(t, Over(t)) /\ Returns(t)
     \/ pc[t] = "tellLocked" /\ Goes(t, "unlock") /\ UNCHANGED callVars
  /\ UNCHANGED <<next, opMx, published, shuttingDown, stackVars, held>>
-----------------------------------------------------------------------------
(***************************************************************************)
(* StopLocked                                                              *)
(***************************************************************************)

\* The stack is taken down and the thread goes on at l.
TearDown(t, l) == Goes(t, "disarm") /\ next' = [next EXCEPT ![t] = l]

\* Disarm, first half: tell the supervisor to go.
Disarm(t) ==
  /\ pc[t] = "disarm"
  /\ cancel' = [s \in Sups |-> cancel[s] \/ s = armed]
  /\ Goes(t, "down")
  /\ UNCHANGED <<callVars, next, opMx, published, shuttingDown, up, armed,
                 current, held>>

\* m_finished is set before the reaction.
Finished(s) == s # NoThread => pc[s] # "waiting"

\* Disarm, second half, and the rest of StopLocked.
StopAll(t) ==
  /\ pc[t] = "down"
  /\ Finished(armed)
  /\ armed' = NoThread
  /\ current' = [s \in Sups |-> FALSE]
  /\ up' = [c \in Components |-> "down"]
  /\ Goes(t, next[t])
  /\ next' = [next EXCEPT ![t] = "unlock"]
  /\ cancel' = [s \in Sups |-> FALSE]
  /\ UNCHANGED <<callVars, opMx, published, shuttingDown, held>>

\* Stop and CleanCache, once they hold the lock. A clean-up of a stack that is
\* up goes on as a start; one with nothing to clean leaves the stack alone.
BeginStop(t) ==
  /\ pc[t] = "check" /\ t \in Callers
  /\ \/ kind[t] = "stop" /\ TearDown(t, "unlock") /\ UNCHANGED kind
     \/ kind[t] = "clean" /\ Goes(t, "unlock") /\ UNCHANGED <<kind, next>>
     \/ /\ kind[t] = "clean" /\ AnythingRunning
        /\ TearDown(t, "check")
        /\ kind' = [kind EXCEPT ![t] = "restart"]
  /\ UNCHANGED <<asked, opMx, published, shuttingDown, stackVars, held>>
-----------------------------------------------------------------------------
(***************************************************************************)
(* StartLocked                                                             *)
(***************************************************************************)

Starting(t) == t \in Callers /\ kind[t] \in {"start", "autostart", "restart"}
Interactive(t) == kind[t] = "start"

\* A start that gives up with a message, which only the interactive one shows.
GiveUp(t) == Goes(t, IF Interactive(t) THEN "unlockTell" ELSE "unlock")

\* Mutant: a start does not look whether the program is ending.
BeginStartLate(t) ==
  /\ pc[t] = "check" /\ Starting(t)
  /\ \/ AllRunning /\ Goes(t, "unlock") /\ UNCHANGED next
     \/ ~AllRunning /\ AnythingRunning /\ TearDown(t, "client")
     \/ ~AnythingRunning /\ Goes(t, "client") /\ UNCHANGED next
  /\ UNCHANGED <<callVars, opMx, published, shuttingDown, stackVars, held>>

BeginStart(t) ==
  /\ pc[t] = "check" /\ Starting(t)
  /\ \/ shuttingDown /\ Goes(t, "unlock") /\ UNCHANGED next
     \/ ~shuttingDown /\ AllRunning /\ Goes(t, "unlock") /\ UNCHANGED next
     \/ ~shuttingDown /\ ~AllRunning /\ AnythingRunning /\ TearDown(t, "client")
     \/ ~shuttingDown /\ ~AnythingRunning /\ Goes(t, "client") /\ UNCHANGED next
  /\ UNCHANGED <<callVars, opMx, published, shuttingDown, stackVars, held>>

\* The DNS Client service and the declared endpoints are looked at.
CheckMachine(t) ==
  /\ pc[t] = "client"
  /\ \/ Goes(t, "ports")
     \/ Faults \cap {"config", "dnsclient"} # {} /\ GiveUp(t)
  /\ UNCHANGED <<callVars, next, opMx, published, shuttingDown, stackVars, held>>

PortsFree(t) ==
  /\ pc[t] = "ports" /\ ~held
  /\ Goes(t, "proxy")
  /\ UNCHANGED <<callVars, next, opMx, published, shuttingDown, stackVars, held>>

\* KillPortHolders: the holder is terminated, or cannot be. Nobody gets here
\* with portsApproved false: it starts out true, an interactive start that was
\* refused has returned, and CleanCache passes true.
KillPortHolders(t) ==
  /\ pc[t] = "ports" /\ held
  /\ \/ held' = FALSE /\ Goes(t, "proxy")
     \/ held' = TRUE /\ GiveUp(t)
  /\ UNCHANGED <<callVars, next, opMx, published, shuttingDown, stackVars>>

\* Mutant: what was started before a launch fails is left as it is.
LaunchOnly(t, at, c, then) ==
  /\ pc[t] = at
  /\ \/ up' = [up EXCEPT ![c] = "up"] /\ Goes(t, then)
     \/ "launch" \in Faults /\ GiveUp(t) /\ UNCHANGED up
  /\ UNCHANGED <<callVars, next, opMx, published, shuttingDown, armed, cancel,
                 current, held>>

\* One component is started, or the stack is rolled back. The message about
\* DNS redirection is shown before the lock is released.
Launch(t, at, c, then) ==
  /\ pc[t] = at
  /\ \/ up' = [up EXCEPT ![c] = "up"] /\ Goes(t, then) /\ UNCHANGED next
     \/ /\ "launch" \in Faults
        /\ TearDown(t, IF ~Interactive(t) THEN "unlock"
                       ELSE IF c = "DnsRedirection" THEN "tellLocked" ELSE "unlockTell")
        /\ UNCHANGED up
  /\ UNCHANGED <<callVars, opMx, published, shuttingDown, armed, cancel,
                 current, held>>

StartProxy(t) == Launch(t, "proxy", "DnsProxy", "nginx")
StartNginx(t) == Launch(t, "nginx", "Nginx", "gate")
StartGate(t) == Launch(t, "gate", "SniGate", "redirect")
StartRedirection(t) == Launch(t, "redirect", "DnsRedirection", "arm")

\* Mutant: the supervisor keeps the generation of its first stack.
ArmStale(t) ==
  /\ pc[t] = "arm"
  /\ \E s \in Sups :
       /\ pc[s] = "none"
       /\ pc' = [pc EXCEPT ![t] = "unlock", ![s] = "waiting"]
       /\ armed' = s
       /\ UNCHANGED current
  /\ UNCHANGED <<callVars, next, opMx, published, shuttingDown, up, cancel, held>>

\* ArmSupervisor: a new generation, and a thread that captures it.
Arm(t) ==
  /\ pc[t] = "arm"
  /\ \/ \E s \in Sups :
          /\ pc[s] = "none"
          /\ pc' = [pc EXCEPT ![t] = "unlock", ![s] = "waiting"]
          /\ armed' = s
          /\ current' = [r \in Sups |-> r = s]
     \/ "thread" \in Faults /\ Goes(t, "unlock") /\ UNCHANGED <<armed, current>>
  /\ UNCHANGED <<callVars, next, opMx, published, shuttingDown, up, cancel, held>>
-----------------------------------------------------------------------------
(***************************************************************************)
(* The supervisor                                                          *)
(***************************************************************************)

\* Run wakes up: the cancellation is the first handle it waits for.
Cancelled(s) ==
  /\ pc[s] = "waiting" /\ cancel[s]
  /\ Goes(s, "none")
  /\ UNCHANGED <<callVars, next, opMx, published, shuttingDown, stackVars, held>>

\* Mutant: only what was launched as a process is watched.
WakeForChildren(s) ==
  /\ pc[s] = "waiting" /\ ~cancel[s]
  /\ \E c \in {"Nginx", "SniGate"} : up[c] = "failed"
  /\ Goes(s, "finished")
  /\ UNCHANGED <<callVars, next, opMx, published, shuttingDown, stackVars, held>>

Wake(s) ==
  /\ pc[s] = "waiting" /\ ~cancel[s]
  /\ \E c \in Components : up[c] = "failed"
  /\ Goes(s, "finished")
  /\ UNCHANGED <<callVars, next, opMx, published, shuttingDown, stackVars, held>>

\* OnComponentDown, up to the lock.
React(s) ==
  /\ pc[s] = "finished"
  /\ Goes(s, IF published THEN "lock" ELSE "none")
  /\ UNCHANGED <<callVars, next, opMx, published, shuttingDown, stackVars, held>>

\* Mutant: the generation is not compared.
OnComponentDownAlways(s) ==
  /\ pc[s] = "check" /\ s \in Sups
  /\ IF shuttingDown THEN Goes(s, "unlock") /\ UNCHANGED next
     ELSE TearDown(s, "unlockTell")
  /\ UNCHANGED <<callVars, opMx, published, shuttingDown, stackVars, held>>

OnComponentDown(s) ==
  /\ pc[s] = "check" /\ s \in Sups
  /\ IF shuttingDown \/ ~current[s] THEN Goes(s, "unlock") /\ UNCHANGED next
     ELSE TearDown(s, "unlockTell")
  /\ UNCHANGED <<callVars, opMx, published, shuttingDown, stackVars, held>>
-----------------------------------------------------------------------------
(***************************************************************************)
(* Runtime::~Runtime                                                       *)
(***************************************************************************)

Unpublish ==
  /\ pc[Main] = "running"
  /\ published' = FALSE
  /\ Goes(Main, "unpublished")
  /\ UNCHANGED <<callVars, next, opMx, shuttingDown, stackVars, held>>

ShutDown ==
  /\ pc[Main] = "unpublished"
  /\ shuttingDown' = TRUE
  /\ Goes(Main, "lock")
  /\ UNCHANGED <<callVars, next, opMx, published, stackVars, held>>

StopForGood ==
  /\ pc[Main] = "check"
  /\ IF AnythingRunning THEN TearDown(Main, "unlock")
     ELSE Goes(Main, "unlock") /\ UNCHANGED next
  /\ UNCHANGED <<callVars, opMx, published, shuttingDown, stackVars, held>>

\* Every call that was under way has returned; the state goes with the last
\* reference, and with it the supervisor.
Drained ==
  /\ pc[Main] = "drain"
  /\ \A t \in Threads : ~HoldsState(t)
  /\ Goes(Main, "returned")
  /\ UNCHANGED <<callVars, next, opMx, published, shuttingDown, stackVars, held>>
-----------------------------------------------------------------------------
(***************************************************************************)
(* The environment                                                         *)
(***************************************************************************)

\* A child exits, the proxy's loop ends, redirection reports its failure. What
\* bounds the reports in flight is Sups: no component fails while the next
\* stack would find no thread to be watched by.
SpareThread ==
  Cardinality({s \in Sups : pc[s] = "none"}) > IF armed = NoThread THEN 1 ELSE 0

ComponentDown(c) ==
  /\ "down" \in Faults /\ up[c] = "up" /\ SpareThread
  /\ up' = [up EXCEPT ![c] = "failed"]
  /\ UNCHANGED <<pc, callVars, next, opMx, published, shuttingDown, armed,
                 cancel, current, held>>

\* Another program takes a port the stack does not hold, or lets go of one.
PortHolder ==
  /\ "holder" \in Faults
  /\ held' = ~held
  /\ held \/ ~AllRunning
  /\ UNCHANGED <<pc, callVars, next, opMx, published, shuttingDown, stackVars>>
-----------------------------------------------------------------------------
Caller(t) ==
  \/ Audit(t) \/ BeginStop(t) \/ BeginStart(t) \/ CheckMachine(t)
  \/ PortsFree(t) \/ KillPortHolders(t)
  \/ StartProxy(t) \/ StartNginx(t) \/ StartGate(t) \/ StartRedirection(t)
  \/ Arm(t)

Supervisor(s) == Cancelled(s) \/ Wake(s) \/ React(s) \/ OnComponentDown(s)

Runtime == ShutDown \/ StopForGood \/ Drained

AnyThread(t) == Lock(t) \/ Unlock(t) \/ Disarm(t) \/ StopAll(t)

User(t) == Dismiss(t) \/ \E yes \in BOOLEAN : Answer(t, yes)

Next ==
  \/ \E t \in Callers : Caller(t) \/ \E k \in Kinds : Begin(t, k)
  \/ \E s \in Sups : Supervisor(s)
  \/ \E t \in Threads : AnyThread(t)
  \/ \E t \in Callers \cup Sups : User(t)
  \/ Unpublish \/ Runtime
  \/ PortHolder \/ \E c \in Components : ComponentDown(c)

Spec == Init /\ [][Next]_vars

\* Threads run, and one that waits for operationMutex gets it when others
\* keep releasing it: the commands are a person's, seconds apart.
FairSpec ==
  /\ Spec
  /\ \A t \in Threads : SF_vars(Lock(t)) /\ WF_vars(Unlock(t) \/ Disarm(t) \/ StopAll(t))
  /\ \A t \in Callers : WF_vars(Caller(t))
  /\ \A s \in Sups : WF_vars(Supervisor(s))
  /\ WF_vars(Runtime)

\* And the user answers every question and closes every message.
FairUserSpec == FairSpec /\ \A t \in Callers \cup Sups : WF_vars(User(t))
-----------------------------------------------------------------------------
(***************************************************************************)
(* Properties                                                              *)
(***************************************************************************)

Nothing == \A c \in Components : up[c] = "down"
Whole == \A c \in Components : up[c] # "down"

\* The supervisor waits, or is on its way to take the stack down; or the
\* program ends, and that takes it down.
Watched ==
  /\ armed # NoThread
  /\ \/ pc[armed] = "waiting" /\ ~cancel[armed]
     \/ pc[armed] \in {"finished", "lock", "check"} /\ current[armed]
     \/ ~published

States(t) ==
  IF t = Main THEN MainStates ELSE IF t \in Sups THEN SupStates ELSE CallerStates

\* Every variable keeps its type, and the thread that holds operationMutex is
\* the only one inside StartLocked or StopLocked.
Inside ==
  {"check", "disarm", "down", "client", "ports", "proxy", "nginx", "gate",
   "redirect", "arm", "unlock", "unlockTell", "tellLocked"}

TypeOK ==
  /\ pc \in [Threads -> CallerStates \cup SupStates \cup MainStates]
  /\ \A t \in Threads : pc[t] \in States(t)
  /\ kind \in [Callers -> KindNames \cup {"restart"}]
  /\ asked \in [Callers -> BOOLEAN]
  /\ next \in [Threads -> CallerStates]
  /\ opMx \in Threads \cup {NoThread}
  /\ published \in BOOLEAN /\ shuttingDown \in BOOLEAN /\ held \in BOOLEAN
  /\ up \in [Components -> {"down", "up", "failed"}]
  /\ armed \in Sups \cup {NoThread}
  /\ cancel \in [Sups -> BOOLEAN] /\ current \in [Sups -> BOOLEAN]
  /\ \A t \in Threads : pc[t] \in Inside <=> opMx = t

\* "Start the whole stack, or nothing at all" (services.h): whenever nobody is
\* at it, all four components have to be stopped or none has.
StackWhole == opMx = NoThread => Nothing \/ Whole

\* A report about a stack that is gone never takes down the stack that has
\* replaced it: a supervisor only tears down a stack one of whose components
\* has stopped.
NoStaleTeardown ==
  [][\A s \in Sups : pc[s] = "check" /\ pc'[s] = "disarm"
                       => \E c \in Components : up[c] = "failed"]_vars

\* Once the destructor is past the lock the stack is down for good, whatever
\* commands and reports were still queued on it.
NothingUpAfterExit ==
  pc[Main] \in {"drain", "returned"} =>
    (\A c \in Components : up[c] = "down") /\ armed = NoThread

\* From its start until its stop the stack is watched: whenever no operation
\* is under way and a component is up or has failed, its supervisor either
\* waits or is on its way to take the stack down.
StackIsWatched == opMx = NoThread /\ ~Nothing => Watched

\* A stack one of whose components has stopped does not stay half up: DNS
\* would keep pointing names at a service that is no longer there. (Without a
\* supervisor, which a failure to create its thread leaves the stack, it does.)
HalfUpIsTakenDown ==
  (armed # NoThread /\ \E c \in Components : up[c] = "failed")
    ~> (\A c \in Components : up[c] # "failed")

\* Whoever ends the program gets to the end of it.
ExitCompletes == (pc[Main] # "running") ~> (pc[Main] = "returned")

(***************************************************************************)
(* Said of the program, and refuted by what it does: README, section 6.    *)
(***************************************************************************)
\* "Prevents dialog inside operationMutex" (services.cpp, StartFailure).
NoDialogUnderLock ==
  \A t \in Callers \cup Sups : pc[t] \in {"asking", "telling", "tellLocked"} => opMx # t
-----------------------------------------------------------------------------
(***************************************************************************)
(* What the safety properties follow from                                  *)
(***************************************************************************)

\* The threads agree with the flags of the destructor.
EndingInOrder ==
  /\ published <=> pc[Main] = "running"
  /\ shuttingDown <=> pc[Main] \notin {"running", "unpublished"}

\* A thread comes back from StopLocked to something that expects the stack to
\* be down.
ComesBack ==
  \A t \in Threads :
    next[t] \in IF t \in Callers
                THEN {"unlock", "unlockTell", "tellLocked", "check", "client"}
                ELSE IF t \in Sups THEN {"unlock", "unlockTell"} ELSE {"unlock"}

\* One supervisor has the present generation: the one that is armed.
ArmedIsCurrent ==
  /\ \A s \in Sups : current[s] <=> s = armed
  /\ \A s \in Sups : cancel[s] => \E t \in Threads : pc[t] = "down"

Launching == {"nginx", "gate", "redirect", "arm"}

\* How much of the stack there is at each point of an operation. What is
\* complete stays watched, when a supervisor could be created.
Built ==
  /\ \A t \in Threads :
       /\ pc[t] \in {"client", "ports", "proxy", "tellLocked", "unlockTell"} => Nothing
       /\ pc[t] \in Launching =>
            /\ up["DnsProxy"] # "down"
            /\ (up["Nginx"] # "down") <=> pc[t] # "nginx"
            /\ (up["SniGate"] # "down") <=> pc[t] \in {"redirect", "arm"}
            /\ (up["DnsRedirection"] # "down") <=> pc[t] = "arm"
       /\ pc[t] \in {"client", "ports", "proxy"} \cup Launching => armed = NoThread
       /\ pc[t] \in {"check", "unlock"} => Nothing \/ Whole
  /\ StackWhole
  /\ Nothing => armed = NoThread
  /\ \/ Nothing \/ "thread" \in Faults \/ Watched
     \/ \E t \in Threads : pc[t] \in Launching \cup {"disarm", "down"}

\* A supervisor that has woken up for the present stack has a reason.
ReportIsTrue ==
  \A s \in Sups :
    current[s] /\ pc[s] \notin {"none", "waiting"} => \E c \in Components : up[c] = "failed"

\* Nobody builds behind the destructor's back.
StaysDown ==
  /\ pc[Main] \in {"unlock", "drain", "returned"} => Nothing
  /\ pc[Main] \in {"drain", "returned"} =>
       \A t \in Threads :
         /\ pc[t] \notin {"client", "ports", "proxy"} \cup Launching
         /\ pc[t] \in {"disarm", "down"} => next[t] # "client"

\* The operations of services.cpp build and take down the stack as a whole.
Lifecycle ==
  EndingInOrder /\ ComesBack /\ ArmedIsCurrent /\ Built /\ ReportIsTrue /\ StaysDown
=============================================================================
