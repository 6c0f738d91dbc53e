-------------------------- MODULE MCServicesProofs --------------------------
(***************************************************************************)
(* Theorems about the components that MCServices puts side by side.        *)
(*                                                                         *)
(* Those about ServiceStack, which it extends, come first: the mutex and   *)
(* the types, the invariant that says how much of the stack there is at    *)
(* each point of an operation, and what follows from it for the exit, the  *)
(* supervisor and its reports.                                             *)
(*                                                                         *)
(* What TLC finds in this small instance of Endpoints and of Updates is an *)
(* instance of the theorems about them, which hold whatever is declared    *)
(* and whoever is in the way, and whatever the files, the releases and the *)
(* number of restarts: in a behaviour of ServicesSpec the variables of a   *)
(* component follow that component, whichever is at work.                  *)
(***************************************************************************)
EXTENDS MCServices, TLAPS

-----------------------------------------------------------------------------
(***************************************************************************)
(* ServiceStack.                                                           *)
(***************************************************************************)
\* What a call leaves behind.
LEMMA ReturnsType ==
  ASSUME TypeOK, NEW t, Returns(t)
  PROVE  kind' \in [Callers -> KindNames \cup {"restart"}] /\ asked' \in [Callers -> BOOLEAN]
BY SMT DEF TypeOK, Returns, KindNames

\* Arming makes one supervisor the present one.
LEMMA OneGeneration ==
  ASSUME NEW s \in Sups, current' = [x \in Sups |-> x = s], armed' = s
  PROVE  \A r \in Sups : current'[r] <=> r = armed'
BY Zenon

\* The types need ComesBack: a thread goes where it said it would when it called
\* StopLocked.
LEMMA TypeStep == TypeOK /\ ComesBack /\ [Next]_vars => TypeOK' /\ ComesBack'
<1> SUFFICES ASSUME TypeOK, ComesBack, [Next]_vars PROVE TypeOK' /\ ComesBack'
  OBVIOUS
<1> USE ServiceStackAssumption
    DEF TypeOK, ComesBack, States, Threads, CallerStates, SupStates, MainStates,
        KindNames, Inside, Goes, callVars, stackVars
<1>1. ASSUME NEW t \in Callers, NEW k \in Kinds, Begin(t, k) PROVE TypeOK' /\ ComesBack'
  BY <1>1, SMTT(30) DEF Begin
<1>2. ASSUME NEW t \in Callers, Audit(t) PROVE TypeOK' /\ ComesBack'
  BY <1>2, SMTT(30) DEF Audit
<1>3. ASSUME NEW t \in Callers, BeginStop(t) PROVE TypeOK' /\ ComesBack'
  BY <1>3, SMTT(30) DEF BeginStop, TearDown
<1>4. ASSUME NEW t \in Callers, BeginStart(t) PROVE TypeOK' /\ ComesBack'
  BY <1>4, SMTT(30) DEF BeginStart, TearDown
<1>5. ASSUME NEW t \in Callers, CheckMachine(t) PROVE TypeOK' /\ ComesBack'
  BY <1>5, SMTT(30) DEF CheckMachine, GiveUp, Interactive
<1>6. ASSUME NEW t \in Callers, PortsFree(t) PROVE TypeOK' /\ ComesBack'
  BY <1>6, SMTT(30) DEF PortsFree
<1>7. ASSUME NEW t \in Callers, KillPortHolders(t) PROVE TypeOK' /\ ComesBack'
  <2> USE <1>7 DEF KillPortHolders, GiveUp, Interactive
  <2>1. pc' \in [Threads -> CallerStates \cup SupStates \cup MainStates]
    BY SMTT(30)
  <2>2. \A r \in Threads : pc'[r] \in States(r)
    BY SMTT(30)
  <2>3. \A r \in Threads : pc'[r] \in Inside <=> opMx' = r
    BY SMTT(30)
  <2>4. asked' \in [Callers -> BOOLEAN]
    BY Zenon
  <2>5. kind' \in [Callers -> KindNames \cup {"restart"}]
    BY SMTT(30)
  <2>6. opMx' \in Threads \cup {NoThread} /\ armed' \in Sups \cup {NoThread}
    BY SMTT(30)
  <2>7. /\ published' \in BOOLEAN /\ shuttingDown' \in BOOLEAN /\ held' \in BOOLEAN
        /\ cancel' \in [Sups -> BOOLEAN] /\ current' \in [Sups -> BOOLEAN]
    BY Zenon
  <2>8. next' = next /\ up' = up
    BY SMTT(30)
  <2>9. ComesBack'
    BY <2>8
  <2> QED
    BY <2>1, <2>2, <2>3, <2>4, <2>5, <2>6, <2>7, <2>8, <2>9, SMTT(30)
<1>8. ASSUME NEW t \in Callers, StartProxy(t) PROVE TypeOK' /\ ComesBack'
  BY <1>8, SMTT(30) DEF StartProxy, Launch, TearDown, Interactive
<1>9. ASSUME NEW t \in Callers, StartNginx(t) PROVE TypeOK' /\ ComesBack'
  BY <1>9, SMTT(30) DEF StartNginx, Launch, TearDown, Interactive
<1>10. ASSUME NEW t \in Callers, StartGate(t) PROVE TypeOK' /\ ComesBack'
  BY <1>10, SMTT(30) DEF StartGate, Launch, TearDown, Interactive
<1>11. ASSUME NEW t \in Callers, StartRedirection(t) PROVE TypeOK' /\ ComesBack'
  BY <1>11, SMTT(30) DEF StartRedirection, Launch, TearDown, Interactive
<1>12. ASSUME NEW t \in Callers, Arm(t) PROVE TypeOK' /\ ComesBack'
  <2> USE <1>12 DEF Arm
  <2>1. pc' \in [Threads -> CallerStates \cup SupStates \cup MainStates]
    BY SMTT(30)
  <2>2. \A r \in Threads : pc'[r] \in States(r)
    BY SMTT(30)
  <2>3. \A r \in Threads : pc'[r] \in Inside <=> opMx' = r
    BY SMTT(30)
  <2>4. asked' \in [Callers -> BOOLEAN]
    BY Zenon
  <2>5. kind' \in [Callers -> KindNames \cup {"restart"}]
    BY SMTT(30)
  <2>6. opMx' \in Threads \cup {NoThread} /\ armed' \in Sups \cup {NoThread}
    BY SMTT(30)
  <2>7. /\ published' \in BOOLEAN /\ shuttingDown' \in BOOLEAN /\ held' \in BOOLEAN
        /\ cancel' \in [Sups -> BOOLEAN] /\ current' \in [Sups -> BOOLEAN]
    <3>1. \A s \in Sups : [r \in Sups |-> r = s] \in [Sups -> BOOLEAN]
      BY Zenon
    <3>2. CASE current' = current
      BY <3>2, SMT
    <3>3. ASSUME NEW s \in Sups, current' = [r \in Sups |-> r = s] PROVE current' \in [Sups -> BOOLEAN]
      BY <3>1, <3>3, Zenon
    <3>4. current' = current \/ \E s \in Sups : current' = [r \in Sups |-> r = s]
      BY Zenon
    <3>5. current' \in [Sups -> BOOLEAN]
      BY <3>2, <3>3, <3>4, ZenonT(60)
    <3> QED
      BY <3>5, Zenon
  <2>8. next' = next /\ up' = up
    BY SMTT(30)
  <2>9. ComesBack'
    BY <2>8
  <2> QED
    BY <2>1, <2>2, <2>3, <2>4, <2>5, <2>6, <2>7, <2>8, <2>9, SMTT(30)
<1>13. ASSUME NEW s \in Sups, Cancelled(s) PROVE TypeOK' /\ ComesBack'
  BY <1>13, SMTT(30) DEF Cancelled
<1>14. ASSUME NEW s \in Sups, Wake(s) PROVE TypeOK' /\ ComesBack'
  BY <1>14, SMTT(30) DEF Wake
<1>15. ASSUME NEW s \in Sups, React(s) PROVE TypeOK' /\ ComesBack'
  BY <1>15, SMTT(30) DEF React
<1>16. ASSUME NEW s \in Sups, OnComponentDown(s) PROVE TypeOK' /\ ComesBack'
  BY <1>16, SMTT(30) DEF OnComponentDown, TearDown
<1>17. ASSUME NEW t \in Threads, Lock(t) PROVE TypeOK' /\ ComesBack'
  BY <1>17, SMTT(30) DEF Lock
<1>18. ASSUME NEW t \in Threads, Unlock(t) PROVE TypeOK' /\ ComesBack'
  BY <1>18, SMTT(30) DEF Unlock, Over, Returns
<1>19. ASSUME NEW t \in Threads, Disarm(t) PROVE TypeOK' /\ ComesBack'
  BY <1>19, SMTT(30) DEF Disarm
<1>20. ASSUME NEW t \in Threads, StopAll(t) PROVE TypeOK' /\ ComesBack'
  <2> USE <1>20 DEF StopAll
  <2>1. next[t] \in States(t) /\ next[t] \in Inside
    BY SMTT(30)
  <2>2. pc' \in [Threads -> CallerStates \cup SupStates \cup MainStates]
    BY <2>1, SMTT(30)
  <2>3. \A r \in Threads : pc'[r] \in States(r)
    BY <2>1, SMTT(30)
  <2>4. \A r \in Threads : pc'[r] \in Inside <=> opMx' = r
    BY <2>1, SMTT(30)
  <2>5. next' \in [Threads -> CallerStates] /\ ComesBack'
    BY SMTT(30)
  <2>6. up' \in [Components -> {"down", "up", "failed"}]
    BY SMTT(30)
  <2> QED
    BY <2>2, <2>3, <2>4, <2>5, <2>6, SMTT(30)
<1>21. ASSUME NEW t \in Callers \cup Sups, Dismiss(t) PROVE TypeOK' /\ ComesBack'
  <2> USE <1>21 DEF Dismiss, Over
  <2>1. pc' \in [Threads -> CallerStates \cup SupStates \cup MainStates]
    BY SMTT(30)
  <2>2. \A r \in Threads : pc'[r] \in States(r)
    BY SMTT(30)
  <2>3. \A r \in Threads : pc'[r] \in Inside <=> opMx' = r
    BY SMTT(30)
  <2>4. asked' \in [Callers -> BOOLEAN]
    BY ReturnsType, Zenon
  <2>5. kind' \in [Callers -> KindNames \cup {"restart"}]
    BY ReturnsType, SMTT(30)
  <2>6. opMx' \in Threads \cup {NoThread} /\ armed' \in Sups \cup {NoThread}
    BY SMTT(30)
  <2>7. /\ published' \in BOOLEAN /\ shuttingDown' \in BOOLEAN /\ held' \in BOOLEAN
        /\ cancel' \in [Sups -> BOOLEAN] /\ current' \in [Sups -> BOOLEAN]
    BY Zenon
  <2>8. next' = next /\ up' = up
    BY SMTT(30)
  <2>9. ComesBack'
    BY <2>8
  <2> QED
    BY <2>1, <2>2, <2>3, <2>4, <2>5, <2>6, <2>7, <2>8, <2>9, SMTT(30)
<1>22. ASSUME NEW t \in Callers \cup Sups, NEW yes \in BOOLEAN, Answer(t, yes) PROVE TypeOK' /\ ComesBack'
  <2> USE <1>22 DEF Answer
  <2>1. pc' \in [Threads -> CallerStates \cup SupStates \cup MainStates]
    BY SMTT(30)
  <2>2. \A r \in Threads : pc'[r] \in States(r)
    BY SMTT(30)
  <2>3. \A r \in Threads : pc'[r] \in Inside <=> opMx' = r
    BY SMTT(30)
  <2>4. asked' \in [Callers -> BOOLEAN]
    <3>1. [asked EXCEPT ![t] = TRUE] \in [Callers -> BOOLEAN]
      BY Zenon
    <3> QED
      BY <3>1, ReturnsType, Zenon
  <2>5. kind' \in [Callers -> KindNames \cup {"restart"}]
    BY ReturnsType, SMTT(30)
  <2>6. opMx' \in Threads \cup {NoThread} /\ armed' \in Sups \cup {NoThread}
    BY SMTT(30)
  <2>7. /\ published' \in BOOLEAN /\ shuttingDown' \in BOOLEAN /\ held' \in BOOLEAN
        /\ cancel' \in [Sups -> BOOLEAN] /\ current' \in [Sups -> BOOLEAN]
    BY Zenon
  <2>8. next' = next /\ up' = up
    BY SMTT(30)
  <2>9. ComesBack'
    BY <2>8
  <2> QED
    BY <2>1, <2>2, <2>3, <2>4, <2>5, <2>6, <2>7, <2>8, <2>9, SMTT(30)
<1>23. ASSUME Unpublish PROVE TypeOK' /\ ComesBack'
  <2> USE <1>23 DEF Unpublish
  <2>1. pc' \in [Threads -> CallerStates \cup SupStates \cup MainStates]
    BY SMTT(30)
  <2>2. \A r \in Threads : pc'[r] \in States(r)
    BY SMTT(30)
  <2>3. \A r \in Threads : pc'[r] \in Inside <=> opMx' = r
    BY SMTT(30)
  <2>4. asked' \in [Callers -> BOOLEAN]
    BY Zenon
  <2>5. kind' \in [Callers -> KindNames \cup {"restart"}]
    BY SMTT(30)
  <2>6. opMx' \in Threads \cup {NoThread} /\ armed' \in Sups \cup {NoThread}
    BY SMTT(30)
  <2>7. /\ published' \in BOOLEAN /\ shuttingDown' \in BOOLEAN /\ held' \in BOOLEAN
        /\ cancel' \in [Sups -> BOOLEAN] /\ current' \in [Sups -> BOOLEAN]
    BY Zenon
  <2>8. next' = next /\ up' = up
    BY SMTT(30)
  <2>9. ComesBack'
    BY <2>8
  <2> QED
    BY <2>1, <2>2, <2>3, <2>4, <2>5, <2>6, <2>7, <2>8, <2>9, SMTT(30)
<1>24. ASSUME ShutDown PROVE TypeOK' /\ ComesBack'
  BY <1>24, SMTT(30) DEF ShutDown
<1>25. ASSUME StopForGood PROVE TypeOK' /\ ComesBack'
  BY <1>25, SMTT(30) DEF StopForGood, TearDown
<1>26. ASSUME Drained PROVE TypeOK' /\ ComesBack'
  BY <1>26, SMTT(30) DEF Drained
<1>27. ASSUME PortHolder PROVE TypeOK' /\ ComesBack'
  BY <1>27, SMTT(30) DEF PortHolder
<1>28. ASSUME NEW c \in Components, ComponentDown(c) PROVE TypeOK' /\ ComesBack'
  BY <1>28, SMTT(30) DEF ComponentDown
<1>29. ASSUME UNCHANGED vars PROVE TypeOK' /\ ComesBack'
  BY <1>29, SMTT(30) DEF vars
<1> HIDE DEF TypeOK, ComesBack, States, CallerStates, SupStates, MainStates, KindNames, Inside, Goes
<1> QED
  BY <1>1, <1>2, <1>3, <1>4, <1>5, <1>6, <1>7, <1>8, <1>9, <1>10,
     <1>11, <1>12, <1>13, <1>14, <1>15, <1>16, <1>17, <1>18, <1>19, <1>20,
     <1>21, <1>22, <1>23, <1>24, <1>25, <1>26, <1>27, <1>28, <1>29,
     SMTT(30)
  DEF Next, Caller, Supervisor, Runtime, AnyThread, User

\* Each step of a command, a supervisor, the destructor and the environment.
LEMMA LifecycleStep == TypeOK /\ Lifecycle /\ [Next]_vars => Lifecycle'
<1> SUFFICES ASSUME TypeOK, Lifecycle, [Next]_vars PROVE Lifecycle'
  OBVIOUS
<1> USE ServiceStackAssumption
    DEF TypeOK, Lifecycle, EndingInOrder, ComesBack, ArmedIsCurrent, Built, ReportIsTrue,
        StaysDown, Launching, StackWhole, Nothing, Whole, Watched, AnythingRunning, AllRunning,
        States, Threads, Components, MainStates, Inside, Goes, callVars, stackVars
<1>1. ASSUME NEW t \in Callers, NEW k \in Kinds, Begin(t, k) PROVE Lifecycle'
  BY <1>1, SMTT(30) DEF Begin
<1>2. ASSUME NEW t \in Callers, Audit(t) PROVE Lifecycle'
  BY <1>2, SMTT(30) DEF Audit
<1>3. ASSUME NEW t \in Callers, BeginStop(t) PROVE Lifecycle'
  BY <1>3, SMTT(30) DEF BeginStop, TearDown
<1>4. ASSUME NEW t \in Callers, BeginStart(t) PROVE Lifecycle'
  BY <1>4, SMTT(30) DEF BeginStart, TearDown
<1>5. ASSUME NEW t \in Callers, CheckMachine(t) PROVE Lifecycle'
  BY <1>5, SMTT(30) DEF CheckMachine, GiveUp, Interactive
<1>6. ASSUME NEW t \in Callers, PortsFree(t) PROVE Lifecycle'
  BY <1>6, SMTT(30) DEF PortsFree
<1>7. ASSUME NEW t \in Callers, KillPortHolders(t) PROVE Lifecycle'
  BY <1>7, SMTT(30) DEF KillPortHolders, GiveUp, Interactive
<1>8. ASSUME NEW t \in Callers, StartProxy(t) PROVE Lifecycle'
  BY <1>8, SMTT(30) DEF StartProxy, Launch, TearDown, Interactive
<1>9. ASSUME NEW t \in Callers, StartNginx(t) PROVE Lifecycle'
  BY <1>9, SMTT(30) DEF StartNginx, Launch, TearDown, Interactive
<1>10. ASSUME NEW t \in Callers, StartGate(t) PROVE Lifecycle'
  BY <1>10, SMTT(30) DEF StartGate, Launch, TearDown, Interactive
<1>11. ASSUME NEW t \in Callers, StartRedirection(t) PROVE Lifecycle'
  BY <1>11, SMTT(30) DEF StartRedirection, Launch, TearDown, Interactive
<1>12. ASSUME NEW t \in Callers, Arm(t) PROVE Lifecycle'
  <2> USE <1>12 DEF Arm
  <2>1. EndingInOrder' /\ ComesBack'
    BY SMTT(30)
  <2>2. ArmedIsCurrent'
    <3>1. CASE "thread" \in Faults /\ current' = current /\ armed' = armed
      BY <3>1
    <3>2. ASSUME NEW s \in Sups, current' = [x \in Sups |-> x = s], armed' = s
          PROVE  \A r \in Sups : current'[r] <=> r = armed'
      BY <3>2, OneGeneration
    <3>3. \/ \E s \in Sups : current' = [x \in Sups |-> x = s] /\ armed' = s
          \/ "thread" \in Faults /\ current' = current /\ armed' = armed
      BY Zenon
    <3>4. \A r \in Sups : current'[r] <=> r = armed'
      BY <3>1, <3>2, <3>3
    <3>5. \A s \in Sups : ~cancel[s]
      BY SMTT(30)
    <3> QED
      BY <3>4, <3>5, SMTT(30)
  <2>3. StackWhole' /\ (Nothing => armed = NoThread)'
    BY SMTT(30)
  <2>4. (Nothing \/ "thread" \in Faults \/ Watched)'
    BY SMTT(30)
  <2>5. Built'
    BY <2>3, <2>4, SMTT(30)
  <2>6. ReportIsTrue'
    BY SMTT(30)
  <2>7. StaysDown'
    BY SMTT(30)
  <2> QED
    BY <2>1, <2>2, <2>5, <2>6, <2>7
<1>13. ASSUME NEW s \in Sups, Cancelled(s) PROVE Lifecycle'
  BY <1>13, SMTT(30) DEF Cancelled
<1>14. ASSUME NEW s \in Sups, Wake(s) PROVE Lifecycle'
  BY <1>14, SMTT(30) DEF Wake
<1>15. ASSUME NEW s \in Sups, React(s) PROVE Lifecycle'
  BY <1>15, SMTT(30) DEF React
<1>16. ASSUME NEW s \in Sups, OnComponentDown(s) PROVE Lifecycle'
  BY <1>16, SMTT(30) DEF OnComponentDown, TearDown
<1>17. ASSUME NEW t \in Threads, Lock(t) PROVE Lifecycle'
  BY <1>17, SMTT(30) DEF Lock
<1>18. ASSUME NEW t \in Threads, Unlock(t) PROVE Lifecycle'
  BY <1>18, SMTT(30) DEF Unlock, Over, Returns
<1>19. ASSUME NEW t \in Threads, Disarm(t) PROVE Lifecycle'
  BY <1>19, SMTT(30) DEF Disarm
<1>20. ASSUME NEW t \in Threads, StopAll(t) PROVE Lifecycle'
  BY <1>20, SMTT(30) DEF StopAll
<1>21. ASSUME NEW t \in Callers \cup Sups, Dismiss(t) PROVE Lifecycle'
  BY <1>21, SMTT(30) DEF Dismiss, Over, Returns
<1>22. ASSUME NEW t \in Callers \cup Sups, NEW yes \in BOOLEAN, Answer(t, yes) PROVE Lifecycle'
  BY <1>22, SMTT(30) DEF Answer, Returns
<1>23. ASSUME Unpublish PROVE Lifecycle'
  BY <1>23, SMTT(30) DEF Unpublish
<1>24. ASSUME ShutDown PROVE Lifecycle'
  BY <1>24, SMTT(30) DEF ShutDown
<1>25. ASSUME StopForGood PROVE Lifecycle'
  BY <1>25, SMTT(30) DEF StopForGood, TearDown
<1>26. ASSUME Drained PROVE Lifecycle'
  BY <1>26, SMTT(30) DEF Drained
<1>27. ASSUME PortHolder PROVE Lifecycle'
  BY <1>27, SMTT(30) DEF PortHolder
<1>28. ASSUME NEW c \in Components, ComponentDown(c) PROVE Lifecycle'
  BY <1>28, SMTT(30) DEF ComponentDown
<1>29. ASSUME UNCHANGED vars PROVE Lifecycle'
  BY <1>29, SMTT(30) DEF vars
<1> HIDE DEF TypeOK, Lifecycle, States, Threads, Components, Goes
<1> QED
  BY <1>1, <1>2, <1>3, <1>4, <1>5, <1>6, <1>7, <1>8, <1>9, <1>10,
     <1>11, <1>12, <1>13, <1>14, <1>15, <1>16, <1>17, <1>18, <1>19, <1>20,
     <1>21, <1>22, <1>23, <1>24, <1>25, <1>26, <1>27, <1>28, <1>29,
     SMTT(30)
  DEF Next, Caller, Supervisor, Runtime, AnyThread, User
\* Nothing has started yet.
LEMMA TypeInit == Init => TypeOK /\ ComesBack
<1> SUFFICES ASSUME Init PROVE TypeOK /\ ComesBack
  OBVIOUS
<1> USE ServiceStackAssumption DEF Init
<1>1. /\ pc \in [Threads -> CallerStates \cup SupStates \cup MainStates]
      /\ \A t \in Threads : pc[t] \in States(t)
  BY SMTT(30) DEF States, Threads, CallerStates, SupStates, MainStates
<1>2. \A t \in Threads : pc[t] \in Inside <=> opMx = t
  BY SMTT(30) DEF Threads, Inside
<1>3. /\ kind \in [Callers -> KindNames \cup {"restart"}]
      /\ next \in [Threads -> CallerStates] /\ ComesBack
      /\ up \in [Components -> {"down", "up", "failed"}]
  BY SMTT(30) DEF ComesBack, KindNames, Threads, CallerStates
<1>4. /\ asked \in [Callers -> BOOLEAN]
      /\ published \in BOOLEAN /\ shuttingDown \in BOOLEAN /\ held \in BOOLEAN
      /\ cancel \in [Sups -> BOOLEAN] /\ current \in [Sups -> BOOLEAN]
  BY Zenon
<1>5. opMx \in Threads \cup {NoThread} /\ armed \in Sups \cup {NoThread}
  BY Zenon
<1> QED
  BY <1>1, <1>2, <1>3, <1>4, <1>5 DEF TypeOK

\* The stack is down as a whole.
LEMMA LifecycleInit == Init => Lifecycle
BY TypeInit, ServiceStackAssumption, SMTT(30)
   DEF Init, TypeOK, Lifecycle, EndingInOrder, ArmedIsCurrent, Built, ReportIsTrue, StaysDown,
       StackWhole, Nothing, Launching, Threads, Components

\* Every variable keeps its type, and one thread at a time is inside an
\* operation: the one that holds operationMutex.
THEOREM TypeCorrect == Spec => []TypeOK
<1>1. Init => TypeOK /\ ComesBack
  BY TypeInit
<1>2. TypeOK /\ ComesBack /\ [Next]_vars => TypeOK' /\ ComesBack'
  BY TypeStep
<1> QED
  BY <1>1, <1>2, PTL DEF Spec

\* The invariant the theorems below come from: how much of the stack there is
\* at each point of an operation, who watches it, and how the exit stands.
THEOREM LifecycleHolds == Spec => []Lifecycle
<1>1. Init => Lifecycle
  BY LifecycleInit
<1>2. TypeOK /\ Lifecycle /\ [Next]_vars => Lifecycle'
  BY LifecycleStep
<1> QED
  BY <1>1, <1>2, TypeCorrect, PTL DEF Spec

\* "Start the whole stack, or nothing at all": however commands, failures and
\* reports come together, nobody leaves a part of a stack behind.
THEOREM WholeStackOrNothing == Spec => []StackWhole
<1>1. Lifecycle => StackWhole
  BY DEF Lifecycle, Built
<1> QED
  BY <1>1, LifecycleHolds, PTL

\* Once the destructor of Runtime is past operationMutex nothing comes up again.
THEOREM ExitIsFinal == Spec => []NothingUpAfterExit
<1>1. Lifecycle => NothingUpAfterExit
  BY DEF Lifecycle, Built, StaysDown, NothingUpAfterExit, Nothing
<1> QED
  BY <1>1, LifecycleHolds, PTL

\* As long as supervisor threads can be created, a stack that is up is watched.
THEOREM AlwaysWatched == ASSUME "thread" \notin Faults PROVE Spec => []StackIsWatched
<1>1. TypeOK /\ Lifecycle => StackIsWatched
  BY ServiceStackAssumption, SMTT(30)
     DEF TypeOK, Lifecycle, Built, StackIsWatched, Launching, Inside, Threads
<1> QED
  BY <1>1, TypeCorrect, LifecycleHolds, PTL

\* What NoStaleTeardown says of one step.
Timely ==
  \A s \in Sups :
    pc[s] = "check" /\ pc'[s] = "disarm" => \E c \in Components : up[c] = "failed"

\* Only OnComponentDown takes a supervisor into StopLocked, and it compares the
\* generation first.
LEMMA TimelyStep == TypeOK /\ Lifecycle /\ [Next]_vars => Timely
<1> SUFFICES ASSUME TypeOK, Lifecycle, [Next]_vars PROVE Timely
  OBVIOUS
<1> USE ServiceStackAssumption
    DEF TypeOK, Lifecycle, ReportIsTrue, States, Threads, Goes, Timely
<1>1. ASSUME NEW t \in Callers, NEW k \in Kinds, Begin(t, k) PROVE Timely
  BY <1>1, SMTT(30) DEF Begin
<1>2. ASSUME NEW t \in Callers, Audit(t) PROVE Timely
  BY <1>2, SMTT(30) DEF Audit
<1>3. ASSUME NEW t \in Callers, BeginStop(t) PROVE Timely
  BY <1>3, SMTT(30) DEF BeginStop, TearDown
<1>4. ASSUME NEW t \in Callers, BeginStart(t) PROVE Timely
  BY <1>4, SMTT(30) DEF BeginStart, TearDown
<1>5. ASSUME NEW t \in Callers, CheckMachine(t) PROVE Timely
  BY <1>5, SMTT(30) DEF CheckMachine, GiveUp, Interactive
<1>6. ASSUME NEW t \in Callers, PortsFree(t) PROVE Timely
  BY <1>6, SMTT(30) DEF PortsFree
<1>7. ASSUME NEW t \in Callers, KillPortHolders(t) PROVE Timely
  BY <1>7, SMTT(30) DEF KillPortHolders, GiveUp, Interactive
<1>8. ASSUME NEW t \in Callers, StartProxy(t) PROVE Timely
  BY <1>8, SMTT(30) DEF StartProxy, Launch, TearDown, Interactive
<1>9. ASSUME NEW t \in Callers, StartNginx(t) PROVE Timely
  BY <1>9, SMTT(30) DEF StartNginx, Launch, TearDown, Interactive
<1>10. ASSUME NEW t \in Callers, StartGate(t) PROVE Timely
  BY <1>10, SMTT(30) DEF StartGate, Launch, TearDown, Interactive
<1>11. ASSUME NEW t \in Callers, StartRedirection(t) PROVE Timely
  BY <1>11, SMTT(30) DEF StartRedirection, Launch, TearDown, Interactive
<1>12. ASSUME NEW t \in Callers, Arm(t) PROVE Timely
  BY <1>12, SMTT(30) DEF Arm
<1>13. ASSUME NEW s \in Sups, Cancelled(s) PROVE Timely
  BY <1>13, SMTT(30) DEF Cancelled
<1>14. ASSUME NEW s \in Sups, Wake(s) PROVE Timely
  BY <1>14, SMTT(30) DEF Wake
<1>15. ASSUME NEW s \in Sups, React(s) PROVE Timely
  BY <1>15, SMTT(30) DEF React
<1>16. ASSUME NEW s \in Sups, OnComponentDown(s) PROVE Timely
  BY <1>16, SMTT(30) DEF OnComponentDown, TearDown
<1>17. ASSUME NEW t \in Threads, Lock(t) PROVE Timely
  BY <1>17, SMTT(30) DEF Lock
<1>18. ASSUME NEW t \in Threads, Unlock(t) PROVE Timely
  BY <1>18, SMTT(30) DEF Unlock, Over, Returns
<1>19. ASSUME NEW t \in Threads, Disarm(t) PROVE Timely
  BY <1>19, SMTT(30) DEF Disarm
<1>20. ASSUME NEW t \in Threads, StopAll(t) PROVE Timely
  BY <1>20, SMTT(30) DEF StopAll
<1>21. ASSUME NEW t \in Callers \cup Sups, Dismiss(t) PROVE Timely
  BY <1>21, SMTT(30) DEF Dismiss, Over, Returns
<1>22. ASSUME NEW t \in Callers \cup Sups, NEW yes \in BOOLEAN, Answer(t, yes) PROVE Timely
  BY <1>22, SMTT(30) DEF Answer, Returns
<1>23. ASSUME Unpublish PROVE Timely
  BY <1>23, SMTT(30) DEF Unpublish
<1>24. ASSUME ShutDown PROVE Timely
  BY <1>24, SMTT(30) DEF ShutDown
<1>25. ASSUME StopForGood PROVE Timely
  BY <1>25, SMTT(30) DEF StopForGood, TearDown
<1>26. ASSUME Drained PROVE Timely
  BY <1>26, SMTT(30) DEF Drained
<1>27. ASSUME PortHolder PROVE Timely
  BY <1>27, SMTT(30) DEF PortHolder
<1>28. ASSUME NEW c \in Components, ComponentDown(c) PROVE Timely
  BY <1>28, SMTT(30) DEF ComponentDown
<1>29. ASSUME UNCHANGED vars PROVE Timely
  BY <1>29, SMTT(30) DEF vars
<1> HIDE DEF TypeOK, Lifecycle, States, Threads, Goes, Timely
<1> QED
  BY <1>1, <1>2, <1>3, <1>4, <1>5, <1>6, <1>7, <1>8, <1>9, <1>10,
     <1>11, <1>12, <1>13, <1>14, <1>15, <1>16, <1>17, <1>18, <1>19, <1>20,
     <1>21, <1>22, <1>23, <1>24, <1>25, <1>26, <1>27, <1>28, <1>29,
     SMTT(30)
  DEF Next, Caller, Supervisor, Runtime, AnyThread, User

\* A report about a stack that is gone never takes down its successor.
THEOREM ReportsAreTimely == Spec => NoStaleTeardown
<1>1. TypeOK /\ Lifecycle /\ [Next]_vars => Timely
  BY TimelyStep
<1>2. Timely => [Timely]_vars
  OBVIOUS
<1>3. TypeOK /\ Lifecycle /\ [Next]_vars => [Timely]_vars
  BY <1>1, <1>2
<1> QED
  BY <1>3, TypeCorrect, LifecycleHolds, PTL DEF Spec, NoStaleTeardown, Timely

-----------------------------------------------------------------------------
(***************************************************************************)
(* Endpoints.                                                              *)
(***************************************************************************)
\* Whichever component takes a step, the endpoints take one of their own or none.
LEMMA StepsAreEndpoints == [ServicesNext]_servicesVars => [E!Next]_(E!vars)
BY DEF ServicesNext, Of, servicesVars, updatesVars, stackPart, endpointsVars, E!vars

\* The endpoints' part of a behaviour is one of Endpoints.
LEMMA BehavesAsEndpoints == ServicesSpec => E!Spec
<1>1. ServicesInit => E!Init
  BY DEF ServicesInit
<1>2. QED
  BY <1>1, StepsAreEndpoints, PTL DEF ServicesSpec, E!Spec

\* Nobody is terminated who was not in the way (services.cpp:1031-1095, ports.cpp).
THEOREM ServicesTerminateHolders == ServicesSpec => []OnlyThoseInTheWay
<1>1. E!Spec => []E!TypeOK
  BY EndpointsInstance, E!TypeCorrect
<1>2. E!Spec => []E!OnlyThoseInTheWay
  BY EndpointsInstance, E!OnlyHoldersAreTerminated
<1>3. E!TypeOK /\ E!OnlyThoseInTheWay => OnlyThoseInTheWay
  BY DEF OnlyThoseInTheWay
<1>4. QED
  BY BehavesAsEndpoints, <1>1, <1>2, <1>3, PTL

\* An undisturbed audit says what is so (ports.cpp, AuditClaims).
THEOREM ServicesAuditRightly == ServicesSpec => []AuditsAreRight
<1>1. E!Spec => []E!AuditsAreRight
  BY EndpointsInstance, E!AuditsSayWhatIsSo
<1>2. E!AuditsAreRight => AuditsAreRight
  BY DEF AuditsAreRight
<1>3. QED
  BY BehavesAsEndpoints, <1>1, <1>2, PTL

-----------------------------------------------------------------------------
(***************************************************************************)
(* Updates.                                                                *)
(***************************************************************************)
\* Whichever component takes a step, the update takes one of its own or none.
LEMMA StepsAreUpdates == [ServicesNext]_servicesVars => [U!Next]_(U!vars)
BY DEF ServicesNext, Of, servicesVars, updatesVars, stackPart, endpointsVars,
       U!vars, U!progress, U!client, U!updater

\* The update's part of a behaviour is one of Updates.
LEMMA BehavesAsUpdates == ServicesSpec => U!Spec
<1>1. ServicesInit => U!Init
  BY DEF ServicesInit
<1>2. QED
  BY <1>1, StepsAreUpdates, PTL DEF ServicesSpec, U!Spec

\* What an update reports as applied is one release
\* (client.cpp:195-255, 637-794).
THEOREM ServicesApplyOneRelease == ServicesSpec => []AppliedIsOneRelease
<1>1. U!Spec => []U!AppliedIsOneRelease
  BY UpdatesInstance, U!AppliedIsWhole
<1>2. U!AppliedIsOneRelease => AppliedIsOneRelease
  BY DEF AppliedIsOneRelease
<1>3. QED
  BY BehavesAsUpdates, <1>1, <1>2, PTL

\* One that fails or is cancelled leaves what it found
\* (client.cpp:687-697, 750-767).
THEOREM ServicesLeaveWhatTheyFound == ServicesSpec => []NotAppliedUntouched
<1>1. U!Spec => []U!NotAppliedUntouched
  BY UpdatesInstance, U!FailureLeavesNoTrace
<1>2. U!NotAppliedUntouched => NotAppliedUntouched
  BY DEF NotAppliedUntouched
<1>3. QED
  BY BehavesAsUpdates, <1>1, <1>2, PTL

\* No crash or restart leaves the install unusable
\* (client.cpp:134-172, updater.cpp:119-158).
THEOREM ServicesKeepTheInstall == ServicesSpec => []InstallUsable
<1>1. U!Spec => []U!TypeOK
  BY UpdatesInstance, U!TypeCorrect
<1>2. U!Spec => []U!NothingPartialInPlace
  BY UpdatesInstance, U!NothingUnverified
<1>3. U!Spec => []U!ExecutableSomewhere
  BY UpdatesInstance, U!AlwaysAnExecutable
<1>4. U!TypeOK /\ U!NothingPartialInPlace /\ U!ExecutableSomewhere => InstallUsable
  BY DEF InstallUsable
<1>5. QED
  BY BehavesAsUpdates, <1>1, <1>2, <1>3, <1>4, PTL
=============================================================================
