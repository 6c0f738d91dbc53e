--------------------------- MODULE UpstreamProofs ---------------------------
(***************************************************************************)
(* Upstream, for any tasks, queries, sockets and rounds: every socket has  *)
(* one closer, the token of its query or a handle on its task's stack, and *)
(* every round waited for has the one fetch that will settle it.           *)
(*                                                                         *)
(* The invariant has four parts. StacksInOrder says how many sockets a     *)
(* task holds at each place; OneCloser who closes them; RoundsInOrder      *)
(* which fetch is behind the provider's slot. What a push, a pop and a     *)
(* registration do to a stack is said once, in lemmas on the sets Own and  *)
(* Left, and each step of OneCloser follows from those.                    *)
(***************************************************************************)
EXTENDS Upstream, TLAPS

\* A socket and whether it is registered with the token.
Handle == [h : Handles, reg : BOOLEAN]

\* A short sequence of handles is a stack.
LEMMA StackMade ==
  ASSUME NEW s \in Seq(Handle), Len(s) <= 2
  PROVE  s \in Stacks
BY DEF Stacks, Handle

\* A stack is a sequence of at most two handles.
LEMMA StackType ==
  ASSUME NEW s \in Stacks
  PROVE  s \in Seq(Handle) /\ Len(s) \in {0, 1, 2} /\ (s = <<>> <=> Len(s) = 0)
<1>1. s \in Seq(Handle) /\ Len(s) <= 2
  BY DEF Stacks, Handle
<1>2. Len(s) \in Nat /\ (s = <<>> <=> Len(s) = 0)
  BY <1>1
<1>3. ASSUME NEW n \in Nat, n <= 2 PROVE n \in {0, 1, 2}
  BY <1>3
<1>4. QED
  BY <1>1, <1>2, <1>3

\* The same of the empty stack and of every stack.
LEMMA StackFacts ==
  /\ <<>> \in Stacks /\ Len(<<>>) = 0
  /\ \A s \in Stacks : /\ Len(s) \in {0, 1, 2} /\ (s = <<>> <=> Len(s) = 0)
                       /\ \A i \in 1..Len(s) : s[i] \in Handle
<1>1. <<>> \in Seq(Handle) /\ Len(<<>>) = 0
  OBVIOUS
<1>2. <<>> \in Stacks
  <2>1. Len(<<>>) <= 2
    BY <1>1
  <2>2. QED
    BY <1>1, <2>1, StackMade, Zenon
<1>3. ASSUME NEW s \in Stacks
      PROVE  /\ Len(s) \in {0, 1, 2} /\ (s = <<>> <=> Len(s) = 0)
             /\ \A i \in 1..Len(s) : s[i] \in Handle
  <2>1. s \in Seq(Handle)
    BY StackType
  <2>2. \A i \in 1..Len(s) : s[i] \in Handle
    BY <2>1
  <2>3. QED
    BY <2>2, StackType
<1>4. QED
  BY <1>1, <1>2, <1>3

\* What a task's new socket does to its stack (Open).
LEMMA Pushed ==
  ASSUME NEW s \in Stacks, Len(s) <= 1, NEW e \in Handle
  PROVE  /\ Append(s, e) \in Stacks /\ Len(Append(s, e)) = Len(s) + 1
         /\ Append(s, e) # <<>> /\ Last(Append(s, e)) = e
         /\ \A i \in 1..Len(s) : Append(s, e)[i] = s[i]
         /\ Append(s, e)[Len(s) + 1] = e
<1>1. s \in Seq(Handle) /\ Len(s) \in Nat
  BY StackType
<1>2. /\ Append(s, e) \in Seq(Handle) /\ Len(Append(s, e)) = Len(s) + 1
      /\ \A i \in 1..Len(s) : Append(s, e)[i] = s[i]
      /\ Append(s, e)[Len(s) + 1] = e
  BY <1>1
<1>3. Append(s, e) \in Stacks /\ Append(s, e) # <<>>
  <2>1. Len(Append(s, e)) <= 2
    BY <1>1, <1>2
  <2>2. Append(s, e) \in Stacks
    BY <1>2, <2>1, StackMade, Zenon
  <2>3. Append(s, e) # <<>>
    BY <1>1
  <2>4. QED
    BY <2>2, <2>3
<1>4. Last(Append(s, e)) = e
  BY <1>2 DEF Last
<1>5. QED
  BY <1>2, <1>3, <1>4

\* What the stack loses when its newest handle goes (Unwind, a refusal).
LEMMA Popped ==
  ASSUME NEW s \in Stacks, s # <<>>
  PROVE  /\ Front(s) \in Stacks /\ Len(Front(s)) = Len(s) - 1 /\ Len(s) \in {1, 2}
         /\ Last(s) = s[Len(s)] /\ Last(s) \in Handle
         /\ \A i \in 1..(Len(s) - 1) : Front(s)[i] = s[i]
<1>1. s \in Seq(Handle) /\ Len(s) \in {1, 2}
  BY StackType
<1>2. Front(s) = [i \in 1..(Len(s) - 1) |-> s[i]]
  BY <1>1 DEF Front
<1>3. /\ Front(s) \in Seq(Handle) /\ Len(Front(s)) = Len(s) - 1
      /\ \A i \in 1..(Len(s) - 1) : Front(s)[i] = s[i]
  BY <1>1, <1>2
<1>4. Last(s) = s[Len(s)] /\ Last(s) \in Handle
  BY <1>1 DEF Last
<1>5. Front(s) \in Stacks
  BY <1>1, <1>3, StackMade
<1>6. QED
  BY <1>1, <1>3, <1>4, <1>5

\* What marking the newest handle as registered does (Register).
LEMMA Topped ==
  ASSUME NEW s \in Stacks, s # <<>>, NEW e \in Handle, NEW r, r = Front(s) \o <<e>>
  PROVE  /\ r \in Stacks /\ Len(r) = Len(s) /\ r[Len(s)] = e
         /\ r # <<>> /\ Last(r) = e
         /\ \A i \in 1..(Len(s) - 1) : r[i] = s[i]
<1> DEFINE f == Front(s)
<1>1. /\ f \in Stacks /\ Len(f) = Len(s) - 1 /\ Len(s) \in {1, 2}
      /\ \A i \in 1..(Len(s) - 1) : f[i] = s[i]
  BY Popped
<1>2. f \in Seq(Handle) /\ r = f \o <<e>>
  BY <1>1, StackType
<1> HIDE DEF f
<1>3. r = Append(f, e)
  BY <1>2
<1>4. /\ Append(f, e) \in Stacks /\ Len(Append(f, e)) = Len(f) + 1
      /\ Append(f, e) # <<>> /\ Last(Append(f, e)) = e
      /\ \A i \in 1..Len(f) : Append(f, e)[i] = f[i]
      /\ Append(f, e)[Len(f) + 1] = e
  <2>1. f \in Stacks /\ Len(f) <= 1
    BY <1>1
  <2>2. QED
    BY <2>1, Pushed
<1>5. /\ Append(f, e)[Len(s)] = e /\ Len(Append(f, e)) = Len(s)
      /\ \A i \in 1..(Len(s) - 1) : Append(f, e)[i] = s[i]
  <2>1. Len(f) + 1 = Len(s) /\ 1..Len(f) = 1..(Len(s) - 1)
    BY <1>1
  <2>2. QED
    BY <1>1, <1>4, <2>1
<1>6. QED
  BY <1>3, <1>4, <1>5

\* At the start no stack holds anything.
LEMMA TypeInit == ASSUME UpstreamAssumption PROVE Init => TypeOK /\ StacksInOrder
<1> SUFFICES ASSUME Init PROVE TypeOK /\ StacksInOrder
  OBVIOUS
<1>1. TypeOK
  BY StackFacts DEF Init, TypeOK
<1>2. StacksInOrder
  BY StackFacts DEF Init, StacksInOrder, StackInOrder
<1>3. QED
  BY <1>1, <1>2

\* Every step keeps the types.
LEMMA TypeStep ==
  ASSUME UpstreamAssumption, TypeOK, StacksInOrder, [Next]_vars
  PROVE  TypeOK'
<1> USE DEF UpstreamAssumption, TypeOK, task, token, cache, vars, At, Goto, StartExchange,
            FirstPhase, Failed
<1>1. CASE UNCHANGED vars
  BY <1>1
<1>2. CASE Lapse
  BY <1>2 DEF Lapse
<1>3. ASSUME NEW q \in Queries, Cancel(q) \/ TakeSockets(q) \/ CloseDoomed(q)
      PROVE  TypeOK'
  BY <1>3 DEF Cancel, TakeSockets, CloseDoomed
<1>4. ASSUME NEW q \in Queries, NextQuery(q)
      PROVE  TypeOK'
  BY <1>4 DEF NextQuery, TasksOf
<1>5. ASSUME NEW t \in Tasks, Begin(t)
      PROVE  TypeOK'
  BY <1>5 DEF Begin
<1>6. ASSUME NEW t \in Tasks, WaitForRound(t)
      PROVE  TypeOK'
  BY <1>6 DEF WaitForRound
<1>7. ASSUME NEW t \in Tasks, Settle(t)
      PROVE  TypeOK'
  BY <1>7 DEF Settle, Retire
<1>8. ASSUME NEW t \in Tasks, Throw(t)
      PROVE  TypeOK'
  BY <1>8 DEF Throw
<1>9. ASSUME NEW t \in Tasks, GiveUpWaiting(t)
      PROVE  TypeOK'
  BY <1>9 DEF GiveUpWaiting
<1>10. ASSUME NEW t \in Tasks, Expire(t)
      PROVE  TypeOK'
  BY <1>10 DEF Expire
<1>11. ASSUME NEW t \in Tasks, Ready(t)
      PROVE  TypeOK'
  BY <1>11 DEF Ready
<1>12. ASSUME NEW t \in Tasks, Use(t)
      PROVE  TypeOK'
  BY <1>12 DEF Use
<1>13. ASSUME NEW t \in Tasks, Unwound(t)
      PROVE  TypeOK'
  BY <1>13 DEF Unwound
<1>14. ASSUME NEW t \in Tasks, Get(t)
      PROVE  TypeOK'
  <2>1. CASE UseCached(t)
    BY <1>14, <2>1 DEF Get, UseCached
  <2>2. CASE HeedFailure(t)
    BY <1>14, <2>2 DEF Get, HeedFailure
  <2>3. CASE JoinRound(t)
    BY <1>14, <2>3 DEF Get, JoinRound
  <2>4. CASE StartRound(t)
    <3>1. PICK s \in Slots : /\ pending' = s /\ slot' = [slot EXCEPT ![t] = s]
                             /\ published' = [published EXCEPT ![s] = "running"]
      BY <2>4 DEF StartRound
    <3>2. QED
      BY <1>14, <2>4, <3>1 DEF Get, StartRound
  <2>5. QED
    BY <1>14, <2>1, <2>2, <2>3, <2>4 DEF Get
<1>15. ASSUME NEW t \in Tasks, Publish(t)
      PROVE  TypeOK'
  <2>1. published' \in [Slots -> {"running", "valid", "invalid"}]
    BY <1>15 DEF Publish
  <2>2. slot' \in [Tasks -> Slots \cup {Nobody}] /\ fetching' \in [Tasks -> BOOLEAN]
    BY <1>15 DEF Publish
  <2>3. /\ pc' \in [Tasks -> {"idle", "get", "wait", "settle", "publish", "open", "register",
                             "check", "use", "unwind", "done"}]
        /\ phase' \in [Tasks -> {"udp", "tcp", "dial", "tls"}]
        /\ outcome' \in [Tasks -> {"none", "answer", "truncated"}]
    BY <1>15 DEF Publish
  <2>4. QED
    BY <1>15, <2>1, <2>2, <2>3 DEF Publish
<1>16. ASSUME NEW t \in Tasks, Open(t)
      PROVE  TypeOK'
  <2>1. CASE Failed(t) /\ UNCHANGED <<os, held>>
    BY <1>16, <2>1 DEF Open
  <2>2. ASSUME NEW h \in Handles, GivenSocket(t, h)
        PROVE  TypeOK'
    <3>0. Len(held[t]) <= 1
      <4>1. StackInOrder(t) /\ pc[t] = "open"
        BY <1>16 DEF Open, StacksInOrder
      <4>2. held[t] \in Stacks
        OBVIOUS
      <4>3. Len(held[t]) \in Nat
        BY <4>2, StackType
      <4> QED
        BY <4>1, <4>3 DEF StackInOrder
    <3>1. held[t] \in Stacks /\ Len(held[t]) <= 1 /\ [h |-> h, reg |-> FALSE] \in Handle
      BY <3>0 DEF Handle
    <3>2. Append(held[t], [h |-> h, reg |-> FALSE]) \in Stacks
      BY <3>1, Pushed
    <3>3. QED
      BY <1>16, <2>2, <3>2 DEF Open, GivenSocket
  <2>3. QED
    BY <1>16, <2>1, <2>2 DEF Open
<1>17. ASSUME NEW t \in Tasks, Register(t)
      PROVE  TypeOK'
  <2>0. held[t] \in Stacks /\ held[t] # <<>>
    <3>1. StackInOrder(t) /\ pc[t] = "register"
      BY <1>17 DEF Register, StacksInOrder
    <3> QED
      BY <3>1 DEF StackInOrder
  <2>1. /\ held[t] \in Stacks /\ held[t] # <<>> /\ Last(held[t]) \in Handle
        /\ Front(held[t]) \in Stacks /\ Socket(t) \in Handles
    BY <2>0, Popped DEF Socket, Handle
  <2>2. Front(held[t]) \o <<[h |-> Socket(t), reg |-> TRUE]>> \in Stacks
    <3> DEFINE e == [h |-> Socket(t), reg |-> TRUE]
    <3>1. e \in Handle
      BY <2>1 DEF Handle
    <3> HIDE DEF e
    <3>2. Front(held[t]) \o <<e>> \in Stacks
      BY <2>1, <3>1, Topped, Zenon
    <3>3. QED
      BY <3>2 DEF e
  <2>3. CASE Unlisted(t)
    BY <1>17, <2>3 DEF Register, Unlisted
  <2>4. CASE Refused(t)
    BY <1>17, <2>1, <2>4 DEF Register, Refused, ForgottenHandle, Pop
  <2>5. CASE Listed(t)
    BY <1>17, <2>1, <2>2, <2>5 DEF Register, Listed, Top
  <2>6. QED
    BY <1>17, <2>3, <2>4, <2>5 DEF Register
<1>18. ASSUME NEW t \in Tasks, Unwind(t)
      PROVE  TypeOK'
  <2>1. held[t] \in Stacks /\ Front(held[t]) \in Stacks
    BY <1>18, Popped DEF Unwind
  <2>2. QED
    BY <1>18, <2>1 DEF Unwind, Pop
<1>19. QED
  BY <1>1, <1>2, <1>3, <1>4, <1>5, <1>6, <1>7, <1>8, <1>9, <1>10, <1>11, <1>12, <1>13, <1>14,
     <1>15, <1>16, <1>17, <1>18
  DEF Next, CancelStep, Step

\* Every step keeps the stacks in order.
LEMMA StackStep ==
  ASSUME UpstreamAssumption, TypeOK, StacksInOrder, [Next]_vars
  PROVE  StacksInOrder'
<1> USE DEF UpstreamAssumption, TypeOK, StackInOrder, task, token, cache, vars, At, Goto,
            StartExchange, FirstPhase, Failed
<1> SUFFICES ASSUME NEW u \in Tasks PROVE StackInOrder(u)'
  BY DEF StacksInOrder
<1>0. StackInOrder(u)
  BY DEF StacksInOrder
<1>1. CASE UNCHANGED vars
  BY <1>0, <1>1
<1>2. CASE Lapse
  BY <1>0, <1>2 DEF Lapse
<1>3. ASSUME NEW q \in Queries, Cancel(q) \/ TakeSockets(q) \/ CloseDoomed(q)
      PROVE  StackInOrder(u)'
  BY <1>0, <1>3 DEF Cancel, TakeSockets, CloseDoomed
<1>4. ASSUME NEW q \in Queries, NextQuery(q)
      PROVE  StackInOrder(u)'
  BY <1>0, <1>4 DEF NextQuery, TasksOf
<1>5. ASSUME NEW t \in Tasks, Begin(t)
      PROVE  StackInOrder(u)'
  BY <1>0, <1>5, StackFacts DEF Begin
<1>6. ASSUME NEW t \in Tasks, WaitForRound(t)
      PROVE  StackInOrder(u)'
  BY <1>0, <1>6, StackFacts DEF WaitForRound
<1>7. ASSUME NEW t \in Tasks, Settle(t)
      PROVE  StackInOrder(u)'
  BY <1>0, <1>7, StackFacts DEF Settle, Retire
<1>8. ASSUME NEW t \in Tasks, Throw(t)
      PROVE  StackInOrder(u)'
  BY <1>0, <1>8, StackFacts DEF Throw
<1>9. ASSUME NEW t \in Tasks, GiveUpWaiting(t)
      PROVE  StackInOrder(u)'
  BY <1>0, <1>9, StackFacts DEF GiveUpWaiting
<1>10. ASSUME NEW t \in Tasks, Expire(t)
      PROVE  StackInOrder(u)'
  BY <1>0, <1>10, StackFacts DEF Expire
<1>11. ASSUME NEW t \in Tasks, Ready(t)
      PROVE  StackInOrder(u)'
  BY <1>0, <1>11, StackFacts DEF Ready
<1>12. ASSUME NEW t \in Tasks, Use(t)
      PROVE  StackInOrder(u)'
  BY <1>0, <1>12, StackFacts DEF Use
<1>13. ASSUME NEW t \in Tasks, Unwound(t)
      PROVE  StackInOrder(u)'
  BY <1>0, <1>13, StackFacts DEF Unwound
<1>14. ASSUME NEW t \in Tasks, Get(t)
      PROVE  StackInOrder(u)'
  BY <1>0, <1>14, StackFacts DEF Get, UseCached, HeedFailure, JoinRound, StartRound
<1>15. ASSUME NEW t \in Tasks, Publish(t)
      PROVE  StackInOrder(u)'
  BY <1>0, <1>15, StackFacts DEF Publish
<1>16. ASSUME NEW t \in Tasks, Open(t)
      PROVE  StackInOrder(u)'
  <2>1. CASE Failed(t) /\ UNCHANGED <<os, held>>
    BY <1>0, <1>16, <2>1 DEF Open
  <2>2. ASSUME NEW h \in Handles, GivenSocket(t, h)
        PROVE  StackInOrder(u)'
    <3> DEFINE e == [h |-> h, reg |-> FALSE]
    <3>1. CASE u = t
      <4>1. /\ Append(held[u], e) # <<>> /\ Last(Append(held[u], e)) = e
            /\ Len(Append(held[u], e)) = Len(held[u]) + 1 /\ ~e.reg /\ Len(held[u]) \in Nat
        <5>1. held[u] \in Stacks /\ Len(held[u]) <= 1 /\ Len(held[u]) \in Nat /\ e \in Handle
          BY <1>0, <1>16, <3>1, StackFacts DEF Open, Handle
        <5>2. ~e.reg
          OBVIOUS
        <5> HIDE DEF e
        <5>3. QED
          BY ONLY <5>1, <5>2, Pushed
      <4>2. held'[u] = Append(held[u], e)
        BY <2>2, <3>1 DEF GivenSocket
      <4> HIDE DEF e
      <4>3. QED
        <5>1. /\ pc[u] = "open" /\ pc'[u] = (IF phase[u] = "dial" THEN "check" ELSE "register")
              /\ UNCHANGED <<phase, fetching, events>>
          BY <1>16, <2>2, <3>1 DEF Open, GivenSocket
        <5>2. held'[u] # <<>> /\ ~Last(held'[u]).reg /\ Len(held'[u]) = Len(held[u]) + 1
          BY <4>1, <4>2
        <5>3. QED
          BY <1>0, <4>1, <5>1, <5>2
    <3>2. CASE u # t
      BY <1>0, <1>16, <2>2, <3>2 DEF Open, GivenSocket
    <3>3. QED
      BY <3>1, <3>2
  <2>3. QED
    BY <1>16, <2>1, <2>2 DEF Open
<1>17. ASSUME NEW t \in Tasks, Register(t)
      PROVE  StackInOrder(u)'
  <2> DEFINE e == [h |-> Socket(t), reg |-> TRUE]
             r == Front(held[t]) \o <<e>>
  <2>1. StackInOrder(t) /\ held[t] \in Stacks /\ held[t] # <<>> /\ e \in Handle
    BY <1>17, Popped DEF Register, Socket, Handle, StacksInOrder
  <2>2. r # <<>> /\ Len(r) = Len(held[t])
    <3>1. r = Front(held[t]) \o <<e>>
      OBVIOUS
    <3> HIDE DEF e, r
    <3>2. QED
      BY ONLY <2>1, <3>1, Topped
  <2>3. CASE Unlisted(t)
    BY <1>0, <1>17, <2>3 DEF Register, Unlisted
  <2>4. CASE Refused(t)
    BY <1>0, <1>17, <2>4 DEF Register, Refused, ForgottenHandle, Pop
  <2>5. CASE Listed(t)
    <3>1. held' = [held EXCEPT ![t] = r]
      BY <2>5 DEF Listed, Top
    <3> HIDE DEF r, e
    <3>2. /\ pc' = [pc EXCEPT ![t] = "check"] /\ pc[t] = "register" /\ phase[t] # "dial"
          /\ UNCHANGED <<phase, fetching, events>>
      BY <1>17, <2>1, <2>5 DEF Register, Listed
    <3>3. QED
      BY <1>0, <2>1, <2>2, <3>1, <3>2
  <2>6. QED
    BY <1>17, <2>3, <2>4, <2>5 DEF Register
<1>18. ASSUME NEW t \in Tasks, Unwind(t)
      PROVE  StackInOrder(u)'
  BY <1>0, <1>18 DEF Unwind, Pop
<1>19. QED
  BY <1>1, <1>2, <1>3, <1>4, <1>5, <1>6, <1>7, <1>8, <1>9, <1>10, <1>11, <1>12, <1>13, <1>14,
     <1>15, <1>16, <1>17, <1>18
  DEF Next, CancelStep, Step

\* At the start nothing is fetched and the provider's slot is empty.
LEMMA RoundInit == ASSUME UpstreamAssumption PROVE Init => RoundsInOrder
BY DEF Init, RoundsInOrder, RoundInOrder

\* Every step keeps the rounds in order: StartRound takes a slot nobody
\* refers to, Settle retires it before Publish lets its waiters go, and an
\* exception leaves it behind.
LEMMA RoundStep ==
  ASSUME UpstreamAssumption, TypeOK, StacksInOrder, RoundsInOrder, [Next]_vars
  PROVE  RoundsInOrder'
<1> USE DEF UpstreamAssumption, RoundInOrder, task, token, cache, vars, At, Goto
<1>0. /\ fetching \in [Tasks -> BOOLEAN] /\ slot \in [Tasks -> Slots \cup {Nobody}]
      /\ pending \in Slots \cup {Nobody} /\ published \in [Slots -> {"running", "valid", "invalid"}]
      /\ DOMAIN pc = Tasks
      /\ \A t \in Tasks : /\ pc[t] \in {"idle", "get", "wait", "done"} => ~fetching[t]
                          /\ pc[t] \in {"settle", "publish"} => fetching[t]
                          /\ t \notin events => pc[t] = "idle"
  BY DEF TypeOK, StacksInOrder, StackInOrder
<1>q. ASSUME UNCHANGED <<fetching, slot, pending, published, events>>,
             \A t \in Tasks : fetching[t] => (pc'[t] = "publish" <=> pc[t] = "publish")
      PROVE  RoundsInOrder'
  BY <1>0, <1>q DEF RoundsInOrder
<1>1. CASE UNCHANGED vars
  BY <1>1, <1>q
<1>2. CASE Lapse
  BY <1>2, <1>q DEF Lapse
<1>3. ASSUME NEW q \in Queries, Cancel(q) \/ TakeSockets(q) \/ CloseDoomed(q)
      PROVE  RoundsInOrder'
  BY <1>3, <1>q DEF Cancel, TakeSockets, CloseDoomed
<1>4. ASSUME NEW q \in Queries, NextQuery(q)
      PROVE  RoundsInOrder'
  <2>1. \A t \in Tasks : QueryOf[t] = q => ~fetching[t]
    BY <1>0, <1>4 DEF NextQuery, TasksOf
  <2>2. QED
    BY <1>4, <1>q, <2>1 DEF NextQuery
<1>5. ASSUME NEW t \in Tasks, Begin(t)
      PROVE  RoundsInOrder'
  BY <1>0, <1>5, <1>q DEF Begin, StartExchange
<1>6. ASSUME NEW t \in Tasks, GiveUpWaiting(t)
      PROVE  RoundsInOrder'
  BY <1>0, <1>6, <1>q DEF GiveUpWaiting, Failed
<1>7. ASSUME NEW t \in Tasks, Expire(t)
      PROVE  RoundsInOrder'
  BY <1>0, <1>7, <1>q DEF Expire, Failed
<1>8. ASSUME NEW t \in Tasks, Ready(t)
      PROVE  RoundsInOrder'
  BY <1>0, <1>8, <1>q DEF Ready
<1>9. ASSUME NEW t \in Tasks, Use(t)
      PROVE  RoundsInOrder'
  BY <1>0, <1>9, <1>q DEF Use, Failed
<1>10. ASSUME NEW t \in Tasks, Unwound(t)
      PROVE  RoundsInOrder'
  BY <1>0, <1>10, <1>q DEF Unwound
<1>11. ASSUME NEW t \in Tasks, Unwind(t)
      PROVE  RoundsInOrder'
  BY <1>0, <1>11, <1>q DEF Unwind
<1>12. ASSUME NEW t \in Tasks, Open(t)
      PROVE  RoundsInOrder'
  BY <1>0, <1>12, <1>q DEF Open, GivenSocket, Failed
<1>13. ASSUME NEW t \in Tasks, Register(t)
      PROVE  RoundsInOrder'
  BY <1>0, <1>13, <1>q DEF Register, Unlisted, Refused, Listed
<1>14. ASSUME NEW t \in Tasks, WaitForRound(t)
      PROVE  RoundsInOrder'
  BY <1>0, <1>14 DEF WaitForRound, StartExchange, RoundsInOrder
<1>15. ASSUME NEW t \in Tasks, Settle(t)
      PROVE  RoundsInOrder'
  BY <1>0, <1>15 DEF Settle, Retire, RoundsInOrder
<1>16. ASSUME NEW t \in Tasks, Throw(t)
      PROVE  RoundsInOrder'
  BY <1>0, <1>16 DEF Throw, RoundsInOrder
<1>17. ASSUME NEW t \in Tasks, Publish(t)
      PROVE  RoundsInOrder'
  BY <1>0, <1>17 DEF Publish, StartExchange, RoundsInOrder
<1>18. ASSUME NEW t \in Tasks, Get(t)
      PROVE  RoundsInOrder'
  <2>1. CASE UseCached(t) \/ HeedFailure(t)
    BY <1>0, <1>18, <1>q, <2>1 DEF Get, UseCached, HeedFailure, StartExchange
  <2>2. CASE JoinRound(t)
    BY <1>0, <1>18, <2>2 DEF Get, JoinRound, RoundsInOrder
  <2>3. CASE StartRound(t)
    <3>1. PICK s \in Slots :
            /\ Unreferenced(s) /\ pending' = s /\ slot' = [slot EXCEPT ![t] = s]
            /\ published' = [published EXCEPT ![s] = "running"]
      BY <2>3 DEF StartRound
    <3>2. \A u \in Tasks : slot[u] # s
      BY <3>1 DEF Unreferenced
    <3>3. pending = Nobody /\ fetching' = [fetching EXCEPT ![t] = TRUE]
          /\ pc' = [pc EXCEPT ![t] = "open"]
          /\ events' = events
      BY <1>18, <2>3 DEF Get, StartRound, StartExchange
    <3>4. QED
      BY <1>0, <3>1, <3>2, <3>3 DEF RoundsInOrder
  <2>4. QED
    BY <1>18, <2>1, <2>2, <2>3 DEF Get
<1>19. QED
  BY <1>1, <1>2, <1>3, <1>4, <1>5, <1>6, <1>7, <1>8, <1>9, <1>10, <1>11, <1>12, <1>13, <1>14,
     <1>15, <1>16, <1>17, <1>18
  DEF Next, CancelStep, Step

\* Rounds in order have one fetch behind the slot.
LEMMA OneFetchFollows ==
  ASSUME UpstreamAssumption, TypeOK, RoundsInOrder
  PROVE  OneFetchBehindTheSlot
BY DEF UpstreamAssumption, RoundsInOrder, RoundInOrder, OneFetchBehindTheSlot, TypeOK

\* r is s with one more socket, e, that its handle closes.
OwnGained(s, e, r) ==
  /\ \A i \in Own(r) : (i \in Own(s) /\ r[i].h = s[i].h) \/ i = Len(s) + 1
  /\ \A i \in Own(s) : i \in Own(r) /\ r[i].h = s[i].h
  /\ Len(s) + 1 \in Own(r) /\ r[Len(s) + 1].h = e.h
  /\ \A i \in Left(r) : i \in Left(s) /\ r[i].h = s[i].h
  /\ \A i \in Left(s) : i \in Left(r) /\ r[i].h = s[i].h

\* A push gives a stack one socket of its own.
LEMMA PushedSets ==
  ASSUME NEW s \in Stacks, Len(s) <= 1, NEW e \in Handle, ~e.reg, NEW r, r = Append(s, e)
  PROVE  OwnGained(s, e, r)
<1>1. /\ Len(s) \in {0, 1} /\ Len(r) = Len(s) + 1 /\ r[Len(s) + 1] = e
      /\ \A i \in 1..Len(s) : r[i] = s[i]
  BY Pushed, StackType
<1>2. \A i : i \in 1..Len(r) <=> i \in 1..Len(s) \/ i = Len(s) + 1
  BY <1>1
<1>3. Len(s) + 1 \notin 1..Len(s)
  BY <1>1
<1>4. QED
  BY ONLY <1>1, <1>2, <1>3, ~e.reg DEF Own, Left, OwnGained

\* A pop takes the socket on top from whichever set it was in.
LEMMA PoppedSets ==
  ASSUME NEW s \in Stacks, s # <<>>, NEW r, r = Front(s)
  PROVE  /\ \A i \in Own(r) : i \in Own(s) /\ i # Len(s) /\ r[i].h = s[i].h
         /\ \A i \in Own(s) : i # Len(s) => i \in Own(r) /\ r[i].h = s[i].h
         /\ \A i \in Left(r) : i \in Left(s) /\ i # Len(s) /\ r[i].h = s[i].h
         /\ \A i \in Left(s) : i # Len(s) => i \in Left(r) /\ r[i].h = s[i].h
<1>1. /\ Len(s) \in {1, 2} /\ Len(r) = Len(s) - 1
      /\ \A i \in 1..(Len(s) - 1) : r[i] = s[i]
  BY Popped
<1>2. \A i : i \in 1..Len(s) <=> i \in 1..Len(r) \/ i = Len(s)
  BY <1>1
<1>3. Len(s) \notin 1..Len(r)
  BY <1>1
<1>4. \A i \in 1..Len(r) : r[i] = s[i]
  BY <1>1
<1>5. QED
  BY ONLY <1>1, <1>2, <1>3, <1>4 DEF Own, Left

\* The handle on top is among those left to the token if it is registered, and
\* among the task's own otherwise.
LEMMA TopSets ==
  ASSUME NEW s \in Stacks, s # <<>>
  PROVE  /\ Last(s) = s[Len(s)] /\ Last(s) \in Handle
         /\ Last(s).reg => Len(s) \in Left(s) /\ Len(s) \notin Own(s)
         /\ ~Last(s).reg => Len(s) \in Own(s) /\ Len(s) \notin Left(s)
<1>1. Len(s) \in {1, 2} /\ Last(s) = s[Len(s)] /\ Last(s) \in Handle
  BY Popped
<1>2. Len(s) \in 1..Len(s)
  BY <1>1
<1>3. QED
  BY ONLY <1>1, <1>2 DEF Own, Left

\* r is s with the socket on top, e, left to the token.
OwnHandedOver(s, e, r) ==
  /\ \A i \in Own(r) : i \in Own(s) /\ i # Len(s) /\ r[i].h = s[i].h
  /\ \A i \in Own(s) : i # Len(s) => i \in Own(r) /\ r[i].h = s[i].h
  /\ \A i \in Left(r) : (i \in Left(s) /\ r[i].h = s[i].h) \/ i = Len(s)
  /\ \A i \in Left(s) : i \in Left(r) /\ r[i].h = s[i].h
  /\ Len(s) \in Left(r) /\ r[Len(s)].h = e.h

\* A registration hands the socket on top from the handle to the token.
LEMMA ToppedSets ==
  ASSUME NEW s \in Stacks, s # <<>>, ~Last(s).reg, NEW e \in Handle, e.reg, e.h = Last(s).h,
         NEW r, r = Front(s) \o <<e>>
  PROVE  OwnHandedOver(s, e, r)
<1>1. /\ Len(s) \in {1, 2} /\ Last(s) = s[Len(s)]
  BY Popped
<1>2. /\ Len(r) = Len(s) /\ r[Len(s)] = e
      /\ \A i \in 1..(Len(s) - 1) : r[i] = s[i]
  BY Topped
<1>3. \A i : i \in 1..Len(s) <=> i \in 1..(Len(s) - 1) \/ i = Len(s)
  BY <1>1
<1>4. Len(s) \notin 1..(Len(s) - 1)
  BY <1>1
<1>5. QED
  BY ONLY <1>1, <1>2, <1>3, <1>4, ~Last(s).reg, e.reg, e.h = Last(s).h
  DEF Own, Left, OwnHandedOver

\* Every step leaves each socket with one closer. Only seven actions matter:
\* Cancel, TakeSockets, CloseDoomed and NextQuery of a query; Open, Register
\* and Unwind of a task, where step <1>p is the handle that closes its own
\* socket, as an unwinding and a refused registration both do.
LEMMA OneCloserStep ==
  ASSUME UpstreamAssumption, TypeOK, StacksInOrder, OneCloser, [Next]_vars
  PROVE  OneCloser'
<1> USE DEF UpstreamAssumption, task, token, cache, vars, At, Goto
<1>t. /\ os \in [Handles -> Tasks \cup {Nobody}] /\ held \in [Tasks -> Stacks]
      /\ canc \in [Queries -> {"no", "flagged", "taken", "over"}]
      /\ registered \in [Queries -> SUBSET (Handles \X Tasks)]
      /\ doomed \in [Queries -> SUBSET (Handles \X Tasks)]
  BY DEF TypeOK
<1>h. \A u \in Tasks : \A i \in Own(held[u]) \cup Left(held[u]) : held[u][i].h \in Handles
  BY <1>t, StackFacts DEF Own, Left, Handle
<1>i. /\ \A q \in Queries : EntrustedOpen(q) /\ ListedHeld(q) /\ ListsInTurn(q) /\ LeftListed(q)
      /\ \A u \in Tasks : OwnOpen(u)
      /\ \A h \in Handles : HasCloser(h)
  BY DEF OneCloser
<1>q. ASSUME UNCHANGED <<os, held, registered, doomed, canc>>
      PROVE  OneCloser'
  BY <1>i, <1>q
  DEF OneCloser, EntrustedOpen, ListedHeld, ListsInTurn, LeftListed, OwnOpen, HasCloser,
                    Entrusted
<1>1. CASE UNCHANGED vars
  BY <1>1, <1>q
<1>2. CASE Lapse
  BY <1>2, <1>q DEF Lapse
<1>3. ASSUME NEW t \in Tasks, Begin(t)
      PROVE  OneCloser'
  BY <1>3, <1>q DEF Begin, StartExchange
<1>4. ASSUME NEW t \in Tasks, GiveUpWaiting(t)
      PROVE  OneCloser'
  BY <1>4, <1>q DEF GiveUpWaiting
<1>5. ASSUME NEW t \in Tasks, Expire(t)
      PROVE  OneCloser'
  BY <1>5, <1>q DEF Expire
<1>6. ASSUME NEW t \in Tasks, Ready(t)
      PROVE  OneCloser'
  BY <1>6, <1>q DEF Ready
<1>7. ASSUME NEW t \in Tasks, Use(t)
      PROVE  OneCloser'
  BY <1>7, <1>q DEF Use
<1>8. ASSUME NEW t \in Tasks, Unwound(t)
      PROVE  OneCloser'
  BY <1>8, <1>q DEF Unwound
<1>9. ASSUME NEW t \in Tasks, WaitForRound(t)
      PROVE  OneCloser'
  BY <1>9, <1>q DEF WaitForRound
<1>10. ASSUME NEW t \in Tasks, Settle(t)
      PROVE  OneCloser'
  BY <1>10, <1>q DEF Settle
<1>11. ASSUME NEW t \in Tasks, Throw(t)
      PROVE  OneCloser'
  BY <1>11, <1>q DEF Throw
<1>12. ASSUME NEW t \in Tasks, Publish(t)
      PROVE  OneCloser'
  BY <1>12, <1>q DEF Publish
<1>13. ASSUME NEW t \in Tasks, Get(t)
      PROVE  OneCloser'
  BY <1>13, <1>q DEF Get
<1>14. ASSUME NEW p \in Queries, Cancel(p)
      PROVE  OneCloser'
  <2>f. /\ canc[p] = "no" /\ canc' = [canc EXCEPT ![p] = "flagged"]
        /\ UNCHANGED <<os, held, registered, doomed>>
    BY <1>14 DEF Cancel
  <2>1. ASSUME NEW q \in Queries PROVE EntrustedOpen(q)'
    BY <1>t, <1>i, <2>f
    DEF EntrustedOpen, HasCloser, LeftListed, ListedHeld, ListsInTurn, OwnOpen, Entrusted,
        TasksOf
  <2>2. ASSUME NEW q \in Queries PROVE ListedHeld(q)'
    BY <1>t, <1>i, <2>f
    DEF EntrustedOpen, HasCloser, LeftListed, ListedHeld, ListsInTurn, OwnOpen, Entrusted,
        TasksOf
  <2>3. ASSUME NEW q \in Queries PROVE ListsInTurn(q)'
    BY <1>t, <1>i, <2>f
    DEF EntrustedOpen, HasCloser, LeftListed, ListedHeld, ListsInTurn, OwnOpen, Entrusted,
        TasksOf
  <2>4. ASSUME NEW q \in Queries PROVE LeftListed(q)'
    BY <1>t, <1>i, <2>f DEF LeftListed, TasksOf
  <2>5. ASSUME NEW u \in Tasks PROVE OwnOpen(u)'
    BY <1>t, <1>i, <2>f DEF OwnOpen, Entrusted
  <2>6. ASSUME NEW g \in Handles PROVE HasCloser(g)'
    BY <1>t, <1>i, <2>f
    DEF EntrustedOpen, HasCloser, LeftListed, ListedHeld, ListsInTurn, OwnOpen, Entrusted,
        TasksOf
  <2>7. QED
    BY <2>1, <2>2, <2>3, <2>4, <2>5, <2>6 DEF OneCloser
<1>15. ASSUME NEW p \in Queries, TakeSockets(p)
      PROVE  OneCloser'
  <2>f. /\ canc[p] = "flagged" /\ canc' = [canc EXCEPT ![p] = "taken"]
        /\ doomed' = [doomed EXCEPT ![p] = registered[p]]
        /\ registered' = [registered EXCEPT ![p] = {}]
        /\ UNCHANGED <<os, held>>
    BY <1>15 DEF TakeSockets
  <2>g. doomed[p] = {}
    BY <1>i, <2>f DEF ListsInTurn
  <2>h. \A q \in Queries : Entrusted(q)' = Entrusted(q)
    BY <1>t, <2>f, <2>g DEF Entrusted
  <2>1. ASSUME NEW q \in Queries PROVE EntrustedOpen(q)'
    BY <1>t, <1>i, <2>f, <2>g, <2>h
    DEF EntrustedOpen, HasCloser, LeftListed, ListedHeld, ListsInTurn, OwnOpen, TasksOf
  <2>2. ASSUME NEW q \in Queries PROVE ListedHeld(q)'
    BY <1>t, <1>i, <2>f, <2>g, <2>h
    DEF EntrustedOpen, HasCloser, LeftListed, ListedHeld, ListsInTurn, OwnOpen, TasksOf
  <2>3. ASSUME NEW q \in Queries PROVE ListsInTurn(q)'
    BY <1>t, <1>i, <2>f, <2>g, <2>h
    DEF EntrustedOpen, HasCloser, LeftListed, ListedHeld, ListsInTurn, OwnOpen, TasksOf
  <2>4. ASSUME NEW q \in Queries PROVE LeftListed(q)'
    <3>1. LeftListed(q)
      BY <1>i
    <3>2. QED
      BY <1>t, <2>f, <2>g, <2>h, <3>1 DEF LeftListed, TasksOf
  <2>5. ASSUME NEW u \in Tasks PROVE OwnOpen(u)'
    <3>1. OwnOpen(u) /\ Entrusted(QueryOf[u])' = Entrusted(QueryOf[u])
      BY <1>i, <2>h
    <3>2. QED
      BY <2>f, <3>1 DEF OwnOpen
  <2>6. ASSUME NEW g \in Handles PROVE HasCloser(g)'
    BY <1>t, <1>i, <2>f, <2>g, <2>h
    DEF EntrustedOpen, HasCloser, LeftListed, ListedHeld, ListsInTurn, OwnOpen, TasksOf
  <2>7. QED
    BY <2>1, <2>2, <2>3, <2>4, <2>5, <2>6 DEF OneCloser
<1>16. ASSUME NEW p \in Queries, CloseDoomed(p)
      PROVE  OneCloser'
  <2>1. CASE doomed[p] = {}
    <3>f. /\ canc[p] = "taken" /\ canc' = [canc EXCEPT ![p] = "over"]
          /\ UNCHANGED <<os, held, registered, doomed>>
      BY <1>16, <2>1 DEF CloseDoomed
    <3>1. ASSUME NEW q \in Queries PROVE EntrustedOpen(q)'
      BY <1>t, <1>i, <2>1, <3>f
      DEF EntrustedOpen, HasCloser, LeftListed, ListedHeld, ListsInTurn, OwnOpen,
          Entrusted, TasksOf
    <3>2. ASSUME NEW q \in Queries PROVE ListedHeld(q)'
      BY <1>t, <1>i, <2>1, <3>f
      DEF EntrustedOpen, HasCloser, LeftListed, ListedHeld, ListsInTurn, OwnOpen,
          Entrusted, TasksOf
    <3>3. ASSUME NEW q \in Queries PROVE ListsInTurn(q)'
      BY <1>t, <1>i, <2>1, <3>f
      DEF EntrustedOpen, HasCloser, LeftListed, ListedHeld, ListsInTurn, OwnOpen,
          Entrusted, TasksOf
    <3>4. ASSUME NEW q \in Queries PROVE LeftListed(q)'
      BY <1>t, <1>i, <2>1, <3>f DEF LeftListed, TasksOf
    <3>5. ASSUME NEW u \in Tasks PROVE OwnOpen(u)'
      BY <1>t, <1>i, <2>1, <3>f DEF OwnOpen, Entrusted
    <3>6. ASSUME NEW g \in Handles PROVE HasCloser(g)'
      BY <1>t, <1>i, <2>1, <3>f
      DEF EntrustedOpen, HasCloser, LeftListed, ListedHeld, ListsInTurn, OwnOpen,
          Entrusted, TasksOf
    <3>7. QED
      BY <3>1, <3>2, <3>3, <3>4, <3>5, <3>6 DEF OneCloser
  <2>2. ASSUME NEW e \in doomed[p], os' = [os EXCEPT ![e[1]] = Nobody],
               doomed' = [doomed EXCEPT ![p] = @ \ {e}]
        PROVE  OneCloser'
    <3>d. PICK k \in Handles, v \in Tasks : e = <<k, v>>
      BY <1>t
    <3>f. /\ canc[p] = "taken" /\ os' = [os EXCEPT ![k] = Nobody]
          /\ doomed' = [doomed EXCEPT ![p] = @ \ {<<k, v>>}]
          /\ UNCHANGED <<held, registered, canc>> 
      BY <1>16, <2>2, <3>d DEF CloseDoomed
    <3>g. /\ registered[p] = {} /\ <<k, v>> \in Entrusted(p) /\ os[k] = v /\ QueryOf[v] = p
      BY <1>i, <2>2, <3>d, <3>f DEF ListsInTurn, EntrustedOpen, Entrusted
    <3>1. ASSUME NEW q \in Queries PROVE EntrustedOpen(q)'
      BY <1>t, <1>h, <1>i, <3>f, <3>g
      DEF EntrustedOpen, HasCloser, LeftListed, ListedHeld, ListsInTurn, OwnOpen,
          Entrusted, TasksOf
    <3>2. ASSUME NEW q \in Queries PROVE ListedHeld(q)'
      BY <1>t, <1>h, <1>i, <3>f, <3>g
      DEF EntrustedOpen, HasCloser, LeftListed, ListedHeld, ListsInTurn, OwnOpen,
          Entrusted, TasksOf
    <3>3. ASSUME NEW q \in Queries PROVE ListsInTurn(q)'
      BY <1>t, <1>h, <1>i, <3>f, <3>g
      DEF EntrustedOpen, HasCloser, LeftListed, ListedHeld, ListsInTurn, OwnOpen,
          Entrusted, TasksOf
    <3>4. ASSUME NEW q \in Queries PROVE LeftListed(q)'
      BY <1>t, <1>h, <1>i, <3>f, <3>g DEF LeftListed, TasksOf
    <3>5. ASSUME NEW u \in Tasks PROVE OwnOpen(u)'
      <4>1. OwnOpen(u) /\ \A i \in Own(held[u]) : held[u][i].h \in Handles
        BY <1>h, <1>i
      <4>2. \A i \in Own(held[u]) : held[u][i].h # k
        BY <3>g, <4>1 DEF OwnOpen
      <4>3. Entrusted(QueryOf[u])' \subseteq Entrusted(QueryOf[u])
        BY <1>t, <3>f DEF Entrusted
      <4>4. QED
        BY <1>t, <3>f, <4>1, <4>2, <4>3 DEF OwnOpen
    <3>6. ASSUME NEW g \in Handles PROVE HasCloser(g)'
      BY <1>t, <1>h, <1>i, <3>f, <3>g
      DEF EntrustedOpen, HasCloser, LeftListed, ListedHeld, ListsInTurn, OwnOpen,
          Entrusted, TasksOf
    <3>7. QED
      BY <3>1, <3>2, <3>3, <3>4, <3>5, <3>6 DEF OneCloser
  <2>3. QED
    BY <1>16, <2>1, <2>2 DEF CloseDoomed
<1>17. ASSUME NEW p \in Queries, NextQuery(p)
      PROVE  OneCloser'
  <2>f. /\ canc[p] \in {"no", "over"} /\ canc' = [canc EXCEPT ![p] = "no"]
        /\ UNCHANGED <<os, held, registered, doomed>>
    BY <1>17 DEF NextQuery
  <2>g. \A t \in Tasks : QueryOf[t] = p => held[t] = <<>>
    BY <1>17 DEF NextQuery, StacksInOrder, StackInOrder, TasksOf
  <2>h. \A t \in Tasks : QueryOf[t] = p => Left(held[t]) = {} /\ Own(held[t]) = {}
    BY <2>g, StackFacts DEF Own, Left
  <2>i. registered[p] = {} /\ doomed[p] = {}
    <3>1. doomed[p] = {} /\ (canc[p] = "over" => registered[p] = {})
      BY <1>i, <2>f DEF ListsInTurn
    <3>2. \A h \in Handles, t \in Tasks : <<h, t>> \notin registered[p]
      <4>1. ListedHeld(p) /\ EntrustedOpen(p)
        BY <1>i
      <4>2. QED
        BY <2>h, <4>1 DEF ListedHeld, EntrustedOpen, Entrusted
    <3>3. QED
      BY <1>t, <3>1, <3>2
  <2>1. ASSUME NEW q \in Queries PROVE EntrustedOpen(q)'
    BY <1>t, <1>i, <2>f, <2>h, <2>i
    DEF EntrustedOpen, HasCloser, LeftListed, ListedHeld, ListsInTurn, OwnOpen, Entrusted,
        TasksOf
  <2>2. ASSUME NEW q \in Queries PROVE ListedHeld(q)'
    BY <1>t, <1>i, <2>f, <2>h, <2>i
    DEF EntrustedOpen, HasCloser, LeftListed, ListedHeld, ListsInTurn, OwnOpen, Entrusted,
        TasksOf
  <2>3. ASSUME NEW q \in Queries PROVE ListsInTurn(q)'
    BY <1>t, <1>i, <2>f, <2>h, <2>i
    DEF EntrustedOpen, HasCloser, LeftListed, ListedHeld, ListsInTurn, OwnOpen, Entrusted,
        TasksOf
  <2>4. ASSUME NEW q \in Queries PROVE LeftListed(q)'
    <3>1. LeftListed(q)
      BY <1>i
    <3> QED
      BY <1>t, <2>f, <2>h, <2>i, <3>1 DEF LeftListed, TasksOf
  <2>5. ASSUME NEW u \in Tasks PROVE OwnOpen(u)'
    BY <1>t, <1>i, <2>f, <2>h, <2>i DEF OwnOpen, Entrusted
  <2>6. ASSUME NEW g \in Handles PROVE HasCloser(g)'
    BY <1>t, <1>i, <2>f, <2>h, <2>i
    DEF EntrustedOpen, HasCloser, LeftListed, ListedHeld, ListsInTurn, OwnOpen, Entrusted,
        TasksOf
  <2>7. QED
    BY <2>1, <2>2, <2>3, <2>4, <2>5, <2>6 DEF OneCloser
<1>p. ASSUME NEW t \in Tasks, held[t] # <<>>, ~Last(held[t]).reg,
             os' = [os EXCEPT ![Socket(t)] = Nobody], held' = Pop(t),
             UNCHANGED <<registered, doomed, canc>>
      PROVE  OneCloser'
  <2> DEFINE k == Socket(t)
             m == Len(held[t])
             r == Front(held[t])
  <2>r. /\ m \in Own(held[t]) /\ m \notin Left(held[t]) /\ held[t][m].h = k /\ k \in Handles
    BY <1>t, <1>p, TopSets DEF Socket, Handle
  <2>s. /\ \A i \in Own(r) : i \in Own(held[t]) /\ i # m /\ r[i].h = held[t][i].h
        /\ \A i \in Own(held[t]) : i # m => i \in Own(r) /\ r[i].h = held[t][i].h
        /\ \A i \in Left(r) : i \in Left(held[t]) /\ i # m /\ r[i].h = held[t][i].h
        /\ \A i \in Left(held[t]) : i # m => i \in Left(r) /\ r[i].h = held[t][i].h
    BY <1>t, <1>p, PoppedSets
  <2>o. held' = [held EXCEPT ![t] = r] /\ os' = [os EXCEPT ![k] = Nobody]
    BY <1>p DEF Pop
  <2>u. UNCHANGED <<registered, doomed, canc>>
    BY <1>p
  <2> HIDE DEF k, m, r
  <2>a. \A v \in Tasks : \A i \in Own(held'[v]) :
          i \in Own(held[v]) /\ (v = t => i # m) /\ held'[v][i].h = held[v][i].h
    BY <1>t, <2>r, <2>s, <2>o
  <2>b. \A v \in Tasks : \A i \in Own(held[v]) :
          (v = t => i # m) => i \in Own(held'[v]) /\ held'[v][i].h = held[v][i].h
    BY <1>t, <2>r, <2>s, <2>o
  <2>c. \A v \in Tasks : \A i \in Left(held'[v]) :
          i \in Left(held[v]) /\ held'[v][i].h = held[v][i].h
    BY <1>t, <2>r, <2>s, <2>o
  <2>d. \A v \in Tasks : \A i \in Left(held[v]) :
          i \in Left(held'[v]) /\ held'[v][i].h = held[v][i].h
    BY <1>t, <2>r, <2>s, <2>o
  <2>h. /\ os[k] = t /\ <<k, t>> \notin Entrusted(QueryOf[t])
        /\ \A j \in Own(held[t]) : held[t][j].h = k => j = m
    BY <1>i, <2>r DEF OwnOpen
  <2>1. ASSUME NEW q \in Queries PROVE EntrustedOpen(q)'
    <3>1. EntrustedOpen(q)
      BY <1>i
    <3>2. QED
      BY <1>t, <2>h, <2>o, <2>u, <3>1 DEF EntrustedOpen, Entrusted
  <2>2. ASSUME NEW q \in Queries PROVE ListedHeld(q)'
    <3>1. ListedHeld(q)
      BY <1>i
    <3>2. QED
      BY <2>d, <2>u, <3>1 DEF ListedHeld
  <2>3. ASSUME NEW q \in Queries PROVE ListsInTurn(q)'
    <3>1. ListsInTurn(q)
      BY <1>i
    <3>2. QED
      BY <2>u, <3>1 DEF ListsInTurn
  <2>4. ASSUME NEW q \in Queries PROVE LeftListed(q)'
    <3>1. LeftListed(q)
      BY <1>i
    <3>2. QED
      BY <2>c, <2>u, <3>1 DEF LeftListed, TasksOf
  <2>5. ASSUME NEW u \in Tasks PROVE OwnOpen(u)'
    <3>1. OwnOpen(u)
      BY <1>i
    <3>2. ASSUME NEW i \in Own(held'[u]), held'[u][i].h = k PROVE FALSE
      <4>1. i \in Own(held[u]) /\ held[u][i].h = k /\ (u = t => i # m)
        BY <2>a, <3>2
      <4>2. u = t
        BY <2>h, <3>1, <4>1 DEF OwnOpen
      <4>3. QED
        BY <2>h, <4>1, <4>2
    <3>3. \A i \in Own(held'[u]) :
            /\ i \in Own(held[u]) /\ held'[u][i].h = held[u][i].h /\ held[u][i].h \in Handles
            /\ held[u][i].h # k
      BY <1>h, <2>a, <3>2
    <3>4. QED
      BY <1>t, <2>o, <2>u, <3>1, <3>3 DEF OwnOpen, Entrusted
  <2>6. ASSUME NEW g \in Handles PROVE HasCloser(g)'
    <3>1. HasCloser(g)
      BY <1>i
    <3>2. QED
      BY <1>t, <2>b, <2>h, <2>o, <2>r, <2>u, <3>1 DEF HasCloser, Entrusted
  <2>7. QED
    BY <2>1, <2>2, <2>3, <2>4, <2>5, <2>6 DEF OneCloser
<1>18. ASSUME NEW t \in Tasks, Open(t)
      PROVE  OneCloser'
  <2>1. CASE UNCHANGED <<os, held>>
    BY <1>18, <1>q, <2>1 DEF Open
  <2>2. ASSUME NEW k \in Handles, GivenSocket(t, k)
        PROVE  OneCloser'
    <3> DEFINE e == [h |-> k, reg |-> FALSE]
               r == Append(held[t], e)
               m == Len(held[t]) + 1
    <3>u. UNCHANGED <<registered, doomed, canc>>
      BY <1>18 DEF Open
    <3>o. os[k] = Nobody /\ os' = [os EXCEPT ![k] = t] /\ held' = [held EXCEPT ![t] = r]
      BY <2>2 DEF GivenSocket
    <3>p. held[t] \in Stacks /\ Len(held[t]) <= 1
      BY <1>t, <1>18, StackFacts DEF Open, StacksInOrder, StackInOrder
    <3>q. e \in Handle /\ ~e.reg /\ e.h = k
      BY DEF Handle
    <3>e. r = Append(held[t], e)
      OBVIOUS
    <3> HIDE DEF e, r
    <3>r. /\ \A i \in Own(r) : (i \in Own(held[t]) /\ r[i].h = held[t][i].h) \/ i = m
          /\ \A i \in Own(held[t]) : i \in Own(r) /\ r[i].h = held[t][i].h
          /\ m \in Own(r) /\ r[m].h = k
          /\ \A i \in Left(r) : i \in Left(held[t]) /\ r[i].h = held[t][i].h
          /\ \A i \in Left(held[t]) : i \in Left(r) /\ r[i].h = held[t][i].h
      <4> DEFINE s == held[t]
      <4>0. s \in Stacks /\ Len(s) <= 1 /\ e \in Handle /\ ~e.reg /\ r = Append(s, e)
        BY <3>p, <3>q, <3>e
      <4> HIDE DEF s
      <4>1. OwnGained(s, e, r)
        BY ONLY <4>0, PushedSets, Zenon
      <4>2. QED
        BY <3>q, <4>1 DEF s, OwnGained
    <3> HIDE DEF m
    <3>a. \A v \in Tasks : \A i \in Own(held'[v]) :
            \/ i \in Own(held[v]) /\ held'[v][i].h = held[v][i].h
            \/ v = t /\ i = m /\ held'[v][i].h = k
      BY <1>t, <3>o, <3>r
    <3>b. /\ \A v \in Tasks : \A i \in Own(held[v]) :
               i \in Own(held'[v]) /\ held'[v][i].h = held[v][i].h
          /\ m \in Own(held'[t]) /\ held'[t][m].h = k
      BY <1>t, <3>o, <3>r
    <3>c. \A v \in Tasks : \A i \in Left(held'[v]) :
            i \in Left(held[v]) /\ held'[v][i].h = held[v][i].h
      BY <1>t, <3>o, <3>r
    <3>d. \A v \in Tasks : \A i \in Left(held[v]) :
            i \in Left(held'[v]) /\ held'[v][i].h = held[v][i].h
      BY <1>t, <3>o, <3>r
    <3>h. \A q \in Queries, u \in Tasks : <<k, u>> \notin Entrusted(q)
      BY <1>i, <3>o DEF EntrustedOpen
    <3>1. ASSUME NEW q \in Queries PROVE EntrustedOpen(q)'
      <4>1. EntrustedOpen(q)
        BY <1>i
      <4>2. QED
        BY <1>t, <3>h, <3>o, <3>u, <4>1 DEF EntrustedOpen, Entrusted
    <3>2. ASSUME NEW q \in Queries PROVE ListedHeld(q)'
      <4>1. ListedHeld(q)
        BY <1>i
      <4>2. QED
        BY <3>d, <3>u, <4>1 DEF ListedHeld
    <3>3. ASSUME NEW q \in Queries PROVE ListsInTurn(q)'
      <4>1. ListsInTurn(q)
        BY <1>i
      <4>2. QED
        BY <3>u, <4>1 DEF ListsInTurn
    <3>4. ASSUME NEW q \in Queries PROVE LeftListed(q)'
      <4>1. LeftListed(q)
        BY <1>i
      <4>2. QED
        BY <3>c, <3>u, <4>1 DEF LeftListed, TasksOf
    <3>5. ASSUME NEW u \in Tasks PROVE OwnOpen(u)'
      <4>1. OwnOpen(u)
        BY <1>i
      <4>2. \A i \in Own(held[u]) : held[u][i].h # k
        BY <3>o, <4>1 DEF OwnOpen
      <4>3. ASSUME NEW i \in Own(held'[u])
            PROVE  os'[held'[u][i].h] = u /\ <<held'[u][i].h, u>> \notin Entrusted(QueryOf[u])'
        <5>1. CASE i \in Own(held[u]) /\ held'[u][i].h = held[u][i].h
          BY <1>t, <1>h, <3>o, <3>u, <4>1, <4>2, <5>1 DEF OwnOpen, Entrusted
        <5>2. CASE u = t /\ held'[u][i].h = k
          BY <1>t, <3>h, <3>o, <3>u, <5>2 DEF Entrusted
        <5>3. QED
          BY <3>a, <5>1, <5>2
      <4>4. ASSUME NEW i \in Own(held'[u]), NEW j \in Own(held'[u]), held'[u][j].h = held'[u][i].h
            PROVE  j = i
        <5>1. CASE i \in Own(held[u]) /\ held'[u][i].h = held[u][i].h
          <6>1. j \in Own(held[u]) /\ held'[u][j].h = held[u][j].h
            BY <3>a, <4>2, <4>4, <5>1
          <6>2. QED
            BY <4>1, <4>4, <5>1, <6>1 DEF OwnOpen
        <5>2. CASE i = m /\ held'[u][i].h = k
          BY <3>a, <4>2, <4>4, <5>2
        <5>3. QED
          BY <3>a, <5>1, <5>2
      <4>5. QED
        BY <4>3, <4>4 DEF OwnOpen
    <3>6. ASSUME NEW g \in Handles PROVE HasCloser(g)'
      <4>1. HasCloser(g)
        BY <1>i
      <4>2. QED
        BY <1>t, <3>b, <3>o, <3>u, <4>1 DEF HasCloser, Entrusted
    <3>7. QED
      BY <3>1, <3>2, <3>3, <3>4, <3>5, <3>6 DEF OneCloser
  <2>3. QED
    BY <1>18, <2>1, <2>2 DEF Open
<1>19. ASSUME NEW t \in Tasks, Register(t)
      PROVE  OneCloser'
  <2>a. held[t] \in Stacks /\ held[t] # <<>> /\ ~Last(held[t]).reg
    BY <1>t, <1>19 DEF Register, StacksInOrder, StackInOrder
  <2>1. CASE Unlisted(t)
    BY <1>19, <1>q, <2>1 DEF Register, Unlisted
  <2>2. CASE Refused(t)
    BY <1>19, <1>p, <2>2, <2>a DEF Register, Refused, ForgottenHandle
  <2>3. CASE Listed(t)
    <3> DEFINE k == Socket(t)
               m == Len(held[t])
               e == [h |-> k, reg |-> TRUE]
               r == Front(held[t]) \o <<e>>
    <3>u. UNCHANGED <<os, doomed, canc>>
      BY <1>19, <2>3 DEF Register, Listed
    <3>o. /\ held' = [held EXCEPT ![t] = r] /\ canc[QueryOf[t]] = "no"
          /\ registered' = [registered EXCEPT ![QueryOf[t]] = @ \cup {<<k, t>>}]
      BY <2>3 DEF Listed, Top, Cancelled
    <3>k. m \in Own(held[t]) /\ m \notin Left(held[t]) /\ held[t][m].h = k /\ k \in Handles
      BY <2>a, TopSets DEF Socket, Handle
    <3>q. e \in Handle /\ e.reg /\ e.h = Last(held[t]).h /\ e.h = k
      BY <3>k DEF Handle, Socket
    <3>e. r = Front(held[t]) \o <<e>>
      OBVIOUS
    <3> HIDE DEF e, r
    <3>r. /\ \A i \in Own(r) : i \in Own(held[t]) /\ i # m /\ r[i].h = held[t][i].h
          /\ \A i \in Own(held[t]) : i # m => i \in Own(r) /\ r[i].h = held[t][i].h
          /\ \A i \in Left(r) : (i \in Left(held[t]) /\ r[i].h = held[t][i].h) \/ i = m
          /\ \A i \in Left(held[t]) : i \in Left(r) /\ r[i].h = held[t][i].h
          /\ m \in Left(r) /\ r[m].h = k
      <4> DEFINE s == held[t]
      <4>0. /\ s \in Stacks /\ s # <<>> /\ ~Last(s).reg /\ e \in Handle /\ e.reg
            /\ e.h = Last(s).h /\ r = Front(s) \o <<e>>
        BY <2>a, <3>q, <3>e
      <4> HIDE DEF s
      <4>1. OwnHandedOver(s, e, r)
        BY ONLY <4>0, ToppedSets, Zenon
      <4>2. QED
        BY <3>q, <4>1 DEF s, OwnHandedOver
    <3> HIDE DEF k, m
    <3>a. \A v \in Tasks : \A i \in Own(held'[v]) :
            i \in Own(held[v]) /\ (v = t => i # m) /\ held'[v][i].h = held[v][i].h
      BY <1>t, <3>o, <3>r
    <3>b. \A v \in Tasks : \A i \in Own(held[v]) :
            (v = t => i # m) => i \in Own(held'[v]) /\ held'[v][i].h = held[v][i].h
      BY <1>t, <3>o, <3>r
    <3>c. \A v \in Tasks : \A i \in Left(held'[v]) :
            \/ i \in Left(held[v]) /\ held'[v][i].h = held[v][i].h
            \/ v = t /\ i = m /\ held'[v][i].h = k
      BY <1>t, <3>k, <3>o, <3>r
    <3>d. /\ \A v \in Tasks : \A i \in Left(held[v]) :
               i \in Left(held'[v]) /\ held'[v][i].h = held[v][i].h
          /\ m \in Left(held'[t]) /\ held'[t][m].h = k
      BY <1>t, <3>k, <3>o, <3>r
    <3>h. /\ os[k] = t /\ <<k, t>> \notin Entrusted(QueryOf[t])
          /\ \A j \in Own(held[t]) : held[t][j].h = k => j = m
      BY <1>i, <3>k DEF OwnOpen
    <3>1. ASSUME NEW q \in Queries PROVE EntrustedOpen(q)'
      <4>1. EntrustedOpen(q)
        BY <1>i
      <4>2. QED
        BY <1>t, <3>h, <3>k, <3>o, <3>u, <4>1 DEF EntrustedOpen, Entrusted
    <3>2. ASSUME NEW q \in Queries PROVE ListedHeld(q)'
      <4>1. ListedHeld(q)
        BY <1>i
      <4>2. QED
        BY <1>t, <3>d, <3>o, <4>1 DEF ListedHeld
    <3>3. ASSUME NEW q \in Queries PROVE ListsInTurn(q)'
      <4>1. ListsInTurn(q)
        BY <1>i
      <4>2. QED
        BY <1>t, <3>o, <3>u, <4>1 DEF ListsInTurn
    <3>4. ASSUME NEW q \in Queries PROVE LeftListed(q)'
      <4>1. LeftListed(q)
        BY <1>i
      <4>2. ASSUME canc'[q] \in {"no", "flagged"}, NEW v \in TasksOf(q), NEW i \in Left(held'[v])
            PROVE  <<held'[v][i].h, v>> \in registered'[q]
        BY <1>t, <3>c, <3>o, <3>u, <4>1, <4>2 DEF LeftListed, TasksOf
      <4>3. ASSUME canc'[q] \in {"no", "flagged"}, NEW v \in TasksOf(q), NEW i \in Left(held'[v]),
                   NEW j \in Left(held'[v]), held'[v][j].h = held'[v][i].h
            PROVE  j = i
        <5>1. v = t => \A l \in Left(held[v]) : held[v][l].h # k
          BY <3>h, <3>u, <4>1, <4>3 DEF LeftListed, TasksOf, Entrusted
        <5>2. QED
          <6>1. /\ v \in Tasks /\ QueryOf[v] = q
                /\ \A l, w \in Left(held[v]) : held[v][l].h = held[v][w].h => l = w
            BY <3>u, <4>1, <4>3 DEF LeftListed, TasksOf
          <6>2. CASE i \in Left(held[v]) /\ held'[v][i].h = held[v][i].h
            <7>1. j \in Left(held[v]) /\ held'[v][j].h = held[v][j].h
              BY <3>c, <4>3, <5>1, <6>1, <6>2
            <7>2. QED
              BY <4>3, <6>1, <6>2, <7>1
          <6>3. CASE v = t /\ i = m /\ held'[v][i].h = k
            BY <3>c, <4>3, <5>1, <6>1, <6>3
          <6>4. QED
            BY <3>c, <4>3, <6>1, <6>2, <6>3
      <4>4. QED
        BY <4>2, <4>3 DEF LeftListed, TasksOf
    <3>5. ASSUME NEW u \in Tasks PROVE OwnOpen(u)'
      <4>1. OwnOpen(u)
        BY <1>i
      <4>2. QED
        BY <1>t, <1>h, <3>a, <3>h, <3>k, <3>o, <3>u, <4>1 DEF OwnOpen, Entrusted
    <3>6. ASSUME NEW g \in Handles PROVE HasCloser(g)'
      <4>1. HasCloser(g)
        BY <1>i
      <4>2. QED
        BY <1>t, <3>b, <3>h, <3>k, <3>o, <3>u, <4>1 DEF HasCloser, Entrusted
    <3>7. QED
      BY <3>1, <3>2, <3>3, <3>4, <3>5, <3>6 DEF OneCloser
  <2>4. QED
    BY <1>19, <2>1, <2>2, <2>3 DEF Register
<1>20. ASSUME NEW t \in Tasks, Unwind(t)
      PROVE  OneCloser'
  <2> DEFINE p == QueryOf[t]
             k == Socket(t)
             m == Len(held[t])
             r == Front(held[t])
  <2>a. held[t] \in Stacks /\ held[t] # <<>> /\ held' = Pop(t) /\ UNCHANGED <<doomed, canc>>
    BY <1>t, <1>20 DEF Unwind
  <2>b. registered' = [registered EXCEPT ![p] = {e \in @ : ~Last(held[t]).reg \/ e[1] # k}]
    BY <1>20 DEF Unwind
  <2>1. CASE ~Last(held[t]).reg
    <3>1. os' = [os EXCEPT ![k] = Nobody]
      BY <1>20, <2>1 DEF Unwind, TakenBack
    <3>2. registered' = registered
      BY <1>t, <2>1, <2>b
    <3>3. QED
      BY <1>p, <2>1, <2>a, <3>1, <3>2
  <2>2. CASE Last(held[t]).reg
    <3>k. m \in Left(held[t]) /\ m \notin Own(held[t]) /\ held[t][m].h = k /\ k \in Handles
      BY <2>2, <2>a, TopSets DEF Socket, Handle
    <3>r. /\ \A i \in Own(r) : i \in Own(held[t]) /\ i # m /\ r[i].h = held[t][i].h
          /\ \A i \in Own(held[t]) : i # m => i \in Own(r) /\ r[i].h = held[t][i].h
          /\ \A i \in Left(r) : i \in Left(held[t]) /\ i # m /\ r[i].h = held[t][i].h
          /\ \A i \in Left(held[t]) : i # m => i \in Left(r) /\ r[i].h = held[t][i].h
      BY <2>a, PoppedSets
    <3>o. held' = [held EXCEPT ![t] = r]
      BY <2>a DEF Pop
    <3>s. registered' = [registered EXCEPT ![p] = {e \in @ : e[1] # k}]
      BY <2>2, <2>b
    <3>t. os' = IF \E e \in registered[p] : e[1] = k THEN [os EXCEPT ![k] = Nobody] ELSE os
      BY <1>20, <2>2 DEF Unwind, TakenBack
    <3>u. UNCHANGED <<doomed, canc>>
      BY <2>a
    <3> HIDE DEF p, k, m, r
    <3>p. p = QueryOf[t] /\ p \in Queries
      BY DEF p
    <3>a. \A v \in Tasks : \A i \in Own(held'[v]) :
            i \in Own(held[v]) /\ held'[v][i].h = held[v][i].h
      BY <1>t, <3>o, <3>r
    <3>b. \A v \in Tasks : \A i \in Own(held[v]) :
            i \in Own(held'[v]) /\ held'[v][i].h = held[v][i].h
      BY <1>t, <3>k, <3>o, <3>r
    <3>c. \A v \in Tasks : \A i \in Left(held'[v]) :
            i \in Left(held[v]) /\ (v = t => i # m) /\ held'[v][i].h = held[v][i].h
      BY <1>t, <3>o, <3>r
    <3>d. \A v \in Tasks : \A i \in Left(held[v]) :
            (v = t => i # m) => i \in Left(held'[v]) /\ held'[v][i].h = held[v][i].h
      BY <1>t, <3>o, <3>r
    <3>1. CASE \E e \in registered[p] : e[1] = k
      <4>a. canc[p] \in {"no", "flagged"} /\ doomed[p] = {}
        BY <1>t, <1>i, <3>1, <3>p DEF ListsInTurn
      <4>b. /\ <<k, t>> \in registered[p]
            /\ \A j \in Left(held[t]) : held[t][j].h = k => j = m
        <5>1. LeftListed(p) /\ t \in TasksOf(p)
          BY <1>i, <3>p DEF TasksOf
        <5>2. QED
          BY <3>k, <4>a, <5>1 DEF LeftListed
      <4>c. os[k] = t /\ os' = [os EXCEPT ![k] = Nobody]
        <5>1. EntrustedOpen(p)
          BY <1>i, <3>p
        <5>2. QED
          BY <3>1, <3>k, <3>t, <4>b, <5>1 DEF EntrustedOpen, Entrusted
      <4>1. ASSUME NEW q \in Queries PROVE EntrustedOpen(q)'
        <5>1. EntrustedOpen(q)
          BY <1>i
        <5>2. QED
          BY <1>t, <3>k, <3>p, <3>s, <3>u, <4>a, <4>c, <5>1 DEF EntrustedOpen, Entrusted
      <4>2. ASSUME NEW q \in Queries PROVE ListedHeld(q)'
        <5>1. ListedHeld(q) /\ EntrustedOpen(q)
          BY <1>i
        <5>2. QED
          BY <1>t, <3>d, <3>k, <3>s, <3>p, <5>1 DEF ListedHeld, EntrustedOpen, Entrusted
      <4>3. ASSUME NEW q \in Queries PROVE ListsInTurn(q)'
        <5>1. ListsInTurn(q)
          BY <1>i
        <5>2. QED
          BY <1>t, <3>s, <3>u, <5>1 DEF ListsInTurn
      <4>4. ASSUME NEW q \in Queries PROVE LeftListed(q)'
        <5>1. LeftListed(q) /\ EntrustedOpen(q)
          BY <1>i
        <5>2. ASSUME canc'[q] \in {"no", "flagged"}, NEW v \in TasksOf(q), NEW i \in Left(held'[v])
              PROVE  /\ <<held'[v][i].h, v>> \in registered'[q]
                     /\ \A j \in Left(held'[v]) : held'[v][j].h = held'[v][i].h => j = i
          <6>1. /\ i \in Left(held[v]) /\ (v = t => i # m) /\ held'[v][i].h = held[v][i].h
                /\ <<held[v][i].h, v>> \in registered[q] /\ held[v][i].h \in Handles
                /\ QueryOf[v] = q
                /\ \A j \in Left(held[v]) : held[v][j].h = held[v][i].h => j = i
            BY <1>h, <3>c, <3>u, <5>1, <5>2 DEF LeftListed, TasksOf
          <6>2. held[v][i].h # k
            <7>1. ASSUME held[v][i].h = k PROVE v = t
              BY <4>c, <5>1, <6>1, <7>1 DEF EntrustedOpen, Entrusted, TasksOf
            <7>2. QED
              BY <4>b, <6>1, <7>1
          <6>3. <<held[v][i].h, v>> \in registered'[q]
            BY <1>t, <3>s, <6>1, <6>2
          <6>4. ASSUME NEW j \in Left(held'[v]), held'[v][j].h = held'[v][i].h PROVE j = i
            <7>1. j \in Left(held[v]) /\ held'[v][j].h = held[v][j].h
              BY <3>c, <5>2, <6>4 DEF TasksOf
            <7>2. QED
              BY <6>1, <6>4, <7>1
          <6>5. QED
            BY <6>1, <6>3, <6>4
        <5>3. QED
          BY <5>2 DEF LeftListed, TasksOf
      <4>5. ASSUME NEW u \in Tasks PROVE OwnOpen(u)'
        <5>1. OwnOpen(u)
          BY <1>i
        <5>2. QED
          BY <1>t, <1>h, <3>a, <3>p, <3>s, <3>u, <4>b, <4>c, <5>1, ZenonT(30)
          DEF OwnOpen, Entrusted
      <4>6. ASSUME NEW g \in Handles PROVE HasCloser(g)'
        <5>1. HasCloser(g)
          BY <1>i
        <5>2. QED
          BY <1>t, <3>b, <3>p, <3>s, <3>u, <4>c, <5>1 DEF HasCloser, Entrusted
      <4>7. QED
        BY <4>1, <4>2, <4>3, <4>4, <4>5, <4>6 DEF OneCloser
    <3>2. CASE ~(\E e \in registered[p] : e[1] = k)
      <4>a. os' = os /\ registered' = registered
        BY <1>t, <3>2, <3>s, <3>t
      <4>b. \A u \in Tasks : <<k, u>> \notin registered[p]
        BY <3>2
      <4>1. ASSUME NEW q \in Queries PROVE EntrustedOpen(q)'
        <5>1. EntrustedOpen(q)
          BY <1>i
        <5>2. QED
          BY <3>u, <4>a, <5>1 DEF EntrustedOpen, Entrusted
      <4>2. ASSUME NEW q \in Queries PROVE ListedHeld(q)'
        <5>1. ListedHeld(q) /\ EntrustedOpen(q)
          BY <1>i
        <5>2. QED
          BY <3>d, <3>k, <3>p, <4>a, <4>b, <5>1 DEF ListedHeld, EntrustedOpen, Entrusted
      <4>3. ASSUME NEW q \in Queries PROVE ListsInTurn(q)'
        <5>1. ListsInTurn(q)
          BY <1>i
        <5>2. QED
          BY <3>u, <4>a, <5>1 DEF ListsInTurn
      <4>4. ASSUME NEW q \in Queries PROVE LeftListed(q)'
        <5>1. LeftListed(q)
          BY <1>i
        <5>2. QED
          BY <3>c, <3>u, <4>a, <5>1 DEF LeftListed, TasksOf
      <4>5. ASSUME NEW u \in Tasks PROVE OwnOpen(u)'
        <5>1. OwnOpen(u)
          BY <1>i
        <5>2. QED
          BY <3>a, <3>u, <4>a, <5>1 DEF OwnOpen, Entrusted
      <4>6. ASSUME NEW g \in Handles PROVE HasCloser(g)'
        <5>1. HasCloser(g)
          BY <1>i
        <5>2. QED
          BY <3>b, <3>u, <4>a, <5>1 DEF HasCloser, Entrusted
      <4>7. QED
        BY <4>1, <4>2, <4>3, <4>4, <4>5, <4>6 DEF OneCloser
    <3>3. QED
      BY <3>1, <3>2
  <2>3. QED
    BY <2>1, <2>2
<1>21. QED
  BY <1>1, <1>2, <1>3, <1>4, <1>5, <1>6, <1>7, <1>8, <1>9, <1>10, <1>11, <1>12, <1>13, <1>14,
     <1>15, <1>16, <1>17, <1>18, <1>19, <1>20
  DEF Next, CancelStep, Step

\* At the start no socket is open.
LEMMA CloserInit == ASSUME UpstreamAssumption PROVE Init => OneCloser
<1> SUFFICES ASSUME Init PROVE OneCloser
  OBVIOUS
<1>1. \A t \in Tasks : Own(held[t]) = {} /\ Left(held[t]) = {}
  BY StackFacts DEF Init, Own, Left
<1>2. \A q \in Queries : Entrusted(q) = {} /\ registered[q] = {} /\ doomed[q] = {} /\ canc[q] = "no"
  BY DEF Init, Entrusted
<1>3. /\ \A h \in Handles : os[h] = Nobody
      /\ Nobody \notin Tasks /\ \A t \in Tasks : QueryOf[t] \in Queries
  BY DEF Init, UpstreamAssumption
<1>4. \A q \in Queries : EntrustedOpen(q) /\ ListedHeld(q) /\ ListsInTurn(q) /\ LeftListed(q)
  BY <1>1, <1>2 DEF EntrustedOpen, ListedHeld, ListsInTurn, LeftListed, TasksOf
<1>5. \A t \in Tasks : OwnOpen(t)
  BY <1>1 DEF OwnOpen
<1>6. \A h \in Handles : HasCloser(h)
  BY <1>3 DEF HasCloser
<1>7. QED
  BY <1>4, <1>5, <1>6 DEF OneCloser

\* With one closer each, nothing is closed twice.
LEMMA ClosesFollows ==
  ASSUME UpstreamAssumption, TypeOK, OneCloser
  PROVE  ClosesItsOwn
<1>1. ASSUME NEW q \in Queries, NEW e \in Entrusted(q) PROVE os[e[1]] = e[2]
  <2>1. PICK h \in Handles, t \in Tasks : e = <<h, t>>
    BY DEF TypeOK, Entrusted
  <2>2. QED
    BY <2>1 DEF OneCloser, EntrustedOpen
<1>2. ASSUME NEW t \in Tasks, held[t] # <<>>, TakenBack(t) PROVE os[Socket(t)] = t
  <2> DEFINE m == Len(held[t])
             p == QueryOf[t]
  <2>1. held[t] \in Stacks /\ p \in Queries
    BY DEF TypeOK, UpstreamAssumption
  <2>2. /\ held[t][m].h = Socket(t) /\ Socket(t) \in Handles
        /\ Last(held[t]).reg => m \in Left(held[t])
        /\ ~Last(held[t]).reg => m \in Own(held[t])
    BY <1>2, <2>1, TopSets DEF Socket, Handle
  <2> HIDE DEF m, p
  <2>3. CASE ~Last(held[t]).reg
    <3>1. OwnOpen(t) /\ m \in Own(held[t])
      BY <2>2, <2>3 DEF OneCloser
    <3>2. QED
      BY <2>2, <3>1 DEF OwnOpen
  <2>4. CASE Last(held[t]).reg
    <3>1. registered[p] # {}
      BY <1>2, <2>4 DEF TakenBack, p
    <3>2. canc[p] \in {"no", "flagged"}
      BY <2>1, <3>1 DEF TypeOK, OneCloser, ListsInTurn
    <3>3. <<Socket(t), t>> \in registered[p]
      BY <2>1, <2>2, <2>4, <3>2 DEF OneCloser, LeftListed, TasksOf, p
    <3>4. QED
      BY <2>1, <2>2, <3>3 DEF OneCloser, EntrustedOpen, Entrusted
  <2>5. QED
    BY <2>3, <2>4
<1>3. QED
  BY <1>1, <1>2 DEF ClosesItsOwn, Entrusted

\* With one closer each, and no stack or list left, nothing is open.
LEMMA LeaksFollows ==
  ASSUME UpstreamAssumption, TypeOK, StacksInOrder, OneCloser
  PROVE  NothingLeaks
<1> SUFFICES ASSUME NEW q \in Queries, canc[q] \in {"no", "over"},
                    \A t \in TasksOf(q) : pc[t] \in {"idle", "done"},
                    NEW h \in Handles, NEW t \in Tasks, QueryOf[t] = q, os[h] = t
             PROVE  FALSE
  BY DEF NothingLeaks, TasksOf
<1>1. \A u \in Tasks : QueryOf[u] = q => held[u] = <<>>
  BY DEF StacksInOrder, StackInOrder, TasksOf
<1>2. \A u \in Tasks : QueryOf[u] = q => Own(held[u]) = {} /\ Left(held[u]) = {}
  BY <1>1, StackFacts DEF Own, Left
<1>3. <<h, t>> \in Entrusted(q)
  BY <1>2 DEF OneCloser, HasCloser
<1>4. <<h, t>> \in registered[q] /\ canc[q] = "no"
  BY <1>3 DEF OneCloser, ListsInTurn, Entrusted
<1>5. QED
  BY <1>2, <1>4 DEF OneCloser, ListedHeld

\* All that is inductive together.
SocketsAndRounds == TypeOK /\ StacksInOrder /\ RoundsInOrder /\ OneCloser

\* The invariant holds of every behaviour.
LEMMA Inductive == ASSUME UpstreamAssumption PROVE Spec => []SocketsAndRounds
<1>1. Init => SocketsAndRounds
  BY TypeInit, RoundInit, CloserInit DEF SocketsAndRounds
<1>2. SocketsAndRounds /\ [Next]_vars => SocketsAndRounds'
  BY TypeStep, StackStep, RoundStep, OneCloserStep DEF SocketsAndRounds
<1>3. QED
  BY <1>1, <1>2, PTL DEF Spec

\* Every variable keeps its type: no task ever has a third socket on its stack.
THEOREM TypeCorrect == ASSUME UpstreamAssumption PROVE Spec => []TypeOK
<1>1. SocketsAndRounds => TypeOK
  BY DEF SocketsAndRounds
<1>2. QED
  BY <1>1, Inductive, PTL

\* A socket is closed once, by the token or by its handle, whatever races
\* (socket_utils.h:150-172, cancel.cpp:31-69).
THEOREM ClosedByItsOwn == ASSUME UpstreamAssumption PROVE Spec => []ClosesItsOwn
<1>1. SocketsAndRounds => ClosesItsOwn
  BY ClosesFollows DEF SocketsAndRounds
<1>2. QED
  BY <1>1, Inductive, PTL

\* A query that is over leaves no socket open, whatever was cancelled, refused
\* or threw in between (socket_utils.h:174-190, cancel.cpp:25-30).
THEOREM NoSocketLeaks == ASSUME UpstreamAssumption PROVE Spec => []NothingLeaks
<1>1. SocketsAndRounds => NothingLeaks
  BY LeaksFollows DEF SocketsAndRounds
<1>2. QED
  BY <1>1, Inductive, PTL

\* However many tasks miss the certificate, one fetches it, and the slot the
\* others wait at has it behind them unless an exception took it away
\* (dnscrypt_cert_cache.h:139-163, 172-186).
THEOREM OneFetch == ASSUME UpstreamAssumption PROVE Spec => []OneFetchBehindTheSlot
<1>1. SocketsAndRounds => OneFetchBehindTheSlot
  BY OneFetchFollows DEF SocketsAndRounds
<1>2. QED
  BY <1>1, Inductive, PTL
=============================================================================
