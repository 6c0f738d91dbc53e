--------------------------- MODULE MCNetworkProofs ---------------------------
(***************************************************************************)
(* The theorems about Transfer, for every number of chunks and pieces, and *)
(* about the composition of it with Upstream.                              *)
(*                                                                         *)
(* Nobody reaches a deleted Transfer, and every open handle is in exactly  *)
(* one hand.  The invariant counts: a Transfer has at least as many        *)
(* references as it has owners, the thread inside Run(), m_active, the     *)
(* thread inside Stop(), and the request handle until its HANDLE_CLOSING.  *)
(* Nothing is taken from the references of the other two handles, which    *)
(* nobody drops.                                                           *)
(*                                                                         *)
(* What TLC finds of sockets and certificates in the small instance of     *)
(* MCNetwork is an instance of the theorems about Upstream: in a behaviour *)
(* of NetworkSpec the tasks' variables follow Upstream, whichever          *)
(* component is at work.                                                   *)
(***************************************************************************)
EXTENDS MCNetwork, TLAPS

Transfers ==
  [refs : Nat, made : BOOLEAN, fields : SUBSET Handles, open : SUBSET Handles,
   closing : SUBSET Context, outstanding : Completions \cup {"none", "cancelled"},
   callback : Completions \cup Errors \cup {"none"}, outcome : Outcomes, body : Nat]

One(b) == IF b THEN 1 ELSE 0

(***************************************************************************)
(* One Transfer, of whose open handles `lent' are in Stop()'s hands, with  *)
(* n owners besides its request handle.                                    *)
(***************************************************************************)
HasRequest(t) == "request" \in t.open \cup t.closing
Sound(t, lent, n) ==
  /\ t \in Transfers
  /\ t.open = t.fields \cup lent /\ t.fields \cap lent = {}
  /\ t.open \cap t.closing = {}
  /\ t.outstanding # "none" \/ t.callback # "none" => HasRequest(t)
  /\ t.refs >= n + One(HasRequest(t))

Held(i) == IF stopper.t = i THEN stopper.holds ELSE {}

RunningIn == {"publish", "send", "wait", "close", "clear", "leave"}
StoppingIn == {"take", "shut", "release"}
RunHolds(i) == runner.t = i /\ runner.pc \in RunningIn
StopHolds(i) == stopper.t = i /\ stopper.pc \in StoppingIn
Owners(i) == One(RunHolds(i)) + One(request.active = i) + One(StopHolds(i))

(***************************************************************************)
(* Where the two threads are.  Each pass over the file makes at most one   *)
(* Transfer for each of its chunks.                                        *)
(***************************************************************************)
Begun == IF runner.pc = "run" THEN runner.chunk - 1 ELSE runner.chunk
RunnerType ==
  [pc : RunningIn \cup {"run", "returned", "done"}, t : Nat, stopped : BOOLEAN,
   result : Outcomes, chunk : 1..Chunks, attempt : 1..Attempts]
RunnerOK ==
  /\ runner \in RunnerType
  /\ runner.t <= IF runner.attempt = 1 THEN Begun ELSE Chunks + Begun
  /\ runner.pc \in RunningIn => runner.t \in Runs
RequestOK ==
  /\ request \in [active : {0} \cup Runs, before : BOOLEAN]
  /\ request.active = IF runner.pc \in {"send", "wait", "close", "clear"} THEN runner.t ELSE 0
StopperOK ==
  /\ stopper \in [pc : StoppingIn \cup {"idle", "back"}, t : Nat, holds : SUBSET {"request"}]
  /\ stopper.t <= runner.t
  /\ stopper.pc \in StoppingIn => stopper.t \in Runs
  /\ stopper.pc # "shut" => stopper.holds = {}

RecordsOK ==
  /\ transfers \in [Runs -> Transfers]
  /\ \A i \in Runs : Sound(transfers[i], Held(i), Owners(i))

Inv == RunnerOK /\ RequestOK /\ StopperOK /\ RecordsOK

-----------------------------------------------------------------------------
(***************************************************************************)
(* What each operation makes of one Transfer.                              *)
(***************************************************************************)
LEMMA AddedRef ==
  ASSUME NEW t, NEW lent, NEW n \in Nat, Sound(t, lent, n)
  PROVE  Sound(AddRef(t), lent, n + 1)
BY DEF Sound, Transfers, AddRef, HasRequest, One

LEMMA Released ==
  ASSUME NEW t, NEW lent, NEW n \in Nat, Sound(t, lent, n + 1)
  PROVE  Sound(Release(t), lent, n)
BY DEF Sound, Transfers, Release, HasRequest, One

LEMMA Finished ==
  ASSUME NEW t, NEW lent, NEW n \in Nat, Sound(t, lent, n), NEW o \in Outcomes
  PROVE  Sound(Finish(t, o), lent, n)
BY DEF Sound, Transfers, Finish, HasRequest, One

LEMMA Closed ==
  ASSUME NEW t, NEW lent, NEW n \in Nat, Sound(t, lent, n), lent \subseteq {"request"}
  PROVE  Sound(CloseHandles(t), lent, n)
BY DEF Sound, Transfers, CloseHandles, Shut, HasRequest, One, Handles, Context

LEMMA TakenAway ==
  ASSUME NEW t, NEW n \in Nat, Sound(t, {}, n)
  PROVE  Sound(Taken(t), t.fields \cap {"request"}, n)
BY DEF Sound, Transfers, Taken, HasRequest, One, Handles

LEMMA ShutByStop ==
  ASSUME NEW t, NEW lent, NEW n \in Nat, Sound(t, lent, n), lent \subseteq {"request"}
  PROVE  Sound(Shut(t, lent), {}, n)
BY DEF Sound, Transfers, Shut, HasRequest, One, Handles, Context

LEMMA Called ==
  ASSUME NEW t, NEW lent, NEW n \in Nat, Sound(t, lent, n), NEW c \in Completions,
         NEW s \in Call(t, c)
  PROVE  Sound(s, lent, n)
<1>1. CASE s = Finish(t, "Failed")
  BY <1>1, Finished DEF Outcomes
<1>2. CASE Usable(t) /\ s = [t EXCEPT !.outstanding = c]
  BY <1>2 DEF Usable, Sound, Transfers, HasRequest, One
<1> QED
  BY <1>1, <1>2 DEF Call

\* A Transfer to which the handles hs have been opened and nothing else done.
New(t, hs, refs) ==
  /\ t \in Transfers /\ t.refs = refs /\ t.fields = hs /\ t.open = hs /\ t.closing = {}
  /\ t.outstanding = "none" /\ t.callback = "none"

LEMMA Opens ==
  ASSUME NEW t, NEW hs \in SUBSET Handles, NEW h \in Handles, NEW refs \in Nat, New(t, hs, refs)
  PROVE  New(Opened(t, h), hs \cup {h}, refs + 1)
<1>1. New(AddRef(t), hs, refs + 1)
  BY DEF New, AddRef, Transfers
<1> QED
  BY <1>1 DEF New, Opened, Transfers

LEMMA Steps ==
  /\ New(Fresh, {}, 1)
  /\ New(WithSession, {"session"}, 2)
  /\ New(WithConnect, {"session", "connect"}, 3)
  /\ New(Prepared, {"session", "connect", "request"}, 4)
<1>1. New(Unmade, {}, 0)
  BY DEF New, Unmade, Transfers, Completions, Errors, Outcomes
<1>2. New(Fresh, {}, 1)
  BY <1>1 DEF New, Fresh, Transfers
<1>3. New(WithSession, {"session"}, 2)
  <2>1. New(WithSession, {} \cup {"session"}, 1 + 1)
    BY <1>2, Opens DEF Handles, WithSession
  <2> QED
    BY <2>1
<1>4. New(WithConnect, {"session", "connect"}, 3)
  <2>1. New(WithConnect, {"session"} \cup {"connect"}, 2 + 1)
    BY <1>3, Opens DEF Handles, WithConnect
  <2>2. {"session"} \cup {"connect"} = {"session", "connect"}
    OBVIOUS
  <2> QED
    BY <2>1, <2>2
<1>5. New(Prepared, {"session", "connect", "request"}, 4)
  <2>1. New(Prepared, {"session", "connect"} \cup {"request"}, 3 + 1)
    BY <1>4, Opens DEF Handles, Prepared
  <2>2. {"session", "connect"} \cup {"request"} = {"session", "connect", "request"}
    OBVIOUS
  <2> QED
    BY <2>1, <2>2
<1> QED
  BY <1>2, <1>3, <1>4, <1>5

LEMMA Beginning ==
  ASSUME NEW t, NEW hs, NEW refs \in Nat, NEW n \in Nat, New(t, hs, refs),
         refs >= n + One("request" \in hs)
  PROVE  Sound(t, {}, n)
BY DEF New, Sound, HasRequest, One

LEMMA Prepares == Sound(Prepared, {}, 1)
BY Steps, Beginning DEF One

LEMMA Abandons ==
  ASSUME NEW t \in {Fresh, WithSession, WithConnect}
  PROVE  Sound(Abandoned(t), {}, 0)
<1>1. Sound(t, {}, 1)
  BY Beginning, Steps DEF One
<1>2. Sound(CloseHandles(t), {}, 0 + 1)
  BY <1>1, Closed
<1> QED
  BY <1>2, Released DEF Abandoned

LEMMA Answered ==
  ASSUME NEW t, NEW lent, NEW n \in Nat, Sound(t, lent, n), NEW s \in OnStatus(t)
  PROVE  Sound([s EXCEPT !.callback = "none"], lent, n)
<1>1. Sound(s, lent, n)
  <2>1. ASSUME NEW b \in Nat PROVE Sound([t EXCEPT !.body = b], lent, n)
    BY DEF Sound, Transfers, HasRequest, One
  <2>2. t.body + 1 \in Nat
    BY DEF Sound, Transfers
  <2>3. CASE t.callback = "SENDREQUEST_COMPLETE"
    BY <2>3, Called DEF OnStatus, Completions
  <2>4. CASE t.callback = "HEADERS_AVAILABLE"
    BY <2>4, Called, Finished DEF OnStatus, OnHeaders, Completions, Outcomes
  <2>5. CASE t.callback = "DATA_AVAILABLE"
    BY <2>5, Called, Finished DEF OnStatus, OnData, EndOfBody, Completions, Outcomes
  <2>6. CASE t.callback = "READ_COMPLETE"
    BY <2>1, <2>2, <2>6, Called, Finished DEF OnStatus, OnRead, EndOfBody, Completions, Outcomes
  <2>7. CASE t.callback \notin Completions
    BY <2>7, Finished DEF OnStatus, Verdict, Completions, Outcomes
  <2> QED
    BY <2>3, <2>4, <2>5, <2>6, <2>7 DEF Completions
<1> QED
  BY <1>1 DEF Sound, Transfers, HasRequest, One

LEMMA Reported ==
  ASSUME NEW t, NEW lent, NEW n \in Nat, Sound(t, lent, n), t.outstanding # "none",
         NEW event \in {"cancelled", t.outstanding, "error"}
  PROVE  Sound([t EXCEPT !.callback = event, !.outstanding = "none"], lent, n)
BY DEF Sound, Transfers, HasRequest, One, Completions, Errors

LEMMA ClosingSeen ==
  ASSUME NEW t, NEW lent, NEW n \in Nat, Sound(t, lent, n), NEW h \in t.closing,
         t.outstanding = "none", t.callback = "none"
  PROVE  Sound([Release(t) EXCEPT !.closing = t.closing \ {h}], lent, n)
<1> DEFINE r == Release(t)
           s == [r EXCEPT !.closing = t.closing \ {h}]
<1>1. h = "request" /\ t.closing = {"request"} /\ "request" \notin t.open
  BY DEF Sound, Transfers, Context
<1>2. /\ r \in Transfers /\ r.closing = t.closing /\ r.open = t.open /\ r.fields = t.fields
      /\ r.outstanding = "none" /\ r.callback = "none"
      /\ r.refs = IF t.refs = 0 THEN 0 ELSE t.refs - 1
  BY DEF Release, Sound, Transfers
<1> HIDE DEF r
<1>3. /\ s \in Transfers /\ s.closing = {} /\ s.open = t.open /\ s.fields = t.fields
      /\ s.outstanding = "none" /\ s.callback = "none" /\ s.refs = r.refs
  BY <1>1, <1>2 DEF Transfers
<1>4. HasRequest(t) /\ ~HasRequest(s)
  BY <1>1, <1>3 DEF HasRequest
<1>5. Sound(s, lent, n)
  BY <1>2, <1>3, <1>4 DEF Sound, Transfers, One
<1> QED
  BY <1>5 DEF r

-----------------------------------------------------------------------------
(***************************************************************************)
(* What a step makes of all of them.                                       *)
(***************************************************************************)
LEMMA OwnersCount == \A i : Owners(i) \in Nat /\ Owners(i)' \in Nat
BY DEF Owners, One

LEMMA HeldIsRequest == StopperOK => \A i : Held(i) \subseteq {"request"}
BY DEF StopperOK, Held

LEMMA NoneChanges ==
  ASSUME RecordsOK, transfers' = transfers,
         \A i \in Runs : Held(i)' = Held(i) /\ Owners(i)' = Owners(i)
  PROVE  RecordsOK'
BY DEF RecordsOK, Sound

LEMMA OneChanges ==
  ASSUME RecordsOK, NEW j \in Runs, NEW t, transfers' = [transfers EXCEPT ![j] = t],
         Sound(t, Held(j)', Owners(j)'),
         \A i \in Runs \ {j} : Held(i)' = Held(i) /\ Owners(i)' = Owners(i)
  PROVE  RecordsOK'
<1>1. t \in Transfers
  BY DEF Sound
<1>2. transfers' \in [Runs -> Transfers]
  BY <1>1 DEF RecordsOK
<1>3. ASSUME NEW i \in Runs PROVE Sound(transfers'[i], Held(i)', Owners(i)')
  <2>1. CASE i = j
    BY <2>1 DEF RecordsOK
  <2>2. CASE i # j
    <3>1. transfers'[i] = transfers[i] /\ Held(i)' = Held(i) /\ Owners(i)' = Owners(i)
      BY <2>2 DEF RecordsOK
    <3> QED
      BY <3>1 DEF RecordsOK
  <2> QED
    BY <2>1, <2>2
<1> QED
  BY <1>2, <1>3 DEF RecordsOK, Sound

LEMMA Starts == Init => Inv
<1> SUFFICES ASSUME Init PROVE Inv
  OBVIOUS
<1> USE TransferAssumption
<1>1. RunnerOK /\ RequestOK /\ StopperOK
  BY DEF Init, RunnerOK, RunnerType, RequestOK, StopperOK, Begun, RunningIn, StoppingIn,
     Runs, Attempts, Outcomes
<1>2. Unmade \in Transfers
  BY DEF Unmade, Transfers, Completions, Errors, Outcomes
<1>3. \A i \in Runs : Owners(i) = 0 /\ Held(i) = {}
  BY DEF Init, Owners, One, RunHolds, StopHolds, Held, RunningIn, StoppingIn, Runs
<1>4. Sound(Unmade, {}, 0)
  BY <1>2 DEF Sound, Unmade, HasRequest, One
<1> QED
  BY <1>1, <1>2, <1>3, <1>4 DEF Init, Inv, RecordsOK

-----------------------------------------------------------------------------
(***************************************************************************)
(* The thread inside Run().                                                *)
(***************************************************************************)
LEMMA RunKeeps == ASSUME Inv, RunNext PROVE Inv'
<1> USE TransferAssumption DEF Inv
<1>t. RecordsOK /\ \A i \in Runs : Sound(transfers[i], Held(i), Owners(i))
  BY DEF RecordsOK
<1>n. \A i : Owners(i) \in Nat /\ Owners(i)' \in Nat
  BY OwnersCount
<1>h. \A i : Held(i) \subseteq {"request"}
  BY HeldIsRequest
<1>r. /\ runner.t \in Nat /\ runner.chunk \in 1..Chunks /\ runner.attempt \in 1..2
      /\ runner.attempt = 1 => runner.t <= Begun
      /\ runner.attempt # 1 => runner.t <= Chunks + Begun
  BY DEF RunnerOK, RunnerType, Attempts
<1>1. CASE RunCancelledBeforeStart
  <2>0. /\ runner.pc = "run" /\ runner' \in RunnerType /\ runner'.pc = "returned"
        /\ runner'.t = runner.t /\ runner'.chunk = runner.chunk /\ runner'.attempt = runner.attempt
    BY <1>1 DEF RunCancelledBeforeStart, RunnerOK, RunnerType, Outcomes
  <2>1. RunnerOK' /\ RequestOK' /\ StopperOK'
    BY <1>1, <1>r, <2>0 DEF RunCancelledBeforeStart, RunnerOK, RunnerType, RequestOK, StopperOK, Begun, RunningIn
  <2>2. \A i \in Runs : Held(i)' = Held(i) /\ Owners(i)' = Owners(i)
    BY <1>1 DEF RunCancelledBeforeStart, Held, Owners, RunHolds, StopHolds, RunningIn, RunnerOK, RunnerType
  <2> QED
    BY <1>1, <2>1, <2>2, NoneChanges DEF RunCancelledBeforeStart
<1>2. ASSUME RunPrepares \/ RunCannotPrepare PROVE Inv'
  <2>j. PICK j : j = runner.t + 1
    OBVIOUS
  <2>0. /\ runner.pc = "run" /\ runner' \in RunnerType /\ runner'.pc \in {"publish", "returned"}
        /\ runner'.t = j /\ runner'.chunk = runner.chunk /\ runner'.attempt = runner.attempt
        /\ UNCHANGED <<request, stopper>>
    <3>1. runner.t + 1 \in Nat
      BY <1>r
    <3>2. CASE RunPrepares
      BY <2>j, <3>1, <3>2 DEF RunPrepares, Begin, RunnerOK, RunnerType, RunningIn
    <3>3. CASE RunCannotPrepare
      BY <2>j, <3>1, <3>3 DEF RunCannotPrepare, Begin, RunnerOK, RunnerType, RunningIn, Outcomes
    <3> QED
      BY <1>2, <3>2, <3>3
  <2>1. j \in Runs
    BY <2>0, <2>j, <1>r DEF Begun, Runs, Attempts
  <2>2. RunnerOK' /\ RequestOK' /\ StopperOK'
    BY <2>0, <2>j, <2>1, <1>r DEF StopperOK, RequestOK, RunnerOK, RunnerType, Begun, RunningIn
  <2>3. /\ stopper.t # j /\ request.active = 0
        /\ \A i \in Runs : ~RunHolds(i) /\ (i # j => ~RunHolds(i)')
    <3>1. stopper.t \in Nat /\ stopper.t <= runner.t
      BY DEF StopperOK
    <3> QED
      BY <2>0, <2>j, <3>1, <1>r DEF RequestOK, RunHolds, RunningIn
  <2>4. Held(j)' = {} /\ \A i \in Runs \ {j} : Held(i)' = Held(i) /\ Owners(i)' = Owners(i)
    <3>1. \A i \in Runs \ {j} : /\ RunHolds(i)' = RunHolds(i) /\ StopHolds(i)' = StopHolds(i)
                                /\ request'.active = request.active
      BY <2>0, <2>3 DEF StopHolds, RunHolds, RunningIn
    <3>2. \A i \in Runs : Held(i)' = IF stopper.t = i THEN stopper.holds ELSE {}
      BY <2>0 DEF Held
    <3> QED
      BY <2>0, <2>3, <3>1, <3>2 DEF Held, Owners
  <2>5. CASE RunPrepares
    <3>1. runner'.pc = "publish"
      BY <2>5 DEF RunPrepares, Begin, RunnerOK, RunnerType
    <3>2. Owners(j)' = 1
      BY <2>0, <2>1, <2>3, <3>1 DEF Owners, One, RunHolds, StopHolds, RunningIn, Runs
    <3>3. Sound(Prepared, Held(j)', Owners(j)')
      BY <2>4, <3>2, Prepares
    <3>4. transfers' = [transfers EXCEPT ![j] = Prepared]
      BY <2>5, <2>j DEF RunPrepares
    <3> QED
      BY <2>1, <2>2, <2>4, <3>3, <3>4, <1>t, OneChanges
  <2>6. CASE RunCannotPrepare
    <3>1. runner'.pc = "returned"
      BY <2>6 DEF RunCannotPrepare, Begin, RunnerOK, RunnerType
    <3>2. Owners(j)' = 0
      BY <2>0, <2>1, <2>3, <3>1 DEF Owners, One, RunHolds, StopHolds, RunningIn, Runs
    <3>3. PICK t \in {Fresh, WithSession, WithConnect} :
            transfers' = [transfers EXCEPT ![j] = Abandoned(t)]
      BY <2>6, <2>j DEF RunCannotPrepare
    <3>4. Sound(Abandoned(t), Held(j)', Owners(j)')
      BY <2>4, <3>2, Abandons
    <3> QED
      BY <2>1, <2>2, <2>4, <3>3, <3>4, <1>t, OneChanges
  <2> QED
    BY <1>2, <2>5, <2>6
<1>3. CASE Publish
  <2>j. PICK j \in Runs : j = runner.t
    BY <1>3 DEF Publish, RunnerOK, RunningIn
  <2>1. StopperOK' /\ RequestOK' /\ RunnerOK'
    BY <1>3, <1>r DEF Publish, StopperOK, RequestOK, RunnerOK, RunnerType, Begun, RunningIn
  <2>2. /\ Held(j)' = Held(j) /\ Owners(j)' = Owners(j) + 1
        /\ \A i \in Runs \ {j} : Held(i)' = Held(i) /\ Owners(i)' = Owners(i)
    BY <1>3, <2>j, <2>1 DEF Publish, Held, Owners, One, RunHolds, StopHolds, RunningIn, RunnerOK, RunnerType,
       RequestOK, Runs
  <2>3. Sound(AddRef(Current), Held(j)', Owners(j)')
    BY <2>j, <2>1, <2>2, <1>t, <1>n, AddedRef DEF Current
  <2>4. transfers' = [transfers EXCEPT ![j] = AddRef(Current)]
    BY <2>j, <1>3 DEF Publish, Update
  <2>5. RecordsOK'
    BY <2>j, <2>1, <2>2, <2>3, <2>4, <1>t, OneChanges
  <2> QED
    BY <2>j, <2>1, <2>5
<1>4. CASE SendRequest
  <2>j. PICK j \in Runs : j = runner.t
    BY <1>4 DEF SendRequest, RunnerOK, RunningIn
  <2>1. StopperOK' /\ RequestOK' /\ RunnerOK'
    BY <1>4, <1>r DEF SendRequest, Step, StopperOK, RequestOK, RunnerOK, RunnerType, Begun, RunningIn
  <2>2. \A i \in Runs : Held(i)' = Held(i) /\ Owners(i)' = Owners(i)
    BY <1>4, <2>j, <2>1 DEF SendRequest, Step, Held, Owners, One, RunHolds, StopHolds, RunningIn, RunnerOK, RunnerType
  <2>3. PICK t \in Call(Current, "SENDREQUEST_COMPLETE") \cup {Finish(Current, "Cancelled")} :
          transfers' = [transfers EXCEPT ![j] = t]
    BY <2>j, <1>4 DEF SendRequest, Update, Call
  <2>4. Sound(t, Held(j), Owners(j))
    <3>1. Sound(Current, Held(j), Owners(j)) /\ Owners(j) \in Nat
      BY <2>j, <2>1, <1>t, <1>n DEF Current
    <3> QED
      BY <2>3, <3>1, Called, Finished DEF Completions, Outcomes
  <2> QED
    BY <2>j, <2>1, <2>2, <2>3, <2>4, <1>t, OneChanges
<1>5. CASE WaitEnds
  <2>1. Current.outcome \in Outcomes
    BY <1>5, <1>t DEF WaitEnds, Current, RunnerOK, RunnerType, RunningIn, Sound, Transfers
  <2>2. RunnerOK' /\ RequestOK' /\ StopperOK'
    BY <1>5, <1>r, <2>1 DEF WaitEnds, RunnerOK, RunnerType, RequestOK, StopperOK, Begun, RunningIn
  <2>3. \A i \in Runs : Held(i)' = Held(i) /\ Owners(i)' = Owners(i)
    BY <1>5 DEF WaitEnds, Held, Owners, RunHolds, StopHolds, RunningIn, RunnerOK, RunnerType
  <2> QED
    BY <1>5, <2>2, <2>3, NoneChanges DEF WaitEnds
<1>6. CASE RunCloses
  <2>j. PICK j \in Runs : j = runner.t
    BY <1>6 DEF RunCloses, RunnerOK, RunningIn
  <2>1. StopperOK' /\ RequestOK' /\ RunnerOK'
    BY <1>6, <1>r DEF RunCloses, Step, StopperOK, RequestOK, RunnerOK, RunnerType, Begun, RunningIn
  <2>2. \A i \in Runs : Held(i)' = Held(i) /\ Owners(i)' = Owners(i)
    BY <1>6, <2>j, <2>1 DEF RunCloses, Step, Held, Owners, One, RunHolds, StopHolds, RunningIn, RunnerOK, RunnerType
  <2>3. Sound(CloseHandles(Current), Held(j)', Owners(j)')
    <3>1. Sound(Current, Held(j), Owners(j)) /\ Owners(j) \in Nat /\ Held(j) \subseteq {"request"}
      BY <2>j, <2>1, <1>t, <1>n, <1>h DEF Current
    <3>2. Sound(CloseHandles(Current), Held(j), Owners(j))
      BY <3>1, Closed
    <3> QED
      BY <2>j, <2>1, <2>2, <3>2
  <2>4. transfers' = [transfers EXCEPT ![j] = CloseHandles(Current)]
    BY <2>j, <1>6 DEF RunCloses, Update
  <2>5. RecordsOK'
    BY <2>j, <2>1, <2>2, <2>3, <2>4, <1>t, OneChanges
  <2> QED
    BY <2>j, <2>1, <2>5
<1>7. CASE ClearActive
  <2>j. PICK j \in Runs : j = runner.t
    BY <1>7 DEF ClearActive, RunnerOK, RunningIn
  <2>1. StopperOK' /\ RequestOK' /\ RunnerOK'
    BY <1>7, <1>r DEF ClearActive, Step, StopperOK, RequestOK, RunnerOK, RunnerType, Begun, RunningIn
  <2>2. /\ Held(j)' = Held(j) /\ Owners(j) = Owners(j)' + 1
        /\ \A i \in Runs \ {j} : Held(i)' = Held(i) /\ Owners(i)' = Owners(i)
    BY <1>7, <2>j, <2>1 DEF ClearActive, Step, Held, Owners, One, RunHolds, StopHolds, RunningIn, RunnerOK, RunnerType,
       RequestOK, Runs
  <2>3. Sound(Release(Current), Held(j)', Owners(j)')
    BY <2>j, <2>1, <2>2, <1>t, <1>n, Released DEF Current
  <2>4. transfers' = [transfers EXCEPT ![j] = Release(Current)]
    BY <2>j, <1>7 DEF ClearActive, Update
  <2>5. RecordsOK'
    BY <2>j, <2>1, <2>2, <2>3, <2>4, <1>t, OneChanges
  <2> QED
    BY <2>j, <2>1, <2>5
<1>8. CASE Leave
  <2>j. PICK j \in Runs : j = runner.t
    BY <1>8 DEF Leave, RunnerOK, RunningIn
  <2>1. StopperOK' /\ RequestOK' /\ RunnerOK'
    BY <1>8, <1>r DEF Leave, Step, StopperOK, RequestOK, RunnerOK, RunnerType, Begun, RunningIn
  <2>2. /\ Held(j)' = Held(j) /\ Owners(j) = Owners(j)' + 1
        /\ \A i \in Runs \ {j} : Held(i)' = Held(i) /\ Owners(i)' = Owners(i)
    BY <1>8, <2>j, <2>1 DEF Leave, Step, Held, Owners, One, RunHolds, StopHolds, RunningIn, RunnerOK, RunnerType, Runs
  <2>3. Sound(Release(Current), Held(j)', Owners(j)')
    BY <2>j, <2>1, <2>2, <1>t, <1>n, Released DEF Current
  <2>4. transfers' = [transfers EXCEPT ![j] = Release(Current)]
    BY <2>j, <1>8 DEF Leave, Update
  <2>5. RecordsOK'
    BY <2>j, <2>1, <2>2, <2>3, <2>4, <1>t, OneChanges
  <2> QED
    BY <2>j, <2>1, <2>5
<1>9. CASE NextChunk \/ DownloadCancelled \/ DownloadStale
  <2>1. RunnerOK'
    <3>1. CASE NextChunk
      <4>1. CASE runner.chunk = Chunks
        <5>1. /\ runner' \in RunnerType /\ runner'.t = runner.t /\ runner'.chunk = runner.chunk
              /\ runner'.attempt = runner.attempt /\ runner'.pc = "done" /\ runner.pc = "returned"
          BY <3>1, <4>1 DEF NextChunk, RunnerOK, RunnerType
        <5> QED
          BY <1>r, <5>1 DEF RunnerOK, Begun, RunningIn
      <4>2. CASE runner.chunk # Chunks
        <5>1. runner.chunk + 1 \in 1..Chunks
          BY <1>r, <4>2
        <5>2. /\ runner' \in RunnerType /\ runner'.t = runner.t /\ runner'.chunk = runner.chunk + 1
              /\ runner'.attempt = runner.attempt /\ runner'.pc = "run" /\ runner.pc = "returned"
          BY <3>1, <4>2, <5>1 DEF NextChunk, RunnerOK, RunnerType
        <5> QED
          BY <1>r, <5>2 DEF RunnerOK, Begun, RunningIn
      <4> QED
        BY <4>1, <4>2
    <3>2. CASE DownloadCancelled
      BY <1>r, <3>2 DEF DownloadCancelled, Step, RunnerOK, RunnerType, Begun, RunningIn
    <3>3. CASE DownloadStale
      <4>1. runner.pc = "returned" /\ runner \in RunnerType
        BY <3>3 DEF DownloadStale, RunnerOK
      <4>2. CASE runner.attempt < Attempts
                 /\ runner' = [runner EXCEPT !.pc = "run", !.attempt = @ + 1, !.chunk = 1]
        <5>1. runner.attempt = 1 /\ runner.attempt + 1 \in 1..Attempts /\ 1 \in 1..Chunks
          BY <1>r, <4>2 DEF Attempts
        <5>2. /\ runner' \in RunnerType /\ runner'.t = runner.t /\ runner'.chunk = 1
              /\ runner'.attempt = 2 /\ runner'.pc = "run"
          <6> DEFINE next == runner.attempt + 1
          <6>1. /\ next \in 1..Attempts /\ next = 2
                /\ runner' = [runner EXCEPT !.pc = "run", !.attempt = next, !.chunk = 1]
            BY <4>2, <5>1
          <6> HIDE DEF next
          <6> QED
            BY <4>1, <5>1, <6>1 DEF RunnerType
        <5> QED
          BY <1>r, <4>1, <5>1, <5>2 DEF RunnerOK, Begun, RunningIn
      <4>3. CASE runner' = [runner EXCEPT !.pc = "done", !.result = "Failed"]
        <5>1. /\ runner' \in RunnerType /\ runner'.t = runner.t /\ runner'.chunk = runner.chunk
              /\ runner'.attempt = runner.attempt /\ runner'.pc = "done"
          BY <4>1, <4>3 DEF RunnerType, Outcomes
        <5> QED
          BY <1>r, <4>1, <5>1 DEF RunnerOK, Begun, RunningIn
      <4> QED
        BY <3>3, <4>2, <4>3 DEF DownloadStale
    <3> QED
      BY <1>9, <3>1, <3>2, <3>3
  <2>2. /\ runner.pc \notin RunningIn /\ runner'.pc \notin RunningIn /\ runner'.t = runner.t
        /\ UNCHANGED <<transfers, request, stopper>>
    BY <1>9 DEF NextChunk, DownloadCancelled, DownloadStale, Step, RunnerOK, RunnerType, RunningIn
  <2>3. RequestOK' /\ StopperOK'
    BY <2>2 DEF RequestOK, StopperOK, RunningIn
  <2>4. \A i \in Runs : Held(i)' = Held(i) /\ Owners(i)' = Owners(i)
    BY <2>2 DEF Held, Owners, RunHolds, StopHolds
  <2> QED
    BY <2>1, <2>2, <2>3, <2>4, NoneChanges
<1> QED
  BY <1>1, <1>2, <1>3, <1>4, <1>5, <1>6, <1>7, <1>8, <1>9 DEF RunNext
-----------------------------------------------------------------------------
(***************************************************************************)
(* The thread inside Stop().                                               *)
(***************************************************************************)
LEMMA StopLooksKeeps == ASSUME Inv, StopLooks PROVE Inv'
<1> USE DEF Inv
<1>t. RecordsOK /\ \A i \in Runs : Sound(transfers[i], Held(i), Owners(i))
  BY DEF RecordsOK
<1>n. \A i : Owners(i) \in Nat /\ Owners(i)' \in Nat
  BY OwnersCount
<1>1. RunnerOK'
  BY DEF StopLooks, RunnerOK, RunnerType, Begun
<1>2. CASE request.active = 0
  <2>1. RequestOK' /\ StopperOK'
    BY <1>2 DEF StopLooks, RequestOK, StopperOK, StoppingIn
  <2>2. \A i \in Runs : Held(i)' = Held(i) /\ Owners(i)' = Owners(i)
    BY <1>2 DEF StopLooks, StopperOK, RequestOK, Held, Owners, RunHolds, StopHolds, StoppingIn
  <2>3. transfers' = transfers
    BY <1>2 DEF StopLooks
  <2> QED
    BY <1>1, <2>1, <2>2, <2>3, NoneChanges
<1>3. CASE request.active # 0
  <2>j. PICK j \in Runs : j = request.active
    BY <1>3 DEF RequestOK
  <2>1. /\ stopper.pc = "idle" /\ stopper.holds = {} /\ stopper'.holds = {}
        /\ stopper'.pc = "take" /\ stopper'.t = j /\ UNCHANGED <<request, runner>>
    BY <1>3, <2>j DEF StopLooks, StopperOK
  <2>2. RequestOK' /\ StopperOK'
    BY <1>3, <2>j, <2>1 DEF StopLooks, RequestOK, StopperOK, StoppingIn, RunnerOK, RunnerType
  <2>3. \A i \in Runs : Held(i)' = Held(i) /\ One(RunHolds(i))' = One(RunHolds(i))
    BY <2>1 DEF Held, RunHolds, One
  <2>4. \A i \in Runs : One(StopHolds(i)) = 0 /\ One(StopHolds(i))' = IF i = j THEN 1 ELSE 0
    BY <2>1 DEF StopHolds, StoppingIn, One
  <2>5. \A i \in Runs : One(request.active = i)' = One(request.active = i)
    BY <2>1 DEF One
  <2>6. \A i \in Runs : One(RunHolds(i)) \in Nat /\ One(request.active = i) \in Nat
    BY DEF One
  <2>7. /\ Owners(j)' = Owners(j) + 1
        /\ \A i \in Runs \ {j} : Held(i)' = Held(i) /\ Owners(i)' = Owners(i)
    BY <2>3, <2>4, <2>5, <2>6 DEF Owners
  <2>8. Sound(AddRef(transfers[j]), Held(j)', Owners(j)')
    BY <2>3, <2>7, <1>t, <1>n, AddedRef
  <2>9. transfers' = [transfers EXCEPT ![j] = AddRef(transfers[j])]
    BY <1>3, <2>j DEF StopLooks
  <2> QED
    BY <1>1, <2>2, <2>7, <2>9, <2>8, <1>t, OneChanges
<1> QED
  BY <1>2, <1>3

LEMMA StopKeeps == ASSUME Inv, StopNext PROVE Inv'
<1> USE DEF Inv
<1>t. RecordsOK /\ \A i \in Runs : Sound(transfers[i], Held(i), Owners(i))
  BY DEF RecordsOK
<1>n. \A i : Owners(i) \in Nat /\ Owners(i)' \in Nat
  BY OwnersCount
<1>h. \A i : Held(i) \subseteq {"request"}
  BY HeldIsRequest
<1>j. PICK j \in Runs : j = stopper.t
  BY DEF StopNext, StopTakes, StopShuts, StopReleases, StopperOK, StoppingIn
<1>u. UNCHANGED <<request, runner>> /\ stopper'.t = j
  BY <1>j DEF StopNext, StopTakes, StopShuts, StopReleases, StopperOK
<1>o. RunnerOK' /\ RequestOK' /\ \A i \in Runs : RunHolds(i)' = RunHolds(i)
  BY <1>u DEF RunnerOK, RunnerType, Begun, RequestOK, RunHolds
<1>e. \A i \in Runs \ {j} : Held(i)' = Held(i) /\ Owners(i)' = Owners(i)
  <2>1. \A i \in Runs \ {j} : /\ Held(i)' = {} /\ Held(i) = {}
                              /\ One(StopHolds(i)) = 0 /\ One(StopHolds(i))' = 0
    BY <1>j, <1>u DEF Held, StopHolds, One
  <2>2. \A i \in Runs : /\ One(RunHolds(i))' = One(RunHolds(i))
                        /\ One(request.active = i)' = One(request.active = i)
    BY <1>u DEF RunHolds, One
  <2> QED
    BY <2>1, <2>2 DEF Owners
<1>s. Sound(transfers[j], Held(j), Owners(j))
  BY <1>t
<1>1. CASE StopTakes
  <2>1. /\ stopper.pc = "take" /\ stopper'.pc = "shut" /\ Held(j) = {}
        /\ stopper'.holds = transfers[j].fields \cap {"request"}
        /\ transfers' = [transfers EXCEPT ![j] = Taken(transfers[j])]
    BY <1>1, <1>j DEF StopTakes, StopperOK, Held
  <2>2. StopperOK'
    <3> DEFINE away == transfers[j].fields \cap {"request"}
    <3>1. stopper' = [stopper EXCEPT !.pc = "shut", !.holds = away] /\ away \in SUBSET {"request"}
      BY <1>1, <1>j DEF StopTakes
    <3> HIDE DEF away
    <3> QED
      BY <1>j, <1>u, <2>1, <3>1 DEF StopperOK, StoppingIn
  <2>3. Owners(j)' = Owners(j) /\ Held(j)' = transfers[j].fields \cap {"request"}
    BY <1>j, <1>u, <1>o, <2>1 DEF Owners, StopHolds, StoppingIn, Held
  <2>4. Sound(Taken(transfers[j]), Held(j)', Owners(j)')
    BY <1>s, <1>n, <2>1, <2>3, TakenAway
  <2> QED
    BY <1>t, <1>o, <1>e, <2>1, <2>2, <2>4, OneChanges
<1>2. CASE StopShuts
  <2>1. /\ stopper.pc = "shut" /\ stopper'.pc = "release" /\ Held(j) = stopper.holds
        /\ stopper'.holds = {}
        /\ transfers' = [transfers EXCEPT ![j] = Shut(transfers[j], Held(j))]
    BY <1>2, <1>j DEF StopShuts, StopperOK, Held
  <2>2. StopperOK'
    BY <1>j, <1>u, <2>1, <1>2 DEF StopperOK, StoppingIn, StopShuts
  <2>3. Owners(j)' = Owners(j) /\ Held(j)' = {}
    BY <1>j, <1>u, <1>o, <2>1 DEF Owners, StopHolds, StoppingIn, Held
  <2>4. Sound(Shut(transfers[j], Held(j)), Held(j)', Owners(j)')
    BY <1>s, <1>n, <1>h, <2>3, ShutByStop
  <2> QED
    BY <1>t, <1>o, <1>e, <2>1, <2>2, <2>4, OneChanges
<1>3. CASE StopReleases
  <2>1. /\ stopper.pc = "release" /\ stopper'.pc = "back" /\ Held(j) = {} /\ Held(j)' = {}
        /\ transfers' = [transfers EXCEPT ![j] = Release(transfers[j])]
    BY <1>3, <1>j, <1>u DEF StopReleases, StopperOK, Held
  <2>2. StopperOK'
    BY <1>3, <1>u DEF StopReleases, StopperOK, StoppingIn
  <2>3. Owners(j) = Owners(j)' + 1
    <3>1. StopHolds(j) /\ ~StopHolds(j)'
      BY <1>j, <2>1 DEF StopHolds, StoppingIn
    <3> QED
      BY <1>u, <1>o, <3>1 DEF Owners, One
  <2>4. Sound(Release(transfers[j]), Held(j)', Owners(j)')
    BY <1>s, <1>n, <2>1, <2>3, Released
  <2> QED
    BY <1>t, <1>o, <1>e, <2>1, <2>2, <2>4, OneChanges
<1> QED
  BY <1>1, <1>2, <1>3 DEF StopNext

-----------------------------------------------------------------------------
(***************************************************************************)
(* WinHTTP, whose threads change the Transfer they were given only.        *)
(***************************************************************************)
LEMMA WinHttpKeeps == ASSUME Inv, WinHttpNext PROVE Inv'
<1> USE DEF Inv
<1>t. RecordsOK /\ \A i \in Runs : Sound(transfers[i], Held(i), Owners(i))
  BY DEF RecordsOK
<1>n. \A i : Owners(i) \in Nat
  BY OwnersCount
<1>u. UNCHANGED <<request, runner, stopper>>
  BY DEF WinHttpNext, WinHttpReports, CallbackRuns, HandleClosing
<1>o. RunnerOK' /\ RequestOK' /\ StopperOK'
  BY <1>u DEF RunnerOK, Begun, RequestOK, StopperOK
<1>e. \A i \in Runs : Held(i)' = Held(i) /\ Owners(i)' = Owners(i)
  BY <1>u DEF Held, Owners, RunHolds, StopHolds
<1>j. PICK j \in Runs : WinHttpReports(j) \/ CallbackRuns(j) \/ \E h \in Handles : HandleClosing(j, h)
  BY DEF WinHttpNext
<1>s. Sound(transfers[j], Held(j), Owners(j)) /\ transfers[j] \in Transfers
  BY <1>t DEF Sound
<1>1. \E t : transfers' = [transfers EXCEPT ![j] = t] /\ Sound(t, Held(j), Owners(j))
  <2>1. CASE WinHttpReports(j)
    <3>1. PICK event \in {"cancelled", transfers[j].outstanding, "error"} :
            transfers' = [transfers EXCEPT ![j].callback = event, ![j].outstanding = "none"]
      BY <2>1 DEF WinHttpReports
    <3>2. transfers' =
            [transfers EXCEPT ![j] = [transfers[j] EXCEPT !.callback = event, !.outstanding = "none"]]
      BY <3>1, <1>t DEF RecordsOK
    <3>3. transfers[j].outstanding # "none"
      BY <2>1 DEF WinHttpReports
    <3>4. Sound([transfers[j] EXCEPT !.callback = event, !.outstanding = "none"], Held(j), Owners(j))
      BY <1>s, <1>n, <3>3, Reported
    <3> QED
      BY <3>2, <3>4
  <2>2. CASE CallbackRuns(j)
    BY <1>s, <1>n, <2>2, Answered DEF CallbackRuns
  <2>3. CASE \E h \in Handles : HandleClosing(j, h)
    <3>1. PICK h \in Handles : HandleClosing(j, h)
      BY <2>3
    <3>2. Sound([Release(transfers[j]) EXCEPT !.closing = transfers[j].closing \ {h}],
                Held(j), Owners(j))
      BY <1>s, <1>n, <3>1, ClosingSeen DEF HandleClosing
    <3> QED
      BY <3>1, <3>2 DEF HandleClosing
  <2> QED
    BY <1>j, <2>1, <2>2, <2>3
<1> QED
  BY <1>t, <1>o, <1>e, <1>1, OneChanges

-----------------------------------------------------------------------------
LEMMA Inductive == Inv /\ [Next]_vars => Inv'
<1> SUFFICES ASSUME Inv, [Next]_vars PROVE Inv'
  OBVIOUS
<1>1. CASE UNCHANGED vars
  BY <1>1 DEF vars, Inv, RunnerOK, Begun, RequestOK, StopperOK, RecordsOK, Held, Owners,
     RunHolds, StopHolds
<1> QED
  BY <1>1, RunKeeps, StopLooksKeeps, StopKeeps, WinHttpKeeps DEF Next

\* For every number of chunks and pieces, and whatever WinHTTP reports: the
\* references are at least the owners, so whoever can still reach a Transfer,
\* Run(), Stop(), m_active or a callback that is due, finds it alive
\* (http.cpp:123-165, 298-333, 407-521).
THEOREM NeverUsedAfterFree == Spec => []NoUseAfterFree
<1>1. Inv => NoUseAfterFree
  <2> SUFFICES ASSUME Inv PROVE NoUseAfterFree
    OBVIOUS
  <2>t. \A i \in Runs : Sound(transfers[i], Held(i), Owners(i))
    BY DEF Inv, RecordsOK
  <2>n. \A i \in Runs : Owners(i) \in Nat
    BY OwnersCount
  <2>1. \A i \in Runs : Owners(i) > 0 \/ HasRequest(transfers[i]) => transfers[i].refs > 0
    BY <2>t, <2>n DEF Sound, Transfers, One
  <2>2. \A i \in Runs : RunHolds(i) \/ request.active = i \/ StopHolds(i) => Owners(i) > 0
    BY DEF Owners, One
  <2>3. runner.pc \in RunningIn => Current.refs > 0
    BY <2>1, <2>2 DEF Inv, RunnerOK, RunHolds, Current
  <2>4. stopper.pc \in StoppingIn => transfers[stopper.t].refs > 0
    BY <2>1, <2>2 DEF Inv, StopperOK, StopHolds
  <2>5. request.active # 0 => transfers[request.active].refs > 0
    BY <2>1, <2>2 DEF Inv, RequestOK
  <2>6. \A i \in Runs :
          \/ HasRequest(transfers[i])
          \/ transfers[i].callback = "none" /\ transfers[i].outstanding = "none"
             /\ transfers[i].closing = {}
    BY <2>t DEF Sound, Transfers, HasRequest, Context
  <2> QED
    BY <2>1, <2>3, <2>4, <2>5, <2>6 DEF NoUseAfterFree, RunningIn, StoppingIn
<1> QED
  BY <1>1, Starts, Inductive, PTL DEF Spec

\* For every number of chunks and pieces: Stop() has away the request handle
\* or the Transfer names it, never both and never neither, so the two closes
\* cannot meet on one handle and none is lost (http.cpp:169-185, 321-329).
THEOREM OneHandForEachHandle == Spec => []HandlesInOneHand
<1>1. Inv => HandlesInOneHand
  BY DEF Inv, RecordsOK, Sound, Held, HandlesInOneHand
<1> QED
  BY <1>1, Starts, Inductive, PTL DEF Spec

-----------------------------------------------------------------------------
(***************************************************************************)
(* The composition.                                                        *)
(***************************************************************************)
\* Whichever component takes a step, the tasks take one of theirs or none.
LEMMA StepsAreUpstreams == [NetworkNext]_networkVars => [U!Next]_(U!vars)
BY DEF NetworkNext, Of, networkVars, upstreamVars, U!vars, U!task, U!token, U!cache

\* The tasks' part of a behaviour is one of Upstream.
LEMMA BehavesAsUpstream == NetworkSpec => U!Spec
<1>1. NetworkInit => U!Init
  BY DEF NetworkInit
<1>2. QED
  BY <1>1, StepsAreUpstreams, PTL DEF NetworkSpec, U!Spec

\* A socket is closed once, by its owner, and none outlives its query
\* (socket_utils.h:150-190, cancel.cpp:25-69).
THEOREM NetworkClosesSocketsOnce == NetworkSpec => []SocketsClosedOnce
<1>1. U!Spec => []U!TypeOK
  BY UpstreamInstance, U!TypeCorrect
<1>2. U!Spec => []U!ClosesItsOwn
  BY UpstreamInstance, U!ClosedByItsOwn
<1>3. U!Spec => []U!NothingLeaks
  BY UpstreamInstance, U!NoSocketLeaks
<1>4. U!TypeOK /\ U!ClosesItsOwn /\ U!NothingLeaks => SocketsClosedOnce
  BY DEF SocketsClosedOnce
<1>5. QED
  BY BehavesAsUpstream, <1>1, <1>2, <1>3, <1>4, PTL

\* One fetch for a provider, and its slot has it behind it
\* (dnscrypt_cert_cache.h:139-186).
THEOREM NetworkFetchesOnce == NetworkSpec => []OneFetchBehindTheSlot
<1>1. U!Spec => []U!OneFetchBehindTheSlot
  BY UpstreamInstance, U!OneFetch
<1>2. U!OneFetchBehindTheSlot => OneFetchBehindTheSlot
  BY DEF OneFetchBehindTheSlot
<1>3. QED
  BY BehavesAsUpstream, <1>1, <1>2, PTL
=============================================================================
