------------------------------ MODULE Transfer ------------------------------
(***************************************************************************)
(* The download of one update through Http::Request, and the Stop() that   *)
(* a Cancel button sends it: update/http.cpp, and the loop over a file's   *)
(* chunks and its one retry in update/client.cpp.                          *)
(*                                                                         *)
(* Three parties meet on a Transfer that nobody owns: the thread inside    *)
(* Run(), the thread inside Stop(), and the threads of WinHTTP, which run  *)
(* OnStatus.  Its lifetime is a count of references.  A callback is two    *)
(* steps, the event and what OnStatus does about it, so that Stop() can    *)
(* take the request handle away between them.                              *)
(*                                                                         *)
(* WinHTTP is external.  One operation at a time is outstanding on a       *)
(* request; it ends with its completion or with an error (every operation  *)
(* has a timeout); closing the request ends it with                        *)
(* ERROR_WINHTTP_OPERATION_CANCELLED; HANDLE_CLOSING is the last callback  *)
(* of a handle and brings the context that handle was given, or none.      *)
(***************************************************************************)
EXTENDS Naturals, FiniteSets

CONSTANTS
  Chunks,   \* the chunks of the file
  Pieces    \* the reads a body takes

ASSUME TransferAssumption == Chunks \in Nat \ {0} /\ Pieces \in Nat

Attempts == 2
Runs == 1..(Attempts * Chunks)     \* no pass makes more transfers than this

Handles == {"session", "connect", "request"}
Outcomes == {"Pending", "Ok", "Cancelled", "Failed"}
Completions == {"SENDREQUEST_COMPLETE", "HEADERS_AVAILABLE", "DATA_AVAILABLE", "READ_COMPLETE"}
Errors == {"cancelled", "error"}   \* REQUEST_ERROR and its dwError

VARIABLES
  transfers,   \* the Transfers made so far, by Run
  request,     \* the Http::Request: m_active (0: null) and m_cancelledBeforeStart
  runner,      \* the thread inside Run() and the loop around it
  stopper      \* the thread inside Stop()

vars == <<transfers, request, runner, stopper>>

Unmade == [refs |-> 0, made |-> FALSE, fields |-> {}, open |-> {}, closing |-> {},
           outstanding |-> "none", callback |-> "none", outcome |-> "Pending", body |-> 0]

(***************************************************************************)
(* refs, and what the callers do to it.  `fields' are the handles the      *)
(* Transfer names, `open' those WinHTTP still has open, `closing' those    *)
(* whose HANDLE_CLOSING is due and will find the Transfer.                 *)
(***************************************************************************)
AddRef(t) == [t EXCEPT !.refs = @ + 1]
Release(t) == [t EXCEPT !.refs = IF @ = 0 THEN 0 ELSE @ - 1]

Finish(t, o) == [t EXCEPT !.outcome = IF @ = "Pending" THEN o ELSE @]

\* Opening a handle; the program adds a reference for its HANDLE_CLOSING.
OpenedUncounted(t, h) == [t EXCEPT !.fields = @ \cup {h}, !.open = @ \cup {h}]
Opened(t, h) == [AddRef(t) EXCEPT !.fields = @ \cup {h}, !.open = @ \cup {h}]

\* Only the request is given the Transfer as its context; OnStatus returns at
\* once for the other two.
Context == {"request"}

\* WinHttpCloseHandle on some handles.
Shut(t, hs) ==
  [t EXCEPT !.open = @ \ hs,
            !.closing = @ \cup (hs \cap Context),
            !.outstanding = IF "request" \in hs /\ @ # "none" THEN "cancelled" ELSE @]

\* CloseHandles: take the fields under the lock, close outside it.
CloseHandles(t) == [Shut(t, t.fields) EXCEPT !.fields = {}]

(***************************************************************************)
(* Run().  Preparing touches nothing anybody else can see; it fails where  *)
(* the events, a handle or the redirect policy cannot be had.              *)
(***************************************************************************)
Fresh == [Unmade EXCEPT !.made = TRUE, !.refs = 1]

WithSession == Opened(Fresh, "session")
WithConnect == Opened(WithSession, "connect")
Prepared == Opened(WithConnect, "request")
Abandoned(t) == Release(CloseHandles(t))

Results == {"Ok", "Cancelled", "Failed"}
Current == transfers[runner.t]
Step(pc) == runner' = [runner EXCEPT !.pc = pc]
Update(t) == transfers' = [transfers EXCEPT ![runner.t] = t]

\* A Stop() that came first is honoured before anything is made.
RunCancelledBeforeStart ==
  /\ runner.pc = "run" /\ request.before
  /\ runner' = [runner EXCEPT !.pc = "returned", !.result = "Cancelled"]
  /\ UNCHANGED <<transfers, request, stopper>>

Begin(t) == [runner EXCEPT !.pc = "publish", !.t = t]

RunPrepares ==
  /\ runner.pc = "run" /\ ~request.before
  /\ runner' = Begin(runner.t + 1)
  /\ transfers' = [transfers EXCEPT ![runner.t + 1] = Prepared]
  /\ UNCHANGED <<request, stopper>>

RunCannotPrepare ==
  /\ runner.pc = "run" /\ ~request.before
  /\ runner' = [Begin(runner.t + 1) EXCEPT !.pc = "returned", !.result = "Failed"]
  /\ \E t \in {Fresh, WithSession, WithConnect} :
       transfers' = [transfers EXCEPT ![runner.t + 1] = Abandoned(t)]
  /\ UNCHANGED <<request, stopper>>

\* m_active and its reference.  The loop runs one transfer at a time, so the
\* refusal of a second one is never reached.
Publish ==
  /\ runner.pc = "publish" /\ request.active = 0
  /\ request' = [request EXCEPT !.active = runner.t]
  /\ runner' = [runner EXCEPT !.pc = "send", !.stopped = request.before]
  /\ Update(AddRef(Current))
  /\ UNCHANGED stopper

\* The request as the calls that use it find it: gone once Stop() took it.
Usable(t) == "request" \in t.fields /\ "request" \in t.open

SendRequest ==
  /\ runner.pc = "send"
  /\ IF runner.stopped THEN Update(Finish(Current, "Cancelled"))
     ELSE \/ Usable(Current) /\ Update([Current EXCEPT !.outstanding = "SENDREQUEST_COMPLETE"])
          \/ Update(Finish(Current, "Failed"))
  /\ Step("wait")
  /\ UNCHANGED <<request, stopper>>

\* The wait ends with a verdict.  The body goes to the caller if it is Ok; how
\* much came is not told apart, DownloadFile checks the chunk it is given.
WaitEnds ==
  /\ runner.pc = "wait" /\ Current.outcome # "Pending"
  /\ runner' = [runner EXCEPT !.pc = "close", !.result = Current.outcome]
  /\ UNCHANGED <<transfers, request, stopper>>

RunCloses ==
  /\ runner.pc = "close"
  /\ Update(CloseHandles(Current))
  /\ Step("clear")
  /\ UNCHANGED <<request, stopper>>

\* The caller's reference goes with the pointer, under the same lock.
ClearActive ==
  /\ runner.pc = "clear"
  /\ request' = [request EXCEPT !.active = 0]
  /\ Update(Release(Current))
  /\ Step("leave")
  /\ UNCHANGED stopper

Leave ==
  /\ runner.pc = "leave"
  /\ Update(Release(Current))
  /\ Step("returned")
  /\ UNCHANGED <<request, stopper>>

(***************************************************************************)
(* The loop: the chunks of the file in order, and once more from the first *)
(* after a fault, with the manifest fetched again.  The window is gone     *)
(* before the Request, so no Stop() is made after "done".                  *)
(***************************************************************************)
NextChunk ==
  /\ runner.pc = "returned" /\ runner.result = "Ok"
  /\ runner' = [runner EXCEPT !.pc = IF runner.chunk = Chunks THEN "done" ELSE "run",
                              !.chunk = IF runner.chunk = Chunks THEN @ ELSE @ + 1]
  /\ UNCHANGED <<transfers, request, stopper>>

DownloadCancelled ==
  /\ runner.pc = "returned" /\ runner.result = "Cancelled"
  /\ Step("done")
  /\ UNCHANGED <<transfers, request, stopper>>

\* A chunk that failed, or that came whole and was not the one expected.
DownloadStale ==
  /\ runner.pc = "returned" /\ runner.result \in {"Ok", "Failed"}
  /\ \/ /\ runner.attempt < Attempts
        /\ runner' = [runner EXCEPT !.pc = "run", !.attempt = @ + 1, !.chunk = 1]
     \/ runner' = [runner EXCEPT !.pc = "done", !.result = "Failed"]
  /\ UNCHANGED <<transfers, request, stopper>>

(***************************************************************************)
(* Stop(), once: the button sends it only for the first click.             *)
(***************************************************************************)
StopLooks ==
  /\ stopper.pc = "idle" /\ runner.pc # "done"
  /\ IF request.active = 0
     THEN /\ request' = [request EXCEPT !.before = TRUE]
          /\ stopper' = [stopper EXCEPT !.pc = "back"]
          /\ UNCHANGED transfers
     ELSE /\ transfers' = [transfers EXCEPT ![request.active] = AddRef(@)]
          /\ stopper' = [stopper EXCEPT !.pc = "take", !.t = request.active]
          /\ UNCHANGED request
  /\ UNCHANGED runner

TakenCopy(t) == t
Taken(t) == [t EXCEPT !.fields = @ \ {"request"}]

StopTakes ==
  /\ stopper.pc = "take"
  /\ stopper' = [stopper EXCEPT !.pc = "shut",
                                !.holds = transfers[stopper.t].fields \cap {"request"}]
  /\ transfers' = [transfers EXCEPT ![stopper.t] = Taken(@)]
  /\ UNCHANGED <<request, runner>>

StopShuts ==
  /\ stopper.pc = "shut"
  /\ transfers' = [transfers EXCEPT ![stopper.t] = Shut(@, stopper.holds)]
  /\ stopper' = [stopper EXCEPT !.pc = "release", !.holds = {}]
  /\ UNCHANGED <<request, runner>>

StopReleases ==
  /\ stopper.pc = "release"
  /\ transfers' = [transfers EXCEPT ![stopper.t] = Release(@)]
  /\ stopper' = [stopper EXCEPT !.pc = "back"]
  /\ UNCHANGED <<request, runner>>

(***************************************************************************)
(* WinHTTP and OnStatus.                                                   *)
(***************************************************************************)
WinHttpReports(i) ==
  LET t == transfers[i] IN
  /\ t.outstanding # "none" /\ t.callback = "none"
  /\ \E event \in IF t.outstanding = "cancelled" THEN {"cancelled"} ELSE {t.outstanding, "error"} :
       transfers' = [transfers EXCEPT ![i].callback = event, ![i].outstanding = "none"]
  /\ UNCHANGED <<request, runner, stopper>>

\* One more call on the request, or the verdict that it could not be made.
Call(t, completion) ==
  {Finish(t, "Failed")} \cup
  (IF Usable(t) THEN {[t EXCEPT !.outstanding = completion]} ELSE {})

\* DATA_AVAILABLE counts what is there, zero at the end of the body.
EndOfBody(t) == Finish(t, "Ok")
OnData(t) ==
  {EndOfBody(t)} \cup (IF t.body < Pieces THEN Call(t, "READ_COMPLETE") ELSE {})

\* The verdict of REQUEST_ERROR.
Verdict(error) == IF error = "cancelled" THEN "Cancelled" ELSE "Failed"

\* The status code is outside 200..299, or it is not and the body is asked for.
OnHeaders(t) == {Finish(t, "Failed")} \cup Call(t, "DATA_AVAILABLE")

\* A read appends under the lock; one that brings nothing ends the body.
OnRead(t) == {EndOfBody(t)} \cup Call([t EXCEPT !.body = @ + 1], "DATA_AVAILABLE")

OnStatus(t) ==
  CASE t.callback = "SENDREQUEST_COMPLETE" -> Call(t, "HEADERS_AVAILABLE")
    [] t.callback = "HEADERS_AVAILABLE" -> OnHeaders(t)
    [] t.callback = "DATA_AVAILABLE" -> OnData(t)
    [] t.callback = "READ_COMPLETE" -> OnRead(t)
    [] OTHER -> {Finish(t, Verdict(t.callback))}

CallbackRuns(i) ==
  /\ transfers[i].callback # "none"
  /\ \E t \in OnStatus(transfers[i]) :
       transfers' = [transfers EXCEPT ![i] = [t EXCEPT !.callback = "none"]]
  /\ UNCHANGED <<request, runner, stopper>>

\* Nothing more comes from a handle after its HANDLE_CLOSING.
HandleClosing(i, h) ==
  LET t == transfers[i] IN
  /\ h \in t.closing
  /\ t.outstanding = "none" /\ t.callback = "none"
  /\ transfers' = [transfers EXCEPT ![i] = [Release(t) EXCEPT !.closing = t.closing \ {h}]]
  /\ UNCHANGED <<request, runner, stopper>>

-----------------------------------------------------------------------------
Init ==
  /\ transfers = [i \in Runs |-> Unmade]
  /\ request = [active |-> 0, before |-> FALSE]
  /\ runner = [pc |-> "run", t |-> 0, stopped |-> FALSE, result |-> "Ok",
               chunk |-> 1, attempt |-> 1]
  /\ stopper = [pc |-> "idle", t |-> 0, holds |-> {}]

RunNext ==
  \/ RunCancelledBeforeStart \/ RunPrepares \/ RunCannotPrepare \/ Publish \/ SendRequest
  \/ WaitEnds \/ RunCloses \/ ClearActive \/ Leave
  \/ NextChunk \/ DownloadCancelled \/ DownloadStale
StopNext == StopTakes \/ StopShuts \/ StopReleases
WinHttpNext ==
  \E i \in Runs : WinHttpReports(i) \/ CallbackRuns(i) \/ \E h \in Handles : HandleClosing(i, h)

Next == RunNext \/ StopLooks \/ StopNext \/ WinHttpNext
Spec == Init /\ [][Next]_vars

\* Threads that can go on do, and WinHTTP ends what it began.  Nobody has to
\* press the button.
FairSpec == Spec /\ WF_vars(RunNext) /\ WF_vars(StopNext) /\ WF_vars(WinHttpNext)

-----------------------------------------------------------------------------
TypeOK ==
  /\ \A i \in Runs :
       /\ transfers[i].refs \in 0..6 /\ transfers[i].made \in BOOLEAN
       /\ transfers[i].fields \subseteq Handles /\ transfers[i].open \subseteq Handles
       /\ transfers[i].closing \subseteq Context
       /\ transfers[i].outstanding \in Completions \cup {"none", "cancelled"}
       /\ transfers[i].callback \in Completions \cup Errors \cup {"none"}
       /\ transfers[i].outcome \in Outcomes /\ transfers[i].body \in 0..Pieces
  /\ request.active \in {0} \cup Runs /\ request.before \in BOOLEAN
  /\ runner.pc \in {"run", "publish", "send", "wait", "close", "clear", "leave", "returned", "done"}
  /\ runner.t \in {0} \cup Runs /\ runner.result \in Results
  /\ stopper.pc \in {"idle", "take", "shut", "release", "back"} /\ stopper.holds \subseteq {"request"}

\* Nobody reaches a Transfer that has been deleted: not Run() until its last
\* Release, not a Stop() that met it, not a later Stop() through m_active, not
\* a callback, whatever order the four let go of it in (http.cpp:123-165).
NoUseAfterFree ==
  /\ runner.pc \in {"publish", "send", "wait", "close", "clear", "leave"} => Current.refs > 0
  /\ stopper.pc \in {"take", "shut", "release"} => transfers[stopper.t].refs > 0
  /\ request.active # 0 => transfers[request.active].refs > 0
  /\ \A i \in Runs :
       \/ transfers[i].refs > 0
       \/ transfers[i].callback = "none" /\ transfers[i].outstanding = "none"
          /\ transfers[i].closing = {}

\* An open handle is in exactly one hand, the Transfer's or Stop()'s, so that
\* the close of Stop() and the close of Run() can never hit the same handle,
\* and none is left to nobody (http.cpp:169-185 and 321-329).
HandlesInOneHand ==
  \A i \in Runs :
    LET held == IF stopper.t = i THEN stopper.holds ELSE {} IN
    /\ transfers[i].open = transfers[i].fields \cup held
    /\ transfers[i].fields \cap held = {}

\* Whatever WinHTTP answers and whenever the button is pressed, the download
\* comes to an end: no path of OnStatus leaves Run() waiting for a verdict that
\* nobody will give (http.cpp:190-277 and 486-498).
DownloadEnds == <>(runner.pc = "done")

(***************************************************************************)
(* Said of the program, and refuted by what it does: README, section 6.    *)
(***************************************************************************)
\* "First time only: this is what tells the download loop to stop."
\* (progress_window.cpp:497): a Stop() that has returned is not followed by
\* another transfer.
StopIsHeeded ==
  [][stopper.pc = "back" => \A i \in Runs : transfers'[i].made = transfers[i].made]_vars

\* "every open handle holds one and drops it on its HANDLE_CLOSING callback"
\* (http.h:109-110): once all is closed no Transfer is left.
EveryTransferFreed ==
  (/\ runner.pc = "done" /\ stopper.pc \in {"idle", "back"}
   /\ \A i \in Runs : transfers[i].closing = {}) => \A i \in Runs : transfers[i].refs = 0
=============================================================================
