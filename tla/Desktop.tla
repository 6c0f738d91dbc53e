------------------------------ MODULE Desktop ------------------------------
(***************************************************************************)
(* The tray, its commands and its windows: src/src/app/controller.cpp,     *)
(* src/src/ui/tray.cpp, src/src/platform/dialogs.cpp, the protocol of      *)
(* src/src/ui/progress_window.cpp and the end of wWinMain.                 *)
(*                                                                         *)
(* One thread owns every window. It dispatches the messages posted to the  *)
(* tray window, shows dialogs for others in nested message loops, and at   *)
(* the end takes the program down. Commands run on detached workers, which *)
(* post to it and wait for it, and which it must not touch once they have  *)
(* gone on: requests live on the worker's stack, and the progress window   *)
(* uses the worker's state and transfer.                                   *)
(*                                                                         *)
(* The services are up or down; the work of an update is its phases.       *)
(***************************************************************************)
EXTENDS Naturals, Sequences, SequencesExt

CONSTANTS
  Workers,      \* the detached threads there can be at a time
  MaxNest,      \* how many dialogs the UI thread shows inside one another
  Environments  \* which of EventNames may happen together, case by case

Commands == {"start", "stop", "clean", "update", "uninstall", "exit"}
EventNames == Commands \cup
  {"down",     \* the services cannot be started
   "nowindow", \* the progress window or a thread cannot be created
   "slow"}     \* the UI thread keeps a worker waiting beyond its patience

DesktopAssumption ==
  /\ MaxNest \in Nat \ {0} /\ Environments \subseteq SUBSET EventNames
  /\ {"nobody", "ui"} \cap Workers = {}

VARIABLES
  updateBusy, cleanupBusy, \* the gates
  up,          \* whether any service runs
  opLock,      \* the worker that holds the services' operationMutex
  pc,          \* where each worker is
  cmd,         \* the command it carries out
  was,         \* its wasRunning
  outcome,     \* what PerformUpdate returned to it
  mpc,         \* where wWinMain is, from its message loop on
  window,      \* whether the tray window exists
  attached,    \* whether the presenter is there
  armed,       \* whether the dialogs have a destination
  inbox,       \* the messages posted to the UI thread, in order
  nest,        \* the dialogs the UI thread is inside of, the innermost last
  pending,     \* g_pending
  request,     \* the state of each worker's request
  abandoning,  \* the requests Shutdown took and has still to abandon
  pw,          \* the progress window: "none", "open", "closing" (its handle gone
               \* and its WM_DESTROY still at work) or "closed"
  owner,       \* the worker whose state the progress window uses
  applying, cancelRequested,
  transfer,    \* the transfer it would stop: "running", "stopped" or "over"
  ui,          \* "pump", or "cancel" and "destroy" half-way through RequestCancel
               \* and the progress window's WM_DESTROY
  events       \* what this behaviour has to reckon with; chosen once

gates == <<updateBusy, cleanupBusy>>
services == <<up, opLock>>
work == <<pc, cmd, was, outcome>>
tray == <<mpc, window, attached, armed>>
dialogs == <<nest, pending, request, abandoning>>
progressWindow == <<pw, owner, applying, cancelRequested, transfer, ui>>
vars == <<gates, services, work, tray, inbox, dialogs, progressWindow, events>>

Nobody == "nobody"
UI == "ui"

Init ==
  /\ updateBusy = FALSE /\ cleanupBusy = FALSE
  /\ up \in BOOLEAN /\ opLock = Nobody
  /\ pc = [w \in Workers |-> "free"] /\ cmd = [w \in Workers |-> "none"]
  /\ was = [w \in Workers |-> FALSE] /\ outcome = [w \in Workers |-> "none"]
  /\ mpc = "loop" /\ window = TRUE /\ attached = TRUE /\ armed = TRUE
  /\ inbox = <<>> /\ nest = <<>>
  /\ pending = {} /\ request = [w \in Workers |-> "none"] /\ abandoning = {}
  /\ pw = "none" /\ owner = Nobody /\ applying = FALSE /\ cancelRequested = FALSE
  /\ transfer = "over" /\ ui = "pump"
  /\ events \in Environments

Pumping == mpc = "loop" /\ ui = "pump"
Goto(w, label) == pc' = [pc EXCEPT ![w] = label]
At(w, labels) == mpc # "exited" /\ pc[w] \in labels
-----------------------------------------------------------------------------
(***************************************************************************)
(* Commands                                                                *)
(***************************************************************************)

\* A command comes behind what is posted already, the end of the window among
\* it.
Commanded == Pumping /\ window /\ \A i \in 1..Len(inbox) : inbox[i][1] # "close"

\* A menu opened before an update began still offers every command.
Spawn(w, c, label) ==
  /\ pc[w] = "free"
  /\ pc' = [pc EXCEPT ![w] = label] /\ cmd' = [cmd EXCEPT ![w] = c]
  /\ UNCHANGED <<was, outcome>>

Busy == updateBusy \/ cleanupBusy

\* A gate is read and set in one step.
Claim(gate) == ~gate

DoStart ==
  /\ "start" \in events /\ Commanded /\ ~Busy
  /\ \E w \in Workers : Spawn(w, "start", "services")
  /\ UNCHANGED <<gates, services, tray, inbox, dialogs, progressWindow, events>>

DoStop ==
  /\ "stop" \in events /\ Commanded /\ ~Busy
  /\ \E w \in Workers : Spawn(w, "stop", "services")
  /\ UNCHANGED <<gates, services, tray, inbox, dialogs, progressWindow, events>>

DoCleanCache ==
  /\ "clean" \in events /\ Commanded /\ Claim(cleanupBusy)
  /\ \/ cleanupBusy' = TRUE /\ \E w \in Workers : Spawn(w, "clean", "services")
     \/ "nowindow" \in events /\ UNCHANGED <<cleanupBusy, work>>
  /\ UNCHANGED <<updateBusy, services, tray, inbox, dialogs, progressWindow, events>>

\* DoCheckUpdate, StartSilentUpdateCheck and DoRepairIfNeeded.
DoCheckUpdate ==
  /\ "update" \in events /\ Commanded /\ Claim(updateBusy)
  /\ \/ updateBusy' = TRUE /\ \E w \in Workers : Spawn(w, "update", "fetch")
     \/ "nowindow" \in events /\ UNCHANGED <<updateBusy, work>>
  /\ UNCHANGED <<cleanupBusy, services, tray, inbox, dialogs, progressWindow, events>>

\* The gates are looked at before the question, which pumps messages.
DoUninstall ==
  /\ "uninstall" \in events /\ Commanded /\ ~Busy
  /\ UI \notin Range(nest) /\ Len(nest) < MaxNest
  /\ nest' = Append(nest, UI)
  /\ UNCHANGED <<gates, services, work, tray, inbox, pending, request, abandoning,
                 progressWindow, events>>

Post(message) == inbox' = IF window THEN Append(inbox, message) ELSE inbox

\* RequestQuit, by the menu.
RequestExit ==
  /\ "exit" \in events /\ Commanded
  /\ Post(<<"close", UI>>)
  /\ UNCHANGED <<gates, services, work, tray, dialogs, progressWindow, events>>
-----------------------------------------------------------------------------
(***************************************************************************)
(* What the workers do                                                     *)
(***************************************************************************)

\* Dialogs::Show, to be answered and then to go on with what follows.
Ask(w) == Goto(w, "ask")

\* Mutant: a cleanup that failed keeps the operation mutex.
UnlockIfUp(w) == opLock' = IF up' THEN Nobody ELSE w
Unlock(w) == opLock' = Nobody

Release(w) ==
  /\ Goto(w, "free") /\ cmd' = [cmd EXCEPT ![w] = "none"]
  /\ updateBusy' = (updateBusy /\ cmd[w] # "update")
  /\ cleanupBusy' = (cleanupBusy /\ cmd[w] # "clean")

\* Services::Start, Stop or CleanCache under its lock; a cleanup takes the
\* services down and up again.
Serve(w) ==
  /\ At(w, {"services"}) /\ opLock = Nobody
  /\ CASE cmd[w] = "start" ->
            \/ up' = TRUE /\ Goto(w, "release") /\ UNCHANGED opLock
            \/ "down" \in events /\ Ask(w) /\ UNCHANGED <<up, opLock>>
       [] cmd[w] = "stop" -> up' = FALSE /\ Goto(w, "release") /\ UNCHANGED opLock
       [] cmd[w] = "uninstall" -> up' = FALSE /\ Goto(w, "quit") /\ UNCHANGED opLock
       [] cmd[w] = "clean" ->
            /\ up' = FALSE /\ opLock' = w /\ Goto(w, IF up THEN "restart" ELSE "cleaned")
  /\ UNCHANGED <<gates, cmd, was, outcome, tray, inbox, dialogs, progressWindow, events>>

CleanEnds(w) ==
  /\ At(w, {"restart", "cleaned"})
  /\ \/ pc[w] = "restart" /\ up' = TRUE /\ Goto(w, "release")
     \/ pc[w] = "restart" /\ "down" \in events /\ UNCHANGED up /\ Ask(w)
     \/ pc[w] = "cleaned" /\ UNCHANGED up /\ Goto(w, "release")
  /\ Unlock(w)
  /\ UNCHANGED <<gates, cmd, was, outcome, tray, inbox, dialogs, progressWindow, events>>

\* FetchManifest: nothing to do, a question to ask, or an error to report.
Fetch(w) ==
  /\ At(w, {"fetch"}) /\ Ask(w)
  /\ outcome' = [outcome EXCEPT ![w] = "asked"]
  /\ UNCHANGED <<gates, services, cmd, was, tray, inbox, dialogs, progressWindow, events>>

\* Whether there is anything to stop and to bring back is read before the
\* download.
Confirmed(w) ==
  /\ At(w, {"begin"})
  /\ was' = [was EXCEPT ![w] = up]
  /\ IF attached /\ window
     THEN /\ owner' = w /\ Post(<<"begin", w>>) /\ Goto(w, "opening")
          /\ applying' = FALSE /\ cancelRequested' = FALSE /\ pw' = "none"
     ELSE Goto(w, "download") /\ UNCHANGED <<owner, inbox, applying, cancelRequested, pw>>
  /\ transfer' = "running"
  /\ UNCHANGED <<gates, services, cmd, outcome, tray, dialogs, ui, events>>

\* Begin returns once the window exists, could not be created, or did not
\* come within ten seconds, as it cannot when the tray window has gone.
Opened(w) ==
  /\ At(w, {"opening"})
  /\ \/ pw # "none"
     \/ <<"begin", w>> \notin Range(inbox) \/ "slow" \in events
  /\ Goto(w, "download")
  /\ owner' = IF pw = "open" THEN owner ELSE Nobody
  /\ UNCHANGED <<gates, services, cmd, was, outcome, tray, inbox, dialogs, pw, applying,
                 cancelRequested, transfer, ui, events>>

\* The download ends: cancelled if the transfer was stopped in time.
Downloaded(w) ==
  /\ At(w, {"download"})
  /\ \/ /\ Goto(w, "enterApply") /\ UNCHANGED outcome
     \/ /\ transfer = "stopped" /\ Goto(w, "end")
        /\ outcome' = [outcome EXCEPT ![w] = "Cancelled"]
     \/ /\ Ask(w) /\ outcome' = [outcome EXCEPT ![w] = "Failed"]
  /\ UNCHANGED <<gates, services, cmd, was, tray, inbox, dialogs, progressWindow, events>>

EnterApply(w) ==
  /\ At(w, {"enterApply"})
  /\ IF owner = w
     THEN applying' = TRUE /\ IF pw = "open" THEN Post(<<"apply", w>>) ELSE UNCHANGED inbox
     ELSE UNCHANGED <<applying, inbox>>
  /\ Goto(w, "stopServices")
  /\ UNCHANGED <<gates, services, cmd, was, outcome, tray, dialogs, pw, owner, cancelRequested,
                 transfer, ui, events>>

StopServices(w) ==
  /\ At(w, {"stopServices"}) /\ (was[w] => opLock = Nobody)
  /\ up' = (up /\ ~was[w]) /\ Goto(w, "apply")
  /\ UNCHANGED <<gates, opLock, cmd, was, outcome, tray, inbox, dialogs, progressWindow, events>>

Applied(w) ==
  /\ At(w, {"apply"})
  /\ \/ Ask(w) /\ outcome' = [outcome EXCEPT ![w] = "Failed"]
     \/ \E o \in {"Applied", "Swap"} :
          Goto(w, "end") /\ outcome' = [outcome EXCEPT ![w] = o]
  /\ UNCHANGED <<gates, services, cmd, was, tray, inbox, dialogs, progressWindow, events>>

\* End asks the UI thread to close the window and waits for it; a window whose
\* handle is gone needs neither.
EndWindow(w) ==
  /\ At(w, {"end"})
  /\ IF owner = w /\ pw = "open" THEN Post(<<"end", w>>) /\ Goto(w, "closing")
     ELSE Goto(w, "ended") /\ UNCHANGED inbox
  /\ UNCHANGED <<gates, services, cmd, was, outcome, tray, dialogs, progressWindow, events>>

\* End waits for the window to have gone.
Closed(w) == pw = "closed" \/ "slow" \in events

\* Then the window's state goes, and the transfer when ApplyUpdate returns.
WindowEnded(w) ==
  /\ At(w, {"closing", "ended"}) /\ (pc[w] = "closing" => Closed(w))
  /\ owner' = IF owner = w THEN Nobody ELSE owner
  /\ transfer' = "over"
  /\ Goto(w, CASE outcome[w] = "Cancelled" -> "release"
               [] outcome[w] = "Swap" -> "quit"
               [] OTHER -> "back")
  /\ UNCHANGED <<gates, services, cmd, was, outcome, tray, inbox, dialogs, pw, applying,
                 cancelRequested, ui, events>>

\* Mutant: the services come back after a success only.
BringBackApplied(w) == was[w] /\ ~up /\ outcome[w] = "Applied"
BringBack(w) == was[w] /\ ~up

Restart(w) ==
  /\ At(w, {"back"})
  /\ IF BringBack(w)
     THEN /\ opLock = Nobody
          /\ \/ up' = TRUE /\ Goto(w, "release") /\ UNCHANGED outcome
             \/ /\ "down" \in events /\ UNCHANGED up /\ Ask(w)
                /\ outcome' = [outcome EXCEPT ![w] = "reported"]
     ELSE Goto(w, "release") /\ UNCHANGED <<up, outcome>>
  /\ UNCHANGED <<gates, opLock, cmd, was, tray, inbox, dialogs, progressWindow, events>>

\* Quit, through a presenter that may have gone.
Quit(w) ==
  /\ At(w, {"quit"})
  /\ IF attached THEN Post(<<"close", w>>) ELSE UNCHANGED inbox
  /\ Goto(w, "release")
  /\ UNCHANGED <<gates, services, cmd, was, outcome, tray, dialogs, progressWindow, events>>

Finish(w) ==
  /\ At(w, {"release"})
  /\ Release(w)
  /\ outcome' = [outcome EXCEPT ![w] = "none"] /\ was' = [was EXCEPT ![w] = FALSE]
  /\ UNCHANGED <<services, tray, inbox, dialogs, progressWindow, events>>
-----------------------------------------------------------------------------
(***************************************************************************)
(* Dialogs                                                                 *)
(***************************************************************************)

\* What an answer leads to; yes matters to the question of an update alone.
Answered(w, yes) ==
  Goto(w, CASE cmd[w] = "update" /\ outcome[w] = "asked" /\ yes -> "begin"
            [] cmd[w] = "update" /\ outcome[w] = "Failed" -> "end"
            [] OTHER -> "release")

\* Mutant: the request of a post that failed stays registered.
DeregisterNot(w) == pending' = pending
Deregister(w) == pending' = pending \ {w}

Show(w) ==
  /\ At(w, {"ask"})
  /\ Goto(w, IF armed THEN "register" ELSE "inline")
  /\ UNCHANGED <<gates, services, cmd, was, outcome, tray, inbox, dialogs, progressWindow, events>>

Register(w) ==
  /\ At(w, {"register"})
  /\ pending' = pending \cup {w} /\ request' = [request EXCEPT ![w] = "Queued"]
  /\ Goto(w, "registered")
  /\ UNCHANGED <<gates, services, cmd, was, outcome, tray, inbox, nest, abandoning,
                 progressWindow, events>>

CheckAbandoned(w) ==
  /\ At(w, {"registered"})
  /\ IF request[w] = "Abandoned" THEN Deregister(w) /\ Answered(w, FALSE)
     ELSE Goto(w, "post") /\ UNCHANGED pending
  /\ UNCHANGED <<gates, services, cmd, was, outcome, tray, inbox, nest, request, abandoning,
                 progressWindow, events>>

PostRequest(w) ==
  /\ At(w, {"post"})
  /\ IF window THEN Post(<<"show", w>>) /\ Goto(w, "waiting") /\ UNCHANGED pending
     ELSE Deregister(w) /\ Goto(w, "inline") /\ UNCHANGED inbox
  /\ UNCHANGED <<gates, services, cmd, was, outcome, tray, nest, request, abandoning,
                 progressWindow, events>>

\* A dialog of the worker's own thread, whenever its user answers.
AnswerInline(w) ==
  /\ At(w, {"inline"}) /\ \E yes \in BOOLEAN : Answered(w, yes)
  /\ UNCHANGED <<gates, services, cmd, was, outcome, tray, inbox, dialogs, progressWindow, events>>

Woken(w) ==
  /\ At(w, {"waiting"}) /\ request[w] # "Queued"
  /\ \E yes \in BOOLEAN : (request[w] = "Abandoned" => ~yes) /\ Answered(w, yes)
  /\ request' = [request EXCEPT ![w] = "none"]
  /\ UNCHANGED <<gates, services, cmd, was, outcome, tray, inbox, nest, pending, abandoning,
                 progressWindow, events>>
-----------------------------------------------------------------------------
(***************************************************************************)
(* The UI thread                                                           *)
(***************************************************************************)

\* The owner's end is the end of every window it owns, and of what is queued
\* for them.
DestroyWindow ==
  /\ window' = FALSE /\ inbox' = <<>>
  /\ IF pw = "open" THEN pw' = "closing" /\ ui' = "destroy" ELSE UNCHANGED <<pw, ui>>

Dispatch ==
  /\ Pumping /\ inbox # <<>>
  /\ LET kind == Head(inbox)[1] who == Head(inbox)[2] IN
     \/ /\ kind = "show" /\ Len(nest) < MaxNest
        /\ Deregister(who) /\ nest' = Append(nest, who)
        /\ inbox' = Tail(inbox) /\ UNCHANGED <<window, pw, ui>>
     \/ /\ kind = "begin"
        /\ \/ pw' = "open"
           \/ "nowindow" \in events /\ pw' = "closed"
        /\ inbox' = Tail(inbox) /\ UNCHANGED <<nest, pending, window, ui>>
     \/ /\ kind = "end" /\ pw' = "closing" /\ ui' = "destroy"
        /\ inbox' = Tail(inbox) /\ UNCHANGED <<nest, pending, window>>
     \/ /\ kind = "apply"
        /\ inbox' = Tail(inbox) /\ UNCHANGED <<nest, pending, window, pw, ui>>
     \/ /\ kind = "close" /\ DestroyWindow /\ UNCHANGED <<nest, pending>>
  /\ UNCHANGED <<gates, services, work, mpc, attached, armed, request, abandoning, owner,
                 applying, cancelRequested, transfer, events>>

\* The rest of WM_DESTROY, which uses the state: its fonts and its event.
Destroyed ==
  /\ ui = "destroy" /\ ui' = "pump" /\ pw' = "closed"
  /\ UNCHANGED <<gates, services, work, tray, inbox, dialogs, owner, applying, cancelRequested,
                 transfer, events>>

\* The innermost dialog is answered, or its owner has gone; a confirmed
\* uninstall goes to a worker.
Answer ==
  /\ Pumping /\ nest # <<>>
  /\ LET who == Last(nest) IN
     /\ nest' = Front(nest)
     /\ IF who = UI
        THEN /\ \/ UNCHANGED work
                \/ Commanded /\ \E w \in Workers : Spawn(w, "uninstall", "services")
             /\ UNCHANGED request
        ELSE /\ request' = [request EXCEPT ![who] = "Completed"] /\ UNCHANGED work
  /\ UNCHANGED <<gates, services, tray, inbox, pending, abandoning, progressWindow, events>>

\* A click on Cancel, Esc or the close box.
CancelClick ==
  /\ Pumping /\ pw = "open" /\ ~applying /\ ~cancelRequested
  /\ ui' = "cancel"
  /\ UNCHANGED <<gates, services, work, tray, inbox, dialogs, pw, owner, applying,
                 cancelRequested, transfer, events>>

RequestCancel ==
  /\ ui = "cancel" /\ ui' = "pump" /\ cancelRequested' = TRUE
  /\ transfer' = IF transfer = "running" THEN "stopped" ELSE transfer
  /\ UNCHANGED <<gates, services, work, tray, inbox, dialogs, pw, owner, applying, events>>

LoopEnds ==
  /\ Pumping /\ ~window /\ nest = <<>> /\ mpc' = "stop"
  /\ UNCHANGED <<gates, services, work, window, attached, armed, inbox, dialogs, progressWindow,
                 events>>

\* wWinMain stops what runs, if anything does.
StopAtExit ==
  /\ mpc = "stop" /\ (up => opLock = Nobody)
  /\ up' = FALSE /\ mpc' = "detach"
  /\ UNCHANGED <<gates, opLock, work, window, attached, armed, inbox, dialogs, progressWindow,
                 events>>

Detach ==
  /\ mpc = "detach" /\ mpc' = "disarm" /\ attached' = FALSE
  /\ UNCHANGED <<gates, services, work, window, armed, inbox, dialogs, progressWindow, events>>

Disarm ==
  /\ mpc = "disarm" /\ mpc' = "swap" /\ armed' = FALSE
  /\ UNCHANGED <<gates, services, work, window, attached, inbox, dialogs, progressWindow, events>>

SwapPending ==
  /\ mpc = "swap" /\ mpc' = "abandon"
  /\ abandoning' = pending /\ pending' = {}
  /\ UNCHANGED <<gates, services, work, window, attached, armed, inbox, nest, request,
                 progressWindow, events>>

Abandon ==
  /\ mpc = "abandon"
  /\ IF abandoning = {} THEN mpc' = "runtime" /\ UNCHANGED <<request, abandoning>>
     ELSE \E w \in abandoning :
            /\ request' = [request EXCEPT ![w] = "Abandoned"]
            /\ abandoning' = abandoning \ {w} /\ UNCHANGED mpc
  /\ UNCHANGED <<gates, services, work, window, attached, armed, inbox, nest, pending,
                 progressWindow, events>>

\* The Runtime's destructor waits for calls into the services to return; the
\* end of the process is the end of its threads.
ProcessEnds ==
  /\ mpc = "runtime" /\ opLock = Nobody /\ mpc' = "exited" /\ up' = FALSE
  /\ UNCHANGED <<gates, opLock, work, window, attached, armed, inbox, dialogs, progressWindow,
                 events>>

Command ==
  DoStart \/ DoStop \/ DoCleanCache \/ DoCheckUpdate \/ DoUninstall \/ RequestExit
Update(w) ==
  \/ Fetch(w) \/ Confirmed(w) \/ Opened(w) \/ Downloaded(w) \/ EnterApply(w)
  \/ StopServices(w) \/ Applied(w) \/ EndWindow(w) \/ WindowEnded(w) \/ Restart(w) \/ Quit(w)
Request(w) ==
  Show(w) \/ Register(w) \/ CheckAbandoned(w) \/ PostRequest(w) \/ AnswerInline(w) \/ Woken(w)
Worker(w) == Serve(w) \/ CleanEnds(w) \/ Update(w) \/ Request(w) \/ Finish(w)
Exit == LoopEnds \/ StopAtExit \/ Detach \/ Disarm \/ SwapPending \/ Abandon \/ ProcessEnds

Next ==
  \/ Command \/ CancelClick
  \/ Dispatch \/ Destroyed \/ Answer \/ RequestCancel \/ Exit
  \/ \E w \in Workers : Worker(w)

Spec == Init /\ [][Next]_vars

\* Threads run, messages are dispatched, a user answers what is asked, and a
\* mutex given back between one command of a user and the next is had in the
\* end.
FairSpec ==
  /\ Spec
  /\ WF_vars(Dispatch) /\ WF_vars(Destroyed) /\ WF_vars(Answer) /\ WF_vars(RequestCancel) /\ WF_vars(Exit)
  /\ \A w \in Workers :
       WF_vars(Worker(w)) /\ SF_vars(Serve(w) \/ StopServices(w) \/ Restart(w))
-----------------------------------------------------------------------------
(***************************************************************************)
(* Properties                                                              *)
(***************************************************************************)

\* One progress window and one cleanup are enough only while no two workers
\* carry one out.
OneAtATime ==
  \A c \in {"update", "clean"} : \A v, w \in Workers : cmd[v] = c /\ cmd[w] = c => v = w

Typed ==
  /\ {updateBusy, cleanupBusy, up, window, attached, armed, applying, cancelRequested}
       \subseteq BOOLEAN
  /\ opLock \in Workers \cup {Nobody} /\ owner \in Workers \cup {Nobody}
  /\ pc \in [Workers -> {"free", "services", "restart", "cleaned", "fetch", "begin", "opening",
              "download", "enterApply", "stopServices", "apply", "end", "closing", "ended", "back",
              "quit", "release", "ask", "register", "registered", "post", "inline", "waiting"}]
  /\ cmd \in [Workers -> Commands \cup {"none"}] /\ was \in [Workers -> BOOLEAN]
  /\ outcome \in [Workers -> {"none", "asked", "Cancelled", "Failed", "Applied", "Swap",
                              "reported"}]
  /\ mpc \in {"loop", "stop", "detach", "disarm", "swap", "abandon", "runtime", "exited"}
  /\ inbox \in Seq({"show", "begin", "apply", "end", "close"} \X (Workers \cup {UI}))
  /\ nest \in Seq(Workers \cup {UI}) /\ Len(nest) <= MaxNest
  /\ pending \subseteq Workers /\ abandoning \subseteq Workers
  /\ request \in [Workers -> {"none", "Queued", "Completed", "Abandoned"}]
  /\ pw \in {"none", "open", "closing", "closed"} /\ transfer \in {"running", "stopped", "over"}
  /\ ui \in {"pump", "cancel", "destroy"} /\ events \in Environments

TypeOK == OneAtATime /\ Typed

Blocked == {"registered", "post", "waiting"}

\* A request lives on its worker's stack. Whatever can still reach it, the
\* list of pending ones, a message in the queue or a dialog being shown,
\* belongs to a worker that has not gone on (dialogs.cpp:49-51, 202-212).
RequestsOutliveTheirUse ==
  mpc # "exited" =>
    /\ \A w \in pending : pc[w] \in Blocked
    /\ \A w \in Workers :
         <<"show", w>> \in Range(inbox) \/ w \in Range(nest) =>
           pc[w] = "waiting" /\ request[w] = "Queued"

\* While the tray window is there and the UI thread answers within the worker's
\* patience, the progress window is gone before the state, the transfer and the
\* begin request it uses are (progress_window.cpp:762-777, 806-828).
WindowGoneBeforeItsState ==
  "slow" \notin events /\ window =>
    /\ ui # "pump" \/ pw = "open" => owner # Nobody
    /\ \A w \in Workers : <<"begin", w>> \in Range(inbox) => pc[w] = "opening"

\* With nothing but updates going on, an update leaves the services as it
\* found them or has told the user that it could not (controller.cpp:213-236).
ServicesAsFound ==
  \A w \in Workers :
    pc[w] = "release" /\ cmd[w] = "update" /\ mpc = "loop"
      /\ events \cap {"start", "stop", "clean", "uninstall"} = {}
      /\ outcome[w] \in {"Cancelled", "Failed", "Applied"} => up = was[w]

\* Once the dialogs are shut down nobody waits for an answer that nobody will
\* give (dialogs.cpp:94-101, 133-157).
NobodyLeftWaiting ==
  mpc \in {"runtime", "exited"} =>
    \A w \in Workers : pc[w] = "waiting" => request[w] # "Queued"

\* Whoever asks gets away: an update or a cleanup gives its gate back, whether
\* the question is answered, its window goes or the program ends
\* (controller.cpp:78-95).
GatesReleased ==
  /\ updateBusy ~> (~updateBusy \/ mpc = "exited")
  /\ cleanupBusy ~> (~cleanupBusy \/ mpc = "exited")

\* The program that leaves its message loop ends (main.cpp:187-192).
ExitEnds == (mpc = "stop") ~> (mpc = "exited")

(***************************************************************************)
(* What makes the safety properties inductive.                             *)
(***************************************************************************)
AskStates == {"ask", "register", "registered", "post", "inline", "waiting"}
WorkStates == {"opening", "download", "enterApply", "stopServices", "apply"}
EndStates == {"end", "closing", "ended"}

\* A gate is closed while its command is carried out; a worker is where its
\* command takes it, and an update has the outcome that belongs there.
ShowsFailure(w) == pc[w] \in AskStates /\ outcome[w] = "Failed"

InCommand(w) ==
  /\ pc[w] = "free" <=> cmd[w] = "none"
  /\ pc[w] \in {"fetch", "begin", "back"} \cup WorkStates \cup EndStates => cmd[w] = "update"
  /\ pc[w] \in {"restart", "cleaned"} => cmd[w] = "clean"
  /\ pc[w] = "services" => cmd[w] \in {"start", "stop", "clean", "uninstall"}
  /\ cmd[w] \in events \cup {"none"}
  /\ cmd[w] # "update" => outcome[w] = "none"
  /\ cmd[w] = "update" =>
       /\ updateBusy
       /\ pc[w] \in AskStates => outcome[w] \in {"asked", "Failed", "reported"}
       /\ pc[w] \in {"begin"} \cup WorkStates => outcome[w] = "asked"
       /\ pc[w] \in EndStates => outcome[w] \in {"Cancelled", "Failed", "Applied", "Swap"}
       /\ pc[w] = "back" => outcome[w] \in {"Failed", "Applied"}
       /\ pc[w] = "quit" => outcome[w] = "Swap"
  /\ cmd[w] = "clean" => cleanupBusy

CommandsInOrder ==
  /\ \A w \in Workers : InCommand(w)
  /\ UI \in Range(nest) => "uninstall" \in events

\* Whoever may still wait when the program goes down is on the list, shown, or
\* taken from the list and to be abandoned.
Closing == {"abandon", "runtime", "exited"}

Once(s, T) == \A i, j \in 1..Len(s) : s[i] = s[j] /\ s[i] \in T => i = j

UIInOrder ==
  /\ ~window => inbox = <<>>
  /\ mpc # "loop" => ~window /\ nest = <<>>
  /\ mpc # "abandon" => abandoning = {}
  /\ \A m \in Range(inbox) : m[1] # "close" => m[2] \in Workers
  /\ Once(inbox, {"show"} \X Workers) /\ Once(nest, Workers)

RequestInOrder(w) ==
  /\ w \in pending => pc[w] \in Blocked
  /\ <<"show", w>> \in Range(inbox) =>
       w \notin Range(nest) /\ w \in pending /\ pc[w] = "waiting" /\ request[w] = "Queued"
  /\ w \in Range(nest) => w \notin pending /\ pc[w] = "waiting" /\ request[w] = "Queued"
  /\ pc[w] = "waiting" /\ w \in pending => request[w] = "Queued" /\ mpc \notin Closing
  /\ pc[w] = "waiting" /\ request[w] = "Queued" =>
       /\ mpc \notin Closing => w \in pending \/ w \in Range(nest)
       /\ mpc \in Closing => w \in abandoning
  /\ mpc \notin Closing => request[w] # "Abandoned"
  /\ mpc \notin Closing /\ pc[w] \in {"registered", "post"} => w \in pending /\ request[w] = "Queued"

RequestsInOrder == UIInOrder /\ \A w \in Workers : RequestInOrder(w)

\* A progress window belongs to an update from the request for it to its end.
WindowHasOwner ==
  /\ Once(inbox, {"begin", "end"} \X Workers)
  /\ ui = "destroy" <=> pw = "closing"
  /\ ui = "cancel" => pw = "open"
  /\ pw \in {"open", "closing"} => owner # Nobody
  /\ pw = "closing" => pc[owner] = "closing" /\ <<"end", owner>> \notin Range(inbox)

OwnerInOrder(w) ==
  /\ cmd[w] = "update"
  /\ pc[w] \in WorkStates \cup {"end", "closing"} \/ ShowsFailure(w)
  /\ pc[w] \notin {"opening", "closing"} => pw = "open"

WindowOf(w) ==
  /\ <<"begin", w>> \in Range(inbox) => pc[w] = "opening" /\ owner = w /\ pw = "none"
  /\ <<"end", w>> \in Range(inbox) => pc[w] = "closing" /\ owner = w /\ pw = "open"
  /\ pc[w] = "opening" => owner = w /\ (pw = "none" => <<"begin", w>> \in Range(inbox))

WindowInOrder ==
  "slow" \notin events /\ window =>
    /\ WindowHasOwner
    /\ owner # Nobody => OwnerInOrder(owner)
    /\ \A w \in Workers : WindowOf(w)

\* Nobody but the update itself starts or stops the services.
ServicesOf(w) ==
  /\ pc[w] \in {"opening", "download", "enterApply", "stopServices"} => up = was[w]
  /\ pc[w] \in {"apply", "back"} \cup EndStates \/ ShowsFailure(w) => (up => was[w])
  /\ pc[w] \in EndStates \cup {"release"} /\ outcome[w] = "Cancelled" => up = was[w]
  /\ pc[w] = "release" /\ outcome[w] \in {"Failed", "Applied"} => up = was[w]

Alone == events \cap {"start", "stop", "clean", "uninstall"} = {}

AloneWithServices ==
  mpc = "loop" /\ Alone => \A w \in Workers : cmd[w] = "update" => ServicesOf(w)

InOrder ==
  /\ TypeOK /\ CommandsInOrder /\ RequestsInOrder /\ WindowInOrder /\ AloneWithServices

(***************************************************************************)
(* Said of the program, and refuted by what it does: README, section 6.    *)
(***************************************************************************)
\* "an update or cleanup owns the service state" (controller.cpp:115).
UpdateOwnsServices ==
  \A w \in Workers : pc[w] = "apply" => ~up

\* "The payload cannot outlive the wait, and the UI thread cannot reach it
\* after the wait returns" (dialogs.cpp:49-51).
AbandonsOnlyTheWaiting ==
  mpc # "exited" => \A w \in abandoning : pc[w] \in Blocked \cup {"inline"}
=============================================================================
