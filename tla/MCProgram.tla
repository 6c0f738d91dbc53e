----------------------------- MODULE MCProgram -----------------------------
(***************************************************************************)
(* Three components that must not keep anybody waiting, in small           *)
(* instances: Desktop (the commands, gates, dialogs and windows), Children *)
(* (a child process, its pipes and its end) and FileWatcher (the watch     *)
(* over the rule file).  They share nothing, so a behaviour need only be   *)
(* one of them at work, named by `part'; the others stay as they begin.    *)
(***************************************************************************)
EXTENDS Naturals, Sequences, TLC

CONSTANTS
  Workers, MaxNest, Occasions,                   \* Desktop's
  Kids, Script, Lines, kMaxPendingBytes, Worlds, \* Children's
  MaxEdits, MaxStrays, Troubles                  \* FileWatcher's

VARIABLES
  part,
  updateBusy, cleanupBusy, up, opLock, place, cmd, was, told, mpc, window, attached, armed,
  inbox, nest, pending, request, abandoning, pw, owner, applying, cancelRequested, transfer,
  ui, occasions,
  env, procs, capture, written, readers, parent,
  trouble, version, loaded, content, since, strays, kernel, read, got, th, pendingReload,
  stopRequested, dirHandle, keeper

desktopVars ==
  <<updateBusy, cleanupBusy, up, opLock, place, cmd, was, told, mpc, window, attached, armed,
    inbox, nest, pending, request, abandoning, pw, owner, applying, cancelRequested, transfer,
    ui, occasions>>
childrenVars == <<env, procs, capture, written, readers, parent>>
watcherVars ==
  <<trouble, version, loaded, content, since, strays, kernel, read, got, th, pendingReload,
    stopRequested, dirHandle, keeper>>
programVars == <<part, desktopVars, childrenVars, watcherVars>>

(***************************************************************************)
(* Desktop: an update and the program's exit; gates against each other;    *)
(* commands whose services fail; windows and threads that cannot be had; a *)
(* busy UI thread.                                                         *)
(***************************************************************************)
MCOccasions ==
  {{"update", "down"}, {"update", "clean", "start"}, {"start", "stop", "uninstall", "down"},
   {"clean", "exit", "down"}, {"update", "nowindow", "clean"}, {"update", "slow"},
   {"update", "clean", "exit"}}

D == INSTANCE Desktop WITH
  pc <- place, outcome <- told, events <- occasions, Environments <- Occasions

(***************************************************************************)
(* Children: a line whose terminator is two bytes, and one that is longer  *)
(* than the bound and that nobody ends.  FileWatcher: three saves.         *)
(***************************************************************************)
MCScript == "stdout" :> <<"cr", "nl", "b", "c">> @@ "stderr" :> <<>>
MCLines == "stdout" :> <<<<>>, <<"b", "c">>>> @@ "stderr" :> <<>>

C == INSTANCE Children WITH owner <- parent, Environments <- Worlds

F == INSTANCE FileWatcher WITH env <- trouble, owner <- keeper, Environments <- Troubles

ASSUME ProgramAssumption ==
  /\ D!DesktopAssumption /\ C!ChildrenAssumption /\ F!FileWatcherAssumption

-----------------------------------------------------------------------------
ProgramInit ==
  /\ D!Init /\ C!Init /\ F!Init
  /\ part \in {"desktop", "children", "watcher"}
  /\ part # "desktop" => occasions = {"update", "down"} /\ up
  /\ part # "children" => env = {"fails"}
  /\ part # "watcher" => trouble = {}

Of(p) == part = p /\ UNCHANGED part
ProgramNext ==
  \/ Of("desktop") /\ D!Next /\ UNCHANGED <<childrenVars, watcherVars>>
  \/ Of("children") /\ C!Next /\ UNCHANGED <<desktopVars, watcherVars>>
  \/ Of("watcher") /\ F!Next /\ UNCHANGED <<desktopVars, childrenVars>>

ProgramSpec == ProgramInit /\ [][ProgramNext]_programVars

\* The fairness the three state.
FairProgramSpec ==
  /\ ProgramSpec
  /\ WF_desktopVars(Of("desktop") /\ D!Dispatch)
  /\ WF_desktopVars(Of("desktop") /\ D!Destroyed)
  /\ WF_desktopVars(Of("desktop") /\ D!Answer)
  /\ WF_desktopVars(Of("desktop") /\ D!RequestCancel)
  /\ WF_desktopVars(Of("desktop") /\ D!Exit)
  /\ \A w \in Workers :
       /\ WF_desktopVars(Of("desktop") /\ D!Worker(w))
       /\ SF_desktopVars(Of("desktop") /\ (D!Serve(w) \/ D!StopServices(w) \/ D!Restart(w)))
  /\ \A c \in C!Channel :
       WF_childrenVars(/\ Of("children")
                       /\ C!SealOpens(c) \/ C!ReadSome(c) \/ C!HandOver(c) \/ C!ReadEnds(c))
  /\ WF_childrenVars(Of("children") /\ C!OwnerNext)
  /\ WF_childrenVars(Of("children") /\ "stuck" \notin env /\ C!Deaths)
  /\ WF_watcherVars(Of("watcher") /\ F!LoopNext)
  /\ WF_watcherVars(Of("watcher") /\ F!Complete)
  /\ WF_watcherVars(Of("watcher") /\ F!StopNext)

-----------------------------------------------------------------------------
\* What a worker lends the UI thread, a request or the state of its progress
\* window, is reached by nobody once the worker has gone on, and it is not kept
\* waiting for an answer nobody will give; every variable has its type
\* (Desktop: dialogs.cpp:49-51, 94-101, 202-212, progress_window.cpp:762-828).
RequestsAnsweredInTime ==
  part = "desktop" =>
    /\ D!TypeOK /\ D!RequestsOutliveTheirUse
    /\ D!NobodyLeftWaiting /\ D!WindowGoneBeforeItsState

\* An update leaves the services as it found them or says that it could not
\* (Desktop: controller.cpp:213-236).
ServicesAsFound == part = "desktop" => D!ServicesAsFound

\* Stopped means over: nothing a contained child started is left running
\* (Children: process.cpp:250-251), and no read of the directory is outstanding
\* into a frame or through a handle that is gone (FileWatcher:
\* file_watcher.cpp:129-132, 194-200).
StoppedMeansOver ==
  /\ part = "children" => C!StoppedIsGone
  /\ part = "watcher" => F!TypeOK /\ F!NoReadOutlivesItsFrame

\* Everything a child wrote is delivered before its stop returns, in whole
\* lines, and no more than the bound is kept of an unfinished one (Children:
\* process.cpp:298, child_output.cpp:300-335).
WrittenInWholeLines ==
  part = "children" => C!TypeOK /\ C!LinesAreWhole /\ C!StoppedMeansDelivered

\* Whoever waits gets on: a reader that was given up comes to its end (Children:
\* process.cpp:329-362), a save of the rule file is reloaded and a Stop() wakes
\* the watch wherever it is (FileWatcher: file_watcher.cpp:83-117, 147-192), the
\* gates are given back, and a program that leaves its message loop ends
\* (Desktop: controller.cpp:78-95, main.cpp:187-192).
EverybodyGetsOn ==
  /\ part = "desktop" => D!GatesReleased /\ D!ExitEnds
  /\ part = "children" => C!ReadersEnd
  /\ part = "watcher" => F!EditsAreReloaded /\ F!StopReturns
=============================================================================
