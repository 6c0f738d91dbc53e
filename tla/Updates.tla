------------------------------ MODULE Updates ------------------------------
(***************************************************************************)
(* Updating and removing the install: PerformUpdate of                     *)
(* src/src/update/client.cpp, the end of an uninstall in                   *)
(* src/src/app/services.cpp, the work order and the embedded module that   *)
(* carries it out (src/src/updater/).                                      *)
(*                                                                         *)
(* Two processes and the disk between them. The program downloads every    *)
(* file that differs to <file>.new, moves the assets into place keeping    *)
(* <file>.bak, and leaves the executable to the updater, which waits for   *)
(* the program to be gone. The release behind the URL can be replaced at   *)
(* any time, files can be held open by others, and both processes and the  *)
(* machine can stop between any two steps; only the disk survives.         *)
(*                                                                         *)
(* A file's contents are a value; what the hash of a file tells apart is   *)
(* which value it is. A release says which contents each of its files has. *)
(***************************************************************************)
EXTENDS Naturals, FiniteSets

CONSTANTS
  Assets,       \* the data files a release may list
  Exe,          \* the executable
  Release,      \* release number -> the contents of each file it lists
  Installed,    \* what an asset may hold before anything happens
  MaxStops,     \* how often a process or the machine stops in a behaviour
  Environments, \* which of EventNames may happen together, case by case
  Absent, Partial, NotRunning

EventNames ==
  {"publish", \* another release takes the place of the one being served
   "net",     \* a transfer fails
   "cancel",  \* the user cancels the transfer
   "disk",    \* a staged file cannot be written
   "held",    \* other software keeps files of the install open
   "order",   \* the work order or the module cannot be written or started
   "slow",    \* the program takes more than kParentWaitMs to exit
   "locked",  \* the executable stays locked for more than kRetryWindowMs
   "kill",    \* a process is killed
   "reboot",  \* the machine restarts
   "remove",  \* the user uninstalls
   "again"}   \* the program is started while the updater is at work

Files == Assets \cup {Exe}
Releases == DOMAIN Release
Listed(r) == DOMAIN Release[r]
Contents == UNION {{Release[r][f] : f \in Listed(r)} : r \in Releases}
Slots == {"cur", "new", "bak"}

UpdatesAssumption ==
  /\ Exe \notin Assets /\ 0 \in Releases /\ Releases \subseteq Nat
  /\ \A r \in Releases : Listed(r) \subseteq Files /\ Exe \in Listed(r)
  /\ {Absent, Partial} \cap Contents = {} /\ Absent # Partial
  /\ Partial \notin Installed /\ NotRunning \notin Releases /\ MaxStops \in Nat
  /\ Environments \subseteq SUBSET EventNames

VARIABLES
  disk,      \* of each file, what is in its place, in <file>.new and in <file>.bak
  held,      \* the paths other software keeps open while files are moved
  doomed,    \* the slots of the executable that go at the next restart
  served,    \* the release behind the URL
  running,   \* the release whose executable runs, or NotRunning
  pc,        \* where PerformUpdate is
  current,   \* the release of the manifest it works from
  attempt,   \* the download pass, 0 or 1
  todo,      \* the files the pass has still to stage, or the apply to move
  file,      \* the file being staged or moved
  staged,    \* the files staged by this pass
  verified,  \* the contents the passes verified, by file
  allNew,    \* the files a .new was created for
  movedBak,  \* the assets that were moved to their .bak
  applied,   \* the assets that were replaced
  outcome,   \* what PerformUpdate returned
  before,    \* history: what was in place when it started
  plan,      \* the work order on disk: "none", "replace" or "remove"
  goal,      \* history: what the last order is to bring up; NotRunning for a removal
  module,    \* the extracted module: Absent, Partial or "whole"
  upc,       \* where the updater is
  stops,     \* how many stops there were
  events     \* what this behaviour has to reckon with; chosen once

progress == <<current, attempt, todo, file, staged, verified, allNew, movedBak, applied>>
client == <<pc, progress, outcome, before>>
updater == <<plan, goal, module, upc>>
vars == <<disk, held, doomed, served, running, client, updater, stops, events>>

None == "none"

Place(f) == disk[f].cur
InPlace == [f \in Files |-> Place(f)]

\* Memory a process starts with.
Fresh ==
  /\ current' = 0 /\ attempt' = 0 /\ todo' = {} /\ file' = Exe /\ staged' = {}
  /\ verified' = [f \in Files |-> Absent]
  /\ allNew' = {} /\ movedBak' = {} /\ applied' = {} /\ held' = {}

Init ==
  /\ disk \in [Files -> [cur : Installed \cup {Release[0][Exe]}, new : {Absent}, bak : {Absent}]]
  /\ Place(Exe) = Release[0][Exe] /\ \A f \in Assets : Place(f) \in Installed
  /\ held = {} /\ doomed = {} /\ served \in Releases /\ running = 0
  /\ pc = "idle" /\ current = 0 /\ attempt = 0 /\ todo = {} /\ file = Exe
  /\ staged = {} /\ verified = [f \in Files |-> Absent]
  /\ allNew = {} /\ movedBak = {} /\ applied = {}
  /\ outcome = None /\ before = InPlace
  /\ plan = None /\ goal = 0 /\ module \in {Absent, "whole"} /\ upc = None
  /\ stops = 0 /\ events \in Environments
-----------------------------------------------------------------------------
(***************************************************************************)
(* What has to change                                                      *)
(***************************************************************************)

\* The executable by version, compiled into the one that runs and as unequal
\* in either direction as it comes; the assets by what the disk holds.
Classify(r) == IF r = running THEN "None" ELSE IF r < running THEN "Downgrade" ELSE "Upgrade"
NeedsUpdate(f, r) ==
  IF f = Exe THEN Classify(r) # "None" ELSE Place(f) # Release[r][f]

\* A controller calls PerformUpdate with a manifest it fetched a question ago.
Begin ==
  /\ pc = "idle" /\ running # NotRunning
  /\ current' = served /\ attempt' = 0 /\ outcome' = None /\ before' = InPlace
  /\ verified' = [f \in Files |-> Absent] /\ allNew' = {}
  /\ movedBak' = {} /\ applied' = {}
  /\ pc' = "list"
  /\ UNCHANGED <<disk, held, doomed, served, running, todo, file, staged, updater, stops, events>>

\* A pass starts with the list of what differs, read off the disk again.
ListFiles ==
  /\ pc = "list"
  /\ todo' = {f \in Listed(current) : NeedsUpdate(f, current)}
  /\ staged' = {} /\ pc' = "next"
  /\ UNCHANGED <<disk, held, doomed, served, running, current, attempt, file, verified,
                 allNew, movedBak, applied, outcome, before, updater, stops, events>>
-----------------------------------------------------------------------------
(***************************************************************************)
(* Phase 1: download                                                       *)
(***************************************************************************)

Available(v) == v \in {Release[served][f] : f \in Listed(served)}

\* Mutant: what an earlier pass staged is reused whatever it was.
ReusableByName(f) == verified[f] # Absent /\ disk[f].new # Absent
Reusable(f) == verified[f] = Release[current][f] /\ disk[f].new # Absent

\* The next file of the pass: staged by the earlier pass, or opened afresh.
NextFile ==
  /\ pc = "next"
  /\ \E f \in todo :
       /\ todo' = todo \ {f} /\ file' = f /\ allNew' = allNew \cup {f}
       /\ IF Reusable(f)
          THEN /\ staged' = staged \cup {f}
               /\ UNCHANGED <<pc, disk>>
          ELSE /\ pc' = "fetch" /\ UNCHANGED staged
               /\ disk' = [disk EXCEPT ![f].new = Partial]
  /\ UNCHANGED <<held, doomed, served, running, current, attempt, verified, movedBak, applied,
                 outcome, before, updater, stops, events>>

\* Every chunk and then the file as a whole had the hash of the manifest.
FileVerified ==
  /\ pc = "fetch" /\ Available(Release[current][file])
  /\ disk' = [disk EXCEPT ![file].new = Release[current][file]]
  /\ verified' = [verified EXCEPT ![file] = Release[current][file]]
  /\ staged' = staged \cup {file} /\ pc' = "next"
  /\ UNCHANGED <<held, doomed, served, running, current, attempt, todo, file, allNew, movedBak,
                 applied, outcome, before, updater, stops, events>>

\* A chunk is gone, is not what the manifest says, or did not arrive: once,
\* the manifest is fetched and verified again and its files reconciled.
RemoteStale ==
  /\ pc = "fetch"
  /\ ~Available(Release[current][file]) \/ "net" \in events
  /\ pc' = IF attempt = 1 THEN "cleanFailed" ELSE "refetch"
  /\ UNCHANGED <<disk, held, doomed, served, running, progress, outcome, before, updater,
                 stops, events>>

Refetch ==
  /\ pc = "refetch"
  /\ \/ /\ current' = served /\ attempt' = attempt + 1 /\ pc' = "list"
     \/ /\ "net" \in events /\ pc' = "cleanFailed" /\ UNCHANGED <<current, attempt>>
  /\ UNCHANGED <<disk, held, doomed, served, running, todo, file, staged, verified, allNew,
                 movedBak, applied, outcome, before, updater, stops, events>>

\* A local failure is not retried, and neither is a cancellation.
FetchEnds ==
  /\ pc = "fetch"
  /\ \/ "disk" \in events /\ pc' = "cleanFailed"
     \/ "cancel" \in events /\ pc' = "cleanCancelled"
  /\ UNCHANGED <<disk, held, doomed, served, running, progress, outcome, before, updater,
                 stops, events>>

Leftovers(fs) == allNew \ fs

\* DeleteFileW of the .new of every file in fs; a path held open stays.
Without(fs) ==
  [f \in Files |-> IF f \in fs /\ <<f, "new">> \notin held
                   THEN [disk[f] EXCEPT !.new = Absent] ELSE disk[f]]

CleanUp ==
  /\ pc \in {"cleanFailed", "cleanCancelled"}
  /\ disk' = Without(Leftovers({}))
  /\ outcome' = IF pc = "cleanFailed" THEN "Failed" ELSE "Cancelled"
  /\ pc' = "idle"
  /\ UNCHANGED <<held, doomed, served, running, progress, before, updater, stops, events>>

NothingToDo ==
  /\ pc = "next" /\ todo = {} /\ staged = {}
  /\ disk' = Without(Leftovers({}))
  /\ outcome' = "UpToDate" /\ pc' = "idle"
  /\ UNCHANGED <<held, doomed, served, running, progress, before, updater, stops, events>>
-----------------------------------------------------------------------------
(***************************************************************************)
(* Phase 2: apply                                                          *)
(***************************************************************************)

\* Everything is staged; the services are stopped and the assets follow.
BeforeApply ==
  /\ pc = "next" /\ todo = {} /\ staged # {}
  /\ disk' = Without(Leftovers(staged))
  /\ \E h \in SUBSET {at \in Files \X Slots : disk'[at[1]][at[2]] # Absent} :
       /\ h # {} => "held" \in events
       /\ held' = h
  /\ todo' = staged \ {Exe} /\ pc' = "apply"
  /\ UNCHANGED <<doomed, served, running, current, attempt, file, staged, verified, allNew,
                 movedBak, applied, outcome, before, updater, stops, events>>

\* The old backup goes and the file takes its place. What is held open stays,
\* and cannot be replaced.
MoveAside ==
  /\ pc = "apply"
  /\ \E f \in todo :
       LET stuck == {<<f, "cur">>, <<f, "bak">>} \cap held # {} IN
       /\ todo' = todo \ {f} /\ file' = f
       /\ IF Place(f) = Absent
          THEN /\ disk' = [disk EXCEPT ![f].bak = IF <<f, "bak">> \in held THEN @ ELSE Absent]
               /\ pc' = "install" /\ UNCHANGED movedBak
          ELSE IF stuck
          THEN /\ disk' = [disk EXCEPT ![f].bak = IF <<f, "bak">> \in held THEN @ ELSE Absent]
               /\ pc' = "rollback" /\ UNCHANGED movedBak
          ELSE /\ disk' = [disk EXCEPT ![f].bak = Place(f), ![f].cur = Absent]
               /\ movedBak' = movedBak \cup {f} /\ pc' = "install"
  /\ UNCHANGED <<held, doomed, served, running, current, attempt, staged, verified, allNew,
                 applied, outcome, before, updater, stops, events>>

Install ==
  /\ pc = "install"
  /\ IF <<file, "new">> \in held
     THEN pc' = "rollback" /\ UNCHANGED <<disk, applied>>
     ELSE /\ disk' = [disk EXCEPT ![file].cur = disk[file].new, ![file].new = Absent]
          /\ applied' = applied \cup {file} /\ pc' = "apply"
  /\ UNCHANGED <<held, doomed, served, running, current, attempt, todo, file, staged, verified,
                 allNew, movedBak, outcome, before, updater, stops, events>>

\* Mutant: a file that was moved aside but not replaced is left there.
RestoredIfApplied(f) ==
  IF f \in applied /\ f \in movedBak THEN [cur |-> disk[f].bak, new |-> Absent, bak |-> Absent]
  ELSE disk[f]

\* What the rollback makes of an asset that was staged.
Restored(f) ==
  LET new == IF <<f, "new">> \in held THEN disk[f].new ELSE Absent IN
  IF f \in movedBak THEN [cur |-> disk[f].bak, new |-> new, bak |-> Absent]
  ELSE [disk[f] EXCEPT !.cur = IF f \in applied THEN Absent ELSE @, !.new = new]

RollBack ==
  /\ pc = "rollback"
  /\ disk' = [f \in Files |-> IF f \in staged THEN Restored(f) ELSE disk[f]]
  /\ movedBak' = {} /\ applied' = {} /\ held' = {}
  /\ outcome' = "Failed" /\ pc' = "idle"
  /\ UNCHANGED <<doomed, served, running, current, attempt, todo, file, staged, verified,
                 allNew, before, updater, stops, events>>

\* The backups go, and an update of assets alone is over.
Applied ==
  /\ pc = "apply" /\ todo = {}
  /\ disk' = [f \in Files |-> IF f \in applied /\ <<f, "bak">> \notin held
                              THEN [disk[f] EXCEPT !.bak = Absent] ELSE disk[f]]
  /\ held' = {}
  /\ IF Exe \in staged THEN pc' = "order" /\ UNCHANGED outcome
     ELSE pc' = "idle" /\ outcome' = "Applied"
  /\ UNCHANGED <<doomed, served, running, progress, before, updater, stops, events>>
-----------------------------------------------------------------------------
(***************************************************************************)
(* Phase 3: the work order                                                 *)
(***************************************************************************)

\* Uninstall deletes what the payload declares, then asks for the rest.
Uninstall ==
  /\ "remove" \in events /\ pc = "idle" /\ running # NotRunning
  /\ disk' = [f \in Files |-> IF f = Exe THEN disk[f] ELSE [s \in Slots |-> Absent]]
  /\ pc' = "orderRemoval" /\ outcome' = None
  /\ UNCHANGED <<held, doomed, served, running, progress, before, updater, stops, events>>

Order ==
  CASE pc = "order" -> "replace" [] pc = "orderRemoval" -> "remove" [] OTHER -> plan

\* StartUpdater and ScheduleSelfRemoval: WritePlan creates the order's file.
WriteOrder ==
  /\ pc \in {"order", "orderRemoval"}
  /\ plan' = Order /\ goal' = IF Order = "replace" THEN current ELSE NotRunning
  /\ pc' = "extract"
  /\ UNCHANGED <<disk, held, doomed, served, running, progress, outcome, before, module, upc,
                 stops, events>>

\* Launch writes the module unless a file of its name is there, and trusts
\* the one that is.
ExtractModule ==
  /\ pc = "extract"
  /\ IF module = Absent THEN module' = Partial /\ pc' = "extracting"
     ELSE UNCHANGED module /\ pc' = "launch"
  /\ UNCHANGED <<disk, held, doomed, served, running, progress, outcome, before, plan, goal, upc,
                 stops, events>>

ModuleWritten ==
  /\ pc = "extracting" /\ module' = "whole" /\ pc' = "launch"
  /\ UNCHANGED <<disk, held, doomed, served, running, progress, outcome, before, plan, goal, upc,
                 stops, events>>

LaunchUpdater ==
  /\ pc = "launch" /\ module = "whole" /\ upc = None
  /\ upc' = "wait" /\ pc' = "quit"
  /\ outcome' = IF Order = "replace" THEN "Applied" ELSE outcome
  /\ UNCHANGED <<disk, held, doomed, served, running, progress, before, plan, goal, module, stops,
                 events>>

\* The order, the module or the process cannot be created, or the module is
\* no program: the order goes, and a staged executable with it.
LaunchFails ==
  /\ \/ "order" \in events /\ pc \in {"order", "orderRemoval", "extracting", "launch"}
     \/ pc = "launch" /\ module = Partial
  /\ module' = IF pc = "extracting" THEN Absent ELSE module
  /\ plan' = None
  /\ IF Order = "replace"
     THEN /\ disk' = [disk EXCEPT ![Exe].new = Absent]
          /\ outcome' = "HandOverFailed" /\ pc' = "idle"
     ELSE /\ pc' = "quit" /\ UNCHANGED <<disk, outcome>>
  /\ UNCHANGED <<held, doomed, served, running, progress, before, goal, upc, stops, events>>

\* The caller quits: the updater's wait ends with the process.
Exit ==
  /\ pc = "quit" /\ running' = NotRunning /\ pc' = "idle" /\ outcome' = None
  /\ Fresh
  /\ UNCHANGED <<disk, doomed, served, before, updater, stops, events>>
-----------------------------------------------------------------------------
(***************************************************************************)
(* The updater                                                             *)
(***************************************************************************)

program == <<served, running, client>>

\* DeletePlanFile, whatever became of the order.
Consume == plan' = None /\ upc' = None

WaitForProcessExit ==
  /\ upc = "wait" /\ running = NotRunning
  /\ upc' = IF plan = "replace" THEN "aside" ELSE "remove"
  /\ UNCHANGED <<disk, held, doomed, program, plan, goal, module, stops, events>>

\* The order is not consumed when the program outlives the wait.
WaitTimesOut ==
  /\ "slow" \in events /\ upc = "wait" /\ running # NotRunning
  /\ upc' = None
  /\ UNCHANGED <<disk, held, doomed, program, plan, goal, module, stops, events>>

\* Mutant: the old image is deleted and not kept.
SwapWithoutBackup ==
  /\ upc = "aside" /\ Place(Exe) # Absent
  /\ disk' = [disk EXCEPT ![Exe].bak = Absent, ![Exe].cur = Absent]
  /\ upc' = "swap"
  /\ UNCHANGED <<held, doomed, program, plan, goal, module, stops, events>>

\* The old image is moved aside, once nothing holds it.
SwapAside ==
  /\ upc = "aside" /\ Place(Exe) # Absent
  /\ disk' = [disk EXCEPT ![Exe].bak = Place(Exe), ![Exe].cur = Absent]
  /\ upc' = "swap"
  /\ UNCHANGED <<held, doomed, program, plan, goal, module, stops, events>>

\* There is nothing to replace, or it stayed locked and is to be deleted at
\* the next restart.
SwapRefused ==
  /\ upc = "aside"
  /\ Place(Exe) # Absent => "locked" \in events
  /\ disk' = [disk EXCEPT ![Exe].bak = IF Place(Exe) = Absent THEN @ ELSE Absent]
  /\ doomed' = IF Place(Exe) = Absent THEN doomed ELSE doomed \cup {"cur"}
  /\ Consume
  /\ UNCHANGED <<held, program, goal, module, stops, events>>

SwapInstall ==
  /\ upc = "swap" /\ disk[Exe].new # Absent
  /\ disk' = [disk EXCEPT ![Exe].cur = disk[Exe].new, ![Exe].new = Absent]
  /\ upc' = "drop"
  /\ UNCHANGED <<held, doomed, program, plan, goal, module, stops, events>>

\* The staged copy cannot be installed: the old image goes back.
SwapPutBack ==
  /\ upc = "swap"
  /\ "locked" \in events \/ disk[Exe].new = Absent
  /\ disk' = [disk EXCEPT ![Exe].cur = disk[Exe].bak, ![Exe].bak = Absent]
  /\ Consume
  /\ UNCHANGED <<held, doomed, program, goal, module, stops, events>>

VersionOf(v) == CHOOSE r \in Releases : Release[r][Exe] = v

\* The program that starts ends any other copy of itself first.
Relaunch ==
  /\ running' = VersionOf(Place(Exe)) /\ pc' = "idle" /\ outcome' = None
  /\ Fresh /\ UNCHANGED before

\* The old image goes, now or at the next restart, and the new one starts.
SwapDone ==
  /\ upc = "drop"
  /\ \/ /\ disk' = [disk EXCEPT ![Exe].bak = Absent] /\ UNCHANGED doomed
     \/ /\ "locked" \in events
        /\ doomed' = doomed \cup {"bak"} /\ UNCHANGED disk
  /\ IF Place(Exe) \in Contents THEN Relaunch ELSE UNCHANGED <<running, client, held>>
  /\ Consume
  /\ UNCHANGED <<served, goal, module, stops, events>>

\* ApplyRemove; the directory goes with it if nothing else is in it.
Remove ==
  /\ upc = "remove"
  /\ \/ disk' = [disk EXCEPT ![Exe].cur = Absent] /\ UNCHANGED doomed
     \/ "locked" \in events /\ doomed' = doomed \cup {"cur"} /\ UNCHANGED disk
  /\ Consume
  /\ UNCHANGED <<held, program, goal, module, stops, events>>
-----------------------------------------------------------------------------
(***************************************************************************)
(* The world                                                               *)
(***************************************************************************)

Publish ==
  /\ "publish" \in events /\ served' \in Releases \ {served}
  /\ UNCHANGED <<disk, held, doomed, running, client, updater, stops, events>>

\* The user starts the program again.
StartProgram ==
  /\ running = NotRunning /\ Place(Exe) \in Contents
  /\ upc # None => "again" \in events
  /\ Relaunch
  /\ UNCHANGED <<disk, doomed, served, updater, stops, events>>

KillProgram ==
  /\ "kill" \in events /\ running # NotRunning /\ stops < MaxStops
  /\ running' = NotRunning /\ pc' = "idle" /\ outcome' = "Killed"
  /\ Fresh
  /\ stops' = stops + 1
  /\ UNCHANGED <<disk, doomed, served, before, updater, events>>

KillUpdater ==
  /\ "kill" \in events /\ upc # None /\ stops < MaxStops
  /\ upc' = None /\ stops' = stops + 1
  /\ UNCHANGED <<disk, held, doomed, program, plan, goal, module, events>>

\* A restart ends both, and carries out what was left to it.
Reboot ==
  /\ "reboot" \in events /\ stops < MaxStops
  /\ running' = NotRunning /\ upc' = None /\ pc' = "idle" /\ outcome' = "Killed"
  /\ Fresh
  /\ disk' = [disk EXCEPT ![Exe] = [s \in Slots |-> IF s \in doomed THEN Absent ELSE @[s]]]
  /\ doomed' = {} /\ stops' = stops + 1
  /\ UNCHANGED <<served, before, plan, goal, module, events>>

Download == NextFile \/ FileVerified \/ RemoteStale \/ Refetch \/ FetchEnds
Apply == BeforeApply \/ MoveAside \/ Install \/ RollBack \/ Applied
HandOver == WriteOrder \/ ExtractModule \/ ModuleWritten \/ LaunchUpdater \/ LaunchFails
Client == ListFiles \/ Download \/ CleanUp \/ NothingToDo \/ Apply \/ HandOver
Updater == SwapAside \/ SwapRefused \/ SwapInstall \/ SwapPutBack \/ SwapDone \/ Remove
Wait == WaitForProcessExit \/ WaitTimesOut

Next ==
  \/ Begin \/ Uninstall \/ Client \/ Exit
  \/ Wait \/ Updater
  \/ Publish \/ StartProgram \/ KillProgram \/ KillUpdater \/ Reboot

Spec == Init /\ [][Next]_vars
-----------------------------------------------------------------------------
(***************************************************************************)
(* Properties                                                              *)
(***************************************************************************)

\* The files nobody but PerformUpdate moves: all of them, unless the program is
\* started while an updater is at work on the executable.
Mine(f) == f # Exe \/ "again" \notin events

\* An updater that was overtaken by the program is not killed besides.
OneUpdater == ~({"again", "kill"} \subseteq events)

\* Every variable has its type, for any disk the processes can leave behind.
TypeOK ==
  LET content == Contents \cup Installed \cup {Absent, Partial} IN
  /\ disk \in [Files -> [Slots -> content]]
  /\ held \subseteq Files \X Slots /\ doomed \subseteq Slots
  /\ served \in Releases /\ running \in Releases \cup {NotRunning}
  /\ pc \in {"idle", "list", "next", "fetch", "refetch", "cleanFailed", "cleanCancelled",
            "apply", "install", "rollback", "order", "orderRemoval", "extract", "extracting",
            "launch", "quit"}
  /\ current \in Releases /\ attempt \in 0 .. 1 /\ file \in Files
  /\ verified \in [Files -> content]
  /\ {todo, staged, allNew, movedBak, applied} \subseteq SUBSET Files
  /\ outcome \in {None, "Applied", "UpToDate", "Failed", "Cancelled", "HandOverFailed", "Killed"}
  /\ before \in [Files -> content]
  /\ plan \in {None, "replace", "remove"} /\ goal \in Releases \cup {NotRunning}
  /\ module \in {Absent, Partial, "whole"}
  /\ upc \in {None, "wait", "aside", "swap", "drop", "remove"}
  /\ stops \in 0 .. MaxStops /\ events \in Environments

\* What PerformUpdate calls applied is one release and not a mixture: every
\* asset the manifest lists is that manifest's, although the release behind
\* the URL was replaced during the download, files of an earlier pass were
\* reused and earlier runs were killed half-way; and the executable the order
\* names is that release's too, unless the program was started again over an
\* updater that was then killed (client.cpp:195-255, 637-794).
AppliedIsOneRelease ==
  outcome = "Applied" =>
    /\ \A f \in Listed(current) \cap Assets : Place(f) = Release[current][f]
    /\ pc = "quit" =>
         /\ goal = current
         /\ OneUpdater => disk[Exe].new = Release[current][Exe]

\* A run that reports a failure or a cancellation leaves what it found: a
\* cancelled or failed download touched nothing, a file that could not be
\* moved brings every file moved before it back, and no staged copy stays
\* behind unless somebody holds it. The executable is not the run's own when
\* it was started under an updater (client.h:137-138, client.cpp:687-697,
\* 750-767).
NotAppliedUntouched ==
  outcome \in {"Failed", "Cancelled", "UpToDate"} /\ pc = "idle" =>
    /\ \A f \in Files : Mine(f) => Place(f) = before[f]
    /\ "held" \notin events => \A f \in allNew : disk[f].new = Absent

\* Nothing that was not verified is ever in a file's place, whoever dies when
\* (client.cpp:134-140, 168-172, updater.cpp:150-158); a program started while
\* the updater is at work may write the staged copy under it.
NothingPartialInPlace == \A f \in Files : Mine(f) => Place(f) # Partial

\* There is always an executable to go back to, in its place or its backup,
\* until the program is removed: no process that dies and no restart leaves
\* the install without one (updater.cpp:119-125). An image that
\* stays locked is another matter (RefusedSwapKeepsProgram), and so is a
\* program that writes the staged copy again under the updater.
ExecutableSomewhere ==
  \/ goal = NotRunning \/ {"locked", "again"} \cap events # {}
  \/ \E s \in {"cur", "bak"} : disk[Exe][s] \in Contents

-----------------------------------------------------------------------------
(***************************************************************************)
(* What makes the properties inductive: where the two processes are, what  *)
(* the passes have done so far, and what the order on disk stands for.     *)
(***************************************************************************)
Downloading == pc \in {"list", "next", "fetch", "refetch"}
Staging == pc \in {"next", "fetch"}
Moving == pc \in {"apply", "install", "rollback"}
Ordered == pc \in {"extract", "extracting", "launch"}

\* What is staged is to take its place.
Committed == Staging \/ Moving \/ pc = "order" \/ (Ordered /\ plan = "replace")

\* Whatever is in the executable's slots is an executable, or not whole.
ExecutableOnly ==
  \A s \in Slots : disk[Exe][s] \in {Release[r][Exe] : r \in Releases} \cup {Absent, Partial}

\* Only a running program is at work or has something to report, an updater
\* works when it is gone, and files are held while they are moved.
TakeTurns ==
  /\ pc # "idle" \/ outcome \notin {None, "Killed"} => running # NotRunning
  /\ outcome # None => pc \in {"idle", "quit"}
  /\ held # {} => Moving /\ "held" \in events
  /\ upc # None /\ "again" \notin events =>
       running = NotRunning \/ (pc = "quit" /\ upc = "wait")

\* Each file of the list is fetched at most once by a pass, and there are two.
PassInOrder ==
  /\ pc = "refetch" => attempt = 0
  /\ Committed => staged \subseteq Listed(current)
  /\ Staging => todo \subseteq Listed(current) \ staged
  /\ pc = "fetch" => file \in Listed(current) \ (staged \cup todo)
  /\ Downloading /\ pc # "refetch" /\ attempt = 0 =>
       \A f \in Files : verified[f] # Absent => Staging /\ f \in staged
  /\ Downloading => applied = {} /\ movedBak = {}

\* A staged copy of which the memory says that it was verified is what was
\* verified, but for the one that the second pass is fetching again.
CopiesVerified ==
  Downloading =>
    \A f \in Files :
      \/ verified[f] = Absent
      \/ disk[f].new \in {verified[f], Absent}
      \/ attempt = 1 /\ pc = "fetch" /\ f = file

\* Whatever is staged is the manifest's, and so is what took its place.
StagedIsListed ==
  Committed =>
    \A f \in staged :
      \/ disk[f].new = Release[current][f]
      \/ f \in applied /\ Place(f) = Release[current][f]
      \/ f = Exe /\ (OneUpdater => upc = "drop" /\ Place(Exe) = Release[current][Exe])

\* An asset that is not the manifest's is still to be dealt with.
NoneSkipped ==
  Committed /\ pc # "rollback" =>
    \A f \in Listed(current) \cap Assets :
      \/ Place(f) = Release[current][f]
      \/ Staging /\ f \in staged \cup todo
      \/ Moving /\ f \in todo
      \/ pc \in {"fetch", "install"} /\ f = file

\* An asset is moved aside and replaced once.
MovesInOrder ==
  /\ Exe \notin movedBak \cup applied
  /\ Moving => todo \subseteq staged \ {Exe} /\ movedBak \cup applied \subseteq staged \ todo
  /\ pc = "install" =>
       file \in staged \ (todo \cup applied \cup {Exe}) /\ Place(file) = Absent

\* The way back: what was in a file's place is in its backup, or was nothing,
\* or is still there; and no staged copy is out of sight.
Restorable ==
  /\ Downloading \/ Moving \/ pc \in {"cleanFailed", "cleanCancelled"} =>
       \A f \in Files :
         Mine(f) => IF Moving /\ f \in movedBak THEN disk[f].bak = before[f]
                    ELSE IF Moving /\ f \in applied THEN before[f] = Absent
                    ELSE Place(f) = before[f]
  /\ Moving /\ "held" \notin events => \A f \in allNew \ staged : disk[f].new = Absent

\* Nothing that was not verified can come back either.
NothingPartialBehind ==
  \A f \in Files : Mine(f) => Partial \notin {Place(f), disk[f].bak, before[f]}

\* The order the client writes is the one its updater carries out.
OrderStands ==
  /\ Ordered /\ plan = "replace" => goal = current /\ Exe \in staged
  /\ pc = "order" => Exe \in staged
  /\ outcome = "Applied" /\ pc = "quit" => upc \in {None, "wait"}
  /\ "again" \notin events =>
       /\ Ordered \/ upc = "wait" =>
            plan = IF goal = NotRunning THEN "remove" ELSE "replace"
       /\ upc \in {"aside", "swap", "drop"} => goal # NotRunning
       /\ upc = "remove" => goal = NotRunning
       /\ upc \in {"wait", "aside", "swap"} /\ goal # NotRunning =>
            disk[Exe].new = Release[goal][Exe]

\* Where the executable is while an updater moves it.
ExecutableKept ==
  {"locked", "again"} \cap events = {} =>
    /\ doomed = {}
    /\ running # NotRunning \/ upc \in {"wait", "aside", "drop"} => Place(Exe) \in Contents
    /\ upc = "swap" => disk[Exe].bak \in Contents

InstallKept ==
  /\ ExecutableOnly /\ TakeTurns /\ PassInOrder /\ CopiesVerified /\ StagedIsListed
  /\ NoneSkipped /\ MovesInOrder /\ Restorable /\ NothingPartialBehind
  /\ OrderStands /\ ExecutableKept
  /\ AppliedIsOneRelease /\ NotAppliedUntouched /\ ExecutableSomewhere

(***************************************************************************)
(* Said of the program, and refuted by what it does: README, section 6.    *)
(***************************************************************************)
\* "The old image could not be moved aside, so the swap will happen at the
\* next boot instead ... the running install is unchanged" (updater.cpp:143-145).
RefusedSwapKeepsProgram ==
  upc = None /\ goal # NotRunning /\ stops > 0 => Place(Exe) # Absent
=============================================================================
