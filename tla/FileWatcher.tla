----------------------------- MODULE FileWatcher -----------------------------
(***************************************************************************)
(* The watch over the rule file (dns/file_watcher.cpp): a thread with one  *)
(* read of directory changes at a time, which waits until the file has     *)
(* settled and reloads it, and a Stop() that wakes it, whatever it is      *)
(* doing, and waits for it.                                                *)
(*                                                                         *)
(* External: the kernel, which collects changes from the first read on and *)
(* completes a read when it has some, when the read is cancelled, or with  *)
(* a failure; and whoever writes to the directory.                         *)
(***************************************************************************)
EXTENDS Naturals

CONSTANTS
  MaxEdits,     \* how often the file is saved
  MaxStrays,    \* how often another file of the directory changes
  Environments  \* subsets of the events below, one for each behaviour

Events == {"nodir", "nothread", "noevent", "unissued", "fails", "overflow", "busy", "locked"}
FileWatcherAssumption ==
  /\ MaxEdits \in Nat /\ MaxStrays \in Nat
  /\ Environments \subseteq SUBSET Events

VARIABLES
  env,      \* which of the events may happen
  version,  \* of the file
  loaded,   \* the version in force
  content,  \* the version the callback has read
  since,    \* the version the kernel began to collect changes at
  strays,
  kernel,   \* the changes collected and not yet taken: "ours", "other", "lost"
  read,     \* the one read: "none", "outstanding" or "done"
  got,      \* what it ended with
  th,       \* where Loop() is
  pendingReload,
  stopRequested,
  dirHandle,
  owner     \* where the owner is

vars == <<env, version, loaded, content, since, strays, kernel, read, got, th, pendingReload,
          stopRequested, dirHandle, owner>>
files == <<version, since, strays, kernel>>
rules == <<loaded, content>>
watch == <<read, got, th, pendingReload>>
control == <<stopRequested, dirHandle, owner>>

Never == MaxEdits + 1
Watching == th \notin {"none", "ended", "stuck"}

Init ==
  /\ env \in Environments
  /\ version = 0 /\ loaded = 0 /\ content = 0 /\ since = Never /\ strays = 0 /\ kernel = {}
  /\ read = "none" /\ got = {} /\ th = "none" /\ pendingReload = FALSE
  /\ stopRequested = FALSE /\ dirHandle = "closed" /\ owner = "new"

(***************************************************************************)
(* The owner's side.                                                       *)
(***************************************************************************)
Start ==
  /\ owner = "new" /\ owner' = "watching"
  /\ IF "nodir" \in env THEN UNCHANGED <<th, stopRequested, dirHandle>>
     ELSE /\ stopRequested' = FALSE
          /\ IF "nothread" \in env THEN UNCHANGED <<th, dirHandle>>
             ELSE th' = "begin" /\ dirHandle' = "open"
  /\ UNCHANGED <<env, files, rules, read, got, pendingReload>>

Cancelled ==
  IF read = "outstanding" THEN read' = "done" /\ got' = {"aborted"} ELSE UNCHANGED <<read, got>>

RequestStop ==
  /\ owner = "watching" /\ owner' = "requested" /\ stopRequested' = TRUE
  /\ UNCHANGED <<env, files, rules, watch, dirHandle>>
CancelReads ==
  /\ owner = "requested" /\ owner' = "joining"
  /\ IF dirHandle = "open" THEN Cancelled ELSE UNCHANGED <<read, got>>
  /\ UNCHANGED <<env, files, rules, th, pendingReload, stopRequested, dirHandle>>
Join ==
  /\ owner = "joining" /\ th \in {"none", "ended"}
  /\ owner' = "stopped" /\ th' = "none" /\ dirHandle' = "closed"
  /\ UNCHANGED <<env, files, rules, read, got, pendingReload, stopRequested>>

(***************************************************************************)
(* Loop().                                                                 *)
(***************************************************************************)
Begin ==
  /\ th = "begin"
  /\ th' = IF "noevent" \in env THEN "ended" ELSE "issue"
  /\ UNCHANGED <<env, files, rules, read, got, pendingReload, control>>

\* What was collected between two reads completes the second at once.
Issue ==
  /\ th = "issue" /\ th' = "top"
  /\ since' = IF since = Never THEN version ELSE since
  /\ kernel' = {} /\ got' = kernel
  /\ read' = IF kernel = {} THEN "outstanding" ELSE "done"
  /\ UNCHANGED <<env, version, strays, rules, pendingReload, control>>
IssueFails ==
  /\ "unissued" \in env /\ th = "issue" /\ th' = "leave"
  /\ read' = "none" /\ got' = {"unissued"}
  /\ UNCHANGED <<env, files, rules, pendingReload, control>>

Top ==
  /\ th = "top" /\ th' = IF stopRequested THEN "leave" ELSE "wait"
  /\ UNCHANGED <<env, files, rules, read, got, pendingReload, control>>

Signalled ==
  /\ th = "wait" /\ read = "done" /\ th' = "woken"
  /\ UNCHANGED <<env, files, rules, read, got, pendingReload, control>>

\* Nothing for as long as the debounce lasts.
Settled ==
  /\ th = "wait" /\ pendingReload /\ read = "outstanding" /\ th' = "settled"
  /\ UNCHANGED <<env, files, rules, read, got, pendingReload, control>>

Woken ==
  /\ th = "woken"
  /\ IF stopRequested \/ got \cap {"aborted", "failed"} # {}
     THEN th' = "leave" /\ UNCHANGED <<read, pendingReload>>
     ELSE /\ th' = "issue" /\ read' = "none"
          /\ pendingReload' = (pendingReload \/ got \cap {"ours", "lost"} # {})
  /\ UNCHANGED <<env, files, rules, got, control>>

\* The callback reads the file and puts what it read in force.
Load ==
  /\ th = "settled"
  /\ IF stopRequested THEN th' = "leave" /\ UNCHANGED content
     ELSE th' = "apply" /\ content' = version
  /\ UNCHANGED <<env, files, loaded, read, got, pendingReload, control>>
\* The file cannot be opened, and is left as it was read before.
LoadFails ==
  /\ "locked" \in env /\ th = "settled" /\ ~stopRequested
  /\ th' = "top" /\ pendingReload' = FALSE
  /\ UNCHANGED <<env, files, rules, read, got, control>>
Apply ==
  /\ th = "apply" /\ th' = "top"
  /\ loaded' = content /\ pendingReload' = FALSE
  /\ UNCHANGED <<env, files, content, read, got, control>>

\* The read completes into the frame of Loop(): it is cancelled, and waited
\* for.  What is said of a read that was never begun is not documented, and may
\* be that it has yet to end.
Leave ==
  /\ th = "leave" /\ th' = "await"
  /\ Cancelled
  /\ UNCHANGED <<env, files, rules, pendingReload, control>>
Await ==
  /\ th = "await" /\ read # "outstanding"
  /\ th' \in IF got = {"unissued"} THEN {"ended", "stuck"} ELSE {"ended"}
  /\ read' = "none" /\ got' = {}
  /\ UNCHANGED <<env, files, rules, pendingReload, control>>

(***************************************************************************)
(* The kernel and whoever writes.                                          *)
(***************************************************************************)
Change(what) == kernel' = IF since = Never \/ "lost" \in kernel THEN kernel ELSE kernel \cup {what}

Edit ==
  /\ version < MaxEdits /\ version' = version + 1 /\ Change("ours")
  /\ UNCHANGED <<env, since, strays, rules, watch, control>>
Stray ==
  /\ "busy" \in env \/ strays < MaxStrays
  /\ strays' = IF "busy" \in env THEN strays ELSE strays + 1
  /\ Change("other")
  /\ UNCHANGED <<env, version, since, rules, watch, control>>
Overflow ==
  /\ "overflow" \in env /\ kernel # {} /\ kernel' = {"lost"}
  /\ UNCHANGED <<env, version, since, strays, rules, watch, control>>
Complete ==
  /\ read = "outstanding" /\ kernel # {}
  /\ read' = "done" /\ got' = kernel /\ kernel' = {}
  /\ UNCHANGED <<env, version, since, strays, rules, th, pendingReload, control>>
Fail ==
  /\ "fails" \in env /\ read = "outstanding"
  /\ read' = "done" /\ got' = {"failed"}
  /\ UNCHANGED <<env, files, rules, th, pendingReload, control>>

StopNext == CancelReads \/ Join
LoopNext ==
  \/ Begin \/ Issue \/ IssueFails \/ Top \/ Signalled \/ Settled \/ Woken \/ Load \/ LoadFails
  \/ Apply \/ Leave \/ Await
KernelNext == Edit \/ Stray \/ Overflow \/ Complete \/ Fail
Next == Start \/ RequestStop \/ StopNext \/ LoopNext \/ KernelNext

\* The thread runs, a change completes the read, and a Stop() that was begun
\* goes on.  Nobody need write, and nobody need stop.
FairSpec ==
  /\ Init /\ [][Next]_vars
  /\ WF_vars(LoopNext) /\ WF_vars(Complete) /\ WF_vars(StopNext)

-----------------------------------------------------------------------------
TypeOK ==
  /\ version \in 0..MaxEdits /\ loaded \in 0..MaxEdits /\ content \in 0..MaxEdits
  /\ since \in 0..Never /\ strays \in 0..MaxStrays /\ kernel \subseteq {"ours", "other", "lost"}
  /\ read \in {"none", "outstanding", "done"}
  /\ got \subseteq {"ours", "other", "lost", "aborted", "failed", "unissued"}
  /\ th \in {"none", "begin", "issue", "top", "wait", "woken", "settled", "apply", "leave",
             "await", "ended", "stuck"}
  /\ owner \in {"new", "watching", "requested", "joining", "stopped"}

\* There is one read at a time, and the kernel completes none into a frame or
\* through a handle that is gone (file_watcher.cpp:129-132, 194-196).
NoReadOutlivesItsFrame ==
  /\ read = "outstanding" => Watching /\ dirHandle = "open"
  /\ th = "issue" => read = "none"

\* What makes it inductive: the handle is open while there is a thread, and a
\* thread that has no read under way has none outstanding.
WatchInOrder ==
  /\ TypeOK /\ NoReadOutlivesItsFrame
  /\ th \in {"none", "begin", "ended", "stuck"} => read = "none"
  /\ th # "none" => dirHandle = "open"
  /\ owner = "new" => th = "none"

\* Once the kernel collects changes, no save is missed: the rules in force
\* become those of the file, unless the watch ends, the directory never rests or
\* the file could not be opened when it had settled (file_watcher.cpp:147-192).
EditsAreReloaded ==
  env \cap {"busy", "locked"} = {} /\ version > since ~> loaded = version \/ ~Watching \/ stopRequested

\* A Stop() wakes the thread wherever it is, and returns
\* (file_watcher.cpp:83-117).
StopReturns == owner = "requested" ~> owner = "stopped" \/ th = "stuck"

(***************************************************************************)
(* Said of the program, and refuted by what it does: README, section 6.    *)
(***************************************************************************)
\* "Watches a single file and invokes a callback once it has settled"
\* (file_watcher.h:21): every other file of the directory puts it off.
SettlesByItsFile == version > since ~> loaded = version \/ ~Watching \/ stopRequested

\* "Bounded, and deliberately not given a timeout" (file_watcher.cpp:91): not
\* where the wait for a read that was never begun has no end.
StopIsBounded == owner = "requested" ~> owner = "stopped"
=============================================================================
