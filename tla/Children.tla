------------------------------ MODULE Children ------------------------------
(***************************************************************************)
(* One component started by LaunchChild, what it writes, and its end:      *)
(* platform/process.cpp and platform/child_output.cpp.                     *)
(*                                                                         *)
(* The owner builds a capture, starts the child suspended, puts it in a    *)
(* job if the system allows it, lets it run, and some time later stops it  *)
(* and joins the readers of its two pipes.  Meanwhile the child and the    *)
(* processes it starts write, start others and exit as they like, and two  *)
(* reader threads cut what arrives into lines.                             *)
(*                                                                         *)
(* External: a process told to end does so after a while (never, where the *)
(* environment has "stuck"); a read returns any part of what a pipe holds, *)
(* and the end of the file once it is empty and nobody holds its other     *)
(* end.  A wait runs into its timeout only where what it waits for is not  *)
(* about to happen.                                                        *)
(***************************************************************************)
EXTENDS Naturals, Sequences, SequencesExt

CONSTANTS
  Kids,            \* the processes the child may start, directly or not
  Script,          \* [Channel -> Seq(byte)]: what the tree writes, in order
  Lines,           \* [Channel -> Seq(line)]: the lines that is meant as
  kMaxPendingBytes,
  Environments     \* a set of sets of conditions, one of which Init picks

Channels == <<"stdout", "stderr">>
Channel == {"stdout", "stderr"}
Root == "root"
Procs == {Root} \cup Kids
Conditions == {"nojob", "stuck", "slow", "fails"}

ChildrenAssumption ==
  /\ Root \notin Kids
  /\ kMaxPendingBytes \in Nat
  /\ Environments \subseteq SUBSET Conditions

VARIABLES
  env,      \* the conditions of this run
  procs,    \* the processes of the tree
  capture,  \* write ends still open here, and the gate the readers wait behind
  written,  \* how much of Script each pipe has received
  readers,  \* the reader threads
  owner     \* the thread that launches and stops the child

vars == <<env, procs, capture, written, readers, owner>>

Gone(p) == procs[p].state \in {"none", "gone"}
Running(p) == procs[p].state = "alive"
Holds(p) == ~Gone(p) /\ procs[p].inherits
Held == capture.writes \/ \E p \in Procs : Holds(p)
Lasting(p) == Running(p) \/ (procs[p].state = "dying" /\ "stuck" \in env)

(***************************************************************************)
(* Lines.  Every complete line in what is pending goes out without its     *)
(* terminator, and so does an unfinished one that has grown too long.      *)
(***************************************************************************)
Newlines(s) == SetToSortSeq({i \in DOMAIN s : s[i] = "nl"}, <)
Stripped(line) == IF line # <<>> /\ Last(line) = "cr" THEN Front(line) ELSE line
Complete(s) ==
  LET cut == <<0>> \o Newlines(s) IN
  [k \in 1..(Len(cut) - 1) |-> Stripped(SubSeq(s, cut[k] + 1, cut[k + 1] - 1))]
Unfinished(s) == SubSeq(s, Last(<<0>> \o Newlines(s)) + 1, Len(s))

Deliver(r, lines) == [r EXCEPT !.lines = @ \o lines]

Cut(r, all) ==
  LET rest == Unfinished(all)
      over == Len(rest) > kMaxPendingBytes
  IN [Deliver(r, Complete(all) \o IF over THEN <<rest>> ELSE <<>>)
       EXCEPT !.pending = IF over THEN <<>> ELSE rest]
\* Mutant: what is pending from the last read is forgotten.
FedAlone(r, bytes) == Cut(r, bytes)
Fed(r, bytes) == Cut(r, r.pending \o bytes)

\* The last line may have no terminator.
Flushed(r) ==
  [Deliver(r, IF r.pending = <<>> THEN <<>> ELSE <<r.pending>>) EXCEPT !.pending = <<>>]

(***************************************************************************)
(* ReadReader.                                                             *)
(***************************************************************************)
NoReader == [state |-> "none", read |-> 0, taken |-> <<>>, pending |-> <<>>, lines |-> <<>>,
             cancelled |-> FALSE]
Parked == [NoReader EXCEPT !.state = "parked"]
SetReader(c, r) == readers' = [readers EXCEPT ![c] = r]

SealOpens(c) ==
  /\ readers[c].state = "parked" /\ capture.seal
  /\ SetReader(c, [readers[c] EXCEPT !.state = "reading"])
  /\ UNCHANGED <<env, procs, capture, written, owner>>

ReadSome(c) ==
  /\ readers[c].state = "reading" /\ ~readers[c].cancelled
  /\ \E upTo \in (readers[c].read + 1)..written[c] :
       SetReader(c, [readers[c] EXCEPT !.state = "busy", !.read = upTo,
                                       !.taken = SubSeq(Script[c], readers[c].read + 1, upTo)])
  /\ UNCHANGED <<env, procs, capture, written, owner>>

HandOver(c) ==
  /\ readers[c].state = "busy"
  /\ SetReader(c, [Fed(readers[c], readers[c].taken) EXCEPT !.state = "reading", !.taken = <<>>])
  /\ UNCHANGED <<env, procs, capture, written, owner>>

\* The end of the file, or the read was cancelled.
ReadEnds(c) ==
  /\ readers[c].state = "reading"
  /\ readers[c].cancelled \/ (readers[c].read = written[c] /\ ~Held)
  /\ SetReader(c, [Flushed(readers[c]) EXCEPT !.state = "ended"])
  /\ UNCHANGED <<env, procs, capture, written, owner>>

(***************************************************************************)
(* The processes.                                                          *)
(***************************************************************************)
Unborn == [state |-> "none", parent |-> Root, jobbed |-> FALSE, inherits |-> FALSE]
Ending(p) == IF p.state \in {"suspended", "alive"} THEN [p EXCEPT !.state = "dying"] ELSE p
Terminated(ps) == [p \in Procs |-> IF p \in ps THEN Ending(procs[p]) ELSE procs[p]]

Writes(p, c) ==
  /\ Running(p) /\ Holds(p) /\ written[c] < Len(Script[c])
  /\ written' = [written EXCEPT ![c] = @ + 1]
  /\ UNCHANGED <<env, procs, capture, readers, owner>>

\* A process is in the job of the one that starts it.
Spawns(p, kid, inherits) ==
  /\ Running(p) /\ procs[kid].state = "none"
  /\ procs' = [procs EXCEPT ![kid] = [state |-> "alive", parent |-> p, jobbed |-> procs[p].jobbed,
                                      inherits |-> inherits /\ procs[p].inherits]]
  /\ UNCHANGED <<env, capture, written, readers, owner>>

Exits(p) ==
  /\ Running(p)
  /\ procs' = [procs EXCEPT ![p].state = "gone"]
  /\ UNCHANGED <<env, capture, written, readers, owner>>

Dies(p) ==
  /\ procs[p].state = "dying"
  /\ procs' = [procs EXCEPT ![p].state = "gone"]
  /\ UNCHANGED <<env, capture, written, readers, owner>>

(***************************************************************************)
(* LaunchChild.  Every way out of it drains the capture.                   *)
(***************************************************************************)
Go(pc) == owner' = [owner EXCEPT !.pc = pc]
Refuse == owner' = [owner EXCEPT !.pc = "drain", !.refused = TRUE]

Build ==
  /\ owner.pc = "build"
  /\ readers' = [c \in Channel |-> Parked]
  /\ capture' = [writes |-> TRUE, seal |-> FALSE]
  /\ Go("job")
  /\ UNCHANGED <<env, procs, written>>

\* A pipe, the gate or a thread cannot be had; the first reader may be there.
BuildFails ==
  /\ owner.pc = "build" /\ "fails" \in env
  /\ \E started \in SUBSET {"stdout"} :
       readers' = [c \in Channel |-> IF c \in started THEN Parked ELSE NoReader]
  /\ capture' = [writes |-> TRUE, seal |-> FALSE]
  /\ Refuse
  /\ UNCHANGED <<env, procs, written>>

CreateContainingJob ==
  /\ owner.pc = "job"
  /\ \E job \in BOOLEAN :
       /\ ~job => "nojob" \in env
       /\ owner' = [owner EXCEPT !.pc = "start", !.job = job]
  /\ UNCHANGED <<env, procs, capture, written, readers>>

StartProcess ==
  /\ owner.pc = "start"
  /\ procs' = [procs EXCEPT ![Root] = [@ EXCEPT !.state = "suspended", !.inherits = TRUE]]
  /\ Go("assign")
  /\ UNCHANGED <<env, capture, written, readers>>

StartProcessFails ==
  /\ owner.pc = "start" /\ "fails" \in env
  /\ Refuse
  /\ UNCHANGED <<env, procs, capture, written, readers>>

Assign ==
  /\ owner.pc = "assign"
  /\ \E contained \in BOOLEAN :
       /\ contained => owner.job
       /\ ~contained => ~owner.job \/ "nojob" \in env
       /\ procs' = [procs EXCEPT ![Root].jobbed = contained]
       /\ owner' = [owner EXCEPT !.pc = "resume", !.job = contained]
  /\ UNCHANGED <<env, capture, written, readers>>

Resume ==
  /\ owner.pc = "resume"
  /\ procs' = [procs EXCEPT ![Root].state = "alive"]
  /\ Go("begin")
  /\ UNCHANGED <<env, capture, written, readers>>

ResumeFails ==
  /\ owner.pc = "resume" /\ "fails" \in env
  /\ procs' = Terminated({Root})
  /\ Refuse
  /\ UNCHANGED <<env, capture, written, readers>>

\* Begin and the first half of Drain: the write ends are shut, then the gate
\* opens.
UnsealedOnly(c) == [c EXCEPT !.seal = TRUE]
Unsealed(c) == [c EXCEPT !.writes = FALSE, !.seal = TRUE]

Begin ==
  /\ owner.pc = "begin"
  /\ capture' = Unsealed(capture)
  /\ Go("running")
  /\ UNCHANGED <<env, procs, written, readers>>

(***************************************************************************)
(* StopAndJoin.                                                            *)
(***************************************************************************)
StopChild ==
  /\ owner.pc = "running"
  /\ owner' = [owner EXCEPT !.pc = IF owner.job THEN "killjob" ELSE "collect", !.gone = TRUE]
  /\ UNCHANGED <<env, procs, capture, written, readers>>

\* Everything in the job, also where the root has exited.
JobVictimsOfRoot == IF Gone(Root) THEN {} ELSE {p \in Procs : procs[p].jobbed}
JobVictims == {p \in Procs : procs[p].jobbed}

TerminateJob ==
  /\ owner.pc = "killjob"
  /\ procs' = Terminated(JobVictims)
  /\ Go("awaitroot")
  /\ UNCHANGED <<env, capture, written, readers>>

\* CollectTree: what one snapshot shows below the root.
Children(known) == {p \in Kids : ~Gone(p) /\ procs[p].parent \in known}
CollectTree ==
  LET one == Children({Root})
      two == one \cup Children(one)
  IN two \cup Children(two)

Collect ==
  /\ owner.pc = "collect"
  /\ owner' = [owner EXCEPT !.pc = "killroot", !.victims = CollectTree]
  /\ UNCHANGED <<env, procs, capture, written, readers>>

TerminateRoot ==
  /\ owner.pc = "killroot"
  /\ procs' = Terminated({Root})
  /\ Go("awaitroot")
  /\ UNCHANGED <<env, capture, written, readers>>

AfterRoot == IF owner.job THEN "drain" ELSE "sweep"
RootGone ==
  /\ owner.pc = "awaitroot" /\ Gone(Root)
  /\ Go(AfterRoot)
  /\ UNCHANGED <<env, procs, capture, written, readers>>
RootStays ==
  /\ owner.pc = "awaitroot" /\ Lasting(Root)
  /\ owner' = [owner EXCEPT !.pc = AfterRoot, !.gone = FALSE]
  /\ UNCHANGED <<env, procs, capture, written, readers>>

\* TerminateAndWait.
TerminateDescendants ==
  /\ owner.pc = "sweep"
  /\ procs' = Terminated(owner.victims)
  /\ Go("awaitall")
  /\ UNCHANGED <<env, capture, written, readers>>
AllGone ==
  /\ owner.pc = "awaitall" /\ \A p \in owner.victims : Gone(p)
  /\ Go("drain")
  /\ UNCHANGED <<env, procs, capture, written, readers>>
SomeStay ==
  /\ owner.pc = "awaitall" /\ \E p \in owner.victims : Lasting(p)
  /\ owner' = [owner EXCEPT !.pc = "drain", !.gone = FALSE]
  /\ UNCHANGED <<env, procs, capture, written, readers>>

(***************************************************************************)
(* Drain: both readers in turn.  A reader that does not come to its end in *)
(* time has its read cancelled, which does nothing to a reader that is     *)
(* busy with the sink, and is abandoned after a grace.                     *)
(***************************************************************************)
Drain ==
  /\ owner.pc = "drain"
  /\ capture' = Unsealed(capture)
  /\ owner' = [owner EXCEPT !.pc = "join", !.channel = 1]
  /\ UNCHANGED <<env, procs, written, readers>>

Joining == Channels[owner.channel]
NextJoin(o) ==
  IF o.channel = Len(Channels) THEN [o EXCEPT !.pc = "returned"]
  ELSE [o EXCEPT !.pc = "join", !.channel = @ + 1]

Joined ==
  /\ owner.pc \in {"join", "grace"} /\ readers[Joining].state \in {"none", "ended"}
  /\ owner' = NextJoin(owner)
  /\ UNCHANGED <<env, procs, capture, written, readers>>

JoinTimesOut ==
  /\ owner.pc = "join" /\ readers[Joining].state \notin {"none", "ended"}
  /\ "slow" \in env \/ capture.writes \/ \E p \in Procs : Holds(p) /\ Lasting(p)
  /\ SetReader(Joining, [readers[Joining] EXCEPT !.cancelled = (readers[Joining].state = "reading")])
  /\ Go("grace")
  /\ UNCHANGED <<env, procs, capture, written>>

Abandon ==
  /\ owner.pc = "grace" /\ readers[Joining].state # "ended" /\ ~readers[Joining].cancelled
  /\ owner' = NextJoin(owner)
  /\ UNCHANGED <<env, procs, capture, written, readers>>

\* The destructor: once more, then the job is closed, which kills what is in
\* it.  (The second StopAndJoin finds no reader left to join.)
Destroy ==
  /\ owner.pc = "returned"
  /\ procs' = Terminated(JobVictims \cup {Root})
  /\ Go("closed")
  /\ UNCHANGED <<env, capture, written, readers>>

-----------------------------------------------------------------------------
Init ==
  /\ env \in Environments
  /\ procs = [p \in Procs |-> Unborn]
  /\ capture = [writes |-> FALSE, seal |-> FALSE]
  /\ written = [c \in Channel |-> 0]
  /\ readers = [c \in Channel |-> NoReader]
  /\ owner = [pc |-> "build", job |-> FALSE, gone |-> TRUE, refused |-> FALSE, victims |-> {},
              channel |-> 1]

ReaderNext == \E c \in Channel : SealOpens(c) \/ ReadSome(c) \/ HandOver(c) \/ ReadEnds(c)
TreeNext ==
  \E p \in Procs :
    \/ \E c \in Channel : Writes(p, c)
    \/ \E kid \in Kids, inherits \in BOOLEAN : Spawns(p, kid, inherits)
    \/ Exits(p)
Deaths == \E p \in Procs : Dies(p)
OwnerNext ==
  \/ Build \/ BuildFails \/ CreateContainingJob \/ StartProcess \/ StartProcessFails \/ Assign
  \/ Resume \/ ResumeFails \/ Begin
  \/ TerminateJob \/ Collect \/ TerminateRoot \/ RootGone \/ RootStays
  \/ TerminateDescendants \/ AllGone \/ SomeStay
  \/ Drain \/ Joined \/ JoinTimesOut \/ Abandon \/ Destroy

Next == ReaderNext \/ TreeNext \/ Deaths \/ OwnerNext \/ StopChild
Spec == Init /\ [][Next]_vars

\* Threads of the program go on, and a process told to end does; it need not
\* write, start another, or exit by itself, nor need anybody stop it.
FairSpec ==
  /\ Spec
  /\ \A c \in Channel : WF_vars(SealOpens(c) \/ ReadSome(c) \/ HandOver(c) \/ ReadEnds(c))
  /\ WF_vars(OwnerNext)
  /\ WF_vars("stuck" \notin env /\ Deaths)

-----------------------------------------------------------------------------
TypeOK ==
  /\ env \in SUBSET Conditions
  /\ \A p \in Procs :
       /\ procs[p].state \in {"none", "suspended", "alive", "dying", "gone"}
       /\ procs[p].parent \in Procs
       /\ procs[p].jobbed \in BOOLEAN /\ procs[p].inherits \in BOOLEAN
  /\ capture \in [writes : BOOLEAN, seal : BOOLEAN]
  /\ \A c \in Channel :
       /\ readers[c].read <= written[c] /\ written[c] <= Len(Script[c])
       /\ readers[c].state \in {"none", "parked", "reading", "busy", "ended"}
       /\ Len(readers[c].pending) <= kMaxPendingBytes
  /\ owner.victims \subseteq Kids /\ owner.channel \in 1..Len(Channels)

Letters(s) == SelectSeq(s, LAMBDA b : b \notin {"cr", "nl"})
ShortUpTo(c, k) ==
  k \in DOMAIN Lines[c] /\ \A j \in 1..k : Len(Lines[c][j]) < kMaxPendingBytes

\* However the pipe cuts what is written, the sink has the lines that were
\* meant: every byte once and in order, and one line for each line up to the
\* first that outgrows the bound, the last delivered perhaps not whole
\* (child_output.cpp:300-335).
LinesAreWhole ==
  \A c \in Channel :
    LET lines == readers[c].lines IN
    /\ IsPrefix(Letters(FlattenSeq(lines)), FlattenSeq(Lines[c]))
    /\ \A k \in 1..(Len(lines) - 1) : ShortUpTo(c, k) => lines[k] = Lines[c][k]

\* "Also when the process has already exited: a descendant in the job can
\* outlive it" (process.cpp:250-251): once a contained child has been stopped,
\* nothing it started is left running, and nothing starts again.
StoppedIsGone ==
  owner.pc \in {"drain", "join", "grace", "returned", "closed"} /\ owner.job /\ ~owner.refused
    => \A p \in Procs : ~Running(p)

\* What makes it inductive: every process the job is to take down is in it, from
\* before the child runs; and a child outside a job is stopped another way.
Places ==
  {"build", "job", "start", "assign", "resume", "begin", "running", "killjob", "collect",
   "killroot", "awaitroot", "sweep", "awaitall", "drain", "join", "grace", "returned", "closed"}
Stopping == {"awaitroot", "drain", "join", "grace", "returned", "closed"}
Contained == owner.job /\ ~owner.refused

ContainedTyped ==
  /\ procs \in [Procs -> [state : {"none", "suspended", "alive", "dying", "gone"},
                          parent : Procs, jobbed : BOOLEAN, inherits : BOOLEAN]]
  /\ owner \in [pc : Places, job : BOOLEAN, gone : BOOLEAN, refused : BOOLEAN,
                victims : SUBSET Kids, channel : Nat]

ContainedInOrder ==
  /\ ContainedTyped
  /\ owner.pc \in {"build", "job", "start"} => \A p \in Procs : procs[p].state = "none"
  /\ owner.pc \in {"assign", "resume"} => \A p \in Kids : procs[p].state = "none"
  /\ owner.pc \in {"collect", "killroot", "sweep", "awaitall"} => ~owner.job
  /\ owner.pc \in {"assign", "resume"} => procs[Root].state = "suspended"
  /\ Contained /\ owner.pc \in {"resume", "begin", "running", "killjob"} =>
       \A p \in Procs : procs[p].state # "none" => procs[p].jobbed
  /\ Contained /\ owner.pc \in Stopping => \A p \in Procs : ~Running(p)

\* "so "stopped" means everything the child wrote has been delivered"
\* (process.cpp:298), for a child in a job whose processes end when told to
\* and a sink that keeps up.
Delivered ==
  \A c \in Channel :
    /\ readers[c].state = "ended"
    /\ Letters(FlattenSeq(readers[c].lines)) = Letters(SubSeq(Script[c], 1, written[c]))
StoppedMeansDelivered ==
  owner.pc = "returned" /\ owner.job /\ ~owner.refused /\ env \cap {"stuck", "slow"} = {} => Delivered

\* A reader that is abandoned is waiting for another process, never for this
\* program's own end of the pipe nor behind a gate nobody opens: as soon as no
\* process holds the pipe it comes to its end (child_output.cpp:215-242,
\* process.cpp:329-362).
ReadersEnd ==
  \A c \in Channel :
    []<>(readers[c].state \in {"none", "ended"} \/ \E p \in Procs : Holds(p))

(***************************************************************************)
(* Said of the program, and refuted by what it does: README, section 6.    *)
(***************************************************************************)
\* process.cpp:298 again, on "every path": also for a child the system would
\* not contain.
StoppedMeansDeliveredOnEveryPath ==
  owner.pc = "returned" /\ owner.gone /\ ~owner.refused /\ env \cap {"stuck", "slow"} = {} => Delivered
=============================================================================
