---------------------------- MODULE UpdatesProofs ----------------------------
(***************************************************************************)
(* Updates, for any files and releases, whatever happens together, and     *)
(* however often a process or the machine stops.                           *)
(*                                                                         *)
(* InstallKept is inductive only as a whole: what the updater may do with  *)
(* the order rests on what the passes staged, and that on the copies they  *)
(* verified. Each of its parts has a lemma of its own, with a case for     *)
(* each group of steps, that cites the parts it rests on and no other.     *)
(***************************************************************************)
EXTENDS Updates, TLAPS

\* What a slot of any file may hold.
Content == Contents \cup Installed \cup {Absent, Partial}

-----------------------------------------------------------------------------
(***************************************************************************)
(* Types, and what the helpers make of a file                              *)
(***************************************************************************)

\* What a manifest lists are files, the executable among them, and no content
\* of a release is that of a missing or half-written file.
LEMMA ListedContents ==
  ASSUME UpdatesAssumption
  PROVE  /\ \A r \in Releases : /\ Listed(r) \subseteq Files
                                /\ Exe \in Listed(r)
                                /\ \A f \in Listed(r) : Release[r][f] \in Contents
         /\ \A v \in Contents : v # Absent /\ v # Partial
         /\ Exe \in Files /\ Assets = Files \ {Exe}
         /\ 0 \in Releases /\ Releases \subseteq Nat
         /\ NotRunning \notin Releases /\ Absent # Partial /\ MaxStops \in Nat
BY DEF UpdatesAssumption, Listed, Contents, Releases, Files

\* The install the program starts from is typed, its executable a release's.
LEMMA TypeInit == ASSUME UpdatesAssumption PROVE Init => TypeOK /\ ExecutableOnly
<1> SUFFICES ASSUME Init PROVE TypeOK /\ ExecutableOnly
  OBVIOUS
<1>1. disk \in [Files -> [Slots -> Content]]
  BY ListedContents DEF Init, Slots, Content
<1>2. before \in [Files -> Content]
  BY <1>1 DEF Init, InPlace, Place, Slots
<1>3. ExecutableOnly
  BY <1>1, ListedContents DEF Init, ExecutableOnly, Slots, Place
<1>4. QED
  BY <1>1, <1>2, <1>3, ListedContents DEF Init, TypeOK, None, UpdatesAssumption, Content

\* The type of the disk, by the name it has here.
LEMMA DiskType == TypeOK => disk \in [Files -> [Slots -> Content]]
BY DEF TypeOK, Content

\* Deleting staged copies changes nothing else of a file.
LEMMA WithoutSlots ==
  ASSUME TypeOK, NEW fs
  PROVE  /\ Without(fs) \in [Files -> [Slots -> Content]]
         /\ \A f \in Files :
              /\ Without(fs)[f].cur = Place(f) /\ Without(fs)[f].bak = disk[f].bak
              /\ Without(fs)[f].new = IF f \in fs /\ <<f, "new">> \notin held
                                     THEN Absent ELSE disk[f].new
<1>1. \A f \in Files : [disk[f] EXCEPT !.new = Absent] \in [Slots -> Content]
  BY DiskType DEF Slots, Content
<1>2. \A f \in Files : Without(fs)[f] = IF f \in fs /\ <<f, "new">> \notin held
                                       THEN [disk[f] EXCEPT !.new = Absent] ELSE disk[f]
  BY DEF Without
<1>3. Without(fs) \in [Files -> [Slots -> Content]]
  BY <1>1, DiskType DEF Without
<1>4. QED
  BY <1>2, <1>3, DiskType DEF Slots, Place

\* What the way back makes of a staged file.
LEMMA RestoredSlots ==
  ASSUME TypeOK, NEW f \in Files
  PROVE  /\ Restored(f) \in [Slots -> Content]
         /\ Restored(f).cur = IF f \in movedBak THEN disk[f].bak
                             ELSE IF f \in applied THEN Absent ELSE Place(f)
         /\ Restored(f).bak = IF f \in movedBak THEN Absent ELSE disk[f].bak
         /\ <<f, "new">> \notin held => Restored(f).new = Absent
<1>1. disk[f] \in [Slots -> Content] /\ Absent \in Content
  BY DiskType DEF Content
<1>2. CASE f \in movedBak
  BY <1>1, <1>2 DEF Restored, Slots
<1>3. CASE f \notin movedBak
  BY <1>1, <1>3 DEF Restored, Slots, Place
<1>4. QED
  BY <1>2, <1>3

\* An executable that is in its place is some release's.
LEMMA Versions ==
  ASSUME UpdatesAssumption, ExecutableOnly, Place(Exe) \in Contents
  PROVE  VersionOf(Place(Exe)) \in Releases /\ Release[VersionOf(Place(Exe))][Exe] = Place(Exe)
<1>1. \E r \in Releases : Release[r][Exe] = Place(Exe)
  BY ListedContents DEF ExecutableOnly, Slots, Place
<1>2. QED
  BY <1>1 DEF VersionOf

\* CleanUp, NothingToDo and BeforeApply delete copies and keep the types.
LEMMA CopiesGo ==
  ASSUME TypeOK, ExecutableOnly, Exe \in Files, NEW fs, disk' = Without(fs)
  PROVE  disk' \in [Files -> [Slots -> Content]] /\ ExecutableOnly'
<1>1. disk' \in [Files -> [Slots -> Content]]
  BY WithoutSlots
<1>2. /\ disk'[Exe].cur = disk[Exe].cur /\ disk'[Exe].bak = disk[Exe].bak
      /\ disk'[Exe].new \in {disk[Exe].new, Absent}
  BY WithoutSlots DEF Place
<1>3. QED
  BY <1>1, <1>2 DEF ExecutableOnly, Slots

\* RollBack keeps the types.
LEMMA AllGoesBack ==
  ASSUME TypeOK, ExecutableOnly, Exe \in Files, RollBack
  PROVE  disk' \in [Files -> [Slots -> Content]] /\ ExecutableOnly'
<1>1. disk' \in [Files -> [Slots -> Content]]
  BY RestoredSlots, DiskType DEF RollBack
<1>2. disk[Exe] \in [Slots -> Content] /\ disk'[Exe] \in {disk[Exe], Restored(Exe)}
  BY DiskType DEF RollBack
<1>3. /\ Restored(Exe).cur \in {disk[Exe].cur, disk[Exe].bak, Absent}
      /\ Restored(Exe).bak \in {disk[Exe].bak, Absent}
      /\ Restored(Exe).new \in {disk[Exe].new, Absent}
  BY <1>2 DEF Restored, Slots
<1>4. QED
  BY <1>1, <1>2, <1>3 DEF ExecutableOnly, Slots

\* SwapPutBack keeps the types.
LEMMA ImageGoesBack ==
  ASSUME TypeOK, ExecutableOnly, Exe \in Files, SwapPutBack
  PROVE  disk' \in [Files -> [Slots -> Content]] /\ ExecutableOnly'
<1>1. disk' = [disk EXCEPT ![Exe].cur = disk[Exe].bak, ![Exe].bak = Absent]
  BY DEF SwapPutBack
<1>2. disk[Exe].bak \in Content /\ Absent \in Content
  BY DiskType DEF Content, Slots
<1>3. disk' \in [Files -> [Slots -> Content]]
  BY <1>1, <1>2, DiskType DEF Slots
<1>4. ExecutableOnly'
  BY <1>1, DiskType DEF ExecutableOnly, Slots
<1>5. QED
  BY <1>3, <1>4

\* The staged copies that are left over go, all of them while nothing is held.
LEMMA LeftoversGo ==
  ASSUME TypeOK, TakeTurns, ~Moving, NEW fs, disk' = Without(Leftovers(fs))
  PROVE  \A f \in Files :
           /\ disk'[f].cur = disk[f].cur /\ disk'[f].bak = disk[f].bak
           /\ disk'[f].new = IF f \in allNew \ fs THEN Absent ELSE disk[f].new
<1>1. held = {}
  BY DEF TakeTurns
<1>2. QED
  BY <1>1, WithoutSlots DEF Leftovers, Place

\* Every step keeps the types, and an executable's slots to executables.
LEMMA TypeStep ==
  ASSUME UpdatesAssumption, TypeOK, ExecutableOnly, PassInOrder, [Next]_vars
  PROVE  TypeOK' /\ ExecutableOnly'
<1> USE ListedContents DEF TypeOK, ExecutableOnly, PassInOrder, client, updater, progress,
    program, Slots, Place, None, Content
<1>1. CASE Begin
  BY <1>1 DEF Begin, InPlace
<1>2. CASE ListFiles
  BY <1>2 DEF ListFiles, Committed, Staging
<1>3. CASE NextFile
  BY <1>3 DEF NextFile, Reusable, Committed, Staging
<1>4. CASE FileVerified
  BY <1>4 DEF FileVerified
<1>5. CASE RemoteStale
  BY <1>5 DEF RemoteStale
<1>6. CASE Refetch
  BY <1>6 DEF Refetch
<1>7. CASE FetchEnds
  BY <1>7 DEF FetchEnds
<1>8. CASE CleanUp
  <2>1. disk' = Without(Leftovers({}))
    BY <1>8 DEF CleanUp
  <2>2. QED
    BY <1>8, <2>1, CopiesGo, DiskType DEF CleanUp
<1>9. CASE NothingToDo
  <2>1. disk' = Without(Leftovers({}))
    BY <1>9 DEF NothingToDo
  <2>2. QED
    BY <1>9, <2>1, CopiesGo, DiskType DEF NothingToDo
<1>10. CASE BeforeApply
  <2>1. disk' = Without(Leftovers(staged))
    BY <1>10 DEF BeforeApply
  <2>2. QED
    BY <1>10, <2>1, CopiesGo, DiskType DEF BeforeApply
<1>11. CASE MoveAside
  <2>1. PICK f \in todo : disk' \in {[disk EXCEPT ![f].bak = @], [disk EXCEPT ![f].bak = Absent],
                                    [disk EXCEPT ![f].bak = Place(f), ![f].cur = Absent]}
    BY <1>11 DEF MoveAside
  <2>2. disk' \in [Files -> [Slots -> Contents \cup Installed \cup {Absent, Partial}]]
    BY <2>1
  <2>3. ExecutableOnly'
    BY <2>1
  <2>4. /\ movedBak' \in SUBSET Files /\ todo' \in SUBSET Files /\ file' \in Files
        /\ pc' \in {"install", "rollback"}
    BY <1>11 DEF MoveAside
  <2>5. UNCHANGED <<held, doomed, served, running, current, attempt, staged, verified, allNew,
                    applied, outcome, before, updater, stops, events>>
    BY <1>11 DEF MoveAside
  <2> QED
    BY <2>2, <2>3, <2>4, <2>5
<1>12. CASE Install
  BY <1>12 DEF Install
<1>13. CASE RollBack
  BY <1>13, AllGoesBack DEF RollBack
<1>14. CASE Applied
  BY <1>14 DEF Applied
<1>15. CASE WriteOrder
  BY <1>15 DEF WriteOrder, Order
<1>16. CASE ExtractModule
  BY <1>16 DEF ExtractModule
<1>17. CASE ModuleWritten
  BY <1>17 DEF ModuleWritten
<1>18. CASE LaunchUpdater
  BY <1>18 DEF LaunchUpdater, Order
<1>19. CASE LaunchFails
  BY <1>19 DEF LaunchFails, Order
<1>20. CASE Uninstall
  BY <1>20 DEF Uninstall
<1>21. CASE Exit
  BY <1>21 DEF Exit, Fresh
<1>22. CASE WaitForProcessExit
  BY <1>22 DEF WaitForProcessExit
<1>23. CASE WaitTimesOut
  BY <1>23 DEF WaitTimesOut
<1>24. CASE SwapAside
  BY <1>24 DEF SwapAside
<1>25. CASE SwapRefused
  BY <1>25 DEF SwapRefused, Consume
<1>26. CASE SwapInstall
  BY <1>26 DEF SwapInstall
<1>27. CASE SwapPutBack
  BY <1>27, ImageGoesBack DEF SwapPutBack, Consume
<1>28. CASE SwapDone
  BY <1>28, Versions DEF SwapDone, Consume, Relaunch, Fresh
<1>29. CASE Remove
  BY <1>29 DEF Remove, Consume
<1>30. CASE Publish
  BY <1>30 DEF Publish
<1>31. CASE StartProgram
  BY <1>31, Versions DEF StartProgram, Relaunch, Fresh
<1>32. CASE KillProgram
  BY <1>32 DEF KillProgram, Fresh
<1>33. CASE KillUpdater
  BY <1>33 DEF KillUpdater
<1>34. CASE Reboot
  BY <1>34 DEF Reboot, Fresh
<1>35. CASE UNCHANGED vars
  BY <1>35 DEF vars
<1>36. QED
  BY <1>1, <1>2, <1>3, <1>4, <1>5, <1>6, <1>7, <1>8, <1>9, <1>10, <1>11, <1>12, <1>13, <1>14,
     <1>15, <1>16, <1>17, <1>18, <1>19, <1>20, <1>21, <1>22, <1>23, <1>24, <1>25, <1>26, <1>27,
     <1>28, <1>29, <1>30, <1>31, <1>32, <1>33, <1>34, <1>35
  DEF Next, Client, Download, Apply, HandOver, Updater, Wait

\* Client and updater take turns.
LEMMA TakeTurnsStep ==
  ASSUME UpdatesAssumption, TypeOK, InstallKept, [Next]_vars
  PROVE  TakeTurns'
<1> USE DEF InstallKept, TakeTurns, client, updater, program, None, Moving
<1>1. CASE Begin \/ Uninstall
  BY <1>1 DEF Begin, Uninstall, InPlace
<1>2. CASE ListFiles
  BY <1>2 DEF ListFiles, NeedsUpdate
<1>3. CASE Download
  BY <1>3 DEF Download, NextFile, FileVerified, RemoteStale, Refetch, FetchEnds, Reusable
<1>4. CASE CleanUp \/ NothingToDo
  BY <1>4, LeftoversGo DEF CleanUp, NothingToDo
<1>5. CASE BeforeApply
  BY <1>5, LeftoversGo DEF BeforeApply
<1>6. CASE MoveAside
  BY <1>6 DEF MoveAside
<1>7. CASE Install
  BY <1>7 DEF Install
<1>8. CASE RollBack
  BY <1>8, RestoredSlots DEF RollBack
<1>9. CASE Applied
  BY <1>9 DEF Applied
<1>10. CASE HandOver
  BY <1>10 DEF HandOver, WriteOrder, ExtractModule, ModuleWritten, LaunchUpdater, LaunchFails,
      Order
<1>11. CASE Wait
  BY <1>11 DEF Wait, WaitForProcessExit, WaitTimesOut
<1>12. CASE Updater
  BY <1>12 DEF Updater, SwapAside, SwapRefused, SwapInstall, SwapPutBack, SwapDone, Remove,
      Consume, Relaunch, Fresh
<1>13. CASE Exit \/ StartProgram \/ KillProgram \/ Reboot
  BY <1>13 DEF Exit, StartProgram, KillProgram, Reboot, Relaunch, Fresh
<1>14. CASE Publish \/ KillUpdater
  BY <1>14 DEF Publish, KillUpdater
<1>15. CASE UNCHANGED vars
  BY <1>15 DEF vars
<1>16. QED
  BY <1>1, <1>2, <1>3, <1>4, <1>5, <1>6, <1>7, <1>8, <1>9, <1>10, <1>11, <1>12, <1>13, <1>14,
     <1>15
  DEF Next, Client, Apply

\* The passes go over the list in order.
LEMMA PassInOrderStep ==
  ASSUME UpdatesAssumption, TypeOK, InstallKept, [Next]_vars
  PROVE  PassInOrder'
<1> USE DEF InstallKept, PassInOrder, client, updater, progress, program, None, Committed,
    Staging, Moving, Downloading, Ordered, TypeOK
<1>1. CASE Begin \/ Uninstall
  BY <1>1 DEF Begin, Uninstall, InPlace
<1>2. CASE ListFiles
  BY <1>2 DEF ListFiles, NeedsUpdate
<1>3. CASE Download
  BY <1>3 DEF Download, NextFile, FileVerified, RemoteStale, Refetch, FetchEnds, Reusable
<1>4. CASE CleanUp \/ NothingToDo
  BY <1>4, LeftoversGo DEF CleanUp, NothingToDo
<1>5. CASE BeforeApply
  BY <1>5, LeftoversGo DEF BeforeApply
<1>6. CASE MoveAside
  BY <1>6 DEF MoveAside
<1>7. CASE Install
  BY <1>7 DEF Install
<1>8. CASE RollBack
  BY <1>8, RestoredSlots DEF RollBack
<1>9. CASE Applied
  BY <1>9 DEF Applied
<1>10. CASE HandOver
  BY <1>10 DEF HandOver, WriteOrder, ExtractModule, ModuleWritten, LaunchUpdater, LaunchFails,
      Order
<1>11. CASE Wait
  BY <1>11 DEF Wait, WaitForProcessExit, WaitTimesOut
<1>12. CASE Updater
  BY <1>12 DEF Updater, SwapAside, SwapRefused, SwapInstall, SwapPutBack, SwapDone, Remove,
      Consume, Relaunch, Fresh
<1>13. CASE Exit \/ StartProgram \/ KillProgram \/ Reboot
  BY <1>13 DEF Exit, StartProgram, KillProgram, Reboot, Relaunch, Fresh
<1>14. CASE Publish \/ KillUpdater
  BY <1>14 DEF Publish, KillUpdater
<1>15. CASE UNCHANGED vars
  BY <1>15 DEF vars
<1>16. QED
  BY <1>1, <1>2, <1>3, <1>4, <1>5, <1>6, <1>7, <1>8, <1>9, <1>10, <1>11, <1>12, <1>13, <1>14,
     <1>15
  DEF Next, Client, Apply

\* The moves follow the passes.
LEMMA MovesInOrderStep ==
  ASSUME UpdatesAssumption, TypeOK, InstallKept, [Next]_vars
  PROVE  MovesInOrder'
<1> USE DEF InstallKept, MovesInOrder, PassInOrder, client, progress, program, Slots, Place,
    Committed, Staging, Moving, Downloading, Ordered, TypeOK
<1>1. CASE Begin \/ Uninstall
  BY <1>1 DEF Begin, Uninstall, InPlace
<1>2. CASE ListFiles
  BY <1>2 DEF ListFiles, NeedsUpdate
<1>3. CASE Download
  BY <1>3 DEF Download, NextFile, FileVerified, RemoteStale, Refetch, FetchEnds, Reusable
<1>4. CASE CleanUp \/ NothingToDo
  BY <1>4, LeftoversGo DEF CleanUp, NothingToDo
<1>5. CASE BeforeApply
  BY <1>5, LeftoversGo DEF BeforeApply
<1>6. CASE MoveAside
  BY <1>6 DEF MoveAside
<1>7. CASE Install
  BY <1>7 DEF Install
<1>8. CASE RollBack
  BY <1>8, RestoredSlots DEF RollBack
<1>9. CASE Applied
  BY <1>9 DEF Applied
<1>10. CASE HandOver
  BY <1>10 DEF HandOver, WriteOrder, ExtractModule, ModuleWritten, LaunchUpdater, LaunchFails,
      Order
<1>11. CASE Wait
  BY <1>11 DEF Wait, WaitForProcessExit, WaitTimesOut
<1>12. CASE Updater
  BY <1>12 DEF Updater, SwapAside, SwapRefused, SwapInstall, SwapPutBack, SwapDone, Remove,
      Consume, Relaunch, Fresh
<1>13. CASE Exit \/ StartProgram \/ KillProgram \/ Reboot
  BY <1>13 DEF Exit, StartProgram, KillProgram, Reboot, Relaunch, Fresh
<1>14. CASE Publish \/ KillUpdater
  BY <1>14 DEF Publish, KillUpdater
<1>15. CASE UNCHANGED vars
  BY <1>15 DEF vars
<1>16. QED
  BY <1>1, <1>2, <1>3, <1>4, <1>5, <1>6, <1>7, <1>8, <1>9, <1>10, <1>11, <1>12, <1>13, <1>14,
     <1>15
  DEF Next, Client, Apply

\* A copy held for verified stays the one that was verified.
LEMMA CopiesVerifiedStep ==
  ASSUME UpdatesAssumption, TypeOK, InstallKept, [Next]_vars
  PROVE  CopiesVerified'
<1> USE DEF InstallKept, CopiesVerified, PassInOrder, client, progress, program, Slots,
    Committed, Staging, Moving, Downloading, Ordered, TypeOK
<1>1. CASE Begin \/ Uninstall
  BY <1>1 DEF Begin, Uninstall, InPlace
<1>2. CASE ListFiles
  BY <1>2 DEF ListFiles, NeedsUpdate
<1>3. CASE Download
  BY <1>3 DEF Download, NextFile, FileVerified, RemoteStale, Refetch, FetchEnds, Reusable
<1>4. CASE CleanUp \/ NothingToDo
  BY <1>4, LeftoversGo DEF CleanUp, NothingToDo
<1>5. CASE BeforeApply
  BY <1>5, LeftoversGo DEF BeforeApply
<1>6. CASE MoveAside
  BY <1>6 DEF MoveAside
<1>7. CASE Install
  BY <1>7 DEF Install
<1>8. CASE RollBack
  BY <1>8, RestoredSlots DEF RollBack
<1>9. CASE Applied
  BY <1>9 DEF Applied
<1>10. CASE HandOver
  BY <1>10 DEF HandOver, WriteOrder, ExtractModule, ModuleWritten, LaunchUpdater, LaunchFails,
      Order
<1>11. CASE Wait
  BY <1>11 DEF Wait, WaitForProcessExit, WaitTimesOut
<1>12. CASE Updater
  BY <1>12 DEF Updater, SwapAside, SwapRefused, SwapInstall, SwapPutBack, SwapDone, Remove,
      Consume, Relaunch, Fresh
<1>13. CASE Exit \/ StartProgram \/ KillProgram \/ Reboot
  BY <1>13 DEF Exit, StartProgram, KillProgram, Reboot, Relaunch, Fresh
<1>14. CASE Publish \/ KillUpdater
  BY <1>14 DEF Publish, KillUpdater
<1>15. CASE UNCHANGED vars
  BY <1>15 DEF vars
<1>16. QED
  BY <1>1, <1>2, <1>3, <1>4, <1>5, <1>6, <1>7, <1>8, <1>9, <1>10, <1>11, <1>12, <1>13, <1>14,
     <1>15
  DEF Next, Client, Apply

\* What is staged stays the manifest's, and what replaces a file is it.
LEMMA StagedIsListedStep ==
  ASSUME UpdatesAssumption, TypeOK, InstallKept, [Next]_vars
  PROVE  StagedIsListed'
<1> USE ListedContents DEF InstallKept, StagedIsListed, TakeTurns, PassInOrder, MovesInOrder,
    CopiesVerified, client, updater, progress, program, Slots, Place, None, Committed, Staging,
    Moving, Downloading, Ordered, OneUpdater, TypeOK
<1>1. CASE Begin \/ Uninstall
  BY <1>1 DEF Begin, Uninstall, InPlace
<1>2. CASE ListFiles
  BY <1>2 DEF ListFiles, NeedsUpdate
<1>3. CASE Download
  BY <1>3 DEF Download, NextFile, FileVerified, RemoteStale, Refetch, FetchEnds, Reusable
<1>4. CASE CleanUp \/ NothingToDo
  BY <1>4, LeftoversGo DEF CleanUp, NothingToDo
<1>5. CASE BeforeApply
  BY <1>5, LeftoversGo DEF BeforeApply
<1>6. CASE MoveAside
  BY <1>6 DEF MoveAside
<1>7. CASE Install
  BY <1>7 DEF Install
<1>8. CASE RollBack
  BY <1>8, RestoredSlots DEF RollBack
<1>9. CASE Applied
  BY <1>9 DEF Applied
<1>10. CASE HandOver
  BY <1>10 DEF HandOver, WriteOrder, ExtractModule, ModuleWritten, LaunchUpdater, LaunchFails,
      Order
<1>11. CASE Wait
  BY <1>11 DEF Wait, WaitForProcessExit, WaitTimesOut
<1>12. CASE Updater
  BY <1>12 DEF Updater, SwapAside, SwapRefused, SwapInstall, SwapPutBack, SwapDone, Remove,
      Consume, Relaunch, Fresh
<1>13. CASE Exit \/ StartProgram \/ KillProgram \/ Reboot
  BY <1>13 DEF Exit, StartProgram, KillProgram, Reboot, Relaunch, Fresh
<1>14. CASE Publish \/ KillUpdater
  BY <1>14 DEF Publish, KillUpdater
<1>15. CASE UNCHANGED vars
  BY <1>15 DEF vars
<1>16. QED
  BY <1>1, <1>2, <1>3, <1>4, <1>5, <1>6, <1>7, <1>8, <1>9, <1>10, <1>11, <1>12, <1>13, <1>14,
     <1>15
  DEF Next, Client, Apply

\* No asset that differs is forgotten.
LEMMA NoneSkippedStep ==
  ASSUME UpdatesAssumption, TypeOK, InstallKept, [Next]_vars
  PROVE  NoneSkipped'
<1> USE ListedContents, DiskType DEF InstallKept, NoneSkipped, MovesInOrder, StagedIsListed,
    client, updater, progress, program, Slots, Place, None, Committed, Staging, Moving, Ordered,
    OneUpdater
<1>1. CASE Begin \/ Uninstall
  BY <1>1 DEF Begin, Uninstall, InPlace
<1>2. CASE ListFiles
  BY <1>2 DEF ListFiles, NeedsUpdate
<1>3. CASE Download
  BY <1>3 DEF Download, NextFile, FileVerified, RemoteStale, Refetch, FetchEnds, Reusable
<1>4. CASE CleanUp \/ NothingToDo
  BY <1>4, LeftoversGo DEF CleanUp, NothingToDo
<1>5. CASE BeforeApply
  BY <1>5, LeftoversGo DEF BeforeApply
<1>6. CASE MoveAside
  BY <1>6 DEF MoveAside
<1>7. CASE Install
  BY <1>7 DEF Install
<1>8. CASE RollBack
  BY <1>8, RestoredSlots DEF RollBack
<1>9. CASE Applied
  BY <1>9 DEF Applied
<1>10. CASE HandOver
  BY <1>10 DEF HandOver, WriteOrder, ExtractModule, ModuleWritten, LaunchUpdater, LaunchFails,
      Order
<1>11. CASE Wait
  BY <1>11 DEF Wait, WaitForProcessExit, WaitTimesOut
<1>12. CASE Updater
  BY <1>12 DEF Updater, SwapAside, SwapRefused, SwapInstall, SwapPutBack, SwapDone, Remove,
      Consume, Relaunch, Fresh
<1>13. CASE Exit \/ StartProgram \/ KillProgram \/ Reboot
  BY <1>13 DEF Exit, StartProgram, KillProgram, Reboot, Relaunch, Fresh
<1>14. CASE Publish \/ KillUpdater
  BY <1>14 DEF Publish, KillUpdater
<1>15. CASE UNCHANGED vars
  BY <1>15 DEF vars
<1>16. QED
  BY <1>1, <1>2, <1>3, <1>4, <1>5, <1>6, <1>7, <1>8, <1>9, <1>10, <1>11, <1>12, <1>13, <1>14,
     <1>15
  DEF Next, Client, Apply

\* What a way back needs is there until the last move.
LEMMA RestorableStep ==
  ASSUME UpdatesAssumption, TypeOK, InstallKept, [Next]_vars
  PROVE  Restorable'
<1> USE DiskType DEF InstallKept, Restorable, TakeTurns, PassInOrder, MovesInOrder, client,
    progress, program, Slots, Place, None, Committed, Staging, Moving, Downloading, Ordered,
    Mine, TypeOK
<1>1. CASE Begin \/ Uninstall
  BY <1>1 DEF Begin, Uninstall, InPlace
<1>2. CASE ListFiles
  BY <1>2 DEF ListFiles, NeedsUpdate
<1>3. CASE Download
  BY <1>3 DEF Download, NextFile, FileVerified, RemoteStale, Refetch, FetchEnds, Reusable
<1>4. CASE CleanUp \/ NothingToDo
  BY <1>4, LeftoversGo DEF CleanUp, NothingToDo
<1>5. CASE BeforeApply
  BY <1>5, LeftoversGo DEF BeforeApply
<1>6. CASE MoveAside
  BY <1>6 DEF MoveAside
<1>7. CASE Install
  BY <1>7 DEF Install
<1>8. CASE RollBack
  BY <1>8, RestoredSlots DEF RollBack
<1>9. CASE Applied
  BY <1>9 DEF Applied
<1>10. CASE HandOver
  BY <1>10 DEF HandOver, WriteOrder, ExtractModule, ModuleWritten, LaunchUpdater, LaunchFails,
      Order
<1>11. CASE Wait
  BY <1>11 DEF Wait, WaitForProcessExit, WaitTimesOut
<1>12. CASE Updater
  BY <1>12 DEF Updater, SwapAside, SwapRefused, SwapInstall, SwapPutBack, SwapDone, Remove,
      Consume, Relaunch, Fresh
<1>13. CASE Exit \/ StartProgram \/ KillProgram \/ Reboot
  BY <1>13 DEF Exit, StartProgram, KillProgram, Reboot, Relaunch, Fresh
<1>14. CASE Publish \/ KillUpdater
  BY <1>14 DEF Publish, KillUpdater
<1>15. CASE UNCHANGED vars
  BY <1>15 DEF vars
<1>16. QED
  BY <1>1, <1>2, <1>3, <1>4, <1>5, <1>6, <1>7, <1>8, <1>9, <1>10, <1>11, <1>12, <1>13, <1>14,
     <1>15
  DEF Next, Client, Apply

\* Nothing half-written gets behind a file either.
LEMMA NothingPartialBehindStep ==
  ASSUME UpdatesAssumption, TypeOK, InstallKept, [Next]_vars
  PROVE  NothingPartialBehind'
<1> USE ListedContents, DiskType DEF InstallKept, NothingPartialBehind, Restorable, client,
    program, Slots, Place, Moving, Downloading, Mine
<1>1. CASE Begin \/ Uninstall
  BY <1>1 DEF Begin, Uninstall, InPlace
<1>2. CASE ListFiles
  BY <1>2 DEF ListFiles, NeedsUpdate
<1>3. CASE Download
  BY <1>3 DEF Download, NextFile, FileVerified, RemoteStale, Refetch, FetchEnds, Reusable
<1>4. CASE CleanUp \/ NothingToDo
  BY <1>4, LeftoversGo DEF CleanUp, NothingToDo
<1>5. CASE BeforeApply
  BY <1>5, LeftoversGo DEF BeforeApply
<1>6. CASE MoveAside
  BY <1>6 DEF MoveAside
<1>7. CASE Install
  BY <1>7 DEF Install
<1>8. CASE RollBack
  BY <1>8, RestoredSlots DEF RollBack
<1>9. CASE Applied
  BY <1>9 DEF Applied
<1>10. CASE HandOver
  BY <1>10 DEF HandOver, WriteOrder, ExtractModule, ModuleWritten, LaunchUpdater, LaunchFails,
      Order
<1>11. CASE Wait
  BY <1>11 DEF Wait, WaitForProcessExit, WaitTimesOut
<1>12. CASE Updater
  BY <1>12 DEF Updater, SwapAside, SwapRefused, SwapInstall, SwapPutBack, SwapDone, Remove,
      Consume, Relaunch, Fresh
<1>13. CASE Exit \/ StartProgram \/ KillProgram \/ Reboot
  BY <1>13 DEF Exit, StartProgram, KillProgram, Reboot, Relaunch, Fresh
<1>14. CASE Publish \/ KillUpdater
  BY <1>14 DEF Publish, KillUpdater
<1>15. CASE UNCHANGED vars
  BY <1>15 DEF vars
<1>16. QED
  BY <1>1, <1>2, <1>3, <1>4, <1>5, <1>6, <1>7, <1>8, <1>9, <1>10, <1>11, <1>12, <1>13, <1>14,
     <1>15
  DEF Next, Client, Apply

\* The order on disk stays the one the updater was started for.
LEMMA OrderStandsStep ==
  ASSUME UpdatesAssumption, TypeOK, InstallKept, [Next]_vars
  PROVE  OrderStands'
<1> USE ListedContents DEF InstallKept, OrderStands, TakeTurns, StagedIsListed, MovesInOrder,
    client, updater, progress, program, Slots, None, Committed, Staging, Moving, Ordered,
    OneUpdater, TypeOK
<1>1. CASE Begin \/ Uninstall
  BY <1>1 DEF Begin, Uninstall, InPlace
<1>2. CASE ListFiles
  BY <1>2 DEF ListFiles, NeedsUpdate
<1>3. CASE Download
  BY <1>3 DEF Download, NextFile, FileVerified, RemoteStale, Refetch, FetchEnds, Reusable
<1>4. CASE CleanUp \/ NothingToDo
  BY <1>4, LeftoversGo DEF CleanUp, NothingToDo
<1>5. CASE BeforeApply
  BY <1>5, LeftoversGo DEF BeforeApply
<1>6. CASE MoveAside
  BY <1>6 DEF MoveAside
<1>7. CASE Install
  BY <1>7 DEF Install
<1>8. CASE RollBack
  BY <1>8, RestoredSlots DEF RollBack
<1>9. CASE Applied
  BY <1>9 DEF Applied
<1>10. CASE HandOver
  BY <1>10 DEF HandOver, WriteOrder, ExtractModule, ModuleWritten, LaunchUpdater, LaunchFails,
      Order
<1>11. CASE Wait
  BY <1>11 DEF Wait, WaitForProcessExit, WaitTimesOut
<1>12. CASE Updater
  BY <1>12 DEF Updater, SwapAside, SwapRefused, SwapInstall, SwapPutBack, SwapDone, Remove,
      Consume, Relaunch, Fresh
<1>13. CASE Exit \/ StartProgram \/ KillProgram \/ Reboot
  BY <1>13 DEF Exit, StartProgram, KillProgram, Reboot, Relaunch, Fresh
<1>14. CASE Publish \/ KillUpdater
  BY <1>14 DEF Publish, KillUpdater
<1>15. CASE UNCHANGED vars
  BY <1>15 DEF vars
<1>16. QED
  BY <1>1, <1>2, <1>3, <1>4, <1>5, <1>6, <1>7, <1>8, <1>9, <1>10, <1>11, <1>12, <1>13, <1>14,
     <1>15
  DEF Next, Client, Apply

\* The executable is in its place, or in the updater's hands.
LEMMA ExecutableKeptStep ==
  ASSUME UpdatesAssumption, TypeOK, InstallKept, [Next]_vars
  PROVE  ExecutableKept'
<1> USE ListedContents, DiskType DEF InstallKept, ExecutableKept, TakeTurns, MovesInOrder,
    updater, program, Slots, Place, None, Moving
<1>1. CASE Begin \/ Uninstall
  BY <1>1 DEF Begin, Uninstall, InPlace
<1>2. CASE ListFiles
  BY <1>2 DEF ListFiles, NeedsUpdate
<1>3. CASE Download
  BY <1>3 DEF Download, NextFile, FileVerified, RemoteStale, Refetch, FetchEnds, Reusable
<1>4. CASE CleanUp \/ NothingToDo
  BY <1>4, LeftoversGo DEF CleanUp, NothingToDo
<1>5. CASE BeforeApply
  BY <1>5, LeftoversGo DEF BeforeApply
<1>6. CASE MoveAside
  BY <1>6 DEF MoveAside
<1>7. CASE Install
  BY <1>7 DEF Install
<1>8. CASE RollBack
  BY <1>8, RestoredSlots DEF RollBack
<1>9. CASE Applied
  BY <1>9 DEF Applied
<1>10. CASE HandOver
  BY <1>10 DEF HandOver, WriteOrder, ExtractModule, ModuleWritten, LaunchUpdater, LaunchFails,
      Order
<1>11. CASE Wait
  BY <1>11 DEF Wait, WaitForProcessExit, WaitTimesOut
<1>12. CASE Updater
  BY <1>12 DEF Updater, SwapAside, SwapRefused, SwapInstall, SwapPutBack, SwapDone, Remove,
      Consume, Relaunch, Fresh
<1>13. CASE Exit \/ StartProgram \/ KillProgram \/ Reboot
  BY <1>13 DEF Exit, StartProgram, KillProgram, Reboot, Relaunch, Fresh
<1>14. CASE Publish \/ KillUpdater
  BY <1>14 DEF Publish, KillUpdater
<1>15. CASE UNCHANGED vars
  BY <1>15 DEF vars
<1>16. QED
  BY <1>1, <1>2, <1>3, <1>4, <1>5, <1>6, <1>7, <1>8, <1>9, <1>10, <1>11, <1>12, <1>13, <1>14,
     <1>15
  DEF Next, Client, Apply

\* And is never lost (ExecutableSomewhere).
LEMMA ExecutableSomewhereStep ==
  ASSUME UpdatesAssumption, TypeOK, InstallKept, [Next]_vars
  PROVE  ExecutableSomewhere'
<1> USE ListedContents, DiskType DEF InstallKept, ExecutableSomewhere, TakeTurns,
    ExecutableKept, OrderStands, MovesInOrder, updater, Slots, Place, Moving, Ordered
<1>1. CASE Begin \/ Uninstall
  BY <1>1 DEF Begin, Uninstall, InPlace
<1>2. CASE ListFiles
  BY <1>2 DEF ListFiles, NeedsUpdate
<1>3. CASE Download
  BY <1>3 DEF Download, NextFile, FileVerified, RemoteStale, Refetch, FetchEnds, Reusable
<1>4. CASE CleanUp \/ NothingToDo
  BY <1>4, LeftoversGo DEF CleanUp, NothingToDo
<1>5. CASE BeforeApply
  BY <1>5, LeftoversGo DEF BeforeApply
<1>6. CASE MoveAside
  BY <1>6 DEF MoveAside
<1>7. CASE Install
  BY <1>7 DEF Install
<1>8. CASE RollBack
  BY <1>8, RestoredSlots DEF RollBack
<1>9. CASE Applied
  BY <1>9 DEF Applied
<1>10. CASE HandOver
  BY <1>10 DEF HandOver, WriteOrder, ExtractModule, ModuleWritten, LaunchUpdater, LaunchFails,
      Order
<1>11. CASE Wait
  BY <1>11 DEF Wait, WaitForProcessExit, WaitTimesOut
<1>12. CASE Updater
  BY <1>12 DEF Updater, SwapAside, SwapRefused, SwapInstall, SwapPutBack, SwapDone, Remove,
      Consume, Relaunch, Fresh
<1>13. CASE Exit \/ StartProgram \/ KillProgram \/ Reboot
  BY <1>13 DEF Exit, StartProgram, KillProgram, Reboot, Relaunch, Fresh
<1>14. CASE Publish \/ KillUpdater
  BY <1>14 DEF Publish, KillUpdater
<1>15. CASE UNCHANGED vars
  BY <1>15 DEF vars
<1>16. QED
  BY <1>1, <1>2, <1>3, <1>4, <1>5, <1>6, <1>7, <1>8, <1>9, <1>10, <1>11, <1>12, <1>13, <1>14,
     <1>15
  DEF Next, Client, Apply

\* What is reported as applied is one release.
LEMMA AppliedIsOneReleaseStep ==
  ASSUME UpdatesAssumption, TypeOK, InstallKept, [Next]_vars
  PROVE  AppliedIsOneRelease'
<1> USE ListedContents, DiskType DEF InstallKept, AppliedIsOneRelease, TakeTurns, NoneSkipped,
    StagedIsListed, OrderStands, MovesInOrder, client, updater, progress, program, Place, None,
    Committed, Staging, Moving, Ordered, OneUpdater
<1>1. CASE Begin \/ Uninstall
  BY <1>1 DEF Begin, Uninstall, InPlace
<1>2. CASE ListFiles
  BY <1>2 DEF ListFiles, NeedsUpdate
<1>3. CASE Download
  BY <1>3 DEF Download, NextFile, FileVerified, RemoteStale, Refetch, FetchEnds, Reusable
<1>4. CASE CleanUp \/ NothingToDo
  BY <1>4, LeftoversGo DEF CleanUp, NothingToDo
<1>5. CASE BeforeApply
  BY <1>5, LeftoversGo DEF BeforeApply
<1>6. CASE MoveAside
  BY <1>6 DEF MoveAside
<1>7. CASE Install
  BY <1>7 DEF Install
<1>8. CASE RollBack
  BY <1>8, RestoredSlots DEF RollBack
<1>9. CASE Applied
  BY <1>9 DEF Applied
<1>10. CASE HandOver
  BY <1>10 DEF HandOver, WriteOrder, ExtractModule, ModuleWritten, LaunchUpdater, LaunchFails,
      Order
<1>11. CASE Wait
  BY <1>11 DEF Wait, WaitForProcessExit, WaitTimesOut
<1>12. CASE Updater
  BY <1>12 DEF Updater, SwapAside, SwapRefused, SwapInstall, SwapPutBack, SwapDone, Remove,
      Consume, Relaunch, Fresh
<1>13. CASE Exit \/ StartProgram \/ KillProgram \/ Reboot
  BY <1>13 DEF Exit, StartProgram, KillProgram, Reboot, Relaunch, Fresh
<1>14. CASE Publish \/ KillUpdater
  BY <1>14 DEF Publish, KillUpdater
<1>15. CASE UNCHANGED vars
  BY <1>15 DEF vars
<1>16. QED
  BY <1>1, <1>2, <1>3, <1>4, <1>5, <1>6, <1>7, <1>8, <1>9, <1>10, <1>11, <1>12, <1>13, <1>14,
     <1>15
  DEF Next, Client, Apply

\* What was not applied left nothing behind.
LEMMA NotAppliedUntouchedStep ==
  ASSUME UpdatesAssumption, TypeOK, InstallKept, [Next]_vars
  PROVE  NotAppliedUntouched'
<1> USE DEF InstallKept, NotAppliedUntouched, TakeTurns, Restorable, MovesInOrder, client,
    progress, program, Slots, Place, None, Moving, Downloading, Mine, TypeOK
<1>1. CASE Begin \/ Uninstall
  BY <1>1 DEF Begin, Uninstall, InPlace
<1>2. CASE ListFiles
  BY <1>2 DEF ListFiles, NeedsUpdate
<1>3. CASE Download
  BY <1>3 DEF Download, NextFile, FileVerified, RemoteStale, Refetch, FetchEnds, Reusable
<1>4. CASE CleanUp \/ NothingToDo
  BY <1>4, LeftoversGo DEF CleanUp, NothingToDo
<1>5. CASE BeforeApply
  BY <1>5, LeftoversGo DEF BeforeApply
<1>6. CASE MoveAside
  BY <1>6 DEF MoveAside
<1>7. CASE Install
  BY <1>7 DEF Install
<1>8. CASE RollBack
  BY <1>8, RestoredSlots DEF RollBack
<1>9. CASE Applied
  BY <1>9 DEF Applied
<1>10. CASE HandOver
  BY <1>10 DEF HandOver, WriteOrder, ExtractModule, ModuleWritten, LaunchUpdater, LaunchFails,
      Order
<1>11. CASE Wait
  BY <1>11 DEF Wait, WaitForProcessExit, WaitTimesOut
<1>12. CASE Updater
  BY <1>12 DEF Updater, SwapAside, SwapRefused, SwapInstall, SwapPutBack, SwapDone, Remove,
      Consume, Relaunch, Fresh
<1>13. CASE Exit \/ StartProgram \/ KillProgram \/ Reboot
  BY <1>13 DEF Exit, StartProgram, KillProgram, Reboot, Relaunch, Fresh
<1>14. CASE Publish \/ KillUpdater
  BY <1>14 DEF Publish, KillUpdater
<1>15. CASE UNCHANGED vars
  BY <1>15 DEF vars
<1>16. QED
  BY <1>1, <1>2, <1>3, <1>4, <1>5, <1>6, <1>7, <1>8, <1>9, <1>10, <1>11, <1>12, <1>13, <1>14,
     <1>15
  DEF Next, Client, Apply

-----------------------------------------------------------------------------
(***************************************************************************)
(* The theorems                                                            *)
(***************************************************************************)

\* All of it holds at the start.
LEMMA InstallInit == ASSUME UpdatesAssumption PROVE Init => InstallKept
<1> SUFFICES ASSUME Init PROVE InstallKept
  OBVIOUS
<1>1. TypeOK /\ ExecutableOnly
  BY TypeInit
<1> USE ListedContents, DiskType DEF Init, Slots, Place, None
<1>2. TakeTurns /\ PassInOrder /\ CopiesVerified /\ StagedIsListed /\ NoneSkipped /\ MovesInOrder
  BY DEF TakeTurns, PassInOrder, CopiesVerified, StagedIsListed, NoneSkipped, MovesInOrder,
         Downloading, Staging, Moving, Committed, Ordered
<1>3. \A f \in Files : /\ before[f] = Place(f) /\ Place(f) # Partial
                       /\ disk[f].bak = Absent /\ Partial # Absent
  <2>1. Partial \notin Installed \cup {Release[0][Exe]} /\ Partial # Absent
    BY DEF UpdatesAssumption
  <2>2. \A f \in Files : before[f] = Place(f)
    BY DEF InPlace
  <2>3. QED
    BY <2>1, <2>2
<1>4. Restorable /\ NothingPartialBehind
  BY <1>3 DEF Restorable, NothingPartialBehind, Moving
<1>5. OrderStands /\ ExecutableKept
  BY <1>1 DEF OrderStands, ExecutableKept, Ordered
<1>6. AppliedIsOneRelease /\ NotAppliedUntouched /\ ExecutableSomewhere
  BY <1>1 DEF AppliedIsOneRelease, NotAppliedUntouched, ExecutableSomewhere
<1>7. QED
  BY <1>1, <1>2, <1>4, <1>5, <1>6 DEF InstallKept

\* All of it is kept by every step.
LEMMA InstallStep ==
  ASSUME UpdatesAssumption, TypeOK, InstallKept, [Next]_vars
  PROVE  TypeOK' /\ InstallKept'
<1>1. TypeOK' /\ ExecutableOnly'
  BY TypeStep DEF InstallKept
<1>2. TakeTurns' /\ PassInOrder' /\ CopiesVerified' /\ StagedIsListed'
  BY TakeTurnsStep, PassInOrderStep, CopiesVerifiedStep, StagedIsListedStep
<1>3. NoneSkipped' /\ MovesInOrder' /\ Restorable' /\ NothingPartialBehind'
  BY NoneSkippedStep, MovesInOrderStep, RestorableStep, NothingPartialBehindStep
<1>4. OrderStands' /\ ExecutableKept'
  BY OrderStandsStep, ExecutableKeptStep
<1>5. AppliedIsOneRelease' /\ NotAppliedUntouched' /\ ExecutableSomewhere'
  BY AppliedIsOneReleaseStep, NotAppliedUntouchedStep, ExecutableSomewhereStep
<1>6. QED
  BY <1>1, <1>2, <1>3, <1>4, <1>5 DEF InstallKept

\* Every variable has its type, whatever the disk is left as.
THEOREM TypeCorrect == ASSUME UpdatesAssumption PROVE Spec => []TypeOK
<1>1. Init => TypeOK /\ InstallKept
  BY TypeInit, InstallInit
<1>2. TypeOK /\ InstallKept /\ [Next]_vars => TypeOK' /\ InstallKept'
  BY InstallStep
<1>3. QED
  BY <1>1, <1>2, PTL DEF Spec

\* What the client's passes, the order on disk and the updater make of the
\* install holds always (client.cpp:637-794, updater.cpp:105-210).
THEOREM InstallHolds == ASSUME UpdatesAssumption PROVE Spec => [](TypeOK /\ InstallKept)
<1>1. Init => TypeOK /\ InstallKept
  BY TypeInit, InstallInit
<1>2. TypeOK /\ InstallKept /\ [Next]_vars => (TypeOK /\ InstallKept)'
  BY InstallStep
<1>3. QED
  BY <1>1, <1>2, PTL DEF Spec

\* What PerformUpdate calls applied is one release and not a mixture, however
\* often the release behind the URL is replaced and however many runs before
\* were killed half-way.
THEOREM AppliedIsWhole == ASSUME UpdatesAssumption PROVE Spec => []AppliedIsOneRelease
<1>1. TypeOK /\ InstallKept => AppliedIsOneRelease
  BY DEF InstallKept
<1>2. QED
  BY <1>1, InstallHolds, PTL

\* A run that does not apply the update leaves what it found in every file's
\* place, and no staged copy that nobody holds.
THEOREM FailureLeavesNoTrace ==
  ASSUME UpdatesAssumption PROVE Spec => []NotAppliedUntouched
<1>1. TypeOK /\ InstallKept => NotAppliedUntouched
  BY DEF InstallKept
<1>2. QED
  BY <1>1, InstallHolds, PTL

\* Nothing half-written is ever in a file's place, whoever dies when.
THEOREM NothingUnverified ==
  ASSUME UpdatesAssumption PROVE Spec => []NothingPartialInPlace
<1>1. TypeOK /\ InstallKept => NothingPartialInPlace
  BY DEF InstallKept, NothingPartialBehind, NothingPartialInPlace
<1>2. QED
  BY <1>1, InstallHolds, PTL

\* No process that dies and no restart leaves the install without an
\* executable in its place or its backup.
THEOREM AlwaysAnExecutable ==
  ASSUME UpdatesAssumption PROVE Spec => []ExecutableSomewhere
<1>1. TypeOK /\ InstallKept => ExecutableSomewhere
  BY DEF InstallKept
<1>2. QED
  BY <1>1, InstallHolds, PTL
=============================================================================
