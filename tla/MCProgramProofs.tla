-------------------------- MODULE MCProgramProofs --------------------------
(***************************************************************************)
(* Theorems about the components that share nothing: Redirector, which     *)
(* this module extends and whose names it uses as they are, and the three  *)
(* that MCProgram puts side by side, under D!, C! and F!.                  *)
(*                                                                         *)
(* Redirector: the types and the lock of the policy table; that no name is *)
(* ever routed to a port nothing is bound to, that a stop leaves nothing   *)
(* behind, that no change of the table is missed, and that the program's   *)
(* own writes never count as interference.                                 *)
(*                                                                         *)
(* Desktop: its invariant InOrder, part by part, and with it that whatever *)
(* a worker lends the UI thread is reached by nobody once the worker has   *)
(* gone on, that nobody waits for an answer nobody gives, and that an      *)
(* update leaves the services as it found them.                            *)
(*                                                                         *)
(* Children and FileWatcher: that stopped means over.                      *)
(*                                                                         *)
(* They hold for every number of workers, of dialogs within one another,   *)
(* of processes and of saves: in a behaviour of ProgramSpec the variables  *)
(* of a component follow that component, whichever is at work.             *)
(***************************************************************************)
EXTENDS Redirector, MCProgram, TLAPS

-----------------------------------------------------------------------------
(***************************************************************************)
(* Redirector.                                                             *)
(***************************************************************************)
\* Only the guardian counts repairs, and a call that has joined it is alone.
LEMMA TypeStep ==
  ASSUME TypeOK, Joined, [Next]_<<vars, events>>
  PROVE  TypeOK' /\ Joined'
<1> USE RedirectorAssumption
    DEF TypeOK, OwnerStates, GuardStates, Ours, Joined,
        ownerVars, serverVars, guardVars, tableVars
<1>1. ASSUME NEW ep \in Endpoints, SetEndpoint(ep), UNCHANGED events
     PROVE  TypeOK' /\ Joined'
  BY <1>1, SMTT(30) DEF SetEndpoint
<1>2. ASSUME NEW r \in RuleSets, LoadRules(r), UNCHANGED events
     PROVE  TypeOK' /\ Joined'
  BY <1>2, SMTT(30) DEF LoadRules
<1>3. ASSUME EnableHotReload, UNCHANGED events
     PROVE  TypeOK' /\ Joined'
  BY <1>3, SMTT(30) DEF EnableHotReload
<1>4. ASSUME StartBegin, UNCHANGED events
     PROVE  TypeOK' /\ Joined'
  BY <1>4, SMTT(30) DEF StartBegin, OwnerGoes
<1>5. ASSUME StopBegin, UNCHANGED events
     PROVE  TypeOK' /\ Joined'
  BY <1>5, SMTT(30) DEF StopBegin, OwnerGoes
<1>6. ASSUME CancelGuardian, UNCHANGED events
     PROVE  TypeOK' /\ Joined'
  BY <1>6, SMTT(30) DEF CancelGuardian
<1>7. ASSUME StartCapture, UNCHANGED events
     PROVE  TypeOK' /\ Joined'
  BY <1>7, SMTT(30) DEF StartCapture, StopGuardian
<1>8. ASSUME StartServer, UNCHANGED events
     PROVE  TypeOK' /\ Joined'
  BY <1>8, SMTT(30) DEF StartServer, OwnerGoes
<1>9. ASSUME StartRemove, UNCHANGED events
     PROVE  TypeOK' /\ Joined'
  BY <1>9, SMTT(30) DEF StartRemove, OwnerGoes, RemoveRule, Notify
<1>10. ASSUME StartWrite, UNCHANGED events
     PROVE  TypeOK' /\ Joined'
  BY <1>10, SMTT(30) DEF StartWrite, OwnerGoes, InstallRule, Notify, Entry
<1>11. ASSUME StartGuardian, UNCHANGED events
     PROVE  TypeOK' /\ Joined'
  <2> USE <1>11 DEF StartGuardian, OwnerGoes, Entry
  <2>1. cancel' \in BOOLEAN /\ watching' \in BOOLEAN /\ fresh' \in BOOLEAN
    BY ZenonT(30)
  <2>2. opc' \in OwnerStates /\ gpc' \in GuardStates /\ Joined'
    BY SMTT(30)
  <2>3. used' \in 0..(MaxRepairs + 1) /\ rule' \in Ours \cup {NoRule, Foreign}
    BY SMTT(30)
  <2> QED
    BY <2>1, <2>2, <2>3, SMTT(30)
<1>12. ASSUME RollJoin, UNCHANGED events
     PROVE  TypeOK' /\ Joined'
  BY <1>12, SMTT(30) DEF RollJoin, OwnerGoes, StopGuardian
<1>13. ASSUME StopJoin, UNCHANGED events
     PROVE  TypeOK' /\ Joined'
  BY <1>13, SMTT(30) DEF StopJoin, OwnerGoes, StopGuardian
<1>14. ASSUME DisableHotReload, UNCHANGED events
     PROVE  TypeOK' /\ Joined'
  BY <1>14, SMTT(30) DEF DisableHotReload, OwnerGoes
<1>15. ASSUME TakeBack, UNCHANGED events
     PROVE  TypeOK' /\ Joined'
  BY <1>15, SMTT(30) DEF TakeBack, OwnerGoes, RemoveRule, Notify
<1>16. ASSUME StopServer, UNCHANGED events
     PROVE  TypeOK' /\ Joined'
  BY <1>16, SMTT(30) DEF StopServer, OwnerGoes
<1>17. ASSUME GuardOpen, UNCHANGED events
     PROVE  TypeOK' /\ Joined'
  <2> USE <1>17 DEF GuardOpen, OnlyGuardian, Entry
  <2>1. cancel' \in BOOLEAN /\ watching' \in BOOLEAN /\ fresh' \in BOOLEAN
    BY ZenonT(30)
  <2>2. opc' \in OwnerStates /\ gpc' \in GuardStates /\ Joined'
    BY SMTT(30)
  <2>3. used' \in 0..(MaxRepairs + 1) /\ rule' \in Ours \cup {NoRule, Foreign}
    BY SMTT(30)
  <2> QED
    BY <2>1, <2>2, <2>3, SMTT(30)
<1>18. ASSUME GuardLook, UNCHANGED events
     PROVE  TypeOK' /\ Joined'
  <2> USE <1>18 DEF GuardLook, OnlyGuardian, LookFree, NeedsRepair, Allowed, Spend,
                    RemoveRule, Notify, Entry
  <2>1. cancel' \in BOOLEAN /\ watching' \in BOOLEAN /\ fresh' \in BOOLEAN
    BY ZenonT(30)
  <2>2. opc' \in OwnerStates /\ gpc' \in GuardStates /\ Joined'
    BY SMTT(30)
  <2>3. used' \in 0..(MaxRepairs + 1) /\ rule' \in Ours \cup {NoRule, Foreign}
    BY SMTT(30)
  <2> QED
    BY <2>1, <2>2, <2>3, SMTT(30)
<1>19. ASSUME GuardWrite, UNCHANGED events
     PROVE  TypeOK' /\ Joined'
  BY <1>19, SMTT(30) DEF GuardWrite, OnlyGuardian, InstallRule, Notify, Entry
<1>20. ASSUME GuardConfirm, UNCHANGED events
     PROVE  TypeOK' /\ Joined'
  BY <1>20, SMTT(30) DEF GuardConfirm, OnlyGuardian, RuleMatches, Entry
<1>21. ASSUME GuardCancelled, UNCHANGED events
     PROVE  TypeOK' /\ Joined'
  BY <1>21, SMTT(30) DEF GuardCancelled, OnlyGuardian
<1>22. ASSUME GuardServerStopped, UNCHANGED events
     PROVE  TypeOK' /\ Joined'
  BY <1>22, SMTT(30) DEF GuardServerStopped, OnlyGuardian
<1>23. ASSUME GuardRuleChanged, UNCHANGED events
     PROVE  TypeOK' /\ Joined'
  BY <1>23, SMTT(30) DEF GuardRuleChanged, OnlyGuardian
<1>24. ASSUME GuardRearm, UNCHANGED events
     PROVE  TypeOK' /\ Joined'
  <2> USE <1>24 DEF GuardRearm, OnlyGuardian, Entry
  <2>1. cancel' \in BOOLEAN /\ watching' \in BOOLEAN /\ fresh' \in BOOLEAN
    BY ZenonT(30)
  <2>2. opc' \in OwnerStates /\ gpc' \in GuardStates /\ Joined'
    BY SMTT(30)
  <2>3. used' \in 0..(MaxRepairs + 1) /\ rule' \in Ours \cup {NoRule, Foreign}
    BY SMTT(30)
  <2> QED
    BY <2>1, <2>2, <2>3, SMTT(30)
<1>25. ASSUME ReloadWrite, UNCHANGED events
     PROVE  TypeOK' /\ Joined'
  BY <1>25, SMTT(30) DEF ReloadWrite, InstallRule, Notify, Entry
<1>26. ASSUME EnforceCleanSlate, UNCHANGED events
     PROVE  TypeOK' /\ Joined'
  BY <1>26, SMTT(30) DEF EnforceCleanSlate, OwnerGoes, RemoveRule, Notify
<1>27. ASSUME Tamper, UNCHANGED events
     PROVE  TypeOK' /\ Joined'
  BY <1>27, SMTT(30) DEF Tamper, Notify
<1>28. ASSUME ServerEnds, UNCHANGED events
     PROVE  TypeOK' /\ Joined'
  BY <1>28, SMTT(30) DEF ServerEnds
<1>29. ASSUME WindowEnds, UNCHANGED events
     PROVE  TypeOK' /\ Joined'
  BY <1>29, SMTT(30) DEF WindowEnds
<1>30. ASSUME Crash, UNCHANGED events
     PROVE  TypeOK' /\ Joined'
  <2> USE <1>30 DEF Crash, Entry
  <2>1. cancel' \in BOOLEAN /\ watching' \in BOOLEAN /\ fresh' \in BOOLEAN
    BY ZenonT(30)
  <2>2. opc' \in OwnerStates /\ gpc' \in GuardStates /\ Joined'
    BY SMTT(30)
  <2>3. used' \in 0..(MaxRepairs + 1) /\ rule' \in Ours \cup {NoRule, Foreign}
    BY SMTT(30)
  <2> QED
    BY <2>1, <2>2, <2>3, SMTT(30)
<1>31. ASSUME GuardWaitFails, UNCHANGED events
     PROVE  TypeOK' /\ Joined'
  BY <1>31, SMTT(30) DEF GuardWaitFails, OnlyGuardian
<1>32. ASSUME NEW r \in RuleSets, Reload(r), UNCHANGED events
     PROVE  TypeOK' /\ Joined'
  BY <1>32, SMTT(30) DEF Reload, RemoveRule, Notify, ServerRunning
<1>33. ASSUME UNCHANGED <<vars, events>>
     PROVE  TypeOK' /\ Joined'
  BY <1>33, SMTT(30) DEF vars
<1> QED
  BY <1>1, <1>2, <1>3, <1>4, <1>5, <1>6, <1>7, <1>8, <1>9, <1>10,
     <1>11, <1>12, <1>13, <1>14, <1>15, <1>16, <1>17, <1>18, <1>19, <1>20,
     <1>21, <1>22, <1>23, <1>24, <1>25, <1>26, <1>27, <1>28, <1>29, <1>30,
     <1>31, <1>32, <1>33,
     SMTT(30)
  DEF Next, Call, Owner, Guard, Environment

\* The server goes last, and the endpoint stays while it is there.
LEMMA StagesStep ==
  ASSUME TypeOK, Joined, Foreseen, InStages, OneEndpoint, [Next]_<<vars, events>>
  PROVE  InStages' /\ OneEndpoint'
<1> USE RedirectorAssumption
    DEF TypeOK, OwnerStates, GuardStates, Ours, InStages, OneEndpoint, Joined, Foreseen,
        Down, ServerRunning,
        ownerVars, serverVars, guardVars, tableVars
<1>1. ASSUME NEW ep \in Endpoints, SetEndpoint(ep), UNCHANGED events
     PROVE  InStages' /\ OneEndpoint'
  BY <1>1, SMTT(30) DEF SetEndpoint
<1>2. ASSUME NEW r \in RuleSets, LoadRules(r), UNCHANGED events
     PROVE  InStages' /\ OneEndpoint'
  BY <1>2, SMTT(30) DEF LoadRules
<1>3. ASSUME EnableHotReload, UNCHANGED events
     PROVE  InStages' /\ OneEndpoint'
  BY <1>3, SMTT(30) DEF EnableHotReload
<1>4. ASSUME StartBegin, UNCHANGED events
     PROVE  InStages' /\ OneEndpoint'
  BY <1>4, SMTT(30) DEF StartBegin, OwnerGoes
<1>5. ASSUME StopBegin, UNCHANGED events
     PROVE  InStages' /\ OneEndpoint'
  BY <1>5, SMTT(30) DEF StopBegin, OwnerGoes
<1>6. ASSUME CancelGuardian, UNCHANGED events
     PROVE  InStages' /\ OneEndpoint'
  BY <1>6, SMTT(30) DEF CancelGuardian
<1>7. ASSUME StartCapture, UNCHANGED events
     PROVE  InStages' /\ OneEndpoint'
  BY <1>7, SMTT(30) DEF StartCapture, StopGuardian
<1>8. ASSUME StartServer, UNCHANGED events
     PROVE  InStages' /\ OneEndpoint'
  BY <1>8, SMTT(30) DEF StartServer, OwnerGoes
<1>9. ASSUME StartRemove, UNCHANGED events
     PROVE  InStages' /\ OneEndpoint'
  BY <1>9, SMTT(30) DEF StartRemove, OwnerGoes, RemoveRule, Notify
<1>10. ASSUME StartWrite, UNCHANGED events
     PROVE  InStages' /\ OneEndpoint'
  BY <1>10, SMTT(30) DEF StartWrite, OwnerGoes, InstallRule, Notify, Entry
<1>11. ASSUME StartGuardian, UNCHANGED events
     PROVE  InStages' /\ OneEndpoint'
  BY <1>11, SMTT(30) DEF StartGuardian, OwnerGoes
<1>12. ASSUME RollJoin, UNCHANGED events
     PROVE  InStages' /\ OneEndpoint'
  BY <1>12, SMTT(30) DEF RollJoin, OwnerGoes, StopGuardian
<1>13. ASSUME StopJoin, UNCHANGED events
     PROVE  InStages' /\ OneEndpoint'
  BY <1>13, SMTT(30) DEF StopJoin, OwnerGoes, StopGuardian
<1>14. ASSUME DisableHotReload, UNCHANGED events
     PROVE  InStages' /\ OneEndpoint'
  BY <1>14, SMTT(30) DEF DisableHotReload, OwnerGoes
<1>15. ASSUME TakeBack, UNCHANGED events
     PROVE  InStages' /\ OneEndpoint'
  BY <1>15, SMTT(30) DEF TakeBack, OwnerGoes, RemoveRule, Notify
<1>16. ASSUME StopServer, UNCHANGED events
     PROVE  InStages' /\ OneEndpoint'
  BY <1>16, SMTT(30) DEF StopServer, OwnerGoes
<1>17. ASSUME GuardOpen, UNCHANGED events
     PROVE  InStages' /\ OneEndpoint'
  BY <1>17, SMTT(30) DEF GuardOpen, OnlyGuardian
<1>18. ASSUME GuardLook, UNCHANGED events
     PROVE  InStages' /\ OneEndpoint'
  BY <1>18, SMTT(30)
  DEF GuardLook, OnlyGuardian, LookFree, NeedsRepair, Allowed, Spend, RemoveRule,
      Notify, Entry
<1>19. ASSUME GuardWrite, UNCHANGED events
     PROVE  InStages' /\ OneEndpoint'
  BY <1>19, SMTT(30) DEF GuardWrite, OnlyGuardian, InstallRule, Notify, Entry
<1>20. ASSUME GuardConfirm, UNCHANGED events
     PROVE  InStages' /\ OneEndpoint'
  BY <1>20, SMTT(30) DEF GuardConfirm, OnlyGuardian, RuleMatches, Entry
<1>21. ASSUME GuardCancelled, UNCHANGED events
     PROVE  InStages' /\ OneEndpoint'
  BY <1>21, SMTT(30) DEF GuardCancelled, OnlyGuardian
<1>22. ASSUME GuardServerStopped, UNCHANGED events
     PROVE  InStages' /\ OneEndpoint'
  BY <1>22, SMTT(30) DEF GuardServerStopped, OnlyGuardian
<1>23. ASSUME GuardRuleChanged, UNCHANGED events
     PROVE  InStages' /\ OneEndpoint'
  BY <1>23, SMTT(30) DEF GuardRuleChanged, OnlyGuardian
<1>24. ASSUME GuardRearm, UNCHANGED events
     PROVE  InStages' /\ OneEndpoint'
  BY <1>24, SMTT(30) DEF GuardRearm, OnlyGuardian
<1>25. ASSUME ReloadWrite, UNCHANGED events
     PROVE  InStages' /\ OneEndpoint'
  BY <1>25, SMTT(30) DEF ReloadWrite, InstallRule, Notify, Entry
<1>26. ASSUME EnforceCleanSlate, UNCHANGED events
     PROVE  InStages' /\ OneEndpoint'
  BY <1>26, SMTT(30) DEF EnforceCleanSlate, OwnerGoes, RemoveRule, Notify
<1>27. ASSUME Tamper, UNCHANGED events
     PROVE  InStages' /\ OneEndpoint'
  BY <1>27, SMTT(30) DEF Tamper, Notify
<1>28. ASSUME ServerEnds, UNCHANGED events
     PROVE  InStages' /\ OneEndpoint'
  BY <1>28, SMTT(30) DEF ServerEnds
<1>29. ASSUME WindowEnds, UNCHANGED events
     PROVE  InStages' /\ OneEndpoint'
  BY <1>29, SMTT(30) DEF WindowEnds
<1>30. ASSUME Crash, UNCHANGED events
     PROVE  InStages' /\ OneEndpoint'
  BY <1>30, SMTT(30) DEF Crash
<1>31. ASSUME GuardWaitFails, UNCHANGED events
     PROVE  InStages' /\ OneEndpoint'
  BY <1>31, SMTT(30) DEF GuardWaitFails, OnlyGuardian
<1>32. ASSUME NEW r \in RuleSets, Reload(r), UNCHANGED events
     PROVE  InStages' /\ OneEndpoint'
  BY <1>32, SMTT(30) DEF Reload, RemoveRule, Notify
<1>33. ASSUME UNCHANGED <<vars, events>>
     PROVE  InStages' /\ OneEndpoint'
  BY <1>33, SMTT(30) DEF vars
<1> QED
  BY <1>1, <1>2, <1>3, <1>4, <1>5, <1>6, <1>7, <1>8, <1>9, <1>10,
     <1>11, <1>12, <1>13, <1>14, <1>15, <1>16, <1>17, <1>18, <1>19, <1>20,
     <1>21, <1>22, <1>23, <1>24, <1>25, <1>26, <1>27, <1>28, <1>29, <1>30,
     <1>31, <1>32, <1>33,
     SMTT(30)
  DEF Next, Call, Owner, Guard, Environment

\* Renewing, rewriting and comparing leave no gap.
LEMMA SubscribedStep ==
  ASSUME TypeOK, Joined, Foreseen, InStages, OneEndpoint, "install" \notin events,
         Subscribed, [Next]_<<vars, events>>
  PROVE  Subscribed'
<1> USE RedirectorAssumption
    DEF TypeOK, OwnerStates, GuardStates, Ours, InStages, OneEndpoint, Joined, Foreseen,
        Down, ServerRunning, Subscribed,
        RuleMatches, Entry, ownerVars, serverVars, guardVars, tableVars
<1>1. ASSUME NEW ep \in Endpoints, SetEndpoint(ep), UNCHANGED events
     PROVE  Subscribed'
  BY <1>1, SMTT(30) DEF SetEndpoint
<1>2. ASSUME NEW r \in RuleSets, LoadRules(r), UNCHANGED events
     PROVE  Subscribed'
  BY <1>2, SMTT(30) DEF LoadRules
<1>3. ASSUME EnableHotReload, UNCHANGED events
     PROVE  Subscribed'
  BY <1>3, SMTT(30) DEF EnableHotReload
<1>4. ASSUME StartBegin, UNCHANGED events
     PROVE  Subscribed'
  BY <1>4, SMTT(30) DEF StartBegin, OwnerGoes
<1>5. ASSUME StopBegin, UNCHANGED events
     PROVE  Subscribed'
  BY <1>5, SMTT(30) DEF StopBegin, OwnerGoes
<1>6. ASSUME CancelGuardian, UNCHANGED events
     PROVE  Subscribed'
  BY <1>6, SMTT(30) DEF CancelGuardian
<1>7. ASSUME StartCapture, UNCHANGED events
     PROVE  Subscribed'
  BY <1>7, SMTT(30) DEF StartCapture, StopGuardian
<1>8. ASSUME StartServer, UNCHANGED events
     PROVE  Subscribed'
  BY <1>8, SMTT(30) DEF StartServer, OwnerGoes
<1>9. ASSUME StartRemove, UNCHANGED events
     PROVE  Subscribed'
  BY <1>9, SMTT(30) DEF StartRemove, OwnerGoes, RemoveRule, Notify
<1>10. ASSUME StartWrite, UNCHANGED events
     PROVE  Subscribed'
  BY <1>10, SMTT(30) DEF StartWrite, OwnerGoes, InstallRule, Notify
<1>11. ASSUME StartGuardian, UNCHANGED events
     PROVE  Subscribed'
  BY <1>11, SMTT(30) DEF StartGuardian, OwnerGoes
<1>12. ASSUME RollJoin, UNCHANGED events
     PROVE  Subscribed'
  BY <1>12, SMTT(30) DEF RollJoin, OwnerGoes, StopGuardian
<1>13. ASSUME StopJoin, UNCHANGED events
     PROVE  Subscribed'
  BY <1>13, SMTT(30) DEF StopJoin, OwnerGoes, StopGuardian
<1>14. ASSUME DisableHotReload, UNCHANGED events
     PROVE  Subscribed'
  BY <1>14, SMTT(30) DEF DisableHotReload, OwnerGoes
<1>15. ASSUME TakeBack, UNCHANGED events
     PROVE  Subscribed'
  BY <1>15, SMTT(30) DEF TakeBack, OwnerGoes, RemoveRule, Notify
<1>16. ASSUME StopServer, UNCHANGED events
     PROVE  Subscribed'
  BY <1>16, SMTT(30) DEF StopServer, OwnerGoes
<1>17. ASSUME GuardOpen, UNCHANGED events
     PROVE  Subscribed'
  BY <1>17, SMTT(30) DEF GuardOpen, OnlyGuardian
<1>18. ASSUME GuardLook, UNCHANGED events
     PROVE  Subscribed'
  BY <1>18, SMTT(30)
  DEF GuardLook, OnlyGuardian, LookFree, NeedsRepair, Allowed, Spend, RemoveRule, Notify
<1>19. ASSUME GuardWrite, UNCHANGED events
     PROVE  Subscribed'
  BY <1>19, SMTT(30) DEF GuardWrite, OnlyGuardian, InstallRule, Notify
<1>20. ASSUME GuardConfirm, UNCHANGED events
     PROVE  Subscribed'
  <2>1. watch' # "off" /\ wpc' # "write" /\ UNCHANGED <<rule, rules, endpoint>>
    BY <1>20, SMTT(30) DEF GuardConfirm, OnlyGuardian
  <2>2. gpc' = "wait" /\ (watching' => rule = IF rules = NoNames THEN NoRule
                                             ELSE [ns |-> rules, ep |-> endpoint])
    BY <1>20, ZenonT(30) DEF GuardConfirm
  <2> QED
    BY <2>1, <2>2, SMTT(30)
<1>21. ASSUME GuardCancelled, UNCHANGED events
     PROVE  Subscribed'
  BY <1>21, SMTT(30) DEF GuardCancelled, OnlyGuardian
<1>22. ASSUME GuardServerStopped, UNCHANGED events
     PROVE  Subscribed'
  BY <1>22, SMTT(30) DEF GuardServerStopped, OnlyGuardian
<1>23. ASSUME GuardRuleChanged, UNCHANGED events
     PROVE  Subscribed'
  BY <1>23, SMTT(30) DEF GuardRuleChanged, OnlyGuardian
<1>24. ASSUME GuardRearm, UNCHANGED events
     PROVE  Subscribed'
  BY <1>24, SMTT(30) DEF GuardRearm, OnlyGuardian
<1>25. ASSUME ReloadWrite, UNCHANGED events
     PROVE  Subscribed'
  BY <1>25, SMTT(30) DEF ReloadWrite, InstallRule, Notify
<1>26. ASSUME EnforceCleanSlate, UNCHANGED events
     PROVE  Subscribed'
  BY <1>26, SMTT(30) DEF EnforceCleanSlate, OwnerGoes, RemoveRule, Notify
<1>27. ASSUME Tamper, UNCHANGED events
     PROVE  Subscribed'
  BY <1>27, SMTT(30) DEF Tamper, Notify
<1>28. ASSUME ServerEnds, UNCHANGED events
     PROVE  Subscribed'
  BY <1>28, SMTT(30) DEF ServerEnds
<1>29. ASSUME WindowEnds, UNCHANGED events
     PROVE  Subscribed'
  BY <1>29, SMTT(30) DEF WindowEnds
<1>30. ASSUME Crash, UNCHANGED events
     PROVE  Subscribed'
  BY <1>30, SMTT(30) DEF Crash
<1>31. ASSUME GuardWaitFails, UNCHANGED events
     PROVE  Subscribed'
  BY <1>31, SMTT(30) DEF GuardWaitFails, OnlyGuardian
<1>32. ASSUME NEW r \in RuleSets, Reload(r), UNCHANGED events
     PROVE  Subscribed'
  BY <1>32, SMTT(30) DEF Reload, RemoveRule, Notify
<1>33. ASSUME UNCHANGED <<vars, events>>
     PROVE  Subscribed'
  BY <1>33, SMTT(30) DEF vars
<1> QED
  BY <1>1, <1>2, <1>3, <1>4, <1>5, <1>6, <1>7, <1>8, <1>9, <1>10,
     <1>11, <1>12, <1>13, <1>14, <1>15, <1>16, <1>17, <1>18, <1>19, <1>20,
     <1>21, <1>22, <1>23, <1>24, <1>25, <1>26, <1>27, <1>28, <1>29, <1>30,
     <1>31, <1>32, <1>33,
     SMTT(30)
  DEF Next, Call, Owner, Guard, Environment

\* What the program wrote is what it reads.
LEMMA UndisturbedStep ==
  ASSUME TypeOK, Joined, Foreseen, InStages, OneEndpoint, Undisturbed,
         events \cap {"tamper", "install"} = {}, [Next]_<<vars, events>>
  PROVE  Undisturbed'
<1> USE RedirectorAssumption
    DEF TypeOK, OwnerStates, GuardStates, Ours, InStages, OneEndpoint, Joined, Foreseen,
        Down, ServerRunning, Undisturbed,
        RuleMatches, Entry, ownerVars, serverVars, guardVars, tableVars
<1>1. ASSUME NEW ep \in Endpoints, SetEndpoint(ep), UNCHANGED events
     PROVE  Undisturbed'
  BY <1>1, SMTT(30) DEF SetEndpoint
<1>2. ASSUME NEW r \in RuleSets, LoadRules(r), UNCHANGED events
     PROVE  Undisturbed'
  BY <1>2, SMTT(30) DEF LoadRules
<1>3. ASSUME EnableHotReload, UNCHANGED events
     PROVE  Undisturbed'
  BY <1>3, SMTT(30) DEF EnableHotReload
<1>4. ASSUME StartBegin, UNCHANGED events
     PROVE  Undisturbed'
  BY <1>4, SMTT(30) DEF StartBegin, OwnerGoes
<1>5. ASSUME StopBegin, UNCHANGED events
     PROVE  Undisturbed'
  BY <1>5, SMTT(30) DEF StopBegin, OwnerGoes
<1>6. ASSUME CancelGuardian, UNCHANGED events
     PROVE  Undisturbed'
  BY <1>6, SMTT(30) DEF CancelGuardian
<1>7. ASSUME StartCapture, UNCHANGED events
     PROVE  Undisturbed'
  BY <1>7, SMTT(30) DEF StartCapture, StopGuardian
<1>8. ASSUME StartServer, UNCHANGED events
     PROVE  Undisturbed'
  BY <1>8, SMTT(30) DEF StartServer, OwnerGoes
<1>9. ASSUME StartRemove, UNCHANGED events
     PROVE  Undisturbed'
  BY <1>9, SMTT(30) DEF StartRemove, OwnerGoes, RemoveRule, Notify
<1>10. ASSUME StartWrite, UNCHANGED events
     PROVE  Undisturbed'
  BY <1>10, SMTT(30) DEF StartWrite, OwnerGoes, InstallRule, Notify
<1>11. ASSUME StartGuardian, UNCHANGED events
     PROVE  Undisturbed'
  BY <1>11, SMTT(30) DEF StartGuardian, OwnerGoes
<1>12. ASSUME RollJoin, UNCHANGED events
     PROVE  Undisturbed'
  BY <1>12, SMTT(30) DEF RollJoin, OwnerGoes, StopGuardian
<1>13. ASSUME StopJoin, UNCHANGED events
     PROVE  Undisturbed'
  BY <1>13, SMTT(30) DEF StopJoin, OwnerGoes, StopGuardian
<1>14. ASSUME DisableHotReload, UNCHANGED events
     PROVE  Undisturbed'
  BY <1>14, SMTT(30) DEF DisableHotReload, OwnerGoes
<1>15. ASSUME TakeBack, UNCHANGED events
     PROVE  Undisturbed'
  BY <1>15, SMTT(30) DEF TakeBack, OwnerGoes, RemoveRule, Notify
<1>16. ASSUME StopServer, UNCHANGED events
     PROVE  Undisturbed'
  BY <1>16, SMTT(30) DEF StopServer, OwnerGoes
<1>17. ASSUME GuardOpen, UNCHANGED events
     PROVE  Undisturbed'
  BY <1>17, SMTT(30) DEF GuardOpen, OnlyGuardian
<1>18. ASSUME GuardLook, UNCHANGED events
     PROVE  Undisturbed'
  <2> USE <1>18 DEF GuardLook, OnlyGuardian, LookFree, NeedsRepair, Allowed, Spend,
                    RemoveRule, Notify
  <2>1. fresh /\ tableMx = "free" /\ opc \in {"idle", "stopJoin"} /\ wpc # "write"
    BY SMTT(30)
  <2>2. CASE gpc' = "wait"
    BY <2>1, <2>2, SMTT(30)
  <2>3. CASE gpc' = "write"
    BY <2>1, <2>3, SMTT(30)
  <2>4. gpc' # "exited"
    BY <2>1, ZenonT(30)
  <2>5. gpc' \in {"wait", "write", "exited"}
    BY ZenonT(30)
  <2> QED
    BY <2>2, <2>3, <2>4, <2>5
<1>19. ASSUME GuardWrite, UNCHANGED events
     PROVE  Undisturbed'
  BY <1>19, SMTT(30) DEF GuardWrite, OnlyGuardian, InstallRule, Notify
<1>20. ASSUME GuardConfirm, UNCHANGED events
     PROVE  Undisturbed'
  BY <1>20, SMTT(30) DEF GuardConfirm, OnlyGuardian
<1>21. ASSUME GuardCancelled, UNCHANGED events
     PROVE  Undisturbed'
  BY <1>21, SMTT(30) DEF GuardCancelled, OnlyGuardian
<1>22. ASSUME GuardServerStopped, UNCHANGED events
     PROVE  Undisturbed'
  BY <1>22, SMTT(30) DEF GuardServerStopped, OnlyGuardian
<1>23. ASSUME GuardRuleChanged, UNCHANGED events
     PROVE  Undisturbed'
  BY <1>23, SMTT(30) DEF GuardRuleChanged, OnlyGuardian
<1>24. ASSUME GuardRearm, UNCHANGED events
     PROVE  Undisturbed'
  BY <1>24, SMTT(30) DEF GuardRearm, OnlyGuardian
<1>25. ASSUME ReloadWrite, UNCHANGED events
     PROVE  Undisturbed'
  BY <1>25, SMTT(30) DEF ReloadWrite, InstallRule, Notify
<1>26. ASSUME EnforceCleanSlate, UNCHANGED events
     PROVE  Undisturbed'
  BY <1>26, SMTT(30) DEF EnforceCleanSlate, OwnerGoes, RemoveRule, Notify
<1>27. ASSUME Tamper, UNCHANGED events
     PROVE  Undisturbed'
  BY <1>27, SMTT(30) DEF Tamper, Notify
<1>28. ASSUME ServerEnds, UNCHANGED events
     PROVE  Undisturbed'
  BY <1>28, SMTT(30) DEF ServerEnds
<1>29. ASSUME WindowEnds, UNCHANGED events
     PROVE  Undisturbed'
  BY <1>29, SMTT(30) DEF WindowEnds
<1>30. ASSUME Crash, UNCHANGED events
     PROVE  Undisturbed'
  BY <1>30, SMTT(30) DEF Crash
<1>31. ASSUME GuardWaitFails, UNCHANGED events
     PROVE  Undisturbed'
  BY <1>31, SMTT(30) DEF GuardWaitFails, OnlyGuardian
<1>32. ASSUME NEW r \in RuleSets, Reload(r), UNCHANGED events
     PROVE  Undisturbed'
  BY <1>32, SMTT(30) DEF Reload, RemoveRule, Notify
<1>33. ASSUME UNCHANGED <<vars, events>>
     PROVE  Undisturbed'
  BY <1>33, SMTT(30) DEF vars
<1> QED
  BY <1>1, <1>2, <1>3, <1>4, <1>5, <1>6, <1>7, <1>8, <1>9, <1>10,
     <1>11, <1>12, <1>13, <1>14, <1>15, <1>16, <1>17, <1>18, <1>19, <1>20,
     <1>21, <1>22, <1>23, <1>24, <1>25, <1>26, <1>27, <1>28, <1>29, <1>30,
     <1>31, <1>32, <1>33,
     SMTT(30)
  DEF Next, Call, Owner, Guard, Environment

\* Nothing has started.
LEMMA InitInOrder == Init => TypeOK /\ InOrder
<1> SUFFICES ASSUME Init PROVE TypeOK /\ InOrder
  OBVIOUS
<1> USE RedirectorAssumption DEF Init
<1>1. cancel \in BOOLEAN /\ watching \in BOOLEAN /\ fresh \in BOOLEAN
  BY Zenon
<1>2. TypeOK
  BY <1>1, SMTT(30) DEF TypeOK, OwnerStates, GuardStates, Ours
<1>3. Joined /\ Subscribed
  BY SMTT(30) DEF Joined, Subscribed, ServerRunning, OwnerStates
<1>4. rule \notin Ours
  BY SMTT(30) DEF Ours
<1>5. InStages /\ OneEndpoint /\ Undisturbed
  BY <1>4, SMTT(30) DEF InStages, OneEndpoint, Undisturbed, ServerRunning
<1> QED
  BY <1>2, <1>3, <1>5 DEF InOrder

\* Every step keeps the types and the order, each part for the environments it
\* is claimed for: those do not change.
LEMMA InOrderStep ==
  TypeOK /\ InOrder /\ [Next]_<<vars, events>> => TypeOK' /\ InOrder'
<1> SUFFICES ASSUME TypeOK, InOrder, [Next]_<<vars, events>> PROVE TypeOK' /\ InOrder'
  OBVIOUS
<1>1. events' = events
  BY DEF Next
<1>2. TypeOK' /\ Joined'
  BY TypeStep DEF InOrder
<1>3. Foreseen' => Foreseen /\ InStages' /\ OneEndpoint'
  BY <1>1, StagesStep DEF InOrder, Foreseen
<1>4. Foreseen' /\ "install" \notin events' => Subscribed'
  BY <1>1, <1>3, SubscribedStep DEF InOrder
<1>5. Foreseen' /\ events' \cap {"tamper", "install"} = {} => Undisturbed'
  BY <1>1, <1>3, UndisturbedStep DEF InOrder
<1> QED
  BY <1>2, <1>3, <1>4, <1>5 DEF InOrder

\* The variables keep their types, and the thread that is inside InstallRule is
\* the one that holds m_tableMx, whatever the environment does.
THEOREM TypeCorrect == Spec => []TypeOK
BY InitInOrder, InOrderStep, PTL DEF Spec

\* Threads, server, rule and subscription stay in the order that Start, Stop,
\* the reload and the guardian keep between them.
THEOREM StaysInOrder == Spec => []InOrder
BY InitInOrder, InOrderStep, PTL DEF Spec

\* A rule of ours names the endpoint the server's sockets are bound to.
THEOREM NoNameUnserved == Spec => []RuleServed
<1>1. TypeOK /\ InOrder => RuleServed
  BY DEF InOrder, InStages, OneEndpoint, RuleServed
<1> QED
  BY <1>1, TypeCorrect, StaysInOrder, PTL

\* A stopped redirector has no thread, no rule and no failure.
THEOREM StopIsClean == Spec => []StoppedHoldsNothing
<1>1. TypeOK /\ InOrder => StoppedHoldsNothing
  BY DEF InOrder, InStages, StoppedHoldsNothing
<1> QED
  BY <1>1, TypeCorrect, StaysInOrder, PTL

\* The guardian misses no change of the table between its subscriptions.
THEOREM NoDriftMissed == Spec => []DriftIsNoticed
<1>1. TypeOK /\ InOrder => DriftIsNoticed
  BY DEF InOrder, Subscribed, DriftIsNoticed, TypeOK
<1> QED
  BY <1>1, TypeCorrect, StaysInOrder, PTL

\* With nobody else at the table the guardian does not give redirection up.
THEOREM OwnWritesAreTrusted == Spec => []OwnWritesTrusted
<1>1. InOrder => OwnWritesTrusted
  BY DEF InOrder, Undisturbed, OwnWritesTrusted
<1> QED
  BY <1>1, StaysInOrder, PTL

-----------------------------------------------------------------------------
(***************************************************************************)
(* Queues of messages and stacks of dialogs.                               *)
(***************************************************************************)
LEMMA Appended ==
  ASSUME NEW S, NEW s \in Seq(S), NEW e \in S
  PROVE  /\ Append(s, e) \in Seq(S) /\ Len(Append(s, e)) = Len(s) + 1
         /\ D!Range(Append(s, e)) = D!Range(s) \cup {e}
         /\ \A T : D!Once(s, T) /\ (e \in T => e \notin D!Range(s)) => D!Once(Append(s, e), T)
<1> DEFINE r == Append(s, e)
<1>1. /\ r \in Seq(S) /\ Len(r) = Len(s) + 1 /\ Len(s) \in Nat
      /\ \A i \in 1..Len(s) : r[i] = s[i]
      /\ r[Len(s) + 1] = e /\ DOMAIN r = 1..(Len(s) + 1) /\ DOMAIN s = 1..Len(s)
  OBVIOUS
<1>2. \A i \in 1..(Len(s) + 1) : i \in 1..Len(s) \/ i = Len(s) + 1
  BY <1>1
<1>3. 1..Len(s) \subseteq 1..(Len(s) + 1) /\ Len(s) + 1 \in 1..(Len(s) + 1)
  BY <1>1
<1> HIDE DEF r
<1>4. D!Range(r) = D!Range(s) \cup {e}
  <2>1. D!Range(r) \subseteq D!Range(s) \cup {e}
    BY <1>1, <1>2 DEF D!Range
  <2>2. D!Range(s) \subseteq D!Range(r) /\ e \in D!Range(r)
    BY <1>1, <1>3 DEF D!Range
  <2> QED
    BY <2>1, <2>2
<1>5. ASSUME NEW T, D!Once(s, T), e \in T => e \notin D!Range(s) PROVE D!Once(r, T)
  <2>1. \A i \in 1..Len(s) : s[i] \in D!Range(s)
    BY <1>1 DEF D!Range
  <2> SUFFICES ASSUME NEW i \in 1..Len(r), NEW j \in 1..Len(r), r[i] = r[j], r[i] \in T
               PROVE  i = j
    BY DEF D!Once
  <2>2. CASE i \in 1..Len(s) /\ j \in 1..Len(s)
    BY <1>1, <1>5, <2>2 DEF D!Once
  <2>3. CASE i \notin 1..Len(s) \/ j \notin 1..Len(s)
    BY <1>1, <1>2, <1>5, <2>1, <2>3
  <2> QED
    BY <2>2, <2>3
<1> QED
  BY <1>1, <1>4, <1>5 DEF r

LEMMA Taken ==
  ASSUME NEW S, NEW s \in Seq(S), s # <<>>
  PROVE  /\ Tail(s) \in Seq(S) /\ Head(s) \in S /\ D!Range(s) = D!Range(Tail(s)) \cup {Head(s)}
         /\ \A T : D!Once(s, T) => /\ D!Once(Tail(s), T)
                                   /\ Head(s) \in T => Head(s) \notin D!Range(Tail(s))
<1> DEFINE r == Tail(s)
<1>1. /\ r \in Seq(S) /\ Len(r) = Len(s) - 1 /\ Len(s) \in Nat \ {0}
      /\ \A i \in 1..Len(r) : r[i] = s[i + 1] /\ i + 1 \in 1..Len(s)
      /\ Head(s) = s[1] /\ s[1] \in S /\ DOMAIN r = 1..Len(r) /\ DOMAIN s = 1..Len(s)
      /\ 1 \in 1..Len(s)
  OBVIOUS
<1>2. \A i \in 1..Len(s) : i = 1 \/ (i - 1 \in 1..Len(r) /\ (i - 1) + 1 = i)
  BY <1>1
<1> HIDE DEF r
<1>3. D!Range(s) = D!Range(r) \cup {Head(s)}
  <2>1. D!Range(s) \subseteq D!Range(r) \cup {Head(s)}
    <3> SUFFICES ASSUME NEW i \in 1..Len(s), i # 1 PROVE s[i] \in D!Range(r)
      BY <1>1 DEF D!Range
    <3>1. i - 1 \in 1..Len(r) /\ s[i] = r[i - 1]
      BY <1>1, <1>2
    <3> QED
      BY <1>1, <3>1 DEF D!Range
  <2>2. D!Range(r) \subseteq D!Range(s) /\ Head(s) \in D!Range(s)
    BY <1>1 DEF D!Range
  <2> QED
    BY <2>1, <2>2
<1>4. ASSUME NEW T, D!Once(s, T) PROVE D!Once(r, T) /\ (Head(s) \in T => Head(s) \notin D!Range(r))
  <2>1. D!Once(r, T)
    <3> SUFFICES ASSUME NEW i \in 1..Len(r), NEW j \in 1..Len(r), r[i] = r[j], r[i] \in T
                 PROVE  i = j
      BY DEF D!Once
    <3>1. i + 1 = j + 1
      BY <1>1, <1>4 DEF D!Once
    <3> QED
      BY <3>1
  <2>2. ASSUME Head(s) \in T, NEW i \in 1..Len(r), r[i] = Head(s) PROVE FALSE
    <3>1. s[i + 1] = s[1] /\ i + 1 \in 1..Len(s) /\ i + 1 # 1
      BY <1>1, <2>2
    <3> QED
      BY <1>1, <1>4, <2>2, <3>1 DEF D!Once
  <2> QED
    BY <1>1, <2>1, <2>2 DEF D!Range
<1> QED
  BY <1>1, <1>3, <1>4 DEF r

LEMMA Returned ==
  ASSUME NEW S, NEW s \in Seq(S), s # <<>>
  PROVE  /\ D!Front(s) \in Seq(S) /\ D!Last(s) \in S
         /\ D!Range(s) = D!Range(D!Front(s)) \cup {D!Last(s)}
         /\ Len(D!Front(s)) = Len(s) - 1 /\ Len(s) \in Nat \ {0}
         /\ \A T : D!Once(s, T) => /\ D!Once(D!Front(s), T)
                                   /\ D!Last(s) \in T => D!Last(s) \notin D!Range(D!Front(s))
<1> DEFINE r == D!Front(s)
<1>1. /\ r \in Seq(S) /\ Len(r) = Len(s) - 1 /\ Len(s) \in Nat \ {0}
      /\ \A i \in 1..Len(r) : r[i] = s[i] /\ i \in 1..Len(s) /\ i # Len(s)
      /\ D!Last(s) = s[Len(s)] /\ s[Len(s)] \in S /\ DOMAIN r = 1..Len(r) /\ DOMAIN s = 1..Len(s)
      /\ Len(s) \in 1..Len(s)
  <2>1. Len(s) \in Nat \ {0}
    OBVIOUS
  <2>2. /\ r \in Seq(S) /\ Len(r) = Len(s) - 1
        /\ \A i \in 1..Len(r) : r[i] = s[i]
    <3>1. r = [i \in 1..(Len(s) - 1) |-> s[i]]
      BY <2>1 DEF D!Front
    <3> QED
      BY <2>1, <3>1
  <2> QED
    BY <2>1, <2>2 DEF D!Last
<1>2. \A i \in 1..Len(s) : i = Len(s) \/ i \in 1..Len(r)
  BY <1>1
<1> HIDE DEF r
<1>3. D!Range(s) = D!Range(r) \cup {D!Last(s)}
  <2>1. D!Range(s) \subseteq D!Range(r) \cup {D!Last(s)}
    BY <1>1, <1>2 DEF D!Range
  <2>2. D!Range(r) \subseteq D!Range(s) /\ D!Last(s) \in D!Range(s)
    BY <1>1 DEF D!Range
  <2> QED
    BY <2>1, <2>2
<1>4. ASSUME NEW T, D!Once(s, T)
      PROVE  D!Once(r, T) /\ (D!Last(s) \in T => D!Last(s) \notin D!Range(r))
  <2>1. D!Once(r, T)
    BY <1>1, <1>4 DEF D!Once
  <2>2. ASSUME D!Last(s) \in T, NEW i \in 1..Len(r), r[i] = D!Last(s) PROVE FALSE
    BY <1>1, <1>4, <2>2 DEF D!Once
  <2> QED
    BY <1>1, <2>1, <2>2 DEF D!Range
<1> QED
  BY <1>1, <1>3, <1>4 DEF r

LEMMA Emptied == D!Range(<<>>) = {} /\ \A T : D!Once(<<>>, T)
BY DEF D!Range, D!Once

-----------------------------------------------------------------------------
(***************************************************************************)
(* Types.                                                                  *)
(***************************************************************************)
Places ==
  {"free", "services", "restart", "cleaned", "fetch", "begin", "opening", "download",
   "enterApply", "stopServices", "apply", "end", "closing", "ended", "back", "quit", "release",
   "ask", "register", "registered", "post", "inline", "waiting"}
Messages == {"show", "begin", "apply", "end", "close"} \X (Workers \cup {D!UI})

\* A message goes to the end of the queue while there is a window.
LEMMA Posted ==
  ASSUME inbox \in Seq(Messages), NEW m \in Messages, D!Post(m)
  PROVE  /\ inbox' \in Seq(Messages)
         /\ D!Range(inbox') = D!Range(inbox) \cup IF window THEN {m} ELSE {}
         /\ ~window => inbox' = inbox
         /\ \A T : D!Once(inbox, T) /\ (m \in T => m \notin D!Range(inbox)) => D!Once(inbox', T)
<1>1. CASE window
  <2>1. inbox' = Append(inbox, m)
    BY <1>1 DEF D!Post
  <2> QED
    BY <1>1, <2>1, Appended
<1>2. CASE ~window
  BY <1>2 DEF D!Post
<1> QED
  BY <1>1, <1>2

\* Every step keeps the types.
LEMMA TypedStep ==
  ASSUME D!DesktopAssumption, D!Typed, D!CommandsInOrder, [D!Next]_D!vars
  PROVE  D!Typed'
<1> USE DEF D!Typed, D!gates, D!services, D!work, D!tray, D!dialogs, D!progressWindow,
    D!Pumping, D!Goto, D!At, D!Spawn, D!Commanded, D!Busy, D!Claim, D!Ask, D!Unlock, D!Release,
    D!Deregister, D!Answered,
    D!Commands, Messages, Places
<1>1. CASE D!DoStart
  BY <1>1 DEF D!DoStart
<1>2. CASE D!DoStop
  BY <1>2 DEF D!DoStop
<1>3. CASE D!DoCleanCache
  BY <1>3 DEF D!DoCleanCache
<1>4. CASE D!DoCheckUpdate
  BY <1>4 DEF D!DoCheckUpdate
<1>5. CASE D!DoUninstall
  <2>1. nest' \in Seq(Workers \cup {D!UI}) /\ Len(nest') <= MaxNest
    BY <1>5, Appended DEF D!DoUninstall, D!DesktopAssumption
  <2> QED
    BY <1>5, <2>1 DEF D!DoUninstall
<1>6. CASE D!RequestExit
  <2>1. inbox' \in Seq(Messages)
    BY <1>6, Posted DEF D!RequestExit
  <2> QED
    BY <1>6, <2>1 DEF D!RequestExit
<1>7. CASE D!CancelClick
  BY <1>7 DEF D!CancelClick
<1>8. CASE D!Dispatch
  <2>1. Head(inbox) \in Messages /\ Tail(inbox) \in Seq(Messages)
    BY <1>8, Taken DEF D!Dispatch
  <2>2. inbox' \in Seq(Messages)
    <3>1. inbox' = Tail(inbox) \/ inbox' = <<>>
      BY <1>8 DEF D!Dispatch, D!DestroyWindow
    <3>2. <<>> \in Seq(Messages)
      OBVIOUS
    <3> QED
      BY <2>1, <3>1, <3>2
  <2>3. nest' \in Seq(Workers \cup {D!UI}) /\ Len(nest') <= MaxNest
    <3>1. nest' = nest \/ (nest' = Append(nest, Head(inbox)[2]) /\ Len(nest) < MaxNest)
      BY <1>8 DEF D!Dispatch
    <3>2. Head(inbox)[2] \in Workers \cup {D!UI}
      BY <2>1
    <3> QED
      BY <3>1, <3>2, Appended DEF D!DesktopAssumption
  <2>4. pw' \in {"none", "open", "closing", "closed"} /\ ui' \in {"pump", "cancel", "destroy"}
          /\ window' \in BOOLEAN /\ pending' \subseteq Workers
    BY <1>8 DEF D!Dispatch, D!DestroyWindow
  <2> QED
    BY <1>8, <2>2, <2>3, <2>4 DEF D!Dispatch
<1>9. CASE D!Destroyed
  BY <1>9 DEF D!Destroyed
<1>10. CASE D!Answer
  <2>1. nest' \in Seq(Workers \cup {D!UI}) /\ Len(nest') <= MaxNest
    <3>1. nest # <<>> /\ nest' = D!Front(nest)
      BY <1>10 DEF D!Answer
    <3>2. D!Front(nest) \in Seq(Workers \cup {D!UI}) /\ Len(nest) \in Nat
            /\ Len(D!Front(nest)) = Len(nest) - 1
      BY <3>1, Returned
    <3> QED
      BY <3>1, <3>2 DEF D!DesktopAssumption
  <2>2. request' \in [Workers -> {"none", "Queued", "Completed", "Abandoned"}]
    BY <1>10, Returned DEF D!Answer, D!DesktopAssumption
  <2>3. cmd' \in [Workers -> D!Commands \cup {"none"}] 
    BY <1>10 DEF D!Answer
  <2>4. place' \in [Workers -> Places]
    BY <1>10 DEF D!Answer
  <2>5. UNCHANGED <<was, told>>
    BY <1>10 DEF D!Answer
  <2> QED
    BY <1>10, <2>1, <2>2, <2>3, <2>4, <2>5 DEF D!Answer
<1>11. CASE D!RequestCancel
  BY <1>11 DEF D!RequestCancel
<1>12. CASE D!LoopEnds
  BY <1>12 DEF D!LoopEnds
<1>13. CASE D!StopAtExit
  BY <1>13 DEF D!StopAtExit
<1>14. CASE D!Detach
  BY <1>14 DEF D!Detach
<1>15. CASE D!Disarm
  BY <1>15 DEF D!Disarm
<1>16. CASE D!SwapPending
  BY <1>16 DEF D!SwapPending
<1>17. CASE D!Abandon
  BY <1>17 DEF D!Abandon
<1>18. CASE D!ProcessEnds
  BY <1>18 DEF D!ProcessEnds
<1>19. ASSUME NEW w \in Workers, D!Serve(w) PROVE D!Typed'
  <2>1. D!InCommand(w)
    BY DEF D!CommandsInOrder
  <2>2. place' \in [Workers -> Places] /\ up' \in BOOLEAN /\ opLock' \in Workers \cup {D!Nobody}
    BY <1>19, <2>1 DEF D!Serve, D!InCommand
  <2> QED
    BY <1>19, <2>2 DEF D!Serve
<1>20. ASSUME NEW w \in Workers, D!CleanEnds(w) PROVE D!Typed'
  <2>1. place' \in [Workers -> Places]
    BY <1>20 DEF D!CleanEnds
  <2> QED
    BY <1>20, <2>1 DEF D!CleanEnds
<1>21. ASSUME NEW w \in Workers, D!Fetch(w) PROVE D!Typed'
  BY <1>21 DEF D!Fetch
<1>22. ASSUME NEW w \in Workers, D!Confirmed(w) PROVE D!Typed'
  <2>1. inbox' \in Seq(Messages)
    BY <1>22, Posted DEF D!Confirmed
  <2> QED
    BY <1>22, <2>1 DEF D!Confirmed
<1>23. ASSUME NEW w \in Workers, D!Opened(w) PROVE D!Typed'
  BY <1>23 DEF D!Opened
<1>24. ASSUME NEW w \in Workers, D!Downloaded(w) PROVE D!Typed'
  BY <1>24 DEF D!Downloaded
<1>25. ASSUME NEW w \in Workers, D!EnterApply(w) PROVE D!Typed'
  <2>1. inbox' \in Seq(Messages)
    BY <1>25, Posted DEF D!EnterApply
  <2> QED
    BY <1>25, <2>1 DEF D!EnterApply
<1>26. ASSUME NEW w \in Workers, D!StopServices(w) PROVE D!Typed'
  BY <1>26 DEF D!StopServices
<1>27. ASSUME NEW w \in Workers, D!Applied(w) PROVE D!Typed'
  <2>1. place' \in [Workers -> Places]
    BY <1>27 DEF D!Applied
  <2>2. PICK o \in {"Failed", "Applied", "Swap"} : told' = [told EXCEPT ![w] = o]
    BY <1>27 DEF D!Applied
  <2> QED
    BY <1>27, <2>1, <2>2 DEF D!Applied
<1>28. ASSUME NEW w \in Workers, D!EndWindow(w) PROVE D!Typed'
  <2>1. inbox' \in Seq(Messages)
    BY <1>28, Posted DEF D!EndWindow
  <2> QED
    BY <1>28, <2>1 DEF D!EndWindow
<1>29. ASSUME NEW w \in Workers, D!WindowEnded(w) PROVE D!Typed'
  BY <1>29 DEF D!WindowEnded
<1>30. ASSUME NEW w \in Workers, D!Restart(w) PROVE D!Typed'
  <2>1. place' \in [Workers -> Places]
    BY <1>30 DEF D!Restart
  <2> QED
    BY <1>30, <2>1 DEF D!Restart
<1>31. ASSUME NEW w \in Workers, D!Quit(w) PROVE D!Typed'
  <2>1. inbox' \in Seq(Messages)
    BY <1>31, Posted DEF D!Quit
  <2> QED
    BY <1>31, <2>1 DEF D!Quit
<1>32. ASSUME NEW w \in Workers, D!Show(w) PROVE D!Typed'
  BY <1>32 DEF D!Show
<1>33. ASSUME NEW w \in Workers, D!Register(w) PROVE D!Typed'
  BY <1>33 DEF D!Register
<1>34. ASSUME NEW w \in Workers, D!CheckAbandoned(w) PROVE D!Typed'
  BY <1>34 DEF D!CheckAbandoned
<1>35. ASSUME NEW w \in Workers, D!PostRequest(w) PROVE D!Typed'
  <2>1. inbox' \in Seq(Messages)
    BY <1>35, Posted DEF D!PostRequest
  <2> QED
    BY <1>35, <2>1 DEF D!PostRequest
<1>36. ASSUME NEW w \in Workers, D!AnswerInline(w) PROVE D!Typed'
  BY <1>36 DEF D!AnswerInline
<1>37. ASSUME NEW w \in Workers, D!Woken(w) PROVE D!Typed'
  BY <1>37 DEF D!Woken
<1>38. ASSUME NEW w \in Workers, D!Finish(w) PROVE D!Typed'
  BY <1>38 DEF D!Finish
<1>39. CASE UNCHANGED D!vars
  BY <1>39 DEF D!vars
<1> QED
  BY <1>1, <1>2, <1>3, <1>4, <1>5, <1>6, <1>7, <1>8, <1>9, <1>10, <1>11, <1>12, <1>13,
     <1>14, <1>15, <1>16, <1>17, <1>18, <1>19, <1>20, <1>21, <1>22, <1>23, <1>24, <1>25,
     <1>26, <1>27, <1>28, <1>29, <1>30, <1>31, <1>32, <1>33, <1>34, <1>35, <1>36, <1>37,
     <1>38, <1>39
  DEF D!Next, D!Command, D!Worker, D!Update, D!Request, D!Exit

-----------------------------------------------------------------------------
(***************************************************************************)
(* A worker changes nothing of another's, and of the UI thread's no more   *)
(* than the queue and the progress window.                                 *)
(***************************************************************************)
Keeps(v) ==
  /\ place'[v] = place[v] /\ cmd'[v] = cmd[v] /\ was'[v] = was[v] /\ told'[v] = told[v]
  /\ request'[v] = request[v] /\ (v \in pending' <=> v \in pending)

LEMMA WorkerKeeps ==
  ASSUME D!Typed, D!CommandsInOrder, NEW w \in Workers, D!Worker(w)
  PROVE  /\ mpc # "exited"
         /\ UNCHANGED <<mpc, window, attached, armed, nest, abandoning, ui, occasions>>
         /\ \A v \in Workers \ {w} : Keeps(v)
<1> DEFINE G == /\ mpc # "exited"
                /\ UNCHANGED <<mpc, window, attached, armed, nest, abandoning, ui, occasions>>
                /\ \A v \in Workers \ {w} : Keeps(v)
<1> USE DEF D!Typed, D!gates, D!services, D!work, D!tray, D!dialogs, D!progressWindow,
    D!Goto, D!At, D!Ask, D!Unlock, D!Release, D!Deregister, D!Answered, Keeps
<1>1. CASE D!Serve(w)
  <2>1. place[w] = "services" /\ cmd[w] \in {"start", "stop", "clean", "uninstall"}
    BY <1>1 DEF D!Serve, D!CommandsInOrder, D!InCommand
  <2>2. place' = [place EXCEPT ![w] = place'[w]]
    BY <1>1, <2>1 DEF D!Serve
  <2> QED
    BY <1>1, <2>2 DEF D!Serve
<1>2. CASE D!CleanEnds(w)
  BY <1>2 DEF D!CleanEnds
<1>3. CASE D!Fetch(w)
  BY <1>3 DEF D!Fetch
<1>4. CASE D!Confirmed(w)
  BY <1>4 DEF D!Confirmed
<1>5. CASE D!Opened(w)
  BY <1>5 DEF D!Opened
<1>6. CASE D!Downloaded(w)
  BY <1>6 DEF D!Downloaded
<1>7. CASE D!EnterApply(w)
  BY <1>7 DEF D!EnterApply
<1>8. CASE D!StopServices(w)
  BY <1>8 DEF D!StopServices
<1>9. CASE D!Applied(w)
  BY <1>9 DEF D!Applied
<1>10. CASE D!EndWindow(w)
  BY <1>10 DEF D!EndWindow
<1>11. CASE D!WindowEnded(w)
  BY <1>11 DEF D!WindowEnded
<1>12. CASE D!Restart(w)
  BY <1>12 DEF D!Restart
<1>13. CASE D!Quit(w)
  BY <1>13 DEF D!Quit
<1>14. CASE D!Show(w)
  BY <1>14 DEF D!Show
<1>15. CASE D!Register(w)
  BY <1>15 DEF D!Register
<1>16. CASE D!CheckAbandoned(w)
  BY <1>16 DEF D!CheckAbandoned
<1>17. CASE D!PostRequest(w)
  BY <1>17 DEF D!PostRequest
<1>18. CASE D!AnswerInline(w)
  BY <1>18 DEF D!AnswerInline
<1>19. CASE D!Woken(w)
  BY <1>19 DEF D!Woken
<1>20. CASE D!Finish(w)
  BY <1>20 DEF D!Finish
<1> QED
  BY <1>1, <1>2, <1>3, <1>4, <1>5, <1>6, <1>7, <1>8, <1>9, <1>10, <1>11, <1>12, <1>13,
     <1>14, <1>15, <1>16, <1>17, <1>18, <1>19, <1>20 DEF D!Worker, D!Update, D!Request

-----------------------------------------------------------------------------
(***************************************************************************)
(* The gates and the commands.                                             *)
(***************************************************************************)
LEMMA CommandsQuiet ==
  ASSUME D!Typed, D!OneAtATime, D!CommandsInOrder,
         UNCHANGED <<D!gates, place, cmd, told, occasions>>,
         D!UI \in D!Range(nest') => D!UI \in D!Range(nest)
  PROVE  D!OneAtATime' /\ D!CommandsInOrder'
BY DEF D!OneAtATime, D!CommandsInOrder, D!InCommand, D!gates, D!AskStates, D!WorkStates, D!EndStates

\* One worker moves; the gates of the others stay as they are.
LEMMA CommandsMove ==
  ASSUME D!Typed, D!CommandsInOrder, NEW w \in Workers, \A v \in Workers \ {w} : Keeps(v),
         UNCHANGED occasions, D!UI \in D!Range(nest') => D!UI \in D!Range(nest),
         \A v \in Workers \ {w} :
           (cmd[v] = "update" => updateBusy') /\ (cmd[v] = "clean" => cleanupBusy'),
         D!InCommand(w)'
  PROVE  D!CommandsInOrder'
<1>1. ASSUME NEW v \in Workers \ {w} PROVE D!InCommand(v)'
  <2>1. /\ D!InCommand(v) /\ Keeps(v) /\ UNCHANGED occasions
        /\ (cmd[v] = "update" => updateBusy') /\ (cmd[v] = "clean" => cleanupBusy')
    <3>1. v \in Workers /\ v \in Workers \ {w}
      BY <1>1
    <3>2. D!InCommand(v)
      BY <3>1 DEF D!CommandsInOrder
    <3>3. (cmd[v] = "update" => updateBusy') /\ (cmd[v] = "clean" => cleanupBusy')
      BY <3>1
    <3>4. Keeps(v)
      BY <3>1
    <3> QED
      BY <3>2, <3>3, <3>4
  <2> QED
    BY <2>1 DEF D!InCommand, Keeps, D!AskStates, D!WorkStates, D!EndStates
<1> QED
  BY <1>1 DEF D!CommandsInOrder

LEMMA CommandsStep ==
  ASSUME D!DesktopAssumption, D!Typed, D!OneAtATime, D!CommandsInOrder, D!RequestsInOrder,
         [D!Next]_D!vars
  PROVE  D!OneAtATime' /\ D!CommandsInOrder'
<1> USE DEF D!gates, D!services, D!work, D!tray, D!dialogs, D!progressWindow
<1>1. CASE D!DoStart
  <2>1. PICK w \in Workers : D!Spawn(w, "start", "services")
    BY <1>1 DEF D!DoStart
  <2>2. \A v \in Workers \ {w} : Keeps(v)
    BY <1>1, <2>1 DEF D!DoStart, D!Spawn, Keeps, D!Typed
  <2>3. /\ place[w] = "free" /\ cmd[w] = "none" /\ told[w] = "none"
        /\ \A v \in Workers : (cmd[v] = "update" => updateBusy) /\ (cmd[v] = "clean" => cleanupBusy)
    BY <2>1 DEF D!Spawn, D!CommandsInOrder, D!InCommand, D!Typed
  <2>4. D!InCommand(w)'
    BY <1>1, <2>1, <2>3
    DEF D!DoStart, D!Spawn, D!InCommand, D!Typed, D!AskStates, D!WorkStates, D!EndStates
  <2>5. D!CommandsInOrder'
    BY <1>1, <2>2, <2>3, <2>4, CommandsMove DEF D!DoStart, D!Claim
  <2> QED
    BY <1>1, <2>1, <2>3, <2>5 DEF D!DoStart, D!Spawn, D!OneAtATime, D!Claim, D!Typed
<1>2. CASE D!DoStop
  <2>1. PICK w \in Workers : D!Spawn(w, "stop", "services")
    BY <1>2 DEF D!DoStop
  <2>2. \A v \in Workers \ {w} : Keeps(v)
    BY <1>2, <2>1 DEF D!DoStop, D!Spawn, Keeps, D!Typed
  <2>3. /\ place[w] = "free" /\ cmd[w] = "none" /\ told[w] = "none"
        /\ \A v \in Workers : (cmd[v] = "update" => updateBusy) /\ (cmd[v] = "clean" => cleanupBusy)
    BY <2>1 DEF D!Spawn, D!CommandsInOrder, D!InCommand, D!Typed
  <2>4. D!InCommand(w)'
    BY <1>2, <2>1, <2>3
    DEF D!DoStop, D!Spawn, D!InCommand, D!Typed, D!AskStates, D!WorkStates, D!EndStates
  <2>5. D!CommandsInOrder'
    BY <1>2, <2>2, <2>3, <2>4, CommandsMove DEF D!DoStop, D!Claim
  <2> QED
    BY <1>2, <2>1, <2>3, <2>5 DEF D!DoStop, D!Spawn, D!OneAtATime, D!Claim, D!Typed
<1>3. CASE D!DoCleanCache
  <2>a. CASE UNCHANGED <<D!gates, D!work>>
    BY <1>3, <2>a, CommandsQuiet DEF D!DoCleanCache
  <2>b. CASE ~UNCHANGED <<D!gates, D!work>>
    <3>1. PICK w \in Workers : D!Spawn(w, "clean", "services")
      BY <1>3, <2>b DEF D!DoCleanCache
    <3>2. \A v \in Workers \ {w} : Keeps(v)
      BY <1>3, <2>b, <3>1 DEF D!DoCleanCache, D!Spawn, Keeps, D!Typed
    <3>3. /\ place[w] = "free" /\ cmd[w] = "none" /\ told[w] = "none"
          /\ \A v \in Workers : (cmd[v] = "update" => updateBusy) /\ (cmd[v] = "clean" => cleanupBusy)
      BY <3>1 DEF D!Spawn, D!CommandsInOrder, D!InCommand, D!Typed
    <3>4. D!InCommand(w)'
      BY <1>3, <2>b, <3>1, <3>3
      DEF D!DoCleanCache, D!Spawn, D!InCommand, D!Typed, D!AskStates, D!WorkStates, D!EndStates
    <3>5. D!CommandsInOrder'
      BY <1>3, <2>b, <3>2, <3>3, <3>4, CommandsMove DEF D!DoCleanCache, D!Claim
    <3> QED
      BY <1>3, <2>b, <3>1, <3>3, <3>5 DEF D!DoCleanCache, D!Spawn, D!OneAtATime, D!Claim, D!Typed
  <2> QED
    BY <2>a, <2>b
<1>4. CASE D!DoCheckUpdate
  <2>a. CASE UNCHANGED <<D!gates, D!work>>
    BY <1>4, <2>a, CommandsQuiet DEF D!DoCheckUpdate
  <2>b. CASE ~UNCHANGED <<D!gates, D!work>>
    <3>1. PICK w \in Workers : D!Spawn(w, "update", "fetch")
      BY <1>4, <2>b DEF D!DoCheckUpdate
    <3>2. \A v \in Workers \ {w} : Keeps(v)
      BY <1>4, <2>b, <3>1 DEF D!DoCheckUpdate, D!Spawn, Keeps, D!Typed
    <3>3. /\ place[w] = "free" /\ cmd[w] = "none" /\ told[w] = "none"
          /\ \A v \in Workers : (cmd[v] = "update" => updateBusy) /\ (cmd[v] = "clean" => cleanupBusy)
      BY <3>1 DEF D!Spawn, D!CommandsInOrder, D!InCommand, D!Typed
    <3>4. D!InCommand(w)'
      BY <1>4, <2>b, <3>1, <3>3
      DEF D!DoCheckUpdate, D!Spawn, D!InCommand, D!Typed, D!AskStates, D!WorkStates, D!EndStates
    <3>5. D!CommandsInOrder'
      BY <1>4, <2>b, <3>2, <3>3, <3>4, CommandsMove DEF D!DoCheckUpdate, D!Claim
    <3> QED
      BY <1>4, <2>b, <3>1, <3>3, <3>5 DEF D!DoCheckUpdate, D!Spawn, D!OneAtATime, D!Claim, D!Typed
  <2> QED
    BY <2>a, <2>b
<1>5. CASE D!DoUninstall
  <2>1. D!OneAtATime' /\ \A w \in Workers : D!InCommand(w)'
    BY <1>5
    DEF D!DoUninstall, D!OneAtATime, D!CommandsInOrder, D!InCommand, D!AskStates, D!WorkStates,
        D!EndStates
  <2> QED
    BY <1>5, <2>1 DEF D!DoUninstall, D!CommandsInOrder
<1>6. CASE D!RequestExit
  BY <1>6, CommandsQuiet DEF D!RequestExit
<1>7. CASE D!CancelClick
  BY <1>7, CommandsQuiet DEF D!CancelClick
<1>8. CASE D!Dispatch
  <2>1. Head(inbox) \in D!Range(inbox)
    BY <1>8, Taken DEF D!Dispatch, D!Typed
  <2>2. D!UI \in D!Range(nest') => D!UI \in D!Range(nest)
    <3>1. CASE nest' = nest
      BY <3>1
    <3>2. CASE nest' # nest
      <4>1. Head(inbox)[1] = "show" /\ nest' = Append(nest, Head(inbox)[2])
        BY <1>8, <3>2 DEF D!Dispatch
      <4>2. Head(inbox)[2] \in Workers
        BY <2>1, <4>1 DEF D!RequestsInOrder, D!UIInOrder
      <4>3. D!Range(nest') = D!Range(nest) \cup {Head(inbox)[2]}
        BY <4>1, <4>2, Appended DEF D!Typed
      <4> QED
        BY <4>2, <4>3 DEF D!DesktopAssumption, D!UI
    <3> QED
      BY <3>1, <3>2
  <2> QED
    BY <1>8, <2>2, CommandsQuiet DEF D!Dispatch
<1>9. CASE D!Destroyed
  BY <1>9, CommandsQuiet DEF D!Destroyed
<1>10. CASE D!Answer
  <2>1. D!Range(nest') \subseteq D!Range(nest) /\ D!Last(nest) \in D!Range(nest)
    <3>1. nest # <<>> /\ nest' = D!Front(nest) /\ nest \in Seq(Workers \cup {D!UI})
      BY <1>10 DEF D!Answer, D!Typed
    <3> QED
      BY <3>1, Returned
  <2>2. CASE UNCHANGED D!work
    BY <1>10, <2>1, <2>2, CommandsQuiet DEF D!Answer
  <2>3. CASE ~UNCHANGED D!work
    <3>1. D!Last(nest) = D!UI /\ UNCHANGED request
      BY <1>10, <2>3 DEF D!Answer
    <3>2. PICK w \in Workers : D!Spawn(w, "uninstall", "services")
      BY <1>10, <2>3 DEF D!Answer
    <3>3. \A v \in Workers \ {w} : Keeps(v)
      BY <1>10, <3>1, <3>2 DEF D!Answer, D!Spawn, Keeps, D!Typed
    <3>4. /\ place[w] = "free" /\ cmd[w] = "none" /\ told[w] = "none"
          /\ \A v \in Workers : (cmd[v] = "update" => updateBusy) /\ (cmd[v] = "clean" => cleanupBusy)
      BY <3>2 DEF D!Spawn, D!CommandsInOrder, D!InCommand, D!Typed
    <3>5. "uninstall" \in occasions
      BY <2>1, <3>1 DEF D!CommandsInOrder
    <3>6. D!InCommand(w)'
      BY <1>10, <3>2, <3>4, <3>5
      DEF D!Answer, D!Spawn, D!InCommand, D!Typed, D!AskStates, D!WorkStates, D!EndStates
    <3>7. D!CommandsInOrder'
      BY <1>10, <2>1, <3>3, <3>4, <3>6, CommandsMove DEF D!Answer
    <3> QED
      BY <1>10, <3>2, <3>7 DEF D!Answer, D!Spawn, D!OneAtATime, D!Typed
  <2> QED
    BY <2>2, <2>3
<1>11. CASE D!RequestCancel
  BY <1>11, CommandsQuiet DEF D!RequestCancel
<1>12. CASE D!LoopEnds
  BY <1>12, CommandsQuiet DEF D!LoopEnds
<1>13. CASE D!StopAtExit
  BY <1>13, CommandsQuiet DEF D!StopAtExit
<1>14. CASE D!Detach
  BY <1>14, CommandsQuiet DEF D!Detach
<1>15. CASE D!Disarm
  BY <1>15, CommandsQuiet DEF D!Disarm
<1>16. CASE D!SwapPending
  BY <1>16, CommandsQuiet DEF D!SwapPending
<1>17. CASE D!Abandon
  BY <1>17, CommandsQuiet DEF D!Abandon
<1>18. CASE D!ProcessEnds
  BY <1>18, CommandsQuiet DEF D!ProcessEnds
<1>19. ASSUME NEW w \in Workers, D!Serve(w) PROVE D!OneAtATime' /\ D!CommandsInOrder'
  <2>1. D!InCommand(w)
    BY DEF D!CommandsInOrder
  <2>2. D!InCommand(w)'
    <3>1. /\ UNCHANGED <<D!gates, cmd, told, occasions>>
          /\ cmd[w] \in {"start", "stop", "clean", "uninstall"}
          /\ place[w] = "services" /\ place' = [place EXCEPT ![w] = place'[w]]
      BY <1>19, <2>1 DEF D!Serve, D!InCommand, D!Goto, D!At, D!Ask, D!Typed
    <3>2. /\ place'[w] \in {"release", "ask", "quit", "restart", "cleaned"}
          /\ place'[w] \in {"restart", "cleaned"} => cmd[w] = "clean"
      BY <1>19, <3>1 DEF D!Serve, D!Goto, D!Ask, D!Typed
    <3> QED
      BY <2>1, <3>1, <3>2 DEF D!InCommand, D!Typed, D!AskStates, D!WorkStates, D!EndStates
  <2>3. /\ UNCHANGED <<nest, occasions>> /\ \A v \in Workers \ {w} : Keeps(v)
    BY <1>19, WorkerKeeps DEF D!Worker, D!Update, D!Request
  <2>4. D!CommandsInOrder'
    BY <1>19, <2>2, <2>3, CommandsMove DEF D!Serve, D!CommandsInOrder, D!InCommand
  <2> QED
    BY <1>19, <2>4 DEF D!Serve, D!OneAtATime
<1>20. ASSUME NEW w \in Workers, D!CleanEnds(w) PROVE D!OneAtATime' /\ D!CommandsInOrder'
  <2>1. D!InCommand(w)
    BY DEF D!CommandsInOrder
  <2>2. D!InCommand(w)'
    BY <1>20, <2>1
    DEF D!CleanEnds, D!InCommand, D!Typed, D!Goto, D!At, D!Ask, D!Answered, D!AskStates,
        D!WorkStates, D!EndStates
  <2>3. /\ UNCHANGED <<nest, occasions>> /\ \A v \in Workers \ {w} : Keeps(v)
    BY <1>20, WorkerKeeps DEF D!Worker, D!Update, D!Request
  <2>4. D!CommandsInOrder'
    BY <1>20, <2>2, <2>3, CommandsMove DEF D!CleanEnds, D!CommandsInOrder, D!InCommand
  <2> QED
    BY <1>20, <2>4 DEF D!CleanEnds, D!OneAtATime
<1>21. ASSUME NEW w \in Workers, D!Fetch(w) PROVE D!OneAtATime' /\ D!CommandsInOrder'
  <2>1. D!InCommand(w)
    BY DEF D!CommandsInOrder
  <2>2. D!InCommand(w)'
    BY <1>21, <2>1
    DEF D!Fetch, D!InCommand, D!Typed, D!Goto, D!At, D!Ask, D!Answered, D!AskStates, D!WorkStates,
        D!EndStates
  <2>3. /\ UNCHANGED <<nest, occasions>> /\ \A v \in Workers \ {w} : Keeps(v)
    BY <1>21, WorkerKeeps DEF D!Worker, D!Update, D!Request
  <2>4. D!CommandsInOrder'
    BY <1>21, <2>2, <2>3, CommandsMove DEF D!Fetch, D!CommandsInOrder, D!InCommand
  <2> QED
    BY <1>21, <2>4 DEF D!Fetch, D!OneAtATime
<1>22. ASSUME NEW w \in Workers, D!Confirmed(w) PROVE D!OneAtATime' /\ D!CommandsInOrder'
  <2>1. D!InCommand(w)
    BY DEF D!CommandsInOrder
  <2>2. D!InCommand(w)'
    BY <1>22, <2>1
    DEF D!Confirmed, D!InCommand, D!Typed, D!Goto, D!At, D!Ask, D!Answered, D!AskStates,
        D!WorkStates, D!EndStates
  <2>3. /\ UNCHANGED <<nest, occasions>> /\ \A v \in Workers \ {w} : Keeps(v)
    BY <1>22, WorkerKeeps DEF D!Worker, D!Update, D!Request
  <2>4. D!CommandsInOrder'
    BY <1>22, <2>2, <2>3, CommandsMove DEF D!Confirmed, D!CommandsInOrder, D!InCommand
  <2> QED
    BY <1>22, <2>4 DEF D!Confirmed, D!OneAtATime
<1>23. ASSUME NEW w \in Workers, D!Opened(w) PROVE D!OneAtATime' /\ D!CommandsInOrder'
  <2>1. D!InCommand(w)
    BY DEF D!CommandsInOrder
  <2>2. D!InCommand(w)'
    BY <1>23, <2>1
    DEF D!Opened, D!InCommand, D!Typed, D!Goto, D!At, D!Ask, D!Answered, D!AskStates,
        D!WorkStates, D!EndStates
  <2>3. /\ UNCHANGED <<nest, occasions>> /\ \A v \in Workers \ {w} : Keeps(v)
    BY <1>23, WorkerKeeps DEF D!Worker, D!Update, D!Request
  <2>4. D!CommandsInOrder'
    BY <1>23, <2>2, <2>3, CommandsMove DEF D!Opened, D!CommandsInOrder, D!InCommand
  <2> QED
    BY <1>23, <2>4 DEF D!Opened, D!OneAtATime
<1>24. ASSUME NEW w \in Workers, D!Downloaded(w) PROVE D!OneAtATime' /\ D!CommandsInOrder'
  <2>1. D!InCommand(w)
    BY DEF D!CommandsInOrder
  <2>2. D!InCommand(w)'
    BY <1>24, <2>1
    DEF D!Downloaded, D!InCommand, D!Typed, D!Goto, D!At, D!Ask, D!Answered, D!AskStates,
        D!WorkStates, D!EndStates
  <2>3. /\ UNCHANGED <<nest, occasions>> /\ \A v \in Workers \ {w} : Keeps(v)
    BY <1>24, WorkerKeeps DEF D!Worker, D!Update, D!Request
  <2>4. D!CommandsInOrder'
    BY <1>24, <2>2, <2>3, CommandsMove DEF D!Downloaded, D!CommandsInOrder, D!InCommand
  <2> QED
    BY <1>24, <2>4 DEF D!Downloaded, D!OneAtATime
<1>25. ASSUME NEW w \in Workers, D!EnterApply(w) PROVE D!OneAtATime' /\ D!CommandsInOrder'
  <2>1. D!InCommand(w)
    BY DEF D!CommandsInOrder
  <2>2. D!InCommand(w)'
    BY <1>25, <2>1
    DEF D!EnterApply, D!InCommand, D!Typed, D!Goto, D!At, D!Ask, D!Answered, D!AskStates,
        D!WorkStates, D!EndStates
  <2>3. /\ UNCHANGED <<nest, occasions>> /\ \A v \in Workers \ {w} : Keeps(v)
    BY <1>25, WorkerKeeps DEF D!Worker, D!Update, D!Request
  <2>4. D!CommandsInOrder'
    BY <1>25, <2>2, <2>3, CommandsMove DEF D!EnterApply, D!CommandsInOrder, D!InCommand
  <2> QED
    BY <1>25, <2>4 DEF D!EnterApply, D!OneAtATime
<1>26. ASSUME NEW w \in Workers, D!StopServices(w) PROVE D!OneAtATime' /\ D!CommandsInOrder'
  <2>1. D!InCommand(w)
    BY DEF D!CommandsInOrder
  <2>2. D!InCommand(w)'
    BY <1>26, <2>1
    DEF D!StopServices, D!InCommand, D!Typed, D!Goto, D!At, D!Ask, D!Answered, D!AskStates,
        D!WorkStates, D!EndStates
  <2>3. /\ UNCHANGED <<nest, occasions>> /\ \A v \in Workers \ {w} : Keeps(v)
    BY <1>26, WorkerKeeps DEF D!Worker, D!Update, D!Request
  <2>4. D!CommandsInOrder'
    BY <1>26, <2>2, <2>3, CommandsMove DEF D!StopServices, D!CommandsInOrder, D!InCommand
  <2> QED
    BY <1>26, <2>4 DEF D!StopServices, D!OneAtATime
<1>27. ASSUME NEW w \in Workers, D!Applied(w) PROVE D!OneAtATime' /\ D!CommandsInOrder'
  <2>1. D!InCommand(w)
    BY DEF D!CommandsInOrder
  <2>2. D!InCommand(w)'
    BY <1>27, <2>1
    DEF D!Applied, D!InCommand, D!Typed, D!Goto, D!At, D!Ask, D!Answered, D!AskStates,
        D!WorkStates, D!EndStates
  <2>3. /\ UNCHANGED <<nest, occasions>> /\ \A v \in Workers \ {w} : Keeps(v)
    BY <1>27, WorkerKeeps DEF D!Worker, D!Update, D!Request
  <2>4. D!CommandsInOrder'
    BY <1>27, <2>2, <2>3, CommandsMove DEF D!Applied, D!CommandsInOrder, D!InCommand
  <2> QED
    BY <1>27, <2>4 DEF D!Applied, D!OneAtATime
<1>28. ASSUME NEW w \in Workers, D!EndWindow(w) PROVE D!OneAtATime' /\ D!CommandsInOrder'
  <2>1. D!InCommand(w)
    BY DEF D!CommandsInOrder
  <2>2. D!InCommand(w)'
    BY <1>28, <2>1
    DEF D!EndWindow, D!InCommand, D!Typed, D!Goto, D!At, D!Ask, D!Answered, D!AskStates,
        D!WorkStates, D!EndStates
  <2>3. /\ UNCHANGED <<nest, occasions>> /\ \A v \in Workers \ {w} : Keeps(v)
    BY <1>28, WorkerKeeps DEF D!Worker, D!Update, D!Request
  <2>4. D!CommandsInOrder'
    BY <1>28, <2>2, <2>3, CommandsMove DEF D!EndWindow, D!CommandsInOrder, D!InCommand
  <2> QED
    BY <1>28, <2>4 DEF D!EndWindow, D!OneAtATime
<1>29. ASSUME NEW w \in Workers, D!WindowEnded(w) PROVE D!OneAtATime' /\ D!CommandsInOrder'
  <2>1. D!InCommand(w)
    BY DEF D!CommandsInOrder
  <2>2. D!InCommand(w)'
    BY <1>29, <2>1
    DEF D!WindowEnded, D!InCommand, D!Typed, D!Goto, D!At, D!Ask, D!Answered, D!AskStates,
        D!WorkStates, D!EndStates
  <2>3. /\ UNCHANGED <<nest, occasions>> /\ \A v \in Workers \ {w} : Keeps(v)
    BY <1>29, WorkerKeeps DEF D!Worker, D!Update, D!Request
  <2>4. D!CommandsInOrder'
    BY <1>29, <2>2, <2>3, CommandsMove DEF D!WindowEnded, D!CommandsInOrder, D!InCommand
  <2> QED
    BY <1>29, <2>4 DEF D!WindowEnded, D!OneAtATime
<1>30. ASSUME NEW w \in Workers, D!Restart(w) PROVE D!OneAtATime' /\ D!CommandsInOrder'
  <2>1. D!InCommand(w)
    BY DEF D!CommandsInOrder
  <2>2. D!InCommand(w)'
    BY <1>30, <2>1
    DEF D!Restart, D!InCommand, D!Typed, D!Goto, D!At, D!Ask, D!Answered, D!AskStates,
        D!WorkStates, D!EndStates
  <2>3. /\ UNCHANGED <<nest, occasions>> /\ \A v \in Workers \ {w} : Keeps(v)
    BY <1>30, WorkerKeeps DEF D!Worker, D!Update, D!Request
  <2>4. D!CommandsInOrder'
    BY <1>30, <2>2, <2>3, CommandsMove DEF D!Restart, D!CommandsInOrder, D!InCommand
  <2> QED
    BY <1>30, <2>4 DEF D!Restart, D!OneAtATime
<1>31. ASSUME NEW w \in Workers, D!Quit(w) PROVE D!OneAtATime' /\ D!CommandsInOrder'
  <2>1. D!InCommand(w)
    BY DEF D!CommandsInOrder
  <2>2. D!InCommand(w)'
    BY <1>31, <2>1
    DEF D!Quit, D!InCommand, D!Typed, D!Goto, D!At, D!Ask, D!Answered, D!AskStates, D!WorkStates,
        D!EndStates
  <2>3. /\ UNCHANGED <<nest, occasions>> /\ \A v \in Workers \ {w} : Keeps(v)
    BY <1>31, WorkerKeeps DEF D!Worker, D!Update, D!Request
  <2>4. D!CommandsInOrder'
    BY <1>31, <2>2, <2>3, CommandsMove DEF D!Quit, D!CommandsInOrder, D!InCommand
  <2> QED
    BY <1>31, <2>4 DEF D!Quit, D!OneAtATime
<1>32. ASSUME NEW w \in Workers, D!Show(w) PROVE D!OneAtATime' /\ D!CommandsInOrder'
  <2>1. D!InCommand(w)
    BY DEF D!CommandsInOrder
  <2>2. D!InCommand(w)'
    BY <1>32, <2>1
    DEF D!Show, D!InCommand, D!Typed, D!Goto, D!At, D!Ask, D!Answered, D!AskStates, D!WorkStates,
        D!EndStates
  <2>3. /\ UNCHANGED <<nest, occasions>> /\ \A v \in Workers \ {w} : Keeps(v)
    BY <1>32, WorkerKeeps DEF D!Worker, D!Update, D!Request
  <2>4. D!CommandsInOrder'
    BY <1>32, <2>2, <2>3, CommandsMove DEF D!Show, D!CommandsInOrder, D!InCommand
  <2> QED
    BY <1>32, <2>4 DEF D!Show, D!OneAtATime
<1>33. ASSUME NEW w \in Workers, D!Register(w) PROVE D!OneAtATime' /\ D!CommandsInOrder'
  <2>1. D!InCommand(w)
    BY DEF D!CommandsInOrder
  <2>2. D!InCommand(w)'
    BY <1>33, <2>1
    DEF D!Register, D!InCommand, D!Typed, D!Goto, D!At, D!Ask, D!Answered, D!AskStates,
        D!WorkStates, D!EndStates
  <2>3. /\ UNCHANGED <<nest, occasions>> /\ \A v \in Workers \ {w} : Keeps(v)
    BY <1>33, WorkerKeeps DEF D!Worker, D!Update, D!Request
  <2>4. D!CommandsInOrder'
    BY <1>33, <2>2, <2>3, CommandsMove DEF D!Register, D!CommandsInOrder, D!InCommand
  <2> QED
    BY <1>33, <2>4 DEF D!Register, D!OneAtATime
<1>34. ASSUME NEW w \in Workers, D!CheckAbandoned(w) PROVE D!OneAtATime' /\ D!CommandsInOrder'
  <2>1. D!InCommand(w)
    BY DEF D!CommandsInOrder
  <2>2. D!InCommand(w)'
    BY <1>34, <2>1
    DEF D!CheckAbandoned, D!InCommand, D!Typed, D!Goto, D!At, D!Ask, D!Answered, D!AskStates,
        D!WorkStates, D!EndStates
  <2>3. /\ UNCHANGED <<nest, occasions>> /\ \A v \in Workers \ {w} : Keeps(v)
    BY <1>34, WorkerKeeps DEF D!Worker, D!Update, D!Request
  <2>4. D!CommandsInOrder'
    BY <1>34, <2>2, <2>3, CommandsMove DEF D!CheckAbandoned, D!CommandsInOrder, D!InCommand
  <2> QED
    BY <1>34, <2>4 DEF D!CheckAbandoned, D!OneAtATime
<1>35. ASSUME NEW w \in Workers, D!PostRequest(w) PROVE D!OneAtATime' /\ D!CommandsInOrder'
  <2>1. D!InCommand(w)
    BY DEF D!CommandsInOrder
  <2>2. D!InCommand(w)'
    BY <1>35, <2>1
    DEF D!PostRequest, D!InCommand, D!Typed, D!Goto, D!At, D!Ask, D!Answered, D!AskStates,
        D!WorkStates, D!EndStates
  <2>3. /\ UNCHANGED <<nest, occasions>> /\ \A v \in Workers \ {w} : Keeps(v)
    BY <1>35, WorkerKeeps DEF D!Worker, D!Update, D!Request
  <2>4. D!CommandsInOrder'
    BY <1>35, <2>2, <2>3, CommandsMove DEF D!PostRequest, D!CommandsInOrder, D!InCommand
  <2> QED
    BY <1>35, <2>4 DEF D!PostRequest, D!OneAtATime
<1>36. ASSUME NEW w \in Workers, D!AnswerInline(w) PROVE D!OneAtATime' /\ D!CommandsInOrder'
  <2>1. D!InCommand(w)
    BY DEF D!CommandsInOrder
  <2>2. D!InCommand(w)'
    BY <1>36, <2>1
    DEF D!AnswerInline, D!InCommand, D!Typed, D!Goto, D!At, D!Ask, D!Answered, D!AskStates,
        D!WorkStates, D!EndStates
  <2>3. /\ UNCHANGED <<nest, occasions>> /\ \A v \in Workers \ {w} : Keeps(v)
    BY <1>36, WorkerKeeps DEF D!Worker, D!Update, D!Request
  <2>4. D!CommandsInOrder'
    BY <1>36, <2>2, <2>3, CommandsMove DEF D!AnswerInline, D!CommandsInOrder, D!InCommand
  <2> QED
    BY <1>36, <2>4 DEF D!AnswerInline, D!OneAtATime
<1>37. ASSUME NEW w \in Workers, D!Woken(w) PROVE D!OneAtATime' /\ D!CommandsInOrder'
  <2>1. D!InCommand(w)
    BY DEF D!CommandsInOrder
  <2>2. D!InCommand(w)'
    BY <1>37, <2>1
    DEF D!Woken, D!InCommand, D!Typed, D!Goto, D!At, D!Ask, D!Answered, D!AskStates, D!WorkStates,
        D!EndStates
  <2>3. /\ UNCHANGED <<nest, occasions>> /\ \A v \in Workers \ {w} : Keeps(v)
    BY <1>37, WorkerKeeps DEF D!Worker, D!Update, D!Request
  <2>4. D!CommandsInOrder'
    BY <1>37, <2>2, <2>3, CommandsMove DEF D!Woken, D!CommandsInOrder, D!InCommand
  <2> QED
    BY <1>37, <2>4 DEF D!Woken, D!OneAtATime
<1>38. ASSUME NEW w \in Workers, D!Finish(w) PROVE D!OneAtATime' /\ D!CommandsInOrder'
  <2>1. D!InCommand(w)
    BY DEF D!CommandsInOrder
  <2>2. D!InCommand(w)'
    BY <1>38, <2>1
    DEF D!Finish, D!Release, D!InCommand, D!Typed, D!Goto, D!At, D!AskStates, D!WorkStates,
        D!EndStates
  <2>3. /\ UNCHANGED <<nest, occasions>> /\ \A v \in Workers \ {w} : Keeps(v)
    BY <1>38, WorkerKeeps DEF D!Worker
  <2>4. \A v \in Workers \ {w} :
        (cmd[v] = "update" => updateBusy') /\ (cmd[v] = "clean" => cleanupBusy')
    BY <1>38 DEF D!Finish, D!Release, D!OneAtATime, D!CommandsInOrder, D!InCommand
  <2>5. D!CommandsInOrder'
    BY <1>38, <2>2, <2>3, <2>4, CommandsMove
  <2> QED
    BY <1>38, <2>5 DEF D!Finish, D!Release, D!OneAtATime, D!Typed
<1>39. CASE UNCHANGED D!vars
  BY <1>39, CommandsQuiet DEF D!vars
<1> QED
  BY <1>1, <1>2, <1>3, <1>4, <1>5, <1>6, <1>7, <1>8, <1>9, <1>10, <1>11, <1>12, <1>13,
     <1>14, <1>15, <1>16, <1>17, <1>18, <1>19, <1>20, <1>21, <1>22, <1>23, <1>24, <1>25,
     <1>26, <1>27, <1>28, <1>29, <1>30, <1>31, <1>32, <1>33, <1>34, <1>35, <1>36, <1>37,
     <1>38, <1>39
  DEF D!Next, D!Command, D!Worker, D!Update, D!Request, D!Exit

-----------------------------------------------------------------------------
(***************************************************************************)
(* The requests.                                                           *)
(***************************************************************************)
\* All a worker posts are messages of its own, and to a window there is.
LEMMA WorkerPosts ==
  ASSUME D!Typed, D!CommandsInOrder, NEW w \in Workers, D!Worker(w)
  PROVE  \/ inbox' = inbox
         \/ /\ window
            /\ \E m \in Messages :
                 /\ inbox' = Append(inbox, m) /\ m[2] = w
                 /\ CASE m[1] = "show" -> D!PostRequest(w)
                      [] m[1] = "begin" -> D!Confirmed(w)
                      [] m[1] = "end" -> D!EndWindow(w)
                      [] OTHER -> TRUE
<1>1. CASE inbox' = inbox
  BY <1>1
<1>2. ASSUME inbox' # inbox, NEW kind \in {"show", "begin", "apply", "end", "close"},
             D!Post(<<kind, w>>),
             CASE kind = "show" -> D!PostRequest(w)
               [] kind = "begin" -> D!Confirmed(w)
               [] kind = "end" -> D!EndWindow(w)
               [] OTHER -> TRUE
      PROVE  /\ window
             /\ \E m \in Messages :
                  /\ inbox' = Append(inbox, m) /\ m[2] = w
                  /\ CASE m[1] = "show" -> D!PostRequest(w)
                       [] m[1] = "begin" -> D!Confirmed(w)
                       [] m[1] = "end" -> D!EndWindow(w)
                       [] OTHER -> TRUE
  <2>1. window /\ inbox' = Append(inbox, <<kind, w>>)
    BY <1>2 DEF D!Post
  <2>2. <<kind, w>> \in Messages
    BY DEF Messages
  <2> QED
    BY <1>2, <2>1, <2>2
<1>3. CASE D!Serve(w)
  BY <1>3 DEF D!Serve, D!dialogs, D!progressWindow
<1>4. CASE D!CleanEnds(w)
  BY <1>4 DEF D!CleanEnds, D!dialogs, D!progressWindow
<1>5. CASE D!Fetch(w)
  BY <1>5 DEF D!Fetch, D!dialogs, D!progressWindow
<1>6. ASSUME inbox' # inbox, D!Confirmed(w) PROVE D!Post(<<"begin", w>>)
  BY <1>6 DEF D!Confirmed
<1>7. CASE D!Opened(w)
  BY <1>7 DEF D!Opened, D!dialogs, D!progressWindow
<1>8. CASE D!Downloaded(w)
  BY <1>8 DEF D!Downloaded, D!dialogs, D!progressWindow
<1>9. ASSUME inbox' # inbox, D!EnterApply(w) PROVE D!Post(<<"apply", w>>)
  BY <1>9 DEF D!EnterApply
<1>10. CASE D!StopServices(w)
  BY <1>10 DEF D!StopServices, D!dialogs, D!progressWindow
<1>11. CASE D!Applied(w)
  BY <1>11 DEF D!Applied, D!dialogs, D!progressWindow
<1>12. ASSUME inbox' # inbox, D!EndWindow(w) PROVE D!Post(<<"end", w>>)
  BY <1>12 DEF D!EndWindow
<1>13. CASE D!WindowEnded(w)
  BY <1>13 DEF D!WindowEnded, D!dialogs, D!progressWindow
<1>14. CASE D!Restart(w)
  BY <1>14 DEF D!Restart, D!dialogs, D!progressWindow
<1>15. ASSUME inbox' # inbox, D!Quit(w) PROVE D!Post(<<"close", w>>)
  BY <1>15 DEF D!Quit
<1>16. CASE D!Show(w)
  BY <1>16 DEF D!Show, D!dialogs, D!progressWindow
<1>17. CASE D!Register(w)
  BY <1>17 DEF D!Register, D!dialogs, D!progressWindow
<1>18. CASE D!CheckAbandoned(w)
  BY <1>18 DEF D!CheckAbandoned, D!dialogs, D!progressWindow
<1>19. ASSUME inbox' # inbox, D!PostRequest(w) PROVE D!Post(<<"show", w>>)
  BY <1>19 DEF D!PostRequest
<1>20. CASE D!AnswerInline(w)
  BY <1>20 DEF D!AnswerInline, D!dialogs, D!progressWindow
<1>21. CASE D!Woken(w)
  BY <1>21 DEF D!Woken, D!dialogs, D!progressWindow
<1>22. CASE D!Finish(w)
  BY <1>22 DEF D!Finish, D!dialogs, D!progressWindow
<1> QED
  BY <1>1, <1>2, <1>3, <1>4, <1>5, <1>6, <1>7, <1>8, <1>9, <1>10, <1>11, <1>12, <1>13,
     <1>14, <1>15, <1>16, <1>17, <1>18, <1>19, <1>20, <1>21, <1>22 DEF D!Worker, D!Update, D!Request

\* A worker whose requests nobody touched, or that stays outside of them.
LEMMA RequestQuiet ==
  ASSUME NEW v \in Workers, D!RequestInOrder(v), request'[v] = request[v],
         v \in pending' <=> v \in pending, v \in abandoning' <=> v \in abandoning,
         mpc' \in D!Closing <=> mpc \in D!Closing, v \in D!Range(nest') <=> v \in D!Range(nest),
         <<"show", v>> \in D!Range(inbox') => <<"show", v>> \in D!Range(inbox),
         place'[v] = place[v] \/ (place[v] \notin D!Blocked /\ place'[v] \notin D!Blocked)
  PROVE  D!RequestInOrder(v)'
BY DEF D!RequestInOrder, D!Blocked

LEMMA RequestsStep ==
  ASSUME D!DesktopAssumption, D!Typed, D!CommandsInOrder, D!RequestsInOrder, [D!Next]_D!vars
  PROVE  D!RequestsInOrder'
<1>u. D!UIInOrder /\ \A v \in Workers : D!RequestInOrder(v)
  BY DEF D!RequestsInOrder
<1>w. ASSUME NEW w \in Workers, D!Worker(w), D!RequestInOrder(w)' PROVE D!RequestsInOrder'
  <2>1. /\ UNCHANGED <<mpc, window, attached, armed, nest, abandoning, ui, occasions>>
        /\ \A v \in Workers \ {w} : Keeps(v)
    BY <1>w, WorkerKeeps
  <2>2. CASE inbox' = inbox
    <3>1. D!UIInOrder'
      BY <1>u, <2>1, <2>2 DEF D!UIInOrder
    <3>2. \A v \in Workers \ {w} : D!RequestInOrder(v)'
      BY <1>u, <2>1, <2>2, RequestQuiet DEF Keeps
    <3> QED
      BY <1>w, <3>1, <3>2 DEF D!RequestsInOrder
  <2>3. CASE inbox' # inbox
    <3>1. PICK m \in Messages :
            inbox' = Append(inbox, m) /\ window /\ m[2] = w /\ (m[1] = "show" => D!PostRequest(w))
      BY <1>w, <2>3, WorkerPosts
    <3>2. /\ D!Range(inbox') = D!Range(inbox) \cup {m}
          /\ D!Once(inbox, {"show"} \X Workers) /\ (m \in {"show"} \X Workers => m \notin D!Range(inbox))
               => D!Once(inbox', {"show"} \X Workers)
      <4>1. inbox \in Seq(Messages)
        BY DEF D!Typed, Messages
      <4> QED
        BY <3>1, <4>1, Appended
    <3>3. m \in {"show"} \X Workers => m \notin D!Range(inbox)
      <4> SUFFICES ASSUME m \in {"show"} \X Workers, m \in D!Range(inbox) PROVE FALSE
        OBVIOUS
      <4>1. m = <<"show", w>> /\ D!PostRequest(w)
        BY <3>1
      <4>2. place[w] = "post" /\ D!RequestInOrder(w)
        BY <1>u, <4>1 DEF D!PostRequest, D!At
      <4> QED
        BY <4>1, <4>2 DEF D!RequestInOrder
    <3>4. D!UIInOrder'
      <4>1. m \in D!Range(inbox') /\ m[2] \in Workers
        BY <1>w, <3>1, <3>2
      <4> QED
        BY <1>u, <2>1, <3>1, <3>2, <3>3, <4>1 DEF D!UIInOrder
    <3>5. ASSUME NEW v \in Workers \ {w} PROVE D!RequestInOrder(v)'
      <4>1. <<"show", v>> # m
        BY <3>1
      <4> QED
        BY <1>u, <2>1, <3>2, <4>1, RequestQuiet DEF Keeps
    <3> QED
      BY <1>w, <3>4, <3>5 DEF D!RequestsInOrder
  <2> QED
    BY <2>2, <2>3
<1>q. ASSUME UNCHANGED <<request, pending, abandoning, nest, window>>,
             mpc' = mpc \/ (mpc' # "loop" /\ ~window /\ nest = <<>> /\ abandoning = {}),
             mpc' \in D!Closing <=> mpc \in D!Closing, mpc' # "abandon" => abandoning = {},
             inbox' = inbox,
             \A v \in Workers :
                 place'[v] = place[v] \/ (place[v] \notin D!Blocked /\ place'[v] \notin D!Blocked)
      PROVE  D!RequestsInOrder'
  <2>1. D!UIInOrder'
    BY <1>u, <1>q DEF D!UIInOrder
  <2>2. \A v \in Workers : D!RequestInOrder(v)'
    BY <1>u, <1>q, RequestQuiet
  <2> QED
    BY <2>1, <2>2 DEF D!RequestsInOrder
<1> USE DEF D!gates, D!services, D!work, D!tray, D!dialogs, D!progressWindow
<1>1. CASE D!DoStart
  <2>1. \A v \in Workers :
            place'[v] = place[v] \/ (place[v] = "free" /\ place'[v] \in {"services", "fetch"})
    BY <1>1 DEF D!DoStart, D!Spawn, D!Typed
  <2> QED
    BY <1>1, <1>q, <1>u, <2>1 DEF D!DoStart, D!Blocked, D!UIInOrder
<1>2. CASE D!DoStop
  <2>1. \A v \in Workers :
            place'[v] = place[v] \/ (place[v] = "free" /\ place'[v] \in {"services", "fetch"})
    BY <1>2 DEF D!DoStop, D!Spawn, D!Typed
  <2> QED
    BY <1>2, <1>q, <1>u, <2>1 DEF D!DoStop, D!Blocked, D!UIInOrder
<1>3. CASE D!DoCleanCache
  <2>1. \A v \in Workers :
            place'[v] = place[v] \/ (place[v] = "free" /\ place'[v] \in {"services", "fetch"})
    BY <1>3 DEF D!DoCleanCache, D!Spawn, D!Typed
  <2> QED
    BY <1>3, <1>q, <1>u, <2>1 DEF D!DoCleanCache, D!Blocked, D!UIInOrder
<1>4. CASE D!DoCheckUpdate
  <2>1. \A v \in Workers :
            place'[v] = place[v] \/ (place[v] = "free" /\ place'[v] \in {"services", "fetch"})
    BY <1>4 DEF D!DoCheckUpdate, D!Spawn, D!Typed
  <2> QED
    BY <1>4, <1>q, <1>u, <2>1 DEF D!DoCheckUpdate, D!Blocked, D!UIInOrder
<1>5. CASE D!DoUninstall
  <2>1. nest' = Append(nest, D!UI) /\ D!Range(nest') = D!Range(nest) \cup {D!UI}
          /\ D!UI \notin Workers
    BY <1>5, Appended DEF D!DoUninstall, D!Typed, D!DesktopAssumption, D!UI
  <2>2. D!Once(nest, Workers) => D!Once(nest', Workers)
    BY <2>1, Appended DEF D!Typed
  <2>3. D!UIInOrder'
    BY <1>5, <1>u, <2>2 DEF D!DoUninstall, D!UIInOrder, D!Commanded, D!Pumping
  <2>4. \A v \in Workers : D!RequestInOrder(v)'
    BY <1>5, <1>u, <2>1, RequestQuiet DEF D!DoUninstall
  <2> QED
    BY <2>3, <2>4 DEF D!RequestsInOrder
<1>6. CASE D!RequestExit
  <2>1. inbox' = Append(inbox, <<"close", D!UI>>) /\ window
          /\ UNCHANGED <<request, pending, abandoning, nest, mpc, place, window>>
    BY <1>6 DEF D!RequestExit, D!Post, D!Commanded
  <2>2. /\ D!Range(inbox') = D!Range(inbox) \cup {<<"close", D!UI>>}
        /\ D!Once(inbox, {"show"} \X Workers) => D!Once(inbox', {"show"} \X Workers)
    <3>1. <<"close", D!UI>> \in Messages /\ <<"close", D!UI>> \notin {"show"} \X Workers
      BY DEF Messages
    <3>2. inbox \in Seq(Messages)
      BY DEF D!Typed, Messages
    <3> QED
      BY <2>1, <3>1, <3>2, Appended
  <2>3. D!UIInOrder'
    BY <1>u, <2>1, <2>2 DEF D!UIInOrder
  <2>4. \A v \in Workers : D!RequestInOrder(v)'
    BY <1>u, <2>1, <2>2, RequestQuiet
  <2> QED
    BY <2>3, <2>4 DEF D!RequestsInOrder
<1>7. CASE D!CancelClick
  BY <1>7, <1>q, <1>u DEF D!CancelClick, D!Closing, D!UIInOrder, D!Pumping
<1>8. CASE D!Dispatch
  <2> DEFINE m == Head(inbox)
  <2>1. /\ inbox # <<>> /\ m \in Messages /\ D!Range(inbox) = D!Range(Tail(inbox)) \cup {m}
        /\ D!Once(Tail(inbox), {"show"} \X Workers)
        /\ m \in {"show"} \X Workers => m \notin D!Range(Tail(inbox))
    BY <1>8, <1>u, Taken DEF D!Dispatch, D!Typed, Messages, D!UIInOrder
  <2>2. /\ UNCHANGED <<mpc, request, abandoning, place>> /\ mpc = "loop"
        /\ (inbox' = Tail(inbox) /\ window' = window) \/ (inbox' = <<>> /\ window' = FALSE)
    BY <1>8 DEF D!Dispatch, D!DestroyWindow, D!Pumping
  <2>3. /\ D!Range(inbox') \subseteq D!Range(inbox) /\ D!Once(inbox', {"show"} \X Workers)
        /\ m \in {"show"} \X Workers => m \notin D!Range(inbox')
    BY <2>1, <2>2, Emptied
  <2>4. window
    BY <1>u, <2>1 DEF D!UIInOrder
  <2>5. CASE m[1] # "show"
    <3>1. UNCHANGED <<nest, pending>>
      BY <1>8, <2>5 DEF D!Dispatch
    <3>2. D!UIInOrder'
      BY <1>u, <2>2, <2>3, <2>4, <3>1 DEF D!UIInOrder
    <3>3. \A v \in Workers : D!RequestInOrder(v)'
      BY <1>u, <2>2, <2>3, <3>1, RequestQuiet
    <3> QED
      BY <3>2, <3>3 DEF D!RequestsInOrder
  <2>6. CASE m[1] = "show"
    <3>1. PICK who \in Workers : m = <<"show", who>>
      BY <1>u, <2>1, <2>6 DEF D!UIInOrder, Messages
    <3>2. /\ pending' = pending \ {who} /\ nest' = Append(nest, who) /\ inbox' = Tail(inbox)
          /\ UNCHANGED window
      BY <1>8, <3>1 DEF D!Dispatch, D!Deregister
    <3>3. /\ D!RequestInOrder(who) /\ m \in D!Range(inbox)
          /\ who \notin D!Range(nest) /\ who \in pending /\ place[who] = "waiting"
          /\ request[who] = "Queued"
      BY <1>u, <2>1, <3>1 DEF D!RequestInOrder
    <3>4. D!Range(nest') = D!Range(nest) \cup {who} /\ (D!Once(nest, Workers) => D!Once(nest', Workers))
      <4>1. nest \in Seq(Workers \cup {D!UI}) /\ who \in Workers \cup {D!UI}
        BY DEF D!Typed
      <4> QED
        BY <3>2, <3>3, <4>1, Appended
    <3>5. D!UIInOrder'
      BY <1>u, <2>2, <2>3, <2>4, <3>2, <3>4 DEF D!UIInOrder
    <3>6. \A v \in Workers \ {who} : D!RequestInOrder(v)'
      BY <1>u, <2>2, <2>3, <3>2, <3>4, RequestQuiet
    <3>7. D!RequestInOrder(who)'
      <4>1. <<"show", who>> \notin D!Range(inbox') /\ who \notin pending' /\ who \in D!Range(nest')
        BY <2>3, <3>1, <3>2, <3>4
      <4> QED
        BY <2>2, <3>3, <4>1 DEF D!RequestInOrder, D!Blocked, D!Closing
    <3> QED
      BY <3>5, <3>6, <3>7 DEF D!RequestsInOrder
  <2> QED
    BY <2>5, <2>6
<1>9. CASE D!Destroyed
  BY <1>9, <1>q, <1>u DEF D!Destroyed, D!Closing, D!UIInOrder, D!Pumping
<1>10. CASE D!Answer
  <2>1. /\ nest # <<>> /\ nest' = D!Front(nest)
        /\ UNCHANGED <<mpc, window, inbox, pending, abandoning>>
        /\ mpc = "loop"
    BY <1>10 DEF D!Answer, D!Pumping
  <2> DEFINE who == D!Last(nest)
  <2>2. /\ D!Range(nest) = D!Range(nest') \cup {who} /\ who \in Workers \cup {D!UI}
        /\ D!Once(nest', Workers) /\ (who \in Workers => who \notin D!Range(nest'))
    BY <1>u, <2>1, Returned DEF D!Typed, D!UIInOrder
  <2>3. D!UIInOrder'
    BY <1>u, <2>1, <2>2 DEF D!UIInOrder
  <2>4. CASE who = D!UI
    <3>1. D!UI \notin Workers /\ UNCHANGED request
      BY <1>10, <2>4 DEF D!Answer, D!DesktopAssumption, D!UI
    <3>2. \A v \in Workers : place'[v] = place[v] \/ (place[v] = "free" /\ place'[v] = "services")
      BY <1>10, <2>4 DEF D!Answer, D!Spawn, D!Typed
    <3>3. \A v \in Workers : D!RequestInOrder(v)'
      BY <1>u, <2>1, <2>2, <2>4, <3>1, <3>2, RequestQuiet DEF D!Blocked
    <3> QED
      BY <2>3, <3>3 DEF D!RequestsInOrder
  <2>5. CASE who # D!UI
    <3>0. PICK w \in Workers : w = who
      BY <2>2, <2>5
    <3>1. request' = [request EXCEPT ![w] = "Completed"] /\ UNCHANGED place
      BY <1>10, <2>5, <3>0 DEF D!Answer
    <3>2. /\ D!RequestInOrder(w) /\ w \notin pending /\ place[w] = "waiting"
          /\ <<"show", w>> \notin D!Range(inbox)
      BY <1>u, <2>2, <3>0 DEF D!RequestInOrder
    <3>3. D!RequestInOrder(w)'
      <4>1. /\ request'[w] = "Completed" /\ w \notin D!Range(nest') /\ UNCHANGED <<place, pending>>
            /\ <<"show", w>> \notin D!Range(inbox') /\ mpc' = "loop" /\ w \notin pending
        BY <2>1, <2>2, <3>0, <3>1, <3>2 DEF D!Typed
      <4> QED
        BY <3>2, <4>1 DEF D!RequestInOrder, D!Closing
    <3>4. \A v \in Workers \ {w} : D!RequestInOrder(v)'
      BY <1>u, <2>1, <2>2, <3>0, <3>1, RequestQuiet DEF D!Typed
    <3> QED
      <4>1. \A v \in Workers : v = w \/ v \in Workers \ {w}
        OBVIOUS
      <4>2. \A v \in Workers : D!RequestInOrder(v)'
        BY <3>3, <3>4, <4>1
      <4> QED
        BY <2>3, <4>2 DEF D!RequestsInOrder
  <2> QED
    BY <2>4, <2>5
<1>11. CASE D!RequestCancel
  BY <1>11, <1>q, <1>u DEF D!RequestCancel, D!Closing, D!UIInOrder, D!Pumping
<1>12. CASE D!LoopEnds
  BY <1>12, <1>q, <1>u DEF D!LoopEnds, D!Closing, D!UIInOrder, D!Pumping
<1>13. CASE D!StopAtExit
  BY <1>13, <1>q, <1>u DEF D!StopAtExit, D!Closing, D!UIInOrder, D!Pumping
<1>14. CASE D!Detach
  BY <1>14, <1>q, <1>u DEF D!Detach, D!Closing, D!UIInOrder, D!Pumping
<1>15. CASE D!Disarm
  BY <1>15, <1>q, <1>u DEF D!Disarm, D!Closing, D!UIInOrder, D!Pumping
<1>16. CASE D!SwapPending
  <2>1. D!UIInOrder' /\ nest = <<>>
    BY <1>16, <1>u DEF D!SwapPending, D!UIInOrder
  <2>2. ASSUME NEW v \in Workers PROVE D!RequestInOrder(v)'
    <3>1. v \notin D!Range(nest) /\ D!RequestInOrder(v)
      BY <1>u, <2>1, Emptied
    <3>2. inbox = <<>> /\ <<"show", v>> \notin D!Range(inbox)
      BY <1>16, <1>u, Emptied DEF D!SwapPending, D!UIInOrder
    <3> QED
      BY <1>16, <3>1, <3>2 DEF D!SwapPending, D!RequestInOrder, D!Closing
  <2> QED
    BY <2>1, <2>2 DEF D!RequestsInOrder
<1>17. CASE D!Abandon
  <2>1. CASE abandoning = {}
    BY <1>17, <1>q, <1>u, <2>1 DEF D!Abandon, D!Closing, D!UIInOrder
  <2>2. CASE abandoning # {}
    <3>1. PICK w \in abandoning :
            /\ request' = [request EXCEPT ![w] = "Abandoned"]
            /\ abandoning' = abandoning \ {w} /\ UNCHANGED mpc
      BY <1>17, <2>2 DEF D!Abandon
    <3>2. D!UIInOrder'
      BY <1>17, <1>u, <3>1 DEF D!Abandon, D!UIInOrder
    <3>3. w \in Workers /\ inbox = <<>> /\ nest = <<>> /\ UNCHANGED <<inbox, nest, place, pending>>
      BY <1>17, <1>u DEF D!Abandon, D!Typed, D!UIInOrder
    <3>4. D!RequestInOrder(w)'
      BY <1>17, <1>u, <3>1, <3>3, Emptied DEF D!Abandon, D!RequestInOrder, D!Closing, D!Typed
    <3>5. \A v \in Workers \ {w} : D!RequestInOrder(v)'
      BY <1>17, <1>u, <3>1, <3>3, RequestQuiet DEF D!Typed
    <3> QED
      BY <3>2, <3>4, <3>5 DEF D!RequestsInOrder
  <2> QED
    BY <2>1, <2>2
<1>18. CASE D!ProcessEnds
  BY <1>18, <1>q, <1>u DEF D!ProcessEnds, D!Closing, D!UIInOrder, D!Pumping
<1>19. ASSUME NEW w \in Workers, D!Serve(w) PROVE D!RequestsInOrder'
  <2>1. D!RequestInOrder(w)'
    <3>1. place[w] = "services" /\ cmd[w] \in {"start", "stop", "clean", "uninstall"}
      BY <1>19 DEF D!Serve, D!At, D!CommandsInOrder, D!InCommand
    <3>2. place'[w] \in {"release", "ask", "quit", "restart", "cleaned"}
      BY <1>19, <3>1 DEF D!Serve, D!Goto, D!Ask, D!Typed
    <3>3. UNCHANGED <<mpc, inbox, nest, pending, request, abandoning>>
      BY <1>19 DEF D!Serve
    <3> QED
      BY <1>u, <3>1, <3>2, <3>3, RequestQuiet DEF D!Blocked
  <2> QED
    BY <1>19, <1>w, <2>1 DEF D!Worker, D!Update, D!Request
<1>20. ASSUME NEW w \in Workers, D!CleanEnds(w) PROVE D!RequestsInOrder'
  <2>1. D!RequestInOrder(w)'
    BY <1>20, <1>u, RequestQuiet
    DEF D!CleanEnds, D!Blocked, D!Goto, D!At, D!Ask, D!Answered, D!Typed
  <2> QED
    BY <1>20, <1>w, <2>1 DEF D!Worker, D!Update, D!Request
<1>21. ASSUME NEW w \in Workers, D!Fetch(w) PROVE D!RequestsInOrder'
  <2>1. D!RequestInOrder(w)'
    BY <1>21, <1>u, RequestQuiet DEF D!Fetch, D!Blocked, D!Goto, D!At, D!Ask, D!Answered, D!Typed
  <2> QED
    BY <1>21, <1>w, <2>1 DEF D!Worker, D!Update, D!Request
<1>22. ASSUME NEW w \in Workers, D!Confirmed(w) PROVE D!RequestsInOrder'
  <2>1. <<"show", w>> \in D!Range(inbox') => <<"show", w>> \in D!Range(inbox)
    BY <1>22, Posted DEF D!Confirmed, D!Typed, Messages
  <2>2. D!RequestInOrder(w)'
    BY <1>22, <1>u, <2>1, RequestQuiet DEF D!Confirmed, D!Blocked, D!Goto, D!At, D!Typed
  <2> QED
    BY <1>22, <1>w, <2>2 DEF D!Worker, D!Update, D!Request
<1>23. ASSUME NEW w \in Workers, D!Opened(w) PROVE D!RequestsInOrder'
  <2>1. D!RequestInOrder(w)'
    BY <1>23, <1>u, RequestQuiet DEF D!Opened, D!Blocked, D!Goto, D!At, D!Ask, D!Answered, D!Typed
  <2> QED
    BY <1>23, <1>w, <2>1 DEF D!Worker, D!Update, D!Request
<1>24. ASSUME NEW w \in Workers, D!Downloaded(w) PROVE D!RequestsInOrder'
  <2>1. D!RequestInOrder(w)'
    BY <1>24, <1>u, RequestQuiet
    DEF D!Downloaded, D!Blocked, D!Goto, D!At, D!Ask, D!Answered, D!Typed
  <2> QED
    BY <1>24, <1>w, <2>1 DEF D!Worker, D!Update, D!Request
<1>25. ASSUME NEW w \in Workers, D!EnterApply(w) PROVE D!RequestsInOrder'
  <2>1. <<"show", w>> \in D!Range(inbox') => <<"show", w>> \in D!Range(inbox)
    BY <1>25, Posted DEF D!EnterApply, D!Typed, Messages
  <2>2. D!RequestInOrder(w)'
    BY <1>25, <1>u, <2>1, RequestQuiet DEF D!EnterApply, D!Blocked, D!Goto, D!At, D!Typed
  <2> QED
    BY <1>25, <1>w, <2>2 DEF D!Worker, D!Update, D!Request
<1>26. ASSUME NEW w \in Workers, D!StopServices(w) PROVE D!RequestsInOrder'
  <2>1. D!RequestInOrder(w)'
    BY <1>26, <1>u, RequestQuiet
    DEF D!StopServices, D!Blocked, D!Goto, D!At, D!Ask, D!Answered, D!Typed
  <2> QED
    BY <1>26, <1>w, <2>1 DEF D!Worker, D!Update, D!Request
<1>27. ASSUME NEW w \in Workers, D!Applied(w) PROVE D!RequestsInOrder'
  <2>1. D!RequestInOrder(w)'
    BY <1>27, <1>u, RequestQuiet DEF D!Applied, D!Blocked, D!Goto, D!At, D!Ask, D!Answered, D!Typed
  <2> QED
    BY <1>27, <1>w, <2>1 DEF D!Worker, D!Update, D!Request
<1>28. ASSUME NEW w \in Workers, D!EndWindow(w) PROVE D!RequestsInOrder'
  <2>1. <<"show", w>> \in D!Range(inbox') => <<"show", w>> \in D!Range(inbox)
    BY <1>28, Posted DEF D!EndWindow, D!Typed, Messages
  <2>2. D!RequestInOrder(w)'
    BY <1>28, <1>u, <2>1, RequestQuiet DEF D!EndWindow, D!Blocked, D!Goto, D!At, D!Typed
  <2> QED
    BY <1>28, <1>w, <2>2 DEF D!Worker, D!Update, D!Request
<1>29. ASSUME NEW w \in Workers, D!WindowEnded(w) PROVE D!RequestsInOrder'
  <2>1. D!RequestInOrder(w)'
    BY <1>29, <1>u, RequestQuiet
    DEF D!WindowEnded, D!Blocked, D!Goto, D!At, D!Ask, D!Answered, D!Typed
  <2> QED
    BY <1>29, <1>w, <2>1 DEF D!Worker, D!Update, D!Request
<1>30. ASSUME NEW w \in Workers, D!Restart(w) PROVE D!RequestsInOrder'
  <2>1. D!RequestInOrder(w)'
    BY <1>30, <1>u, RequestQuiet DEF D!Restart, D!Blocked, D!Goto, D!At, D!Ask, D!Answered, D!Typed
  <2> QED
    BY <1>30, <1>w, <2>1 DEF D!Worker, D!Update, D!Request
<1>31. ASSUME NEW w \in Workers, D!Quit(w) PROVE D!RequestsInOrder'
  <2>1. <<"show", w>> \in D!Range(inbox') => <<"show", w>> \in D!Range(inbox)
    BY <1>31, Posted DEF D!Quit, D!Typed, Messages
  <2>2. D!RequestInOrder(w)'
    BY <1>31, <1>u, <2>1, RequestQuiet DEF D!Quit, D!Blocked, D!Goto, D!At, D!Typed
  <2> QED
    BY <1>31, <1>w, <2>2 DEF D!Worker, D!Update, D!Request
<1>32. ASSUME NEW w \in Workers, D!Show(w) PROVE D!RequestsInOrder'
  <2>1. D!RequestInOrder(w)'
    BY <1>32, <1>u, RequestQuiet DEF D!Show, D!Blocked, D!Goto, D!At, D!Ask, D!Answered, D!Typed
  <2> QED
    BY <1>32, <1>w, <2>1 DEF D!Worker, D!Update, D!Request
<1>33. ASSUME NEW w \in Workers, D!Register(w) PROVE D!RequestsInOrder'
  <2>1. D!RequestInOrder(w)
    BY <1>u
  <2>2. D!RequestInOrder(w)'
    BY <1>33, <2>1
    DEF D!Register, D!RequestInOrder, D!Blocked, D!Goto, D!At, D!Ask, D!Answered, D!Deregister,
        D!Typed
  <2> QED
    BY <1>33, <1>w, <2>2 DEF D!Worker, D!Update, D!Request
<1>34. ASSUME NEW w \in Workers, D!CheckAbandoned(w) PROVE D!RequestsInOrder'
  <2>1. D!RequestInOrder(w)
    BY <1>u
  <2>2. D!RequestInOrder(w)'
    BY <1>34, <2>1
    DEF D!CheckAbandoned, D!RequestInOrder, D!Blocked, D!Goto, D!At, D!Ask, D!Answered,
        D!Deregister, D!Typed
  <2> QED
    BY <1>34, <1>w, <2>2 DEF D!Worker, D!Update, D!Request
<1>35. ASSUME NEW w \in Workers, D!PostRequest(w) PROVE D!RequestsInOrder'
  <2>1. D!RequestInOrder(w) /\ D!UIInOrder
    BY <1>u
  <2>2. D!RequestInOrder(w)'
    BY <1>35, <2>1
    DEF D!PostRequest, D!RequestInOrder, D!UIInOrder, D!Blocked, D!Goto, D!At, D!Deregister,
        D!Typed, D!Closing
  <2> QED
    BY <1>35, <1>w, <2>2 DEF D!Worker, D!Request
<1>36. ASSUME NEW w \in Workers, D!AnswerInline(w) PROVE D!RequestsInOrder'
  <2>1. D!RequestInOrder(w)'
    BY <1>36, <1>u, RequestQuiet
    DEF D!AnswerInline, D!Blocked, D!Goto, D!At, D!Ask, D!Answered, D!Typed
  <2> QED
    BY <1>36, <1>w, <2>1 DEF D!Worker, D!Update, D!Request
<1>37. ASSUME NEW w \in Workers, D!Woken(w) PROVE D!RequestsInOrder'
  <2>1. D!RequestInOrder(w)
    BY <1>u
  <2>2. D!RequestInOrder(w)'
    BY <1>37, <2>1
    DEF D!Woken, D!RequestInOrder, D!Blocked, D!Goto, D!At, D!Ask, D!Answered, D!Deregister, D!Typed
  <2> QED
    BY <1>37, <1>w, <2>2 DEF D!Worker, D!Update, D!Request
<1>38. ASSUME NEW w \in Workers, D!Finish(w) PROVE D!RequestsInOrder'
  <2>1. D!RequestInOrder(w)'
    BY <1>38, <1>u, RequestQuiet DEF D!Finish, D!Release, D!Blocked, D!Goto, D!At, D!Typed
  <2> QED
    BY <1>38, <1>w, <2>1 DEF D!Worker, D!Update, D!Request
<1>39. CASE UNCHANGED D!vars
  BY <1>39, <1>q, <1>u DEF D!vars, D!UIInOrder
<1> QED
  BY <1>1, <1>2, <1>3, <1>4, <1>5, <1>6, <1>7, <1>8, <1>9, <1>10, <1>11, <1>12, <1>13,
     <1>14, <1>15, <1>16, <1>17, <1>18, <1>19, <1>20, <1>21, <1>22, <1>23, <1>24, <1>25,
     <1>26, <1>27, <1>28, <1>29, <1>30, <1>31, <1>32, <1>33, <1>34, <1>35, <1>36, <1>37,
     <1>38, <1>39
  DEF D!Next, D!Command, D!Worker, D!Update, D!Request, D!Exit

-----------------------------------------------------------------------------
(***************************************************************************)
(* The progress window.                                                    *)
(***************************************************************************)
\* The window stays as it is, and so does where its owner is in its update.
LEMMA WindowQuiet ==
  ASSUME D!DesktopAssumption, D!Typed, D!WindowHasOwner, owner # D!Nobody => D!OwnerInOrder(owner),
         \A v \in Workers : D!WindowOf(v), UNCHANGED <<pw, ui, owner>>,
         D!Once(inbox', {"begin", "end"} \X Workers),
         \A v \in Workers : /\ <<"begin", v>> \in D!Range(inbox') <=> <<"begin", v>> \in D!Range(inbox)
                            /\ <<"end", v>> \in D!Range(inbox') <=> <<"end", v>> \in D!Range(inbox),
         \A v \in Workers :
           \/ place'[v] = place[v] /\ cmd'[v] = cmd[v] /\ told'[v] = told[v]
           \/ /\ place'[v] # "opening"
              /\ v = owner =>
                   /\ cmd'[v] = cmd[v] /\ place[v] \notin {"opening", "closing"}
                   /\ place'[v] \in D!WorkStates \cup {"end"}
                        \/ (place'[v] \in D!AskStates /\ told'[v] = "Failed")
  PROVE  D!WindowInOrder'
<1>1. D!WindowHasOwner'
  BY DEF D!WindowHasOwner, D!OwnerInOrder, D!Typed
<1>2. owner # D!Nobody => D!OwnerInOrder(owner)'
  BY DEF D!OwnerInOrder, D!ShowsFailure, D!Typed, D!WorkStates, D!AskStates
<1>3. ASSUME NEW v \in Workers PROVE D!WindowOf(v)'
  <2>1. D!WindowOf(v) /\ (v = owner => D!OwnerInOrder(v)) /\ v # D!Nobody
    BY <1>3 DEF D!DesktopAssumption, D!Nobody
  <2> QED
    BY <2>1 DEF D!WindowOf
<1> QED
  BY <1>1, <1>2, <1>3 DEF D!WindowInOrder

LEMMA WindowStep ==
  ASSUME D!DesktopAssumption, D!Typed, D!OneAtATime, D!CommandsInOrder, D!RequestsInOrder,
         D!WindowInOrder,
         [D!Next]_D!vars
  PROVE  D!WindowInOrder'
<1> SUFFICES ASSUME "slow" \notin occasions, window, window',
                    UNCHANGED occasions
             PROVE  D!WindowInOrder'
  <2>1. UNCHANGED occasions
    <3>1. ASSUME NEW w \in Workers, D!Worker(w) PROVE UNCHANGED occasions
      BY <3>1, WorkerKeeps
    <3> QED
      BY <3>1
      DEF D!Next, D!Command, D!Exit, D!vars, D!DoStart, D!DoStop, D!DoCleanCache, D!DoCheckUpdate,
          D!DoUninstall,
         D!RequestExit, D!CancelClick, D!Dispatch, D!Destroyed, D!Answer, D!RequestCancel,
         D!LoopEnds, D!StopAtExit,
         D!Detach, D!Disarm, D!SwapPending, D!Abandon, D!ProcessEnds
  <2>2. window' => window
    <3>1. ASSUME NEW w \in Workers, D!Worker(w) PROVE UNCHANGED window
      BY <3>1, WorkerKeeps
    <3> QED
      BY <3>1
      DEF D!Next, D!Command, D!Exit, D!vars, D!DoStart, D!DoStop, D!DoCleanCache, D!DoCheckUpdate,
          D!DoUninstall,
         D!RequestExit, D!CancelClick, D!Dispatch, D!DestroyWindow, D!Destroyed, D!Answer,
         D!RequestCancel, D!LoopEnds,
         D!StopAtExit, D!Detach, D!Disarm, D!SwapPending, D!Abandon, D!ProcessEnds, D!tray
  <2> QED
    BY <2>1, <2>2 DEF D!WindowInOrder
<1>a. /\ D!WindowHasOwner /\ (owner # D!Nobody => D!OwnerInOrder(owner))
      /\ \A v \in Workers : D!WindowOf(v)
      /\ mpc = "loop" /\ D!UIInOrder
      /\ \A v \in Workers : v # D!Nobody /\ D!InCommand(v)
  BY DEF D!WindowInOrder, D!RequestsInOrder, D!UIInOrder, D!CommandsInOrder, D!DesktopAssumption,
     D!Nobody
<1>o. D!Once(inbox, {"begin", "end"} \X Workers)
  BY <1>a DEF D!WindowHasOwner
<1>i. inbox \in Seq(Messages)
  BY DEF D!Typed, Messages
<1>q. ASSUME UNCHANGED <<pw, ui, owner, inbox>>,
             \A v \in Workers :
               \/ place'[v] = place[v] /\ cmd'[v] = cmd[v] /\ told'[v] = told[v]
               \/ /\ place'[v] # "opening"
                  /\ v = owner =>
                       /\ cmd'[v] = cmd[v] /\ place[v] \notin {"opening", "closing"}
                       /\ place'[v] \in D!WorkStates \cup {"end"}
                            \/ (place'[v] \in D!AskStates /\ told'[v] = "Failed")
      PROVE  D!WindowInOrder'
  BY <1>a, <1>o, <1>q, WindowQuiet
\* A message of another kind is no matter to the window.
<1>m. ASSUME NEW m \in Messages, m[1] \notin {"begin", "end"}, D!Post(m),
             UNCHANGED <<pw, ui, owner>>,
             \A v \in Workers :
               \/ place'[v] = place[v] /\ cmd'[v] = cmd[v] /\ told'[v] = told[v]
               \/ /\ place'[v] # "opening"
                  /\ v = owner =>
                       /\ cmd'[v] = cmd[v] /\ place[v] \notin {"opening", "closing"}
                       /\ place'[v] \in D!WorkStates \cup {"end"}
                            \/ (place'[v] \in D!AskStates /\ told'[v] = "Failed")
      PROVE  D!WindowInOrder'
  <2>1. D!Range(inbox') = D!Range(inbox) \cup {m}
    BY <1>i, <1>m, Posted
  <2>2. m \notin {"begin", "end"} \X Workers
    BY <1>m
  <2>3. D!Once(inbox', {"begin", "end"} \X Workers)
    BY <1>i, <1>m, <1>o, <2>2, Posted
  <2>4. \A v \in Workers : <<"begin", v>> # m /\ <<"end", v>> # m
    BY <1>m
  <2>5. \A v \in Workers : /\ <<"begin", v>> \in D!Range(inbox') <=> <<"begin", v>> \in D!Range(inbox)
                           /\ <<"end", v>> \in D!Range(inbox') <=> <<"end", v>> \in D!Range(inbox)
    BY <2>1, <2>4
  <2> QED
    BY <1>a, <1>m, <2>3, <2>5, WindowQuiet
\* What the worker at w is to the window.
<1>w. ASSUME NEW w \in Workers, D!Worker(w) PROVE \A v \in Workers \ {w} : Keeps(v)
  BY <1>w, WorkerKeeps
<1>s. \A v \in Workers : v = owner => D!OwnerInOrder(v)
  BY <1>a
<1> USE DEF D!gates, D!services, D!work, D!tray, D!dialogs, D!progressWindow
<1>1. CASE D!DoStart
  <2>1. \A v \in Workers : \/ place'[v] = place[v] /\ cmd'[v] = cmd[v] /\ told'[v] = told[v]
                           \/ place[v] = "free" /\ place'[v] \in {"services", "fetch"}
    BY <1>1 DEF D!DoStart, D!Spawn, D!Typed
  <2>2. \A v \in Workers : v = owner => place[v] # "free"
    BY <1>s DEF D!OwnerInOrder, D!ShowsFailure, D!AskStates, D!WorkStates
  <2> QED
    BY <1>1, <1>q, <2>1, <2>2 DEF D!DoStart
<1>2. CASE D!DoStop
  <2>1. \A v \in Workers : \/ place'[v] = place[v] /\ cmd'[v] = cmd[v] /\ told'[v] = told[v]
                           \/ place[v] = "free" /\ place'[v] \in {"services", "fetch"}
    BY <1>2 DEF D!DoStop, D!Spawn, D!Typed
  <2>2. \A v \in Workers : v = owner => place[v] # "free"
    BY <1>s DEF D!OwnerInOrder, D!ShowsFailure, D!AskStates, D!WorkStates
  <2> QED
    BY <1>2, <1>q, <2>1, <2>2 DEF D!DoStop
<1>3. CASE D!DoCleanCache
  <2>1. \A v \in Workers : \/ place'[v] = place[v] /\ cmd'[v] = cmd[v] /\ told'[v] = told[v]
                           \/ place[v] = "free" /\ place'[v] \in {"services", "fetch"}
    BY <1>3 DEF D!DoCleanCache, D!Spawn, D!Typed
  <2>2. \A v \in Workers : v = owner => place[v] # "free"
    BY <1>s DEF D!OwnerInOrder, D!ShowsFailure, D!AskStates, D!WorkStates
  <2> QED
    BY <1>3, <1>q, <2>1, <2>2 DEF D!DoCleanCache
<1>4. CASE D!DoCheckUpdate
  <2>1. \A v \in Workers : \/ place'[v] = place[v] /\ cmd'[v] = cmd[v] /\ told'[v] = told[v]
                           \/ place[v] = "free" /\ place'[v] \in {"services", "fetch"}
    BY <1>4 DEF D!DoCheckUpdate, D!Spawn, D!Typed
  <2>2. \A v \in Workers : v = owner => place[v] # "free"
    BY <1>s DEF D!OwnerInOrder, D!ShowsFailure, D!AskStates, D!WorkStates
  <2> QED
    BY <1>4, <1>q, <2>1, <2>2 DEF D!DoCheckUpdate
<1>5. CASE D!DoUninstall
  BY <1>5, <1>q DEF D!DoUninstall
<1>6. CASE D!RequestExit
  <2>1. <<"close", D!UI>> \in Messages
    BY DEF Messages
  <2> QED
    BY <1>6, <1>m, <2>1 DEF D!RequestExit
<1>7. CASE D!CancelClick
  <2>1. UNCHANGED <<place, cmd, told, owner, inbox>>
    BY <1>7 DEF D!CancelClick
  <2>2. D!WindowHasOwner'
    BY <1>7, <1>a, <2>1 DEF D!CancelClick, D!Pumping, D!WindowHasOwner
  <2>3. owner # D!Nobody => D!OwnerInOrder(owner)'
    BY <1>7, <1>a, <2>1 DEF D!CancelClick, D!OwnerInOrder, D!ShowsFailure, D!WindowHasOwner
  <2>4. \A v \in Workers : D!WindowOf(v)'
    BY <1>7, <1>a, <2>1 DEF D!CancelClick, D!WindowOf, D!WindowHasOwner
  <2> QED
    BY <2>1, <2>2, <2>3, <2>4 DEF D!WindowInOrder
<1>8. CASE D!Dispatch
  <2> DEFINE m == Head(inbox)
  <2>1. /\ inbox # <<>> /\ m \in Messages /\ D!Range(inbox) = D!Range(Tail(inbox)) \cup {m}
        /\ D!Once(Tail(inbox), {"begin", "end"} \X Workers) /\ Tail(inbox) \in Seq(Messages)
        /\ m \in {"begin", "end"} \X Workers => m \notin D!Range(Tail(inbox))
    BY <1>8, <1>i, <1>o, Taken DEF D!Dispatch
  <2>2. /\ UNCHANGED <<place, cmd, told, owner>> /\ inbox' = Tail(inbox) /\ ui = "pump"
        /\ m[1] \in {"show", "begin", "apply", "end"}
    BY <1>8 DEF D!Dispatch, D!DestroyWindow, D!Pumping
  <2>3. PICK who \in Workers : m = <<m[1], who>>
    BY <1>a, <2>1, <2>2 DEF D!UIInOrder, Messages
  <2>4. CASE m[1] \in {"show", "apply"}
    <3>1. UNCHANGED <<pw, ui, owner>>
      BY <1>8, <2>4 DEF D!Dispatch
    <3>2. \A v \in Workers : <<"begin", v>> # m /\ <<"end", v>> # m
      BY <2>4
    <3>3. \A v \in Workers : /\ <<"begin", v>> \in D!Range(inbox') <=> <<"begin", v>> \in D!Range(inbox)
                             /\ <<"end", v>> \in D!Range(inbox') <=> <<"end", v>> \in D!Range(inbox)
      BY <2>1, <2>2, <3>2
    <3>4. D!Once(inbox', {"begin", "end"} \X Workers)
      BY <2>1, <2>2
    <3> QED
      BY <1>a, <2>2, <3>1, <3>3, <3>4, WindowQuiet
  <2>5. CASE m[1] = "begin"
    <3>1. m = <<"begin", who>> /\ m \in D!Range(inbox) /\ m \notin D!Range(inbox')
      BY <2>1, <2>2, <2>3, <2>5
    <3>2. place[who] = "opening" /\ owner = who /\ pw = "none" /\ D!OwnerInOrder(who)
            /\ who # D!Nobody
      BY <1>a, <3>1 DEF D!WindowOf
    <3>3. pw' \in {"open", "closed"} /\ ui' = "pump"
      BY <1>8, <2>2, <2>5 DEF D!Dispatch
    <3>4. D!WindowHasOwner'
      BY <2>1, <2>2, <3>2, <3>3 DEF D!WindowHasOwner
    <3>5. D!OwnerInOrder(who)'
      BY <2>2, <3>2, <3>3 DEF D!OwnerInOrder, D!ShowsFailure
    <3>6. ASSUME NEW v \in Workers PROVE D!WindowOf(v)'
      <4>1. D!WindowOf(v) /\ D!Range(inbox') \subseteq D!Range(inbox)
        BY <1>a, <2>1, <2>2
      <4> QED
        BY <2>2, <3>1, <3>2, <3>3, <4>1 DEF D!WindowOf
    <3> QED
      BY <2>2, <3>2, <3>4, <3>5, <3>6 DEF D!WindowInOrder
  <2>6. CASE m[1] = "end"
    <3>1. m = <<"end", who>> /\ m \in D!Range(inbox) /\ m \notin D!Range(inbox')
      BY <2>1, <2>2, <2>3, <2>6
    <3>2. place[who] = "closing" /\ owner = who /\ pw = "open" /\ D!OwnerInOrder(who)
            /\ who # D!Nobody
      BY <1>a, <3>1 DEF D!WindowOf
    <3>3. pw' = "closing" /\ ui' = "destroy"
      BY <1>8, <2>6 DEF D!Dispatch
    <3>4. D!WindowHasOwner'
      BY <2>1, <2>2, <3>1, <3>2, <3>3 DEF D!WindowHasOwner
    <3>5. D!OwnerInOrder(who)'
      BY <2>2, <3>2, <3>3 DEF D!OwnerInOrder, D!ShowsFailure
    <3>6. ASSUME NEW v \in Workers PROVE D!WindowOf(v)'
      <4>1. D!WindowOf(v) /\ D!Range(inbox') \subseteq D!Range(inbox)
        BY <1>a, <2>1, <2>2
      <4> QED
        BY <2>2, <3>1, <3>2, <3>3, <4>1 DEF D!WindowOf
    <3> QED
      BY <2>2, <3>2, <3>4, <3>5, <3>6 DEF D!WindowInOrder
  <2> QED
    BY <2>2, <2>4, <2>5, <2>6
<1>9. CASE D!Destroyed
  <2>1. UNCHANGED <<place, cmd, told, owner, inbox>>
    BY <1>9 DEF D!Destroyed
  <2>2. D!WindowHasOwner'
    BY <1>9, <1>a, <2>1 DEF D!Destroyed, D!Pumping, D!WindowHasOwner
  <2>3. owner # D!Nobody => D!OwnerInOrder(owner)'
    BY <1>9, <1>a, <2>1 DEF D!Destroyed, D!OwnerInOrder, D!ShowsFailure, D!WindowHasOwner
  <2>4. \A v \in Workers : D!WindowOf(v)'
    BY <1>9, <1>a, <2>1 DEF D!Destroyed, D!WindowOf, D!WindowHasOwner
  <2> QED
    BY <2>1, <2>2, <2>3, <2>4 DEF D!WindowInOrder
<1>10. CASE D!Answer
  <2>1. \A v \in Workers : \/ place'[v] = place[v] /\ cmd'[v] = cmd[v] /\ told'[v] = told[v]
                           \/ place[v] = "free" /\ place'[v] \in {"services", "fetch"}
    BY <1>10 DEF D!Answer, D!Spawn, D!Typed
  <2>2. \A v \in Workers : v = owner => place[v] # "free"
    BY <1>s DEF D!OwnerInOrder, D!ShowsFailure, D!AskStates, D!WorkStates
  <2> QED
    BY <1>10, <1>q, <2>1, <2>2 DEF D!Answer
<1>11. CASE D!RequestCancel
  <2>1. UNCHANGED <<place, cmd, told, owner, inbox>>
    BY <1>11 DEF D!RequestCancel
  <2>2. D!WindowHasOwner'
    BY <1>11, <1>a, <2>1 DEF D!RequestCancel, D!Pumping, D!WindowHasOwner
  <2>3. owner # D!Nobody => D!OwnerInOrder(owner)'
    BY <1>11, <1>a, <2>1 DEF D!RequestCancel, D!OwnerInOrder, D!ShowsFailure, D!WindowHasOwner
  <2>4. \A v \in Workers : D!WindowOf(v)'
    BY <1>11, <1>a, <2>1 DEF D!RequestCancel, D!WindowOf, D!WindowHasOwner
  <2> QED
    BY <2>1, <2>2, <2>3, <2>4 DEF D!WindowInOrder
<1>12. CASE D!LoopEnds
  BY <1>12, <1>a DEF D!LoopEnds
<1>13. CASE D!StopAtExit
  BY <1>13, <1>a DEF D!StopAtExit
<1>14. CASE D!Detach
  BY <1>14, <1>a DEF D!Detach
<1>15. CASE D!Disarm
  BY <1>15, <1>a DEF D!Disarm
<1>16. CASE D!SwapPending
  BY <1>16, <1>a DEF D!SwapPending
<1>17. CASE D!Abandon
  BY <1>17, <1>a DEF D!Abandon
<1>18. CASE D!ProcessEnds
  BY <1>18, <1>a DEF D!ProcessEnds
<1>19. ASSUME NEW w \in Workers, D!Serve(w) PROVE D!WindowInOrder'
  <2>1. D!InCommand(w) /\ (w = owner => D!OwnerInOrder(w)) /\ \A v \in Workers \ {w} : Keeps(v)
    BY <1>19, <1>a, <1>s, <1>w DEF D!Worker, D!Update, D!Request
  <2>2. /\ place'[w] # "opening"
        /\ w = owner =>
             /\ cmd'[w] = cmd[w] /\ place[w] \notin {"opening", "closing"}
             /\ place'[w] \in D!WorkStates \cup {"end"}
                  \/ (place'[w] \in D!AskStates /\ told'[w] = "Failed")
    BY <1>19, <2>1
    DEF D!Serve, D!InCommand, D!OwnerInOrder, D!ShowsFailure, D!AskStates, D!WorkStates,
        D!EndStates, D!Goto, D!At, D!Ask, D!Answered, D!Typed
  <2> QED
    BY <1>19, <1>q, <2>1, <2>2 DEF D!Serve, Keeps
<1>20. ASSUME NEW w \in Workers, D!CleanEnds(w) PROVE D!WindowInOrder'
  <2>1. D!InCommand(w) /\ (w = owner => D!OwnerInOrder(w)) /\ \A v \in Workers \ {w} : Keeps(v)
    BY <1>20, <1>a, <1>s, <1>w DEF D!Worker, D!Update, D!Request
  <2>2. /\ place'[w] # "opening"
        /\ w = owner =>
             /\ cmd'[w] = cmd[w] /\ place[w] \notin {"opening", "closing"}
             /\ place'[w] \in D!WorkStates \cup {"end"}
                  \/ (place'[w] \in D!AskStates /\ told'[w] = "Failed")
    BY <1>20, <2>1
    DEF D!CleanEnds, D!InCommand, D!OwnerInOrder, D!ShowsFailure, D!AskStates, D!WorkStates,
        D!EndStates, D!Goto, D!At, D!Ask, D!Answered, D!Typed
  <2> QED
    BY <1>20, <1>q, <2>1, <2>2 DEF D!CleanEnds, Keeps
<1>21. ASSUME NEW w \in Workers, D!Fetch(w) PROVE D!WindowInOrder'
  <2>1. D!InCommand(w) /\ (w = owner => D!OwnerInOrder(w)) /\ \A v \in Workers \ {w} : Keeps(v)
    BY <1>21, <1>a, <1>s, <1>w DEF D!Worker, D!Update, D!Request
  <2>2. /\ place'[w] # "opening"
        /\ w = owner =>
             /\ cmd'[w] = cmd[w] /\ place[w] \notin {"opening", "closing"}
             /\ place'[w] \in D!WorkStates \cup {"end"}
                  \/ (place'[w] \in D!AskStates /\ told'[w] = "Failed")
    BY <1>21, <2>1
    DEF D!Fetch, D!InCommand, D!OwnerInOrder, D!ShowsFailure, D!AskStates, D!WorkStates,
        D!EndStates, D!Goto, D!At, D!Ask, D!Answered, D!Typed
  <2> QED
    BY <1>21, <1>q, <2>1, <2>2 DEF D!Fetch, Keeps
<1>22. ASSUME NEW w \in Workers, D!Confirmed(w) PROVE D!WindowInOrder'
  <2>1. D!InCommand(w) /\ (w = owner => D!OwnerInOrder(w)) /\ \A v \in Workers \ {w} : Keeps(v)
    BY <1>22, <1>a, <1>s, <1>w DEF D!Worker, D!Update
  <2>2. place[w] = "begin" /\ cmd[w] = "update" /\ owner # w
    BY <1>22, <2>1
    DEF D!Confirmed, D!At, D!InCommand, D!OwnerInOrder, D!ShowsFailure, D!AskStates, D!WorkStates
  <2>3. owner = D!Nobody /\ pw \notin {"open", "closing"} /\ ui = "pump"
    BY <1>a, <2>2 DEF D!OwnerInOrder, D!OneAtATime, D!WindowHasOwner, D!Typed
  <2>4. CASE ~attached
    <3>1. place'[w] # "opening"
      BY <1>22, <2>4 DEF D!Confirmed, D!Goto, D!Typed
    <3>2. \A v \in Workers \ {w} : place'[v] = place[v] /\ cmd'[v] = cmd[v] /\ told'[v] = told[v]
      BY <2>1 DEF Keeps
    <3> QED
      BY <1>22, <1>q, <2>2, <2>4, <3>1, <3>2 DEF D!Confirmed
  <2>5. CASE attached
    <3>1. /\ owner' = w /\ D!Post(<<"begin", w>>) /\ place'[w] = "opening" /\ pw' = "none"
          /\ ui' = "pump"
          /\ UNCHANGED <<cmd, told>>
      BY <1>22, <2>3, <2>5 DEF D!Confirmed, D!Goto, D!Typed
    <3>2. <<"begin", w>> \in Messages /\ <<"begin", w>> \notin D!Range(inbox)
      BY <1>a, <2>2 DEF Messages, D!WindowOf
    <3>3. D!Range(inbox') = D!Range(inbox) \cup {<<"begin", w>>} /\ D!Once(inbox', {"begin", "end"} \X Workers)
      BY <1>i, <1>o, <3>1, <3>2, Posted
    <3>4. \A v \in Workers :
              <<"begin", v>> \notin D!Range(inbox) /\ <<"end", v>> \notin D!Range(inbox) /\ place[v] # "opening"
      BY <1>a, <2>3 DEF D!WindowOf
    <3>5. D!WindowHasOwner'
      BY <1>a, <3>1, <3>3 DEF D!WindowHasOwner
    <3>6. D!OwnerInOrder(w)'
      BY <2>2, <3>1 DEF D!OwnerInOrder, D!WorkStates
    <3>7. ASSUME NEW v \in Workers PROVE D!WindowOf(v)'
      <4>1. v = w \/ place'[v] = place[v]
        BY <2>1 DEF Keeps
      <4> QED
        BY <3>1, <3>3, <3>4, <4>1 DEF D!WindowOf
    <3> QED
      BY <3>1, <3>5, <3>6, <3>7 DEF D!WindowInOrder
  <2> QED
    BY <2>4, <2>5
<1>23. ASSUME NEW w \in Workers, D!Opened(w) PROVE D!WindowInOrder'
  <2>1. (w = owner => D!OwnerInOrder(w)) /\ \A v \in Workers \ {w} : Keeps(v)
    BY <1>23, <1>s, <1>w DEF D!Worker, D!Update
  <2>2. /\ place[w] = "opening" /\ owner = w /\ pw \in {"open", "closed"} /\ ui # "destroy" /\ (ui = "cancel" => pw = "open")
        /\ D!WindowOf(w)
    BY <1>23, <1>a DEF D!Opened, D!At, D!WindowOf, D!WindowHasOwner, D!Typed
  <2>3. place'[w] = "download" /\ UNCHANGED <<pw, ui, inbox, cmd, told>>
    BY <1>23 DEF D!Opened, D!Goto, D!Typed
  <2>4. owner' = IF pw = "open" THEN w ELSE D!Nobody
    BY <1>23, <2>2 DEF D!Opened
  <2>5. D!WindowHasOwner'
    BY <1>a, <2>2, <2>3, <2>4 DEF D!WindowHasOwner
  <2>6. owner' # D!Nobody => owner' = w /\ D!OwnerInOrder(w)'
    BY <2>1, <2>2, <2>3, <2>4 DEF D!OwnerInOrder, D!WorkStates
  <2>7. ASSUME NEW v \in Workers PROVE D!WindowOf(v)'
    <3>1. v = w \/ place'[v] = place[v]
      BY <2>1 DEF Keeps
    <3> QED
      BY <1>a, <2>2, <2>3, <3>1 DEF D!WindowOf
  <2> QED
    BY <2>5, <2>6, <2>7 DEF D!WindowInOrder
<1>24. ASSUME NEW w \in Workers, D!Downloaded(w) PROVE D!WindowInOrder'
  <2>1. D!InCommand(w) /\ (w = owner => D!OwnerInOrder(w)) /\ \A v \in Workers \ {w} : Keeps(v)
    BY <1>24, <1>a, <1>s, <1>w DEF D!Worker, D!Update, D!Request
  <2>2. /\ place'[w] # "opening"
        /\ w = owner =>
             /\ cmd'[w] = cmd[w] /\ place[w] \notin {"opening", "closing"}
             /\ place'[w] \in D!WorkStates \cup {"end"}
                  \/ (place'[w] \in D!AskStates /\ told'[w] = "Failed")
    BY <1>24, <2>1
    DEF D!Downloaded, D!InCommand, D!OwnerInOrder, D!ShowsFailure, D!AskStates, D!WorkStates,
        D!EndStates, D!Goto, D!At, D!Ask, D!Answered, D!Typed
  <2> QED
    BY <1>24, <1>q, <2>1, <2>2 DEF D!Downloaded, Keeps
<1>25. ASSUME NEW w \in Workers, D!EnterApply(w) PROVE D!WindowInOrder'
  <2>1. D!InCommand(w) /\ (w = owner => D!OwnerInOrder(w)) /\ \A v \in Workers \ {w} : Keeps(v)
    BY <1>25, <1>a, <1>s, <1>w DEF D!Worker, D!Update, D!Request
  <2>2. /\ place'[w] # "opening"
        /\ w = owner =>
             /\ cmd'[w] = cmd[w] /\ place[w] \notin {"opening", "closing"}
             /\ place'[w] \in D!WorkStates \cup {"end"}
                  \/ (place'[w] \in D!AskStates /\ told'[w] = "Failed")
    BY <1>25, <2>1
    DEF D!EnterApply, D!InCommand, D!OwnerInOrder, D!ShowsFailure, D!AskStates, D!WorkStates,
        D!EndStates, D!Goto, D!At, D!Ask, D!Answered, D!Typed
  <2>3. CASE inbox' = inbox
    BY <1>25, <1>q, <2>1, <2>2, <2>3 DEF D!EnterApply, Keeps
  <2>4. CASE inbox' # inbox
    <3>1. D!Post(<<"apply", w>>) /\ <<"apply", w>> \in Messages
      BY <1>25, <2>4 DEF D!EnterApply, Messages
    <3> QED
      BY <1>25, <1>m, <2>1, <2>2, <3>1 DEF D!EnterApply, Keeps
  <2> QED
    BY <2>3, <2>4
<1>26. ASSUME NEW w \in Workers, D!StopServices(w) PROVE D!WindowInOrder'
  <2>1. D!InCommand(w) /\ (w = owner => D!OwnerInOrder(w)) /\ \A v \in Workers \ {w} : Keeps(v)
    BY <1>26, <1>a, <1>s, <1>w DEF D!Worker, D!Update, D!Request
  <2>2. /\ place'[w] # "opening"
        /\ w = owner =>
             /\ cmd'[w] = cmd[w] /\ place[w] \notin {"opening", "closing"}
             /\ place'[w] \in D!WorkStates \cup {"end"}
                  \/ (place'[w] \in D!AskStates /\ told'[w] = "Failed")
    BY <1>26, <2>1
    DEF D!StopServices, D!InCommand, D!OwnerInOrder, D!ShowsFailure, D!AskStates, D!WorkStates,
        D!EndStates, D!Goto, D!At, D!Ask, D!Answered, D!Typed
  <2> QED
    BY <1>26, <1>q, <2>1, <2>2 DEF D!StopServices, Keeps
<1>27. ASSUME NEW w \in Workers, D!Applied(w) PROVE D!WindowInOrder'
  <2>1. D!InCommand(w) /\ (w = owner => D!OwnerInOrder(w)) /\ \A v \in Workers \ {w} : Keeps(v)
    BY <1>27, <1>a, <1>s, <1>w DEF D!Worker, D!Update, D!Request
  <2>2. /\ place'[w] # "opening"
        /\ w = owner =>
             /\ cmd'[w] = cmd[w] /\ place[w] \notin {"opening", "closing"}
             /\ place'[w] \in D!WorkStates \cup {"end"}
                  \/ (place'[w] \in D!AskStates /\ told'[w] = "Failed")
    BY <1>27, <2>1
    DEF D!Applied, D!InCommand, D!OwnerInOrder, D!ShowsFailure, D!AskStates, D!WorkStates,
        D!EndStates, D!Goto, D!At, D!Ask, D!Answered, D!Typed
  <2> QED
    BY <1>27, <1>q, <2>1, <2>2 DEF D!Applied, Keeps
<1>28. ASSUME NEW w \in Workers, D!EndWindow(w) PROVE D!WindowInOrder'
  <2>1. D!InCommand(w) /\ (w = owner => D!OwnerInOrder(w)) /\ \A v \in Workers \ {w} : Keeps(v)
    BY <1>28, <1>a, <1>s, <1>w DEF D!Worker, D!Update
  <2>2. CASE owner = w
    <3>1. /\ place[w] = "end" /\ pw = "open" /\ D!WindowOf(w) /\ D!Post(<<"end", w>>)
          /\ place'[w] = "closing"
          /\ UNCHANGED <<pw, ui, owner, cmd, told>>
      BY <1>28, <1>a, <2>1, <2>2 DEF D!EndWindow, D!At, D!OwnerInOrder, D!Goto, D!Typed
    <3>2. <<"end", w>> \in Messages /\ <<"end", w>> \notin D!Range(inbox)
            /\ <<"begin", w>> \notin D!Range(inbox)
      BY <3>1 DEF Messages, D!WindowOf
    <3>3. D!Range(inbox') = D!Range(inbox) \cup {<<"end", w>>} /\ D!Once(inbox', {"begin", "end"} \X Workers)
      BY <1>i, <1>o, <3>1, <3>2, Posted
    <3>4. D!WindowHasOwner'
      BY <1>a, <3>1, <3>3 DEF D!WindowHasOwner
    <3>5. D!OwnerInOrder(w)'
      BY <2>1, <2>2, <3>1 DEF D!OwnerInOrder
    <3>6. ASSUME NEW v \in Workers PROVE D!WindowOf(v)'
      <4>1. D!WindowOf(v) /\ (v = w \/ place'[v] = place[v])
        BY <1>a, <2>1 DEF Keeps
      <4> QED
        BY <2>2, <3>1, <3>2, <3>3, <4>1 DEF D!WindowOf
    <3> QED
      BY <2>2, <3>1, <3>4, <3>5, <3>6 DEF D!WindowInOrder
  <2>3. CASE owner # w
    <3>1. place'[w] # "opening" /\ UNCHANGED <<pw, ui, owner, inbox>>
      BY <1>28, <2>3 DEF D!EndWindow, D!Goto, D!Typed
    <3> QED
      BY <1>q, <2>1, <2>3, <3>1 DEF Keeps
  <2> QED
    BY <2>2, <2>3
<1>29. ASSUME NEW w \in Workers, D!WindowEnded(w) PROVE D!WindowInOrder'
  <2>1. (w = owner => D!OwnerInOrder(w)) /\ \A v \in Workers \ {w} : Keeps(v)
    BY <1>29, <1>s, <1>w DEF D!Worker, D!Update
  <2>2. place'[w] \in {"release", "quit", "back"} /\ UNCHANGED <<pw, ui, inbox, cmd, told>>
    BY <1>29 DEF D!WindowEnded, D!Goto, D!Typed
  <2>3. CASE owner = w
    <3>1. /\ place[w] = "closing" /\ pw = "closed" /\ owner' = D!Nobody /\ ui = "pump"
      BY <1>29, <1>a, <2>1, <2>3
      DEF D!WindowEnded, D!Closed, D!At, D!OwnerInOrder, D!ShowsFailure, D!WorkStates, D!AskStates,
         D!WindowHasOwner, D!Typed
    <3>2. D!WindowHasOwner'
      BY <1>a, <2>2, <3>1 DEF D!WindowHasOwner
    <3>3. ASSUME NEW v \in Workers PROVE D!WindowOf(v)'
      <4>1. D!WindowOf(v) /\ (v = w \/ place'[v] = place[v])
        BY <1>a, <2>1 DEF Keeps
      <4> QED
        BY <2>2, <2>3, <3>1, <4>1 DEF D!WindowOf
    <3> QED
      BY <3>1, <3>2, <3>3 DEF D!WindowInOrder
  <2>4. CASE owner # w
    <3>1. UNCHANGED owner
      BY <1>29, <2>4 DEF D!WindowEnded
    <3> QED
      BY <1>q, <2>1, <2>2, <2>4, <3>1 DEF Keeps
  <2> QED
    BY <2>3, <2>4
<1>30. ASSUME NEW w \in Workers, D!Restart(w) PROVE D!WindowInOrder'
  <2>1. D!InCommand(w) /\ (w = owner => D!OwnerInOrder(w)) /\ \A v \in Workers \ {w} : Keeps(v)
    BY <1>30, <1>a, <1>s, <1>w DEF D!Worker, D!Update, D!Request
  <2>2. /\ place'[w] # "opening"
        /\ w = owner =>
             /\ cmd'[w] = cmd[w] /\ place[w] \notin {"opening", "closing"}
             /\ place'[w] \in D!WorkStates \cup {"end"}
                  \/ (place'[w] \in D!AskStates /\ told'[w] = "Failed")
    BY <1>30, <2>1
    DEF D!Restart, D!InCommand, D!OwnerInOrder, D!ShowsFailure, D!AskStates, D!WorkStates,
        D!EndStates, D!Goto, D!At, D!Ask, D!Answered, D!Typed
  <2> QED
    BY <1>30, <1>q, <2>1, <2>2 DEF D!Restart, Keeps
<1>31. ASSUME NEW w \in Workers, D!Quit(w) PROVE D!WindowInOrder'
  <2>1. D!InCommand(w) /\ (w = owner => D!OwnerInOrder(w)) /\ \A v \in Workers \ {w} : Keeps(v)
    BY <1>31, <1>a, <1>s, <1>w DEF D!Worker, D!Update, D!Request
  <2>2. /\ place'[w] # "opening"
        /\ w = owner =>
             /\ cmd'[w] = cmd[w] /\ place[w] \notin {"opening", "closing"}
             /\ place'[w] \in D!WorkStates \cup {"end"}
                  \/ (place'[w] \in D!AskStates /\ told'[w] = "Failed")
    BY <1>31, <2>1
    DEF D!Quit, D!InCommand, D!OwnerInOrder, D!ShowsFailure, D!AskStates, D!WorkStates,
        D!EndStates, D!Goto, D!At, D!Ask, D!Answered, D!Typed
  <2>3. CASE inbox' = inbox
    BY <1>31, <1>q, <2>1, <2>2, <2>3 DEF D!Quit, Keeps
  <2>4. CASE inbox' # inbox
    <3>1. D!Post(<<"close", w>>) /\ <<"close", w>> \in Messages
      BY <1>31, <2>4 DEF D!Quit, Messages
    <3> QED
      BY <1>31, <1>m, <2>1, <2>2, <3>1 DEF D!Quit, Keeps
  <2> QED
    BY <2>3, <2>4
<1>32. ASSUME NEW w \in Workers, D!Show(w) PROVE D!WindowInOrder'
  <2>1. D!InCommand(w) /\ (w = owner => D!OwnerInOrder(w)) /\ \A v \in Workers \ {w} : Keeps(v)
    BY <1>32, <1>a, <1>s, <1>w DEF D!Worker, D!Update, D!Request
  <2>2. /\ place'[w] # "opening"
        /\ w = owner =>
             /\ cmd'[w] = cmd[w] /\ place[w] \notin {"opening", "closing"}
             /\ place'[w] \in D!WorkStates \cup {"end"}
                  \/ (place'[w] \in D!AskStates /\ told'[w] = "Failed")
    BY <1>32, <2>1
    DEF D!Show, D!InCommand, D!OwnerInOrder, D!ShowsFailure, D!AskStates, D!WorkStates,
        D!EndStates, D!Goto, D!At, D!Ask, D!Answered, D!Typed
  <2> QED
    BY <1>32, <1>q, <2>1, <2>2 DEF D!Show, Keeps
<1>33. ASSUME NEW w \in Workers, D!Register(w) PROVE D!WindowInOrder'
  <2>1. D!InCommand(w) /\ (w = owner => D!OwnerInOrder(w)) /\ \A v \in Workers \ {w} : Keeps(v)
    BY <1>33, <1>a, <1>s, <1>w DEF D!Worker, D!Update, D!Request
  <2>2. /\ place'[w] # "opening"
        /\ w = owner =>
             /\ cmd'[w] = cmd[w] /\ place[w] \notin {"opening", "closing"}
             /\ place'[w] \in D!WorkStates \cup {"end"}
                  \/ (place'[w] \in D!AskStates /\ told'[w] = "Failed")
    BY <1>33, <2>1
    DEF D!Register, D!InCommand, D!OwnerInOrder, D!ShowsFailure, D!AskStates, D!WorkStates,
        D!EndStates, D!Goto, D!At, D!Ask, D!Answered, D!Typed
  <2> QED
    BY <1>33, <1>q, <2>1, <2>2 DEF D!Register, Keeps
<1>34. ASSUME NEW w \in Workers, D!CheckAbandoned(w) PROVE D!WindowInOrder'
  <2>1. D!InCommand(w) /\ (w = owner => D!OwnerInOrder(w)) /\ \A v \in Workers \ {w} : Keeps(v)
    BY <1>34, <1>a, <1>s, <1>w DEF D!Worker, D!Update, D!Request
  <2>2. /\ place'[w] # "opening"
        /\ w = owner =>
             /\ cmd'[w] = cmd[w] /\ place[w] \notin {"opening", "closing"}
             /\ place'[w] \in D!WorkStates \cup {"end"}
                  \/ (place'[w] \in D!AskStates /\ told'[w] = "Failed")
    BY <1>34, <2>1
    DEF D!CheckAbandoned, D!InCommand, D!OwnerInOrder, D!ShowsFailure, D!AskStates, D!WorkStates,
        D!EndStates, D!Goto, D!At, D!Ask, D!Answered, D!Typed
  <2> QED
    BY <1>34, <1>q, <2>1, <2>2 DEF D!CheckAbandoned, Keeps
<1>35. ASSUME NEW w \in Workers, D!PostRequest(w) PROVE D!WindowInOrder'
  <2>1. D!InCommand(w) /\ (w = owner => D!OwnerInOrder(w)) /\ \A v \in Workers \ {w} : Keeps(v)
    BY <1>35, <1>a, <1>s, <1>w DEF D!Worker, D!Update, D!Request
  <2>2. /\ place'[w] # "opening"
        /\ w = owner =>
             /\ cmd'[w] = cmd[w] /\ place[w] \notin {"opening", "closing"}
             /\ place'[w] \in D!WorkStates \cup {"end"}
                  \/ (place'[w] \in D!AskStates /\ told'[w] = "Failed")
    BY <1>35, <2>1
    DEF D!PostRequest, D!InCommand, D!OwnerInOrder, D!ShowsFailure, D!AskStates, D!WorkStates,
        D!EndStates, D!Goto, D!At, D!Ask, D!Answered, D!Typed
  <2>3. CASE inbox' = inbox
    BY <1>35, <1>q, <2>1, <2>2, <2>3 DEF D!PostRequest, Keeps
  <2>4. CASE inbox' # inbox
    <3>1. D!Post(<<"show", w>>) /\ <<"show", w>> \in Messages
      BY <1>35, <2>4 DEF D!PostRequest, Messages
    <3> QED
      BY <1>35, <1>m, <2>1, <2>2, <3>1 DEF D!PostRequest, Keeps
  <2> QED
    BY <2>3, <2>4
<1>36. ASSUME NEW w \in Workers, D!AnswerInline(w) PROVE D!WindowInOrder'
  <2>1. D!InCommand(w) /\ (w = owner => D!OwnerInOrder(w)) /\ \A v \in Workers \ {w} : Keeps(v)
    BY <1>36, <1>a, <1>s, <1>w DEF D!Worker, D!Update, D!Request
  <2>2. /\ place'[w] # "opening"
        /\ w = owner =>
             /\ cmd'[w] = cmd[w] /\ place[w] \notin {"opening", "closing"}
             /\ place'[w] \in D!WorkStates \cup {"end"}
                  \/ (place'[w] \in D!AskStates /\ told'[w] = "Failed")
    BY <1>36, <2>1
    DEF D!AnswerInline, D!InCommand, D!OwnerInOrder, D!ShowsFailure, D!AskStates, D!WorkStates,
        D!EndStates, D!Goto, D!At, D!Ask, D!Answered, D!Typed
  <2> QED
    BY <1>36, <1>q, <2>1, <2>2 DEF D!AnswerInline, Keeps
<1>37. ASSUME NEW w \in Workers, D!Woken(w) PROVE D!WindowInOrder'
  <2>1. D!InCommand(w) /\ (w = owner => D!OwnerInOrder(w)) /\ \A v \in Workers \ {w} : Keeps(v)
    BY <1>37, <1>a, <1>s, <1>w DEF D!Worker, D!Update, D!Request
  <2>2. /\ place'[w] # "opening"
        /\ w = owner =>
             /\ cmd'[w] = cmd[w] /\ place[w] \notin {"opening", "closing"}
             /\ place'[w] \in D!WorkStates \cup {"end"}
                  \/ (place'[w] \in D!AskStates /\ told'[w] = "Failed")
    BY <1>37, <2>1
    DEF D!Woken, D!InCommand, D!OwnerInOrder, D!ShowsFailure, D!AskStates, D!WorkStates,
        D!EndStates, D!Goto, D!At, D!Ask, D!Answered, D!Typed
  <2> QED
    BY <1>37, <1>q, <2>1, <2>2 DEF D!Woken, Keeps
<1>38. ASSUME NEW w \in Workers, D!Finish(w) PROVE D!WindowInOrder'
  <2>1. D!InCommand(w) /\ (w = owner => D!OwnerInOrder(w)) /\ \A v \in Workers \ {w} : Keeps(v)
    BY <1>38, <1>a, <1>s, <1>w DEF D!Worker, D!Update, D!Request
  <2>2. /\ place'[w] # "opening"
        /\ w = owner =>
             /\ cmd'[w] = cmd[w] /\ place[w] \notin {"opening", "closing"}
             /\ place'[w] \in D!WorkStates \cup {"end"}
                  \/ (place'[w] \in D!AskStates /\ told'[w] = "Failed")
    BY <1>38, <2>1
    DEF D!Finish, D!Release, D!InCommand, D!OwnerInOrder, D!ShowsFailure, D!AskStates,
        D!WorkStates, D!EndStates, D!Goto, D!At, D!Ask, D!Answered, D!Typed
  <2> QED
    BY <1>38, <1>q, <2>1, <2>2 DEF D!Finish, Keeps
<1>39. CASE UNCHANGED D!vars
  BY <1>39, <1>q DEF D!vars
<1> QED
  BY <1>1, <1>2, <1>3, <1>4, <1>5, <1>6, <1>7, <1>8, <1>9, <1>10, <1>11, <1>12, <1>13,
     <1>14, <1>15, <1>16, <1>17, <1>18, <1>19, <1>20, <1>21, <1>22, <1>23, <1>24, <1>25,
     <1>26, <1>27, <1>28, <1>29, <1>30, <1>31, <1>32, <1>33, <1>34, <1>35, <1>36, <1>37,
     <1>38, <1>39
  DEF D!Next, D!Command, D!Worker, D!Update, D!Request, D!Exit

-----------------------------------------------------------------------------
(***************************************************************************)
(* The services an update found.                                           *)
(***************************************************************************)
LEMMA AloneStep ==
  ASSUME D!DesktopAssumption, D!Typed, D!OneAtATime, D!CommandsInOrder, D!RequestsInOrder,
         D!AloneWithServices,
         [D!Next]_D!vars
  PROVE  D!AloneWithServices'
<1> SUFFICES ASSUME mpc = "loop", mpc' = "loop", D!Alone, UNCHANGED occasions
             PROVE  \A v \in Workers : cmd'[v] = "update" => D!ServicesOf(v)'
  <2>1. UNCHANGED occasions
    <3>1. ASSUME NEW w \in Workers, D!Worker(w) PROVE UNCHANGED occasions
      BY <3>1, WorkerKeeps
    <3> QED
      BY <3>1
      DEF D!Next, D!Command, D!Exit, D!vars, D!DoStart, D!DoStop, D!DoCleanCache, D!DoCheckUpdate,
          D!DoUninstall,
         D!RequestExit, D!CancelClick, D!Dispatch, D!Destroyed, D!Answer, D!RequestCancel,
         D!LoopEnds, D!StopAtExit,
         D!Detach, D!Disarm, D!SwapPending, D!Abandon, D!ProcessEnds
  <2>2. mpc' = "loop" => mpc = "loop"
    <3>1. ASSUME NEW w \in Workers, D!Worker(w) PROVE UNCHANGED mpc
      BY <3>1, WorkerKeeps
    <3> QED
      BY <3>1
      DEF D!Next, D!Command, D!Exit, D!vars, D!DoStart, D!DoStop, D!DoCleanCache, D!DoCheckUpdate,
          D!DoUninstall,
         D!RequestExit, D!CancelClick, D!Dispatch, D!Destroyed, D!Answer, D!RequestCancel,
         D!LoopEnds,
         D!StopAtExit, D!Detach, D!Disarm, D!SwapPending, D!Abandon, D!ProcessEnds, D!tray
  <2> QED
    BY <2>1, <2>2 DEF D!AloneWithServices, D!Alone
<1>a. /\ \A v \in Workers : cmd[v] = "update" => D!ServicesOf(v)
      /\ \A v \in Workers : D!InCommand(v)
  BY DEF D!AloneWithServices, D!CommandsInOrder
<1>n. \A v \in Workers : cmd[v] \notin {"start", "stop", "clean", "uninstall"}
  BY <1>a DEF D!InCommand, D!Alone
\* Where no update moves and the services stay, there is nothing to show.
<1>q. ASSUME up' = up,
             \A v \in Workers : \/ place'[v] = place[v] /\ cmd'[v] = cmd[v] /\ told'[v] = told[v] /\ was'[v] = was[v]
                                \/ cmd'[v] # "update" \/ place'[v] = "fetch"
      PROVE  \A v \in Workers : cmd'[v] = "update" => D!ServicesOf(v)'
  BY <1>a, <1>q DEF D!ServicesOf, D!ShowsFailure, D!AskStates, D!EndStates
\* An update that moves is the only one.
<1>w. ASSUME NEW w \in Workers, D!Worker(w), cmd[w] = "update", cmd' = cmd, D!ServicesOf(w)'
      PROVE  \A v \in Workers : cmd'[v] = "update" => D!ServicesOf(v)'
  BY <1>w DEF D!OneAtATime
<1>o. ASSUME NEW w \in Workers, D!Worker(w), cmd[w] # "update", up' = up, cmd' = cmd
      PROVE  \A v \in Workers : cmd'[v] = "update" => D!ServicesOf(v)'
  <2>1. \A v \in Workers \ {w} : Keeps(v)
    BY <1>o, WorkerKeeps
  <2> QED
    BY <1>o, <1>q, <2>1 DEF Keeps
<1> USE DEF D!gates, D!services, D!work, D!tray, D!dialogs, D!progressWindow
<1>1. CASE D!DoStart
  <2>1. \A v \in Workers :
          \/ place'[v] = place[v] /\ cmd'[v] = cmd[v] /\ told'[v] = told[v] /\ was'[v] = was[v]
          \/ cmd'[v] # "update" \/ place'[v] = "fetch"
    BY <1>1 DEF D!DoStart, D!Spawn, D!Typed
  <2> QED
    BY <1>1, <1>q, <2>1 DEF D!DoStart
<1>2. CASE D!DoStop
  <2>1. \A v \in Workers :
          \/ place'[v] = place[v] /\ cmd'[v] = cmd[v] /\ told'[v] = told[v] /\ was'[v] = was[v]
          \/ cmd'[v] # "update" \/ place'[v] = "fetch"
    BY <1>2 DEF D!DoStop, D!Spawn, D!Typed
  <2> QED
    BY <1>2, <1>q, <2>1 DEF D!DoStop
<1>3. CASE D!DoCleanCache
  <2>1. \A v \in Workers :
          \/ place'[v] = place[v] /\ cmd'[v] = cmd[v] /\ told'[v] = told[v] /\ was'[v] = was[v]
          \/ cmd'[v] # "update" \/ place'[v] = "fetch"
    BY <1>3 DEF D!DoCleanCache, D!Spawn, D!Typed
  <2> QED
    BY <1>3, <1>q, <2>1 DEF D!DoCleanCache
<1>4. CASE D!DoCheckUpdate
  <2>1. \A v \in Workers :
          \/ place'[v] = place[v] /\ cmd'[v] = cmd[v] /\ told'[v] = told[v] /\ was'[v] = was[v]
          \/ cmd'[v] # "update" \/ place'[v] = "fetch"
    BY <1>4 DEF D!DoCheckUpdate, D!Spawn, D!Typed
  <2> QED
    BY <1>4, <1>q, <2>1 DEF D!DoCheckUpdate
<1>5. CASE D!DoUninstall
  BY <1>5, <1>q DEF D!DoUninstall
<1>6. CASE D!RequestExit
  BY <1>6, <1>q DEF D!RequestExit
<1>7. CASE D!CancelClick
  BY <1>7, <1>q DEF D!CancelClick
<1>8. CASE D!Dispatch
  BY <1>8, <1>q DEF D!Dispatch
<1>9. CASE D!Destroyed
  BY <1>9, <1>q DEF D!Destroyed
<1>10. CASE D!Answer
  <2>1. \A v \in Workers :
          \/ place'[v] = place[v] /\ cmd'[v] = cmd[v] /\ told'[v] = told[v] /\ was'[v] = was[v]
          \/ cmd'[v] # "update" \/ place'[v] = "fetch"
    BY <1>10 DEF D!Answer, D!Spawn, D!Typed
  <2> QED
    BY <1>10, <1>q, <2>1 DEF D!Answer
<1>11. CASE D!RequestCancel
  BY <1>11, <1>q DEF D!RequestCancel
<1>12. CASE D!LoopEnds
  BY <1>12, <1>q DEF D!LoopEnds
<1>13. CASE D!StopAtExit
  BY <1>13, <1>q DEF D!StopAtExit
<1>14. CASE D!Detach
  BY <1>14, <1>q DEF D!Detach
<1>15. CASE D!Disarm
  BY <1>15, <1>q DEF D!Disarm
<1>16. CASE D!SwapPending
  BY <1>16, <1>q DEF D!SwapPending
<1>17. CASE D!Abandon
  BY <1>17, <1>q DEF D!Abandon
<1>18. CASE D!ProcessEnds
  BY <1>18, <1>q DEF D!ProcessEnds
<1>19. ASSUME NEW w \in Workers, D!Serve(w)
       PROVE  \A v \in Workers : cmd'[v] = "update" => D!ServicesOf(v)'
  BY <1>19, <1>a, <1>n DEF D!Serve, D!At, D!InCommand
<1>20. ASSUME NEW w \in Workers, D!CleanEnds(w)
       PROVE  \A v \in Workers : cmd'[v] = "update" => D!ServicesOf(v)'
  BY <1>20, <1>a, <1>n DEF D!CleanEnds, D!At, D!InCommand
<1>21. ASSUME NEW w \in Workers, D!Fetch(w)
       PROVE  \A v \in Workers : cmd'[v] = "update" => D!ServicesOf(v)'
  <2>1. cmd[w] = "update" /\ D!InCommand(w) /\ D!ServicesOf(w) /\ cmd' = cmd
    BY <1>21, <1>a DEF D!Fetch, D!At, D!InCommand, D!WorkStates, D!EndStates
  <2>2. D!ServicesOf(w)'
    BY <1>21, <2>1
    DEF D!Fetch, D!InCommand, D!ServicesOf, D!ShowsFailure, D!AskStates, D!WorkStates,
        D!EndStates, D!Goto, D!At, D!Ask, D!Answered, D!Typed
  <2> QED
    BY <1>21, <1>w, <2>1, <2>2 DEF D!Worker, D!Update
<1>22. ASSUME NEW w \in Workers, D!Confirmed(w)
       PROVE  \A v \in Workers : cmd'[v] = "update" => D!ServicesOf(v)'
  <2>1. cmd[w] = "update" /\ D!InCommand(w) /\ D!ServicesOf(w) /\ cmd' = cmd
    BY <1>22, <1>a DEF D!Confirmed, D!At, D!InCommand, D!WorkStates, D!EndStates
  <2>2. D!ServicesOf(w)'
    BY <1>22, <2>1
    DEF D!Confirmed, D!InCommand, D!ServicesOf, D!ShowsFailure, D!AskStates, D!WorkStates,
        D!EndStates, D!Goto, D!At, D!Ask, D!Answered, D!Typed
  <2> QED
    BY <1>22, <1>w, <2>1, <2>2 DEF D!Worker, D!Update
<1>23. ASSUME NEW w \in Workers, D!Opened(w)
       PROVE  \A v \in Workers : cmd'[v] = "update" => D!ServicesOf(v)'
  <2>1. cmd[w] = "update" /\ D!InCommand(w) /\ D!ServicesOf(w) /\ cmd' = cmd
    BY <1>23, <1>a DEF D!Opened, D!At, D!InCommand, D!WorkStates, D!EndStates
  <2>2. D!ServicesOf(w)'
    BY <1>23, <2>1
    DEF D!Opened, D!InCommand, D!ServicesOf, D!ShowsFailure, D!AskStates, D!WorkStates,
        D!EndStates, D!Goto, D!At, D!Ask, D!Answered, D!Typed
  <2> QED
    BY <1>23, <1>w, <2>1, <2>2 DEF D!Worker, D!Update
<1>24. ASSUME NEW w \in Workers, D!Downloaded(w)
       PROVE  \A v \in Workers : cmd'[v] = "update" => D!ServicesOf(v)'
  <2>1. cmd[w] = "update" /\ D!InCommand(w) /\ D!ServicesOf(w) /\ cmd' = cmd
    BY <1>24, <1>a DEF D!Downloaded, D!At, D!InCommand, D!WorkStates, D!EndStates
  <2>2. D!ServicesOf(w)'
    BY <1>24, <2>1
    DEF D!Downloaded, D!InCommand, D!ServicesOf, D!ShowsFailure, D!AskStates, D!WorkStates,
        D!EndStates, D!Goto, D!At, D!Ask, D!Answered, D!Typed
  <2> QED
    BY <1>24, <1>w, <2>1, <2>2 DEF D!Worker, D!Update
<1>25. ASSUME NEW w \in Workers, D!EnterApply(w)
       PROVE  \A v \in Workers : cmd'[v] = "update" => D!ServicesOf(v)'
  <2>1. cmd[w] = "update" /\ D!InCommand(w) /\ D!ServicesOf(w) /\ cmd' = cmd
    BY <1>25, <1>a DEF D!EnterApply, D!At, D!InCommand, D!WorkStates, D!EndStates
  <2>2. D!ServicesOf(w)'
    BY <1>25, <2>1
    DEF D!EnterApply, D!InCommand, D!ServicesOf, D!ShowsFailure, D!AskStates, D!WorkStates,
        D!EndStates, D!Goto, D!At, D!Ask, D!Answered, D!Typed
  <2> QED
    BY <1>25, <1>w, <2>1, <2>2 DEF D!Worker, D!Update
<1>26. ASSUME NEW w \in Workers, D!StopServices(w)
       PROVE  \A v \in Workers : cmd'[v] = "update" => D!ServicesOf(v)'
  <2>1. cmd[w] = "update" /\ D!InCommand(w) /\ D!ServicesOf(w) /\ cmd' = cmd
    BY <1>26, <1>a DEF D!StopServices, D!At, D!InCommand, D!WorkStates, D!EndStates
  <2>2. D!ServicesOf(w)'
    BY <1>26, <2>1
    DEF D!StopServices, D!InCommand, D!ServicesOf, D!ShowsFailure, D!AskStates, D!WorkStates,
        D!EndStates, D!Goto, D!At, D!Ask, D!Answered, D!Typed
  <2> QED
    BY <1>26, <1>w, <2>1, <2>2 DEF D!Worker, D!Update
<1>27. ASSUME NEW w \in Workers, D!Applied(w)
       PROVE  \A v \in Workers : cmd'[v] = "update" => D!ServicesOf(v)'
  <2>1. cmd[w] = "update" /\ D!InCommand(w) /\ D!ServicesOf(w) /\ cmd' = cmd
    BY <1>27, <1>a DEF D!Applied, D!At, D!InCommand, D!WorkStates, D!EndStates
  <2>2. D!ServicesOf(w)'
    BY <1>27, <2>1
    DEF D!Applied, D!InCommand, D!ServicesOf, D!ShowsFailure, D!AskStates, D!WorkStates,
        D!EndStates, D!Goto, D!At, D!Ask, D!Answered, D!Typed
  <2> QED
    BY <1>27, <1>w, <2>1, <2>2 DEF D!Worker, D!Update
<1>28. ASSUME NEW w \in Workers, D!EndWindow(w)
       PROVE  \A v \in Workers : cmd'[v] = "update" => D!ServicesOf(v)'
  <2>1. cmd[w] = "update" /\ D!InCommand(w) /\ D!ServicesOf(w) /\ cmd' = cmd
    BY <1>28, <1>a DEF D!EndWindow, D!At, D!InCommand, D!WorkStates, D!EndStates
  <2>2. D!ServicesOf(w)'
    BY <1>28, <2>1
    DEF D!EndWindow, D!InCommand, D!ServicesOf, D!ShowsFailure, D!AskStates, D!WorkStates,
        D!EndStates, D!Goto, D!At, D!Ask, D!Answered, D!Typed
  <2> QED
    BY <1>28, <1>w, <2>1, <2>2 DEF D!Worker, D!Update
<1>29. ASSUME NEW w \in Workers, D!WindowEnded(w)
       PROVE  \A v \in Workers : cmd'[v] = "update" => D!ServicesOf(v)'
  <2>1. cmd[w] = "update" /\ D!InCommand(w) /\ D!ServicesOf(w) /\ cmd' = cmd
    BY <1>29, <1>a DEF D!WindowEnded, D!At, D!InCommand, D!WorkStates, D!EndStates
  <2>2. D!ServicesOf(w)'
    BY <1>29, <2>1
    DEF D!WindowEnded, D!InCommand, D!ServicesOf, D!ShowsFailure, D!AskStates, D!WorkStates,
        D!EndStates, D!Goto, D!At, D!Ask, D!Answered, D!Typed
  <2> QED
    BY <1>29, <1>w, <2>1, <2>2 DEF D!Worker, D!Update
<1>30. ASSUME NEW w \in Workers, D!Restart(w)
       PROVE  \A v \in Workers : cmd'[v] = "update" => D!ServicesOf(v)'
  <2>1. cmd[w] = "update" /\ D!InCommand(w) /\ D!ServicesOf(w) /\ cmd' = cmd
    BY <1>30, <1>a DEF D!Restart, D!At, D!InCommand, D!WorkStates, D!EndStates
  <2>2. D!ServicesOf(w)'
    BY <1>30, <2>1
    DEF D!Restart, D!InCommand, D!ServicesOf, D!ShowsFailure, D!AskStates, D!WorkStates,
        D!EndStates, D!Goto, D!At, D!Ask, D!Answered, D!Typed, D!BringBack
  <2> QED
    BY <1>30, <1>w, <2>1, <2>2 DEF D!Worker, D!Update
<1>31. ASSUME NEW w \in Workers, D!Quit(w)
       PROVE  \A v \in Workers : cmd'[v] = "update" => D!ServicesOf(v)'
  <2>1. D!InCommand(w) /\ (cmd[w] = "update" => D!ServicesOf(w)) /\ cmd' = cmd /\ up' = up
    BY <1>31, <1>a DEF D!Quit
  <2>2. cmd[w] = "update" => D!ServicesOf(w)'
    BY <1>31, <2>1
    DEF D!Quit, D!InCommand, D!ServicesOf, D!ShowsFailure, D!AskStates, D!WorkStates, D!EndStates,
        D!Goto, D!At, D!Ask, D!Answered, D!Typed
  <2> QED
    BY <1>31, <1>w, <1>o, <2>1, <2>2 DEF D!Worker, D!Update, D!Request
<1>32. ASSUME NEW w \in Workers, D!Show(w)
       PROVE  \A v \in Workers : cmd'[v] = "update" => D!ServicesOf(v)'
  <2>1. D!InCommand(w) /\ (cmd[w] = "update" => D!ServicesOf(w)) /\ cmd' = cmd /\ up' = up
    BY <1>32, <1>a DEF D!Show
  <2>2. cmd[w] = "update" => D!ServicesOf(w)'
    BY <1>32, <2>1
    DEF D!Show, D!InCommand, D!ServicesOf, D!ShowsFailure, D!AskStates, D!WorkStates, D!EndStates,
        D!Goto, D!At, D!Ask, D!Answered, D!Typed
  <2> QED
    BY <1>32, <1>w, <1>o, <2>1, <2>2 DEF D!Worker, D!Update, D!Request
<1>33. ASSUME NEW w \in Workers, D!Register(w)
       PROVE  \A v \in Workers : cmd'[v] = "update" => D!ServicesOf(v)'
  <2>1. D!InCommand(w) /\ (cmd[w] = "update" => D!ServicesOf(w)) /\ cmd' = cmd /\ up' = up
    BY <1>33, <1>a DEF D!Register
  <2>2. cmd[w] = "update" => D!ServicesOf(w)'
    BY <1>33, <2>1
    DEF D!Register, D!InCommand, D!ServicesOf, D!ShowsFailure, D!AskStates, D!WorkStates,
        D!EndStates, D!Goto, D!At, D!Ask, D!Answered, D!Typed
  <2> QED
    BY <1>33, <1>w, <1>o, <2>1, <2>2 DEF D!Worker, D!Update, D!Request
<1>34. ASSUME NEW w \in Workers, D!CheckAbandoned(w)
       PROVE  \A v \in Workers : cmd'[v] = "update" => D!ServicesOf(v)'
  <2>1. D!InCommand(w) /\ (cmd[w] = "update" => D!ServicesOf(w)) /\ cmd' = cmd /\ up' = up
    BY <1>34, <1>a DEF D!CheckAbandoned
  <2>2. cmd[w] = "update" => D!ServicesOf(w)'
    BY <1>34, <2>1
    DEF D!CheckAbandoned, D!InCommand, D!ServicesOf, D!ShowsFailure, D!AskStates, D!WorkStates,
        D!EndStates, D!Goto, D!At, D!Ask, D!Answered, D!Typed
  <2> QED
    BY <1>34, <1>w, <1>o, <2>1, <2>2 DEF D!Worker, D!Update, D!Request
<1>35. ASSUME NEW w \in Workers, D!PostRequest(w)
       PROVE  \A v \in Workers : cmd'[v] = "update" => D!ServicesOf(v)'
  <2>1. D!InCommand(w) /\ (cmd[w] = "update" => D!ServicesOf(w)) /\ cmd' = cmd /\ up' = up
    BY <1>35, <1>a DEF D!PostRequest
  <2>2. cmd[w] = "update" => D!ServicesOf(w)'
    BY <1>35, <2>1
    DEF D!PostRequest, D!InCommand, D!ServicesOf, D!ShowsFailure, D!AskStates, D!WorkStates,
        D!EndStates, D!Goto, D!At, D!Ask, D!Answered, D!Typed
  <2> QED
    BY <1>35, <1>w, <1>o, <2>1, <2>2 DEF D!Worker, D!Update, D!Request
<1>36. ASSUME NEW w \in Workers, D!AnswerInline(w)
       PROVE  \A v \in Workers : cmd'[v] = "update" => D!ServicesOf(v)'
  <2>1. D!InCommand(w) /\ (cmd[w] = "update" => D!ServicesOf(w)) /\ cmd' = cmd /\ up' = up
    BY <1>36, <1>a DEF D!AnswerInline
  <2>2. cmd[w] = "update" => D!ServicesOf(w)'
    BY <1>36, <2>1
    DEF D!AnswerInline, D!InCommand, D!ServicesOf, D!ShowsFailure, D!AskStates, D!WorkStates,
        D!EndStates, D!Goto, D!At, D!Ask, D!Answered, D!Typed
  <2> QED
    BY <1>36, <1>w, <1>o, <2>1, <2>2 DEF D!Worker, D!Update, D!Request
<1>37. ASSUME NEW w \in Workers, D!Woken(w)
       PROVE  \A v \in Workers : cmd'[v] = "update" => D!ServicesOf(v)'
  <2>1. D!InCommand(w) /\ (cmd[w] = "update" => D!ServicesOf(w)) /\ cmd' = cmd /\ up' = up
    BY <1>37, <1>a DEF D!Woken
  <2>2. cmd[w] = "update" => D!ServicesOf(w)'
    BY <1>37, <2>1
    DEF D!Woken, D!InCommand, D!ServicesOf, D!ShowsFailure, D!AskStates, D!WorkStates,
        D!EndStates, D!Goto, D!At, D!Ask, D!Answered, D!Typed
  <2> QED
    BY <1>37, <1>w, <1>o, <2>1, <2>2 DEF D!Worker, D!Update, D!Request
<1>38. ASSUME NEW w \in Workers, D!Finish(w)
       PROVE  \A v \in Workers : cmd'[v] = "update" => D!ServicesOf(v)'
  <2>1. cmd'[w] = "none" /\ up' = up /\ \A v \in Workers \ {w} : Keeps(v)
    BY <1>38, WorkerKeeps DEF D!Finish, D!Release, D!Worker, D!Typed
  <2> QED
    BY <1>q, <2>1 DEF Keeps
<1>39. CASE UNCHANGED D!vars
  BY <1>39, <1>q DEF D!vars
<1> QED
  BY <1>1, <1>2, <1>3, <1>4, <1>5, <1>6, <1>7, <1>8, <1>9, <1>10, <1>11, <1>12, <1>13,
     <1>14, <1>15, <1>16, <1>17, <1>18, <1>19, <1>20, <1>21, <1>22, <1>23, <1>24, <1>25,
     <1>26, <1>27, <1>28, <1>29, <1>30, <1>31, <1>32, <1>33, <1>34, <1>35, <1>36, <1>37,
     <1>38, <1>39
  DEF D!Next, D!Command, D!Worker, D!Update, D!Request, D!Exit

-----------------------------------------------------------------------------
(***************************************************************************)
(* The whole invariant.                                                    *)
(***************************************************************************)
LEMMA DesktopInOrderInit ==
  ASSUME D!DesktopAssumption, D!Init
  PROVE  D!InOrder
<1> USE DEF D!Init, D!DesktopAssumption, D!Nobody
<1>1. D!Typed /\ D!OneAtATime
  <2>1. /\ {updateBusy, cleanupBusy, up, window, attached, armed, applying, cancelRequested} \subseteq BOOLEAN
        /\ inbox = <<>> /\ nest = <<>> /\ Len(nest) = 0
    OBVIOUS
  <2>2. inbox \in Seq({"show", "begin", "apply", "end", "close"} \X (Workers \cup {D!UI}))
    BY <2>1
  <2>3. nest \in Seq(Workers \cup {D!UI}) /\ Len(nest) <= MaxNest
    BY <2>1
  <2>4. D!OneAtATime
    BY DEF D!OneAtATime
  <2> QED
    BY <2>1, <2>2, <2>3, <2>4 DEF D!Typed
<1>2. D!CommandsInOrder
  BY Emptied DEF D!CommandsInOrder, D!InCommand, D!AskStates, D!WorkStates, D!EndStates
<1>3. D!RequestsInOrder
  BY Emptied DEF D!RequestsInOrder, D!UIInOrder, D!RequestInOrder, D!Blocked, D!Closing
<1>4. D!WindowInOrder
  BY Emptied DEF D!WindowInOrder, D!WindowHasOwner, D!WindowOf
<1>5. D!AloneWithServices
  BY DEF D!AloneWithServices
<1> QED
  BY <1>1, <1>2, <1>3, <1>4, <1>5 DEF D!InOrder, D!TypeOK

LEMMA DesktopInOrderStep ==
  ASSUME D!DesktopAssumption, D!InOrder, [D!Next]_D!vars
  PROVE  D!InOrder'
BY TypedStep, CommandsStep, RequestsStep, WindowStep, AloneStep DEF D!InOrder, D!TypeOK

\* What the invariant says to whoever lends something to the UI thread.
LEMMA DesktopInOrderIsSafe ==
  ASSUME D!DesktopAssumption, D!InOrder
  PROVE  D!RequestsOutliveTheirUse /\ D!NobodyLeftWaiting /\ D!WindowGoneBeforeItsState
           /\ D!ServicesAsFound
<1>1. D!RequestsOutliveTheirUse
  BY DEF D!InOrder, D!RequestsInOrder, D!RequestInOrder, D!RequestsOutliveTheirUse, D!TypeOK,
     D!Typed
<1>2. D!NobodyLeftWaiting
  BY DEF D!InOrder, D!RequestsInOrder, D!RequestInOrder, D!UIInOrder, D!NobodyLeftWaiting, D!Closing
<1>3. D!WindowGoneBeforeItsState
  BY DEF D!InOrder, D!WindowInOrder, D!WindowHasOwner, D!WindowOf, D!WindowGoneBeforeItsState,
     D!TypeOK, D!Typed
<1>4. D!ServicesAsFound
  BY DEF D!InOrder, D!AloneWithServices, D!Alone, D!ServicesOf, D!ServicesAsFound
<1> QED
  BY <1>1, <1>2, <1>3, <1>4

-----------------------------------------------------------------------------
(***************************************************************************)
(* Children and FileWatcher: stopped means over.                           *)
(***************************************************************************)

\* The job takes down everything, because everything is in it.
LEMMA ContainedInit ==
  ASSUME C!ChildrenAssumption, C!Init
  PROVE  C!ContainedInOrder
BY DEF C!ChildrenAssumption, C!Init, C!ContainedInOrder, C!ContainedTyped, C!Contained, C!Unborn,
       C!Procs, C!Places, C!Stopping

\* Terminating processes starts none.
LEMMA TerminatedAreOver ==
  ASSUME C!ContainedTyped, NEW ps, procs' = C!Terminated(ps)
  PROVE  /\ procs' \in [C!Procs -> [state : {"none", "suspended", "alive", "dying", "gone"},
                                   parent : C!Procs, jobbed : BOOLEAN, inherits : BOOLEAN]]
         /\ \A p \in C!Procs :
              /\ procs'[p].state = "none" <=> procs[p].state = "none"
              /\ procs'[p].jobbed = procs[p].jobbed
              /\ procs'[p].state = "alive" => procs[p].state = "alive" /\ p \notin ps
BY DEF C!ContainedTyped, C!Terminated, C!Ending

\* What leaves the processes alone, and the owner where it is or on the way out.
LEMMA ContainedGoesOn ==
  ASSUME C!ContainedInOrder, parent' \in [pc : C!Places, job : BOOLEAN, gone : BOOLEAN,
           refused : BOOLEAN, victims : SUBSET Kids, channel : Nat],
         UNCHANGED procs,
         parent'.job = parent.job, parent'.refused = parent.refused,
         \/ parent'.pc = parent.pc
         \/ <<parent.pc, parent'.pc>> \in
              {<<"build", "job">>, <<"begin", "running">>, <<"collect", "killroot">>,
               <<"join", "grace">>, <<"drain", "join">>, <<"join", "returned">>, <<"grace", "join">>,
               <<"grace", "returned">>, <<"awaitall", "drain">>}
         \/ parent.pc = "running" /\ parent'.pc = IF parent.job THEN "killjob" ELSE "collect"
         \/ parent.pc = "awaitroot" /\ parent'.pc = IF parent.job THEN "drain" ELSE "sweep"
  PROVE  C!ContainedInOrder'
BY DEF C!ContainedInOrder, C!ContainedTyped, C!Contained, C!Running, C!Stopping, C!Places

LEMMA ContainedStep ==
  ASSUME C!ChildrenAssumption, C!ContainedInOrder, [C!Next]_C!vars
  PROVE  C!ContainedInOrder'
<1> USE DEF C!ContainedInOrder, C!ContainedTyped, C!Contained, C!Stopping, C!Go, C!Refuse,
            C!SetReader
<1>r. C!Root \in C!Procs /\ C!Procs = {C!Root} \cup Kids /\ C!Root \notin Kids
  BY DEF C!Procs, C!ChildrenAssumption
<1>1. CASE UNCHANGED <<procs, parent>>
  BY <1>1 DEF C!Running
<1>2. CASE C!TreeNext
  <2>1. ASSUME NEW p \in C!Procs, NEW c, C!Writes(p, c) PROVE C!ContainedInOrder'
    BY <1>1, <2>1 DEF C!Writes
  <2>2. ASSUME NEW p \in C!Procs, NEW kid \in Kids, NEW inherits \in BOOLEAN,
               C!Spawns(p, kid, inherits)
        PROVE  C!ContainedInOrder'
    <3>1. kid \in C!Procs /\ procs[p].state = "alive" /\ UNCHANGED parent
      BY <1>r, <2>2 DEF C!Spawns, C!Running
    <3>2. procs' = [procs EXCEPT ![kid] = [state |-> "alive", parent |-> p, jobbed |-> procs[p].jobbed,
                                           inherits |-> inherits /\ procs[p].inherits]]
      BY <2>2 DEF C!Spawns
    <3> QED
      BY <1>r, <3>1, <3>2 DEF C!Running
  <2>3. ASSUME NEW p \in C!Procs, C!Exits(p) PROVE C!ContainedInOrder'
    BY <1>r, <2>3 DEF C!Exits, C!Running
  <2> QED
    BY <1>2, <2>1, <2>2, <2>3 DEF C!TreeNext
<1>3. ASSUME NEW p \in C!Procs, C!Dies(p) PROVE C!ContainedInOrder'
  BY <1>r, <1>3 DEF C!Dies, C!Running
<1>4. CASE C!Build
  BY <1>4, ContainedGoesOn DEF C!Build, C!Places
<1>5. CASE C!BuildFails
  BY <1>5 DEF C!BuildFails, C!Places
<1>6. CASE C!CreateContainingJob
  <2>1. PICK job \in BOOLEAN : parent' = [parent EXCEPT !.pc = "start", !.job = job]
    BY <1>6 DEF C!CreateContainingJob
  <2>2. parent.pc = "job" /\ UNCHANGED procs
    BY <1>6 DEF C!CreateContainingJob
  <2> QED
    BY <2>1, <2>2 DEF C!Places, C!Running
<1>7. CASE C!StartProcess
  <2>1. /\ parent.pc = "start" /\ parent' = [parent EXCEPT !.pc = "assign"]
        /\ procs' = [procs EXCEPT ![C!Root] =
             [procs[C!Root] EXCEPT !.state = "suspended", !.inherits = TRUE]]
    BY <1>7 DEF C!StartProcess
  <2>2. /\ parent'.pc = "assign" /\ parent'.job = parent.job
        /\ parent' \in [pc : C!Places, job : BOOLEAN, gone : BOOLEAN, refused : BOOLEAN,
                       victims : SUBSET Kids, channel : Nat]
    BY <2>1 DEF C!Places
  <2>3. /\ procs' \in [C!Procs -> [state : {"none", "suspended", "alive", "dying", "gone"},
                                  parent : C!Procs, jobbed : BOOLEAN, inherits : BOOLEAN]]
        /\ procs'[C!Root].state = "suspended" /\ \A p \in Kids : procs'[p].state = "none"
    <3> DEFINE y == procs[C!Root]
               x == [y EXCEPT !.state = "suspended", !.inherits = TRUE]
    <3>0. y \in [state : {"none", "suspended", "alive", "dying", "gone"},
                parent : C!Procs, jobbed : BOOLEAN, inherits : BOOLEAN]
      BY <1>r
    <3> HIDE DEF y
    <3>1. /\ x.state = "suspended"
          /\ x \in [state : {"none", "suspended", "alive", "dying", "gone"},
                   parent : C!Procs, jobbed : BOOLEAN, inherits : BOOLEAN]
      BY <3>0
    <3>2. procs' = [procs EXCEPT ![C!Root] = x]
      BY <2>1 DEF y
    <3> HIDE DEF x
    <3> QED
      BY <1>r, <2>1, <3>1, <3>2
  <2> QED
    BY <2>2, <2>3
<1>8. CASE C!StartProcessFails
  BY <1>8 DEF C!StartProcessFails, C!Places
<1>9. CASE C!Assign
  <2>1. PICK contained \in BOOLEAN :
          /\ procs' = [procs EXCEPT ![C!Root].jobbed = contained]
          /\ parent' = [parent EXCEPT !.pc = "resume", !.job = contained]
    BY <1>9 DEF C!Assign
  <2>2. /\ parent'.pc = "resume" /\ parent'.job = contained
        /\ parent' \in [pc : C!Places, job : BOOLEAN, gone : BOOLEAN, refused : BOOLEAN,
                       victims : SUBSET Kids, channel : Nat]
    BY <2>1 DEF C!Places
  <2>3. /\ procs[C!Root].state = "suspended" /\ \A p \in Kids : procs[p].state = "none"
    BY <1>9 DEF C!Assign
  <2>4. /\ procs' \in [C!Procs -> [state : {"none", "suspended", "alive", "dying", "gone"},
                                  parent : C!Procs, jobbed : BOOLEAN, inherits : BOOLEAN]]
        /\ procs'[C!Root].state = "suspended" /\ procs'[C!Root].jobbed = contained
        /\ \A p \in Kids : procs'[p].state = "none"
    BY <1>r, <2>1, <2>3
  <2> QED
    BY <1>r, <2>2, <2>4
<1>10. CASE C!Resume
  BY <1>r, <1>10 DEF C!Resume, C!Places
<1>11. CASE C!ResumeFails
  BY <1>11, TerminatedAreOver DEF C!ResumeFails, C!Places
<1>12. CASE C!Begin
  BY <1>12, ContainedGoesOn DEF C!Begin, C!Places
<1>13. CASE C!StopChild
  BY <1>13, ContainedGoesOn DEF C!StopChild, C!Places
<1>14. CASE C!TerminateJob
  <2>1. \A p \in C!Procs : p \in C!JobVictims <=> procs[p].jobbed
    BY DEF C!JobVictims
  <2> QED
    BY <1>14, <2>1, TerminatedAreOver DEF C!TerminateJob, C!Places, C!Running
<1>15. CASE C!Collect
  <2>1. C!CollectTree \subseteq Kids
    BY DEF C!CollectTree, C!Children
  <2> QED
    BY <1>15, <2>1, ContainedGoesOn DEF C!Collect, C!Places
<1>16. CASE C!TerminateRoot
  BY <1>16, TerminatedAreOver DEF C!TerminateRoot, C!Places
<1>17. CASE C!RootGone \/ C!RootStays
  BY <1>17, ContainedGoesOn DEF C!RootGone, C!RootStays, C!AfterRoot, C!Places
<1>18. CASE C!TerminateDescendants
  BY <1>18, TerminatedAreOver DEF C!TerminateDescendants, C!Places
<1>19. CASE C!AllGone \/ C!SomeStay
  BY <1>19, ContainedGoesOn DEF C!AllGone, C!SomeStay, C!Places
<1>20. CASE C!Drain
  BY <1>20, ContainedGoesOn DEF C!Drain, C!Places
<1>21. CASE C!Joined \/ C!Abandon
  <2>1. /\ UNCHANGED procs /\ parent.pc \in {"join", "grace"}
        /\ \/ parent' = [parent EXCEPT !.pc = "returned"]
           \/ parent' = [parent EXCEPT !.pc = "join", !.channel = parent.channel + 1]
    BY <1>21 DEF C!Joined, C!Abandon, C!NextJoin
  <2>2. CASE parent' = [parent EXCEPT !.pc = "returned"]
    BY <2>1, <2>2, ContainedGoesOn DEF C!Places
  <2>3. CASE parent' = [parent EXCEPT !.pc = "join", !.channel = parent.channel + 1]
    <3>0. /\ parent.channel + 1 \in Nat /\ "join" \in C!Places
          /\ parent \in [pc : C!Places, job : BOOLEAN, gone : BOOLEAN, refused : BOOLEAN,
                        victims : SUBSET Kids, channel : Nat]
      BY DEF C!Places
    <3> HIDE DEF C!Places
    <3>1. parent' \in [pc : C!Places, job : BOOLEAN, gone : BOOLEAN, refused : BOOLEAN,
                      victims : SUBSET Kids, channel : Nat]
      BY <2>3, <3>0
    <3>2. parent'.pc = "join" /\ parent'.job = parent.job /\ parent'.refused = parent.refused
      BY <2>3, <3>0
    <3> HIDE DEF C!ContainedInOrder, C!ContainedTyped, C!Contained, C!Stopping
    <3> QED
      BY <2>1, <3>1, <3>2, ContainedGoesOn
  <2> QED
    BY <2>1, <2>2, <2>3
<1>22. CASE C!JoinTimesOut
  BY <1>22, ContainedGoesOn DEF C!JoinTimesOut, C!Places
<1>23. CASE C!Destroy
  BY <1>23, TerminatedAreOver DEF C!Destroy, C!Places, C!Running
<1>24. CASE C!ReaderNext
  BY <1>1, <1>24 DEF C!ReaderNext, C!SealOpens, C!ReadSome, C!HandOver, C!ReadEnds
<1>25. CASE UNCHANGED C!vars
  BY <1>1, <1>25 DEF C!vars
<1> HIDE DEF C!ContainedInOrder, C!ContainedTyped, C!Contained, C!Stopping, C!Go, C!Refuse,
    C!SetReader
<1> QED
  BY <1>2, <1>3, <1>4, <1>5, <1>6, <1>7, <1>8, <1>9, <1>10, <1>11, <1>12, <1>13, <1>14, <1>15,
     <1>16, <1>17, <1>18, <1>19, <1>20, <1>21, <1>22, <1>23, <1>24, <1>25
  DEF C!Next, C!Deaths, C!OwnerNext

\* The one read of the watch is over before its frame and its handle are.
LEMMA WatchInit ==
  ASSUME F!FileWatcherAssumption, F!Init
  PROVE  F!WatchInOrder
BY DEF F!FileWatcherAssumption, F!Init, F!WatchInOrder, F!TypeOK, F!NoReadOutlivesItsFrame, F!Never

LEMMA WatchStep ==
  ASSUME F!FileWatcherAssumption, F!WatchInOrder, [F!Next]_F!vars
  PROVE  F!WatchInOrder'
<1> USE DEF F!FileWatcherAssumption, F!WatchInOrder, F!TypeOK, F!NoReadOutlivesItsFrame, F!Never,
            F!Watching, F!files, F!rules, F!watch, F!control
<1>1. CASE F!Start
  BY <1>1 DEF F!Start
<1>2. CASE F!RequestStop
  BY <1>2 DEF F!RequestStop
<1>3. CASE F!CancelReads
  BY <1>3 DEF F!CancelReads, F!Cancelled
<1>4. CASE F!Join
  BY <1>4 DEF F!Join
<1>5. CASE F!Begin \/ F!Top \/ F!Signalled \/ F!Settled
  BY <1>5 DEF F!Begin, F!Top, F!Signalled, F!Settled
<1>6. CASE F!Issue
  BY <1>6 DEF F!Issue
<1>7. CASE F!IssueFails
  BY <1>7 DEF F!IssueFails
<1>8. CASE F!Woken
  BY <1>8 DEF F!Woken
<1>9. CASE F!Load \/ F!LoadFails \/ F!Apply
  BY <1>9 DEF F!Load, F!LoadFails, F!Apply
<1>10. CASE F!Leave
  BY <1>10 DEF F!Leave, F!Cancelled
<1>11. CASE F!Await
  <2>1. th' \in {"ended", "stuck"} /\ dirHandle' = dirHandle
    BY <1>11 DEF F!Await
  <2> QED
    BY <1>11, <2>1 DEF F!Await
<1>12. CASE F!Edit \/ F!Stray \/ F!Overflow
  <2>1. UNCHANGED <<trouble, since, F!rules, F!watch, F!control>>
    BY <1>12 DEF F!Edit, F!Stray, F!Overflow
  <2>2. kernel' \subseteq {"ours", "other", "lost"}
    BY <1>12 DEF F!Edit, F!Stray, F!Overflow, F!Change
  <2>3. version' \in 0..MaxEdits
    BY <1>12 DEF F!Edit, F!Stray, F!Overflow
  <2>4. strays' \in 0..MaxStrays
    BY <1>12 DEF F!Edit, F!Stray, F!Overflow
  <2> QED
    BY <2>1, <2>2, <2>3, <2>4
<1>13. CASE F!Complete
  BY <1>13 DEF F!Complete
<1>14. CASE F!Fail
  BY <1>14 DEF F!Fail
<1>15. CASE UNCHANGED F!vars
  BY <1>15 DEF F!vars
<1> HIDE DEF F!FileWatcherAssumption, F!WatchInOrder, F!TypeOK, F!NoReadOutlivesItsFrame, F!Never,
             F!Watching, F!files, F!rules, F!watch, F!control
<1> QED
  BY <1>1, <1>2, <1>3, <1>4, <1>5, <1>6, <1>7, <1>8, <1>9, <1>10, <1>11, <1>12, <1>13, <1>14,
     <1>15
  DEF F!Next, F!StopNext, F!LoopNext, F!KernelNext

-----------------------------------------------------------------------------
(***************************************************************************)
(* The theorems about the program: each component keeps its invariant,     *)
(* because whoever is at work leaves the variables of the others alone.    *)
(***************************************************************************)
LEMMA EachKeepsToItself ==
  ASSUME [ProgramNext]_programVars
  PROVE  [D!Next]_D!vars /\ [C!Next]_C!vars /\ [F!Next]_F!vars
<1>1. UNCHANGED desktopVars => UNCHANGED D!vars
  BY DEF desktopVars, D!vars, D!gates, D!services, D!work, D!tray, D!dialogs, D!progressWindow
<1>2. UNCHANGED childrenVars => UNCHANGED C!vars
  BY DEF childrenVars, C!vars
<1>3. UNCHANGED watcherVars => UNCHANGED F!vars
  BY DEF watcherVars, F!vars
<1>4. CASE ProgramNext
  BY <1>1, <1>2, <1>3, <1>4 DEF ProgramNext
<1>5. CASE UNCHANGED programVars
  BY <1>1, <1>2, <1>3, <1>5 DEF programVars
<1> QED
  BY <1>4, <1>5

LEMMA ProgramStart ==
  ASSUME ProgramInit
  PROVE  D!InOrder /\ C!ContainedInOrder /\ F!WatchInOrder
BY ProgramAssumption, DesktopInOrderInit, ContainedInit, WatchInit DEF ProgramInit, ProgramAssumption

\* Commands, gates, dialogs and windows stay in order, whatever is asked for
\* while something else is under way (Desktop: controller.cpp, dialogs.cpp,
\* progress_window.cpp).
THEOREM TrayInOrder == ProgramSpec => []D!InOrder
<1>1. D!InOrder /\ [ProgramNext]_programVars => D!InOrder'
  BY ProgramAssumption, EachKeepsToItself, DesktopInOrderStep DEF ProgramAssumption
<1> QED
  BY <1>1, ProgramStart, PTL DEF ProgramSpec

\* What a worker lends the UI thread is reached by nobody once the worker has
\* gone on, and nobody is left waiting for an answer (Desktop:
\* dialogs.cpp:49-51, 94-101, 202-212, progress_window.cpp:762-828).
THEOREM NobodyIsKept == ProgramSpec => []RequestsAnsweredInTime
<1>1. D!InOrder => RequestsAnsweredInTime
  BY ProgramAssumption, DesktopInOrderIsSafe
  DEF RequestsAnsweredInTime, ProgramAssumption, D!InOrder
<1> QED
  BY <1>1, TrayInOrder, PTL

\* An update leaves the services as it found them or says that it could not
\* (Desktop: controller.cpp:213-236).
THEOREM UpdateGivesServicesBack == ProgramSpec => []ServicesAsFound
<1>1. D!InOrder => ServicesAsFound
  BY ProgramAssumption, DesktopInOrderIsSafe DEF ServicesAsFound, ProgramAssumption
<1> QED
  BY <1>1, TrayInOrder, PTL

\* Stopped means over: nothing a contained child started is left running
\* (Children: process.cpp:250-251), and no read of the directory is outstanding
\* into a frame or through a handle that is gone (FileWatcher:
\* file_watcher.cpp:129-132, 194-200).
THEOREM StopIsOver == ProgramSpec => []StoppedMeansOver
<1> DEFINE Over == C!ContainedInOrder /\ F!WatchInOrder
<1>1. ProgramInit => Over
  BY ProgramStart
<1>2. Over /\ [ProgramNext]_programVars => Over'
  BY ProgramAssumption, EachKeepsToItself, ContainedStep, WatchStep DEF ProgramAssumption
<1>3. Over => StoppedMeansOver
  BY DEF StoppedMeansOver, C!ContainedInOrder, C!Contained, C!Stopping, C!StoppedIsGone, F!WatchInOrder
<1> HIDE DEF Over
<1> QED
  BY <1>1, <1>2, <1>3, PTL DEF ProgramSpec
=============================================================================
