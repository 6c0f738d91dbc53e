----------------------------- MODULE Redirector -----------------------------
(***************************************************************************)
(* DNS redirection: src/src/dns/redirector.cpp with the policy table of    *)
(* src/src/dns/nrpt.cpp and what it sees of the local DNS server.          *)
(*                                                                         *)
(* Three threads of the program touch the policy rule, all under           *)
(* m_tableMx: the one that starts and stops the redirector ("owner"), the  *)
(* guardian that restores the rule, and the watcher of the rule file. The  *)
(* rule is a registry key, so anything else on the machine can change it   *)
(* at any time, and it outlives the process.                               *)
(*                                                                         *)
(* InstallRule takes two steps, the removal of the old key and the writing *)
(* of the new one, because its first registry write already wakes the      *)
(* guardian.                                                               *)
(***************************************************************************)
EXTENDS Naturals

CONSTANTS
  RuleSets,     \* what the rule file may say
  NoNames,      \* the rule set that names nothing
  Endpoints,    \* where the local server may be told to bind
  Default,      \* the compiled default endpoint
  MaxRepairs,   \* RepairBudget::kMaxRepairs
  Environments, \* which of EventNames may happen together, case by case
  NoRule, Foreign

EventNames ==
  {"tamper",    \* other software deletes or replaces the rule
   "select",    \* the server's loop ends on its own
   "bind",      \* the server cannot bind its endpoint
   "install",   \* a registry write of InstallRule fails
   "remove",    \* the registry refuses to delete the key
   "watch",     \* the policy table cannot be subscribed to
   "wait",      \* WaitForMultipleObjects fails
   "thread",    \* the guardian's events or its thread cannot be created
   "window",    \* kWindowMs go by
   "crash",     \* the process dies
   "repoint",   \* a caller sets the endpoint of a running redirector
   "restart",   \* a caller starts a redirector it has not stopped
   "early"}     \* a caller enables the hot reload before the start

ASSUME RedirectorAssumption ==
  /\ NoNames \in RuleSets /\ Default \in Endpoints
  /\ MaxRepairs \in Nat \ {0} /\ Environments \subseteq SUBSET EventNames
  /\ Foreign # NoRule
  /\ {NoRule, Foreign} \cap [ns : RuleSets \ {NoNames}, ep : Endpoints] = {}

VARIABLES
  opc,       \* where the owner is
  gpc,       \* where the guardian's thread is; "none" when there is none
  wpc,       \* where the rule file's watcher is
  tableMx,   \* who holds m_tableMx
  cancel,    \* m_guardCancel
  rules,     \* m_rules, and the resolver's copy of it
  captured,  \* Start's `namespaces`
  endpoint,  \* m_endpoint, and the one the resolver will bind next
  loop,      \* the local server: "running", "ended" on its own, "stopped"
  bound,     \* where its sockets are
  rule,      \* the policy table's entry
  watching,  \* Guard's watchingRule
  watch,     \* RuleWatch: not subscribed, subscribed, or its event is set
  used,      \* RepairBudget::used
  fresh,     \* the next repair opens a window
  failure,   \* m_failure and the event m_failed
  events     \* what this behaviour has to reckon with; chosen once

ownerVars == <<opc, captured, endpoint>>
serverVars == <<loop, bound>>
guardVars == <<gpc, cancel, watching, used, fresh, failure>>
tableVars == <<tableMx, rule, watch>>
vars == <<ownerVars, wpc, rules, serverVars, guardVars, tableVars>>

\* Nrpt's rule that routes the names of ns to endpoint ep.
Entry(ns, ep) == IF ns = NoNames THEN NoRule ELSE [ns |-> ns, ep |-> ep]
Ours == [ns : RuleSets \ {NoNames}, ep : Endpoints]

\* LocalResolver::Running and Redirector::Running.
ServerRunning == loop = "running"
Running == ServerRunning /\ failure = "None"

\* StartLocked of services.cpp stops whatever is left of the stack before it
\* configures and starts it again.
Down == loop = "stopped" /\ failure = "None"

OwnerStates ==
  {"idle", "startJoin", "startServer", "startRemove", "startWrite",
   "startGuardian", "rollJoin", "rollLock", "rollRemove", "rollServer",
   "stopJoin", "stopWatcher", "stopRemove", "stopServer", "crashed"}
GuardStates ==
  {"none", "open", "look", "write", "confirm", "wait", "rearm", "exited"}

Init ==
  /\ opc = "idle" /\ gpc = "none" /\ wpc = "none" /\ tableMx = "free"
  /\ cancel = FALSE
  /\ rules = NoNames /\ captured = NoNames
  /\ endpoint = Default /\ loop = "stopped" /\ bound = Default
  /\ rule = NoRule
  /\ watching = FALSE /\ watch = "off"
  /\ used = 0 /\ fresh = TRUE
  /\ failure = "None"
  /\ events \in Environments
-----------------------------------------------------------------------------
(***************************************************************************)
(* The policy table                                                        *)
(***************************************************************************)

\* A change to the table sets the event of the subscription and uses it up.
Notify == watch' = IF rule' # rule /\ watch = "armed" THEN "signalled" ELSE watch

RemoveRule ==
  /\ rule' = NoRule \/ ("remove" \in events /\ rule' = rule)
  /\ Notify

\* Mutant: the rule names the compiled default instead of m_endpoint.
InstallRuleDefault(ns, ok) ==
  /\ ok /\ rule' = IF ns = NoNames THEN rule ELSE Entry(ns, Default)
  /\ Notify

\* The rest of InstallRule. Failing to create the key leaves the table as it
\* is, failing to write a value takes the key out again.
InstallRule(ns, ok) ==
  /\ IF ok
       THEN rule' = IF ns = NoNames THEN rule ELSE Entry(ns, endpoint)
       ELSE /\ ns # NoNames /\ "install" \in events
            /\ \/ rule' \in {rule, NoRule}
               \/ "remove" \in events /\ rule' = Foreign
  /\ Notify

RuleMatches(ns) == rule = Entry(ns, endpoint)

\* Other software.
Tamper ==
  /\ "tamper" \in events /\ opc # "crashed"
  /\ rule' \in {NoRule, Foreign} \ {rule}
  /\ Notify
  /\ UNCHANGED <<ownerVars, wpc, rules, serverVars, guardVars, tableMx>>
-----------------------------------------------------------------------------
(***************************************************************************)
(* The owner: SetEndpoint, LoadRules, hot reload                           *)
(***************************************************************************)

SetEndpoint(ep) ==
  /\ opc = "idle" /\ tableMx = "free"
  /\ Down \/ "repoint" \in events
  /\ endpoint' = ep
  /\ UNCHANGED <<opc, captured, wpc, rules, serverVars, guardVars, tableVars>>

\* Apply on a server that is not running installs nothing.
LoadRules(r) ==
  /\ opc = "idle" /\ tableMx = "free"
  /\ Down
  /\ rules' = r
  /\ UNCHANGED <<ownerVars, wpc, serverVars, guardVars, tableVars>>

EnableHotReload ==
  /\ opc = "idle" /\ wpc = "none"
  /\ ~Down \/ "early" \in events
  /\ wpc' = "watching"
  /\ UNCHANGED <<ownerVars, rules, serverVars, guardVars, tableVars>>
-----------------------------------------------------------------------------
(***************************************************************************)
(* The owner: Start                                                        *)
(***************************************************************************)

OwnerGoes(pc) == opc' = pc /\ UNCHANGED <<captured, endpoint>>

\* StopGuardian: the event is set and the thread, if there is one, is joined.
StopGuardian == gpc \in {"none", "exited"} /\ gpc' = "none" /\ cancel' = TRUE

\* The guardian may be told to go long before it is joined.
CancelGuardian ==
  /\ opc \in {"startJoin", "rollJoin", "stopJoin"}
  /\ ~cancel
  /\ cancel' = TRUE
  /\ UNCHANGED <<ownerVars, wpc, rules, serverVars, gpc, watching, used, fresh,
                 failure, tableVars>>

StartBegin ==
  /\ opc = "idle"
  /\ Down \/ "restart" \in events
  /\ OwnerGoes("startJoin")
  /\ UNCHANGED <<wpc, rules, serverVars, guardVars, tableVars>>

\* The names to route are read before the server is up.
StartCapture ==
  /\ opc = "startJoin"
  /\ StopGuardian
  /\ opc' = "startServer"
  /\ captured' = rules
  /\ UNCHANGED <<endpoint, wpc, rules, serverVars, watching, used, fresh,
                 failure, tableVars>>

\* LocalResolver::Start, which first ends a session left over.
StartServer ==
  /\ opc = "startServer"
  /\ \/ OwnerGoes("startRemove") /\ loop' = "running" /\ bound' = endpoint
     \/ "bind" \in events /\ OwnerGoes("idle") /\ loop' = "stopped" /\ UNCHANGED bound
  /\ UNCHANGED <<wpc, rules, guardVars, tableVars>>

StartRemove ==
  /\ opc = "startRemove" /\ tableMx = "free"
  /\ tableMx' = "owner"
  /\ RemoveRule
  /\ OwnerGoes("startWrite")
  /\ UNCHANGED <<wpc, rules, serverVars, guardVars>>

\* When the rule cannot be written, RollBackStart is entered with m_tableMx
\* still held.
StartWrite ==
  /\ opc = "startWrite"
  /\ \/ InstallRule(captured, TRUE) /\ tableMx' = "free" /\ OwnerGoes("startGuardian")
     \/ InstallRule(captured, FALSE) /\ UNCHANGED tableMx /\ OwnerGoes("rollJoin")
  /\ UNCHANGED <<wpc, rules, serverVars, guardVars>>

StartGuardian ==
  /\ opc = "startGuardian"
  /\ failure' = "None" /\ used' = 0 /\ fresh' = TRUE
  /\ \/ gpc' = "open" /\ cancel' = FALSE /\ OwnerGoes("idle")
     \/ "thread" \in events /\ OwnerGoes("rollJoin") /\ UNCHANGED <<gpc, cancel>>
  /\ UNCHANGED <<wpc, rules, serverVars, watching, tableVars>>
-----------------------------------------------------------------------------
(***************************************************************************)
(* The owner: RollBackStart and Stop                                       *)
(***************************************************************************)

RollJoin ==
  /\ opc = "rollJoin"
  /\ StopGuardian
  /\ OwnerGoes("rollRemove")
  /\ UNCHANGED <<wpc, rules, serverVars, watching, used, fresh, failure, tableVars>>

StopBegin ==
  /\ opc = "idle"
  /\ OwnerGoes("stopJoin")
  /\ UNCHANGED <<wpc, rules, serverVars, guardVars, tableVars>>

\* Mutant: the rule goes while the watcher of the rule file still runs.
StopJoinWatched ==
  /\ opc = "stopJoin"
  /\ StopGuardian
  /\ OwnerGoes("stopRemove")
  /\ UNCHANGED <<wpc, rules, serverVars, watching, used, fresh, failure, tableVars>>

StopJoin ==
  /\ opc = "stopJoin"
  /\ StopGuardian
  /\ OwnerGoes("stopWatcher")
  /\ UNCHANGED <<wpc, rules, serverVars, watching, used, fresh, failure, tableVars>>

\* DisableHotReload joins the watcher, which finishes the reload it is in.
DisableHotReload ==
  /\ opc = "stopWatcher"
  /\ wpc # "write"
  /\ wpc' = "none"
  /\ OwnerGoes("stopRemove")
  /\ UNCHANGED <<rules, serverVars, guardVars, tableVars>>

\* m_tableMx is not recursive: who holds it already waits for itself.
TakeBack ==
  /\ opc \in {"rollRemove", "stopRemove"}
  /\ tableMx = "free"
  /\ RemoveRule
  /\ OwnerGoes(IF opc = "rollRemove" THEN "rollServer" ELSE "stopServer")
  /\ UNCHANGED <<wpc, rules, serverVars, guardVars, tableMx>>

\* LocalResolver::Stop, and no failure is outstanding any more.
StopServer ==
  /\ opc \in {"rollServer", "stopServer"}
  /\ loop' = "stopped"
  /\ failure' = "None"
  /\ OwnerGoes("idle")
  /\ UNCHANGED <<wpc, rules, bound, gpc, cancel, watching, used, fresh, tableVars>>
-----------------------------------------------------------------------------
(***************************************************************************)
(* The rule file's watcher                                                 *)
(***************************************************************************)

\* Apply. Once DisableHotReload waits, no new reload begins.
Reload(r) ==
  /\ wpc = "watching" /\ tableMx = "free" /\ opc # "stopWatcher"
  /\ rules' = r
  /\ \/ ServerRunning /\ wpc' = "write" /\ tableMx' = "watcher" /\ RemoveRule
     \/ ~ServerRunning /\ UNCHANGED <<wpc, tableVars>>
  /\ UNCHANGED <<ownerVars, serverVars, guardVars>>

\* What InstallRule returns is not looked at.
ReloadWrite ==
  /\ wpc = "write"
  /\ \E ok \in BOOLEAN : InstallRule(rules, ok)
  /\ wpc' = "watching" /\ tableMx' = "free"
  /\ UNCHANGED <<ownerVars, rules, serverVars, guardVars>>
-----------------------------------------------------------------------------
(***************************************************************************)
(* The guardian                                                            *)
(***************************************************************************)

OnlyGuardian == UNCHANGED <<ownerVars, wpc, rules, serverVars, cancel>>

\* Mutant: the guardian waits without a first look.
GuardOpenWaits ==
  /\ gpc = "open"
  /\ gpc' = "wait" /\ watch' = "armed" /\ watching' = TRUE
  /\ OnlyGuardian /\ UNCHANGED <<used, fresh, failure, tableMx, rule>>

\* RuleWatch::Open, and the first look before any wait.
GuardOpen ==
  /\ gpc = "open"
  /\ \/ gpc' = "look" /\ watch' = "armed" /\ watching' = TRUE
     \/ "watch" \in events /\ gpc' = "wait" /\ watch' = "off" /\ watching' = FALSE
  /\ OnlyGuardian /\ UNCHANGED <<used, fresh, failure, tableMx, rule>>

LookFree == tableMx = "free"

\* Mutant: the repairs are not counted.
SpendNothing == UNCHANGED <<used, fresh>>

\* RepairBudget::Allow: whether another repair is let through, and the count.
Allowed == fresh \/ used < MaxRepairs
Spend == used' = (IF fresh THEN 1 ELSE used + 1) /\ fresh' = FALSE

\* Mutant: the rule is rewritten whenever something changed.
NeedsRepairAlways == rules # NoNames \/ ~RuleMatches(rules)

NeedsRepair == ~RuleMatches(rules)

\* RepairRuleIfNeeded up to the decision, and the first step of InstallRule.
GuardLook ==
  /\ gpc = "look" /\ LookFree
  /\ \/ /\ ~NeedsRepair
        /\ gpc' = "wait"
        /\ UNCHANGED <<used, fresh, failure, tableVars>>
     \/ /\ NeedsRepair /\ Allowed
        /\ Spend
        /\ tableMx' = "guardian" /\ RemoveRule
        /\ gpc' = "write"
        /\ UNCHANGED failure
     \/ /\ NeedsRepair /\ ~Allowed
        /\ Spend
        /\ failure' = "RuleUnholdable"
        /\ gpc' = "exited"
        /\ UNCHANGED tableVars
  /\ OnlyGuardian /\ UNCHANGED watching

GuardWrite ==
  /\ gpc = "write"
  /\ \/ InstallRule(rules, TRUE) /\ gpc' = "confirm" /\ UNCHANGED <<tableMx, failure>>
     \/ /\ InstallRule(rules, FALSE)
        /\ failure' = "RuleUnholdable"
        /\ gpc' = "exited" /\ tableMx' = "free"
  /\ OnlyGuardian /\ UNCHANGED <<watching, used, fresh>>

\* The write is read back; a difference ends the watch of the rule.
GuardConfirm ==
  /\ gpc = "confirm"
  /\ watching' = RuleMatches(rules)
  /\ gpc' = "wait" /\ tableMx' = "free"
  /\ OnlyGuardian /\ UNCHANGED <<used, fresh, failure, rule, watch>>

\* The wait reports the first handle that is set: cancel, the server, the rule.
GuardCancelled ==
  /\ gpc = "wait" /\ cancel
  /\ gpc' = "exited"
  /\ OnlyGuardian /\ UNCHANGED <<watching, used, fresh, failure, tableVars>>

GuardServerStopped ==
  /\ gpc = "wait" /\ ~cancel /\ loop # "running"
  /\ failure' = "ServerStopped"
  /\ gpc' = "exited"
  /\ OnlyGuardian /\ UNCHANGED <<watching, used, fresh, tableVars>>

GuardRuleChanged ==
  /\ gpc = "wait" /\ ~cancel /\ loop = "running"
  /\ watching /\ watch = "signalled"
  /\ gpc' = "rearm"
  /\ OnlyGuardian /\ UNCHANGED <<watching, used, fresh, failure, tableVars>>

\* Rearm before reading. Without a subscription only the server is watched.
GuardRearm ==
  /\ gpc = "rearm"
  /\ \/ gpc' = "look" /\ watch' = "armed" /\ UNCHANGED watching
     \/ "watch" \in events /\ gpc' = "wait" /\ watch' = "off" /\ watching' = FALSE
  /\ OnlyGuardian /\ UNCHANGED <<used, fresh, failure, tableMx, rule>>

GuardWaitFails ==
  /\ gpc = "wait" /\ "wait" \in events
  /\ gpc' = "exited"
  /\ OnlyGuardian /\ UNCHANGED <<watching, used, fresh, failure, tableVars>>
-----------------------------------------------------------------------------
(***************************************************************************)
(* The environment                                                         *)
(***************************************************************************)

\* select() fails and the server's loop ends; its sockets stay bound.
ServerEnds ==
  /\ "select" \in events /\ loop = "running"
  /\ loop' = "ended"
  /\ UNCHANGED <<ownerVars, wpc, rules, bound, guardVars, tableVars>>

\* kWindowMs since the window was opened.
WindowEnds ==
  /\ "window" \in events /\ ~fresh
  /\ fresh' = TRUE
  /\ UNCHANGED <<ownerVars, wpc, rules, serverVars, gpc, cancel, watching, used,
                 failure, tableVars>>

\* The process dies. Only the registry remembers it.
Crash ==
  /\ "crash" \in events /\ opc # "crashed"
  /\ opc' = "crashed" /\ gpc' = "none" /\ wpc' = "none" /\ tableMx' = "free"
  /\ cancel' = FALSE /\ rules' = NoNames /\ captured' = NoNames
  /\ endpoint' = Default /\ loop' = "stopped" /\ bound' = Default
  /\ watching' = FALSE /\ watch' = "off" /\ used' = 0 /\ fresh' = TRUE
  /\ failure' = "None"
  /\ UNCHANGED rule

\* EnforceCleanSlate of the next run comes before anything is started.
EnforceCleanSlate ==
  /\ opc = "crashed"
  /\ RemoveRule
  /\ OwnerGoes("idle")
  /\ UNCHANGED <<wpc, rules, serverVars, guardVars, tableMx>>
-----------------------------------------------------------------------------
\* The calls of the owner, once begun.
Owner ==
  \/ CancelGuardian
  \/ StartCapture \/ StartServer \/ StartRemove \/ StartWrite \/ StartGuardian
  \/ RollJoin \/ StopJoin \/ DisableHotReload \/ TakeBack \/ StopServer

Guard ==
  \/ GuardOpen \/ GuardLook \/ GuardWrite \/ GuardConfirm
  \/ GuardCancelled \/ GuardServerStopped \/ GuardRuleChanged \/ GuardRearm

Call ==
  \/ \E ep \in Endpoints : SetEndpoint(ep)
  \/ \E r \in RuleSets : LoadRules(r)
  \/ EnableHotReload \/ StartBegin \/ StopBegin

Environment ==
  \/ Tamper \/ ServerEnds \/ WindowEnds \/ Crash \/ GuardWaitFails
  \/ \E r \in RuleSets : Reload(r)

Next ==
  /\ Call \/ Owner \/ Guard \/ ReloadWrite \/ EnforceCleanSlate \/ Environment
  /\ UNCHANGED events

Spec == Init /\ [][Next]_<<vars, events>>

\* Every thread of the program goes on with what it has begun. A thread that
\* waits for m_tableMx gets it when it is free again and again: two reloads
\* are half a second apart (the debounce). Nothing obliges other software to
\* leave the table alone.
FairSpec == Spec /\ SF_vars(Owner) /\ SF_vars(Guard) /\ WF_vars(ReloadWrite)
-----------------------------------------------------------------------------
(***************************************************************************)
(* Properties                                                              *)
(***************************************************************************)

\* Every variable keeps its type, and m_tableMx is held by the thread that is
\* inside InstallRule.
TypeOK ==
  /\ events \in Environments
  /\ opc \in OwnerStates /\ gpc \in GuardStates
  /\ wpc \in {"none", "watching", "write"}
  /\ tableMx \in {"free", "owner", "guardian", "watcher"}
  /\ rules \in RuleSets /\ captured \in RuleSets
  /\ endpoint \in Endpoints /\ bound \in Endpoints
  /\ loop \in {"running", "ended", "stopped"}
  /\ rule \in Ours \cup {NoRule, Foreign}
  /\ cancel \in BOOLEAN /\ watching \in BOOLEAN /\ fresh \in BOOLEAN
  /\ watch \in {"off", "armed", "signalled"}
  /\ used \in 0..(MaxRepairs + 1)
  /\ failure \in {"None", "ServerStopped", "RuleUnholdable"}
  /\ tableMx = "guardian" <=> gpc \in {"write", "confirm"}
  /\ tableMx = "watcher" <=> wpc = "write"
  /\ opc = "startWrite" => tableMx = "owner"
  /\ tableMx = "owner" => opc \in {"startWrite", "rollJoin", "rollRemove"}

\* What the code makes no provision for: a registry that will not delete the
\* key, and three orders of calls services.cpp never uses.
Foreseen == events \cap {"remove", "repoint", "restart", "early"} = {}

\* No name is ever routed to a port that nothing is bound to: while the
\* program lives, a rule of ours names the endpoint the server's sockets are
\* bound to, through every start, stop, roll-back, reload and repair.
RuleServed ==
  Foreseen /\ rule \in Ours /\ opc # "crashed" => loop # "stopped" /\ bound = rule.ep

\* A rule that other software deletes or replaces is never missed: whenever
\* the guardian waits with its watch in force and the table does not say what
\* it should, the event it waits for is set. A server that has ended is what
\* the guardian will report first. (A reload whose write fails is not noticed.)
DriftIsNoticed ==
  Foreseen /\ "install" \notin events /\ gpc = "wait" /\ watching /\ ServerRunning
    /\ tableMx = "free" /\ ~RuleMatches(rules)
    => watch = "signalled"

\* After a stop this object holds no thread, no socket and no registry key,
\* and reports no failure, whatever was going on when the stop came.
StoppedHoldsNothing ==
  Foreseen /\ opc = "idle" /\ loop = "stopped" =>
    gpc = "none" /\ rule \notin Ours /\ failure = "None" /\ wpc # "write"

\* The guardian never takes the program's own writes for interference: with
\* nobody else at the table, redirection is not given up.
OwnWritesTrusted ==
  Foreseen /\ events \cap {"tamper", "install"} = {} => failure # "RuleUnholdable"

\* A rule that is not what it should be while its watch is in force is put
\* back, or redirection is given up, or the watch is; unless the stack is
\* being started or stopped anyway.
RuleRestored ==
  (gpc = "wait" /\ watching /\ opc = "idle" /\ ~RuleMatches(rules))
    ~> (RuleMatches(rules) \/ failure # "None" \/ ~watching \/ opc # "idle")

\* A server whose loop ends on its own is reported, however busy the guardian
\* is with the rule.
ServerDeathReported ==
  (loop = "ended" /\ opc = "idle") ~> (failure # "None" \/ opc # "idle" \/ loop # "ended")

\* Within one window the guardian does not fight for the rule for ever.
FightEnds == []<>(opc # "idle" \/ "window" \in events) \/ <>[](gpc # "write")

(***************************************************************************)
(* Said of the program, and refuted by what it does: README, section 6.    *)
(***************************************************************************)
\* "Returns false having undone whatever it managed to do." (redirector.h,
\* Start): a start that has begun comes back.
StartReturns == opc = "startJoin" ~> opc \in {"idle", "crashed"}

\* "Is redirection actually in force?" (redirector.h, Running): it does not
\* answer yes for good over a table that does not hold the rule. Either the
\* table is as it should be, or somebody is about to look at it.
RunningInForce ==
  Running /\ opc = "idle" /\ wpc # "write" /\ ~RuleMatches(rules)
    => gpc \in {"open", "look", "write", "confirm", "rearm"} \/ watch = "signalled"
-----------------------------------------------------------------------------
(***************************************************************************)
(* What the safety properties follow from                                  *)
(***************************************************************************)

\* A call that has joined the guardian goes on without one, and a guardian
\* that goes on has not overdrawn the budget.
Joined ==
  /\ opc \in OwnerStates \ {"idle", "startJoin", "stopJoin"} => gpc = "none"
  /\ gpc \notin {"none", "exited"} => used <= MaxRepairs

\* Without the server there is no thread, no failure and no rule of ours; a
\* start or a roll-back has no watcher; a stop takes the rule back last but
\* one, when nobody is left who could write it again.
InStages ==
  /\ loop = "stopped" =>
       /\ gpc = "none" /\ wpc = "none" /\ failure = "None"
       /\ opc # "crashed" => rule \notin Ours
  /\ opc \in {"startJoin", "startServer", "crashed"} => loop = "stopped"
  /\ opc \in {"startRemove", "startWrite", "startGuardian", "rollJoin",
             "rollRemove", "rollServer"} => loop # "stopped" /\ wpc = "none"
  /\ opc \in {"stopRemove", "stopServer"} => wpc = "none"
  /\ opc \in {"rollServer", "stopServer"} => rule \notin Ours

\* The endpoint does not move under a running server, so whatever is written
\* names the one it is bound to.
OneEndpoint ==
  /\ loop # "stopped" => bound = endpoint
  /\ rule \in Ours /\ opc # "crashed" => rule.ep = endpoint

\* While the subscription has not fired the table is what it should be, or
\* the watcher is in the middle of a rewrite that began with nothing there.
Subscribed ==
  /\ gpc \in {"look", "write", "confirm", "rearm"} \/ (gpc = "wait" /\ watching)
       => watch # "off"
  /\ gpc = "wait" /\ watching /\ ServerRunning /\ watch = "armed" =>
       IF wpc = "write" THEN rule = NoRule ELSE RuleMatches(rules)

\* With nobody else at the table it says what was last written, so the
\* guardian has nothing to repair while the server runs, and what a reload
\* leaves behind after its end costs one repair.
Undisturbed ==
  /\ opc \in {"startServer", "startRemove", "startWrite"} => captured = rules
  /\ opc = "startWrite" \/ wpc = "write" => rule = NoRule
  /\ ServerRunning /\ tableMx = "free" /\ opc \in {"startGuardian", "idle", "stopJoin"}
       => RuleMatches(rules)
  /\ gpc \in {"open", "look", "rearm"} => fresh
  /\ gpc \in {"write", "confirm"} => ~ServerRunning
  /\ gpc = "wait" => fresh \/ ~ServerRunning
  /\ failure # "RuleUnholdable"

InOrder ==
  /\ Joined
  /\ Foreseen => InStages /\ OneEndpoint
  /\ Foreseen /\ "install" \notin events => Subscribed
  /\ Foreseen /\ events \cap {"tamper", "install"} = {} => Undisturbed
=============================================================================
