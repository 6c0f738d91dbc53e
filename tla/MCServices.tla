----------------------------- MODULE MCServices -----------------------------
(***************************************************************************)
(* Three components that change the machine, in small instances:           *)
(* ServiceStack, on that of MCServiceStack; Endpoints (whose sockets are   *)
(* in the way of the services, and what is done to them), on that of       *)
(* EndpointsCases; and Updates (the files of an update, over the processes *)
(* and restarts that touch them).  ServiceStack takes every answer that    *)
(* Endpoints gives a start, and an update begins when the services are     *)
(* down, so a behaviour need only be one of them at work, named by `part'; *)
(* the others stay as they begin.                                          *)
(***************************************************************************)
EXTENDS MCServiceStack

CONSTANTS Absent, NotRunning

VARIABLES
  part,
  claims, sockets, killed, th, lock, serving, moves, met,
  disk, opened, doomed, served, running, step, release, attempt, todo, file, staged, verified,
  allNew, movedBak, applied, outcome, before, plan, goal, module, upc, stops, events

stackPart == vars
endpointsVars == <<claims, sockets, killed, th, lock, serving, moves, met>>
updatesVars ==
  <<disk, opened, doomed, served, running, step, release, attempt, todo, file, staged, verified,
    allNew, movedBak, applied, outcome, before, plan, goal, module, upc, stops, events>>
servicesVars == <<part, stackPart, endpointsVars, updatesVars>>

LOCAL Case == INSTANCE EndpointsCases

E == INSTANCE EndpointsProofs WITH
  opMx <- lock, up <- serving,
  Starters <- {"t1", "t2"}, Calls <- Case!MCCalls, Others <- Case!MCOthers,
  ImageOf <- Case!MCImageOf, ParentOf <- Case!MCParentOf, Stubborn <- {"moved"},
  Scenarios <- Case!MCScenarios, LocalAddresses <- {"any4", "any6", "lo1", "lo2"},
  ExcludedPorts <- {445}, MaxMoves <- 1, Nobody <- "nobody"

ASSUME EndpointsInstance == E!EndpointsAssumption

(***************************************************************************)
(* Updates, with its theorems: two assets, of which the releases share     *)
(* some contents, and a release that lists only one of them.               *)
(***************************************************************************)
TwoAssets == {"a", "b"}
Program == "x"
MCRelease ==
  0 :> [a |-> "a0", b |-> "b0", x |-> "x0"] @@
  1 :> [a |-> "a1", b |-> "b1", x |-> "x1"] @@
  2 :> [a |-> "a2", x |-> "x2"]
MCInstalled == {"a0", Absent}

\* A release replaced and a transfer failing; the user and the disk; files held
\* open; deaths half-way; a restart with an image that stays locked.
MCEnvironments ==
  {{"publish", "net"}, {"cancel", "disk"}, {"held"}, {"order", "remove"}, {"kill", "publish"},
   {"kill", "held"}, {"reboot", "locked", "remove"}, {"slow", "again"}}

U == INSTANCE UpdatesProofs WITH
  held <- opened, pc <- step, current <- release,
  Assets <- TwoAssets, Exe <- Program, Release <- MCRelease, Installed <- MCInstalled,
  MaxStops <- 1, Environments <- MCEnvironments,
  Partial <- "partial"

ASSUME UpdatesInstance == U!UpdatesAssumption

-----------------------------------------------------------------------------
Quiet == CHOOSE s \in Case!MCScenarios : s.open = {Case!Neighbour}

ServicesInit ==
  /\ Init /\ E!Init /\ U!Init
  /\ part \in {"stack", "endpoints", "updates"}
  /\ part # "endpoints" => claims = E!RequiredPorts(Quiet.declared)
  /\ part # "updates" =>
       /\ events = {"held"} /\ served = 1 /\ module = Absent
       /\ \A f \in TwoAssets : U!Place(f) = Absent

Of(p) == part = p /\ UNCHANGED part
ServicesNext ==
  \/ Of("stack") /\ Next /\ UNCHANGED <<endpointsVars, updatesVars>>
  \/ Of("endpoints") /\ E!Next /\ UNCHANGED <<stackPart, updatesVars>>
  \/ Of("updates") /\ U!Next /\ UNCHANGED <<stackPart, endpointsVars>>

ServicesSpec == ServicesInit /\ [][ServicesNext]_servicesVars

-----------------------------------------------------------------------------
\* Only who is in the way is terminated: before a start the leftovers of this
\* program, later a process that has held a required endpoint, and what these
\* started; and every variable has its type (Endpoints: services.cpp:1031-1095,
\* ports.cpp).
OnlyThoseInTheWay == part = "endpoints" => E!TypeOK /\ E!OnlyThoseInTheWay

\* What an audit says of the claims is so, unless a socket was opened or closed
\* while it looked (Endpoints: ports.cpp).
AuditsAreRight == part = "endpoints" => E!AuditsAreRight

\* What is called applied is one release and not a mixture, whatever was
\* replaced, reused or killed half-way (Updates: client.cpp:195-255, 637-794).
AppliedIsOneRelease == part = "updates" => U!AppliedIsOneRelease

\* A run that fails or is cancelled leaves what it found (Updates:
\* client.cpp:687-697, 750-767).
NotAppliedUntouched == part = "updates" => U!NotAppliedUntouched

\* Whoever dies when, nothing that was not verified is ever in a file's place,
\* there is an executable to go back to, and every variable has its type
\* (Updates: client.cpp:134-172, updater.cpp:119-158).
InstallUsable ==
  part = "updates" => U!TypeOK /\ U!NothingPartialInPlace /\ U!ExecutableSomewhere
=============================================================================
