--------------------------- MODULE EndpointsCases ---------------------------
(***************************************************************************)
(* A machine for Endpoints.  "orphan" is a child an earlier run left and   *)
(* "moved" one it left at another place; "squatter" holds a port of ours   *)
(* and has a child of its own; "neighbour" holds the port on an address    *)
(* nobody asks for; "guard" belongs to the system.                         *)
(***************************************************************************)
EXTENDS Naturals, Sequences, TLC

MCOthers == {"orphan", "moved", "squatter", "child", "neighbour", "guard"}
MCImageOf ==
  "orphan" :> "ours" @@ "moved" :> "moved" @@ "squatter" :> "foreign" @@ "child" :> "foreign"
    @@ "neighbour" :> "foreign" @@ "guard" :> "critical"
MCParentOf == [p \in MCOthers |-> IF p = "child" THEN "squatter" ELSE "nobody"]

MCCalls == "t1" :> {"interactive", "stop"} @@ "t2" :> {"quiet"}

Socket(by, address, port, transport, mode) ==
  [by |-> by, of |-> 0, address |-> address, port |-> port, transport |-> transport,
   mode |-> mode, listed |-> TRUE]

Neighbour == Socket("neighbour", "lo2", 53, "udp", "exclusive")
Entry(address, port, transport, mode) ==
  [address |-> address, port |-> port, transport |-> transport, mode |-> mode]
Web == Entry("any4", 443, "tcp", "default")
Scenario(ports, listeners, resolver, open) ==
  [declared |-> [ports |-> ports, listeners |-> listeners, resolver |-> resolver],
   open |-> open \cup {Neighbour}]

MCScenarios ==
  {Scenario(<<Web, Entry("any4", 0, "tcp", "reuse")>>, <<>>, "lo1",
            {Socket("squatter", "lo1", 53, "udp", "default"),
             Socket("orphan", "any4", 443, "tcp", "default")}),
   Scenario(<<Web>>, <<>>, "lo1",
            {Socket("system", "lo2", 443, "tcp", "exclusive"),
             Socket("moved", "any4", 443, "tcp", "default")}),
   Scenario(<<>>, <<>>, "lo1",
            {Socket("squatter", "any6", 53, "udp", "default"),
             Socket("guard", "lo1", 53, "tcp", "exclusive")}),
   Scenario(<<>>, <<[address |-> "lo1", port |-> 53]>>, "name", {}),
   Scenario(<<Entry("any4", 445, "tcp", "reuse")>>, <<>>, "lo1", {}),
   Scenario(<<Entry("name", 53, "tcp", "reuse")>>, <<>>, "lo6", {})}
=============================================================================
