CONSTANTS
  Starters = {"t1", "t2"}
  Calls <- MCCalls
  Others <- MCOthers
  ImageOf <- MCImageOf
  ParentOf <- MCParentOf
  Stubborn = {"moved"}
  Scenarios <- MCScenarios
  LocalAddresses = {"any4", "any6", "lo1", "lo2"}
  ExcludedPorts = {445}
  MaxMoves = 1
  Nobody = "nobody"
SPECIFICATION Spec
INVARIANTS AskedFirst
CHECK_DEADLOCK FALSE
