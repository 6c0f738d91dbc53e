CONSTANTS
  r1 = r1
  r2 = r2
  none = none
  e1 = e1
  e2 = e2
  RuleSets = {r1, r2, none}
  NoNames = none
  Endpoints = {e1, e2}
  Default = e1
  MaxRepairs = 2
  NoRule = NoRule
  Foreign = Foreign
  Environments <- AllEnvironments
SPECIFICATION FairSpec
INVARIANTS RuleServed StoppedHoldsNothing OwnWritesTrusted DriftIsNoticed
PROPERTIES GuardianAttends
