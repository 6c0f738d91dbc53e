CONSTANTS
  r1 = r1
  r2 = r2
  none = none
  e1 = e1
  e2 = e2
  RuleSets = {r1, none}
  NoNames = none
  Endpoints = {e1}
  Default = e1
  MaxRepairs = 1
  NoRule = NoRule
  Foreign = Foreign
  Environments = {{"install"}}
SPECIFICATION FairSpec
PROPERTIES StartReturns
CHECK_DEADLOCK FALSE
