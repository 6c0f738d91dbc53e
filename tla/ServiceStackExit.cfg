CONSTANTS
  Callers = {t1, t2}
  Sups = {s1, s2}
  Main = Main
  NoThread = NoThread
  Kinds = {"start", "stop"}
  Faults = {"down", "launch", "thread", "holder"}
SPECIFICATION FairUserSpec
PROPERTIES HalfUpIsTakenDown 
CHECK_DEADLOCK FALSE
