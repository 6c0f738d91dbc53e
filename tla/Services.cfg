CONSTANTS
  Callers = {t1, t2}
  Sups = {s1, s2, s3}
  Main = Main
  NoThread = NoThread
  Kinds = {"start", "autostart", "stop", "clean"}
  Faults = {"down", "launch", "holder", "config", "dnsclient"}
  Absent = Absent
  NotRunning = NotRunning
SPECIFICATION ServicesSpec
SYMMETRY Symmetry
INVARIANTS NothingUpAfterExit StackWhole StackIsWatched
  OnlyThoseInTheWay AuditsAreRight AppliedIsOneRelease  InstallUsable
PROPERTIES NoStaleTeardown
CHECK_DEADLOCK FALSE
