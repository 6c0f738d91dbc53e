CONSTANTS
  Queries = {q1, q2}
  Question <- DistinctQuestions
  Conns = {c1, c2}
  Servers4 = {u1}
  Servers6 = {}
  Ids = {i1}
  MaxPending = 2
  MaxSessions = 1
  MaxQueried = 2
  MaxBuffered = 1
  ForwardTicks = 1
  IdleTicks = 1
  RefreshTicks = 1
  Udp = Udp
  Malformed = Malformed
  None = None
SPECIFICATION FairSpec
INVARIANTS OwnAnswer NothingForgotten EndIsSignalled
PROPERTIES ImplementsService
CHECK_DEADLOCK FALSE
