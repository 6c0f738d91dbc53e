CONSTANTS
  Queries = {q1, q2}
  Conns = {c1}
  Upstreams = {u1, u2}
  Workers = {w1}
  MaxPending = 1
  MaxSessions = 1
  MaxQueued = 1
  MaxBuffered = 2
  QueryTicks = 1
  IdleTicks = 2
  Udp = Udp
  Malformed = Malformed
  NoQuery = NoQuery
SPECIFICATION Spec
SYMMETRY Symmetry
INVARIANTS AnsweredOnce Accounted FailureIsPosted NothingRunsForNobody
PROPERTIES ResponseNotReplaced
CHECK_DEADLOCK FALSE
