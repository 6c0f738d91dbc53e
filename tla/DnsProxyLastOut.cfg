CONSTANTS
  Queries = {q1}
  Conns = {}
  Upstreams = {u1, u2}
  Workers = {w1, w2}
  MaxPending = 1
  MaxSessions = 1
  MaxQueued = 2
  MaxBuffered = 1
  QueryTicks = 1
  IdleTicks = 2
  Udp = Udp
  Malformed = Malformed
  NoQuery = NoQuery
SPECIFICATION Spec
PROPERTIES FailedOnlyByTheLast
CHECK_DEADLOCK FALSE
