CONSTANTS
  Queries = {q1, q2}
  Conns = {c1}
  Upstreams = {u1}
  Workers = {w1}
  MaxPending = 2
  MaxSessions = 1
  MaxQueued = 1
  MaxBuffered = 1
  QueryTicks = 1
  IdleTicks = 2
  Udp = Udp
  Malformed = Malformed
  NoQuery = NoQuery
SPECIFICATION FairSpec
PROPERTIES ImplementsService Resolved StopCompletes
CHECK_DEADLOCK FALSE
