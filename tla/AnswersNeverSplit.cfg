CONSTANTS
  kMinUdpPayload = 50
  kMaxUdpPayload = 80
  kMaxNameChars = 46
  Exchanges <- MCExchanges
  RepliesTo <- MCRepliesTo
  None = None
SPECIFICATION Spec
INVARIANTS RecordsNeverSplit
CHECK_DEADLOCK FALSE
