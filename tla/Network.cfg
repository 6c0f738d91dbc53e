CONSTANTS
  Chunks = 2
  Pieces = 1
  None = None
SPECIFICATION FairNetworkSpec
INVARIANTS NoUseAfterFree HandlesInOneHand SocketsClosedOnce OneFetchBehindTheSlot PiecesDoNotMatter
  AnswersAreWhole
PROPERTIES EverybodyFinishes
CHECK_DEADLOCK FALSE
