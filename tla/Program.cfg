CONSTANTS
  Workers = {"w1", "w2"}
  MaxNest = 2
  Occasions <- MCOccasions
  Kids = {"k1"}
  Script <- MCScript
  Lines <- MCLines
  kMaxPendingBytes = 1
  Worlds = {{"fails"}, {"nojob"}, {"stuck"}, {"slow"}}
  MaxEdits = 3
  MaxStrays = 1
  Troubles = {{}, {"overflow", "fails"}, {"busy"}, {"locked"}, {"unissued"}, {"nodir"}, {"nothread"}, {"noevent"}}
SPECIFICATION FairProgramSpec
INVARIANTS RequestsAnsweredInTime ServicesAsFound StoppedMeansOver WrittenInWholeLines
PROPERTIES EverybodyGetsOn
CHECK_DEADLOCK FALSE
