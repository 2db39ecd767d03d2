CONSTANTS
  Blocks = 5
  Entries = 3
  Contents = {old, new}
  Erased = Erased
  Mixed = Mixed
  MaxFds = 3
  Weights <- MCWeights
  Default = old
  NoFile = NoFile
  Empty = Empty
  Broken = Broken
  MaxOps = 4
  MaxCuts = 1
SPECIFICATION Spec
INVARIANTS TypeOK NothingLost NoneLeaked Accounted HasRoom
PROPERTIES NoRevival StaysMountable BootEnds
CHECK_DEADLOCK FALSE
