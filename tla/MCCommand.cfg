\* Two device types, a flash that fails once, a power failure or two.
CONSTANTS
  DevTypes = {water, airborne}
  DefaultServer = 1
  Tokens <- MCTokens
  Values <- MCValues
  Word = 65536
  Short = 256
  MaxFds = 2
  NoDevice = NoDevice
  NoFile = NoFile
  Empty = Empty
  Broken = Broken
  MaxErrors = 1
  MaxChanges = 1
  MaxBoots = 2
  MaxSegments = 2
  Lengths = {3, 4}
  Requests <- MCRequests
  Readings = {0, 100}
  Nothing = Nothing
SYMMETRY DevSymmetry
SPECIFICATION Spec
INVARIANTS TypeOK FileInLimits NoneLost
PROPERTIES SavedSurvives ReplyTrue
CHECK_DEADLOCK FALSE
