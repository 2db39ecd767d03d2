\* Packets of 1 and 2 words fit the buffers, with their header those of 3 do not.
CONSTANTS
  Regs = {0}
  Sizes = {1, 2, 3}
  Cap = 3
  Queued = {0, 1}
  NoXfer = NoXfer
  NoProc = NoProc
  MaxRadio = 3
  MaxJobs = 4
SPECIFICATION FairSpec
INVARIANTS TypeOK NoLostWakeup InStep InOrder
PROPERTIES FetchedWhole JobEnds
CHECK_DEADLOCK FALSE
