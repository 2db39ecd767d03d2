CONSTANTS
  client = client
  Client = client
  Procs <- MCProcs
  Tries = 2
  Regs = 2
  Wrap = 4
  MaxFaults = 2
  Watch = 4
  Pause = 2
  MaxMeasures = 2
SPECIFICATION Spec
INVARIANTS TypeOK RangesHonest Collected
PROPERTIES StartsClean MeasurementEnds
CHECK_DEADLOCK FALSE
