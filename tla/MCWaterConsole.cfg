\* Safety, with a console: a line, a changed calibration, a run command.
CONSTANTS
  Sender = sender
  Main = main
  Cal = cal
  Data = data
  Procs = {sender, main, cal, data}
  Sensors = {tcs3472}
  Color = tcs3472
  MaxAttempts = 2
  RetryDelay = 2
  SeqMod = 8
  Server = a1
  Addr = {a1}
  Body <- MCBody
  NoProc = NoProc
  NoMsg = NoMsg
  Settle = 1
  Watch = 2
  SensorInterval = 2
  RetryInterval = 5
  MaxFailures = 2
  MaxSeq = 3
  MaxFin = 1
  MaxLines = 1
  MaxChanges = 1
  MaxRuns = 1
  MaxBoots = 0
SPECIFICATION Spec
INVARIANTS DoneComes
PROPERTIES FailuresInARow
CHECK_DEADLOCK FALSE
