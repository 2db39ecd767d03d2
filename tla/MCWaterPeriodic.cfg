\* A calibration process that gives up before the sender does: 1 < 2 * 2.
CONSTANTS
  Sender = sender
  Main = main
  Cal = cal
  Data = data
  Procs = {sender, main, cal, data}
  Sensors = {tcs3472}
  Color = tcs3472
  MaxAttempts = 2
  RetryDelay = 2
  SeqMod = 8
  Server = a1
  Addr = {a1}
  Body <- MCBody
  NoProc = NoProc
  NoMsg = NoMsg
  Settle = 1
  Watch = 2
  SensorInterval = 2
  RetryInterval = 1
  MaxFailures = 2
  MaxSeq = 2
  MaxFin = 1
  MaxLines = 0
  MaxChanges = 0
  MaxRuns = 0
  MaxBoots = 0
SPECIFICATION FairSpec
PROPERTIES Periodic
CHECK_DEADLOCK FALSE
