\* Every process gives up before the sender does: 1 < 2 * 2.
CONSTANTS
  Sender = sender
  Main = main
  Cal = cal
  Data = data
  Procs = {sender, main, cal, data}
  Sensors = {ms5637}
  MaxAttempts = 2
  RetryDelay = 2
  SeqMod = 8
  Server = a1
  Addr = {a1}
  Body <- MCBody
  NoProc = NoProc
  NoMsg = NoMsg
  Settle = 1
  Watch = 1
  SensorInterval = 2
  RetryInterval = 1
  MaxFailures = 2
  MaxSeq = 2
  MaxFin = 1
  MaxLines = 1
  MaxChanges = 0
  MaxRuns = 0
  MaxBoots = 1
SPECIFICATION AirborneFairSpec
PROPERTIES DataAfterCal AirborneCycleEnds SilenceReboots
CHECK_DEADLOCK FALSE
