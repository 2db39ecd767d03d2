\* A fin that is left over.
CONSTANTS
  Sender = sender
  Clients = {cal, data}
  Procs = {sender, cal, data}
  MaxAttempts = 3
  RetryDelay = 2
  Patience <- MCPatience
  Steady = {cal}
  SeqMod = 8
  Addr = {a1}
  Body = {reading}
  NoProc = NoProc
  NoMsg = NoMsg
  MaxSeq = 3
  MaxFin = 2
  MaxLines = 1
SPECIFICATION Spec
PROPERTIES FinIsForCurrent
CHECK_DEADLOCK FALSE
