\* Liveness, with a receiver that is configured anew.
CONSTANTS
  Sender = sender
  Clients = {cal, data}
  Procs = {sender, cal, data}
  MaxAttempts = 2
  RetryDelay = 2
  Patience <- MCPatience
  Steady = {cal}
  SeqMod = 8
  Addr = {a1, a2}
  Body = {reading}
  NoProc = NoProc
  NoMsg = NoMsg
  MaxSeq = 2
  MaxFin = 1
  MaxLines = 1
SPECIFICATION FairSpec
PROPERTIES SendEnds ClientEnds
CHECK_DEADLOCK FALSE
