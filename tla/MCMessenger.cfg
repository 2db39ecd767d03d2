\* One client waits longer than the sender tries, the other one gives up
\* while the sender still tries.
CONSTANTS
  Sender = sender
  Clients = {cal, data}
  Procs = {sender, cal, data}
  MaxAttempts = 3
  RetryDelay = 2
  Patience <- MCPatience
  Steady = {cal}
  SeqMod = 8
  Addr = {a1}
  Body = {reading}
  NoProc = NoProc
  NoMsg = NoMsg
  MaxSeq = 3
  MaxFin = 2
  MaxLines = 1
SPECIFICATION Spec
INVARIANTS TypeOK NoStall AckHonest ReportedOk TransmissionBound
PROPERTIES KeepsPromise
CHECK_DEADLOCK FALSE
