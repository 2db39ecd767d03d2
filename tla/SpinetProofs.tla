---------------------------- MODULE SpinetProofs ----------------------------
(***************************************************************************)
(* Proofs about Spinet.  Whatever the PI asks for and the radio brings: no *)
(* process waits for a wake-up that never comes, the two ends stay in      *)
(* step, the packets of the PI are injected once each, whole and in order, *)
(* and a packet from the radio that is not overtaken is fetched whole.     *)
(***************************************************************************)
EXTENDS Spinet, SequenceTheorems, TLAPS

(* The process whose turn it is waits for the end of a transfer that is     *)
(* armed, or has been polled.                                               *)
Waits(p) ==
  /\ spi_process_callback = p
  /\ \/ polled = {p} /\ xfer = NoXfer
     \/ polled = {} /\ xfer # NoXfer

(* It is always the turn of spi_rdcmd, of one handler, or of spi_rdcmd with *)
(* the event of that handler.                                               *)
CommandTurn == /\ rdcmd = "command" /\ handler = NoProc /\ ~spi_event
               /\ Waits("spi_rdcmd")
HandlerTurn == /\ rdcmd = "handler" /\ handler \in Handlers /\ ~spi_event
               /\ Waits(handler)
EventTurn   == /\ rdcmd = "handler" /\ handler = NoProc /\ spi_event
               /\ polled = {} /\ xfer = NoXfer
Turn == CommandTurn \/ HandlerTurn \/ EventTurn

(* A transfer never runs past its length. *)
Transfer == [buf : {"cmd", "topi", "frompi"}, len : Nat, at : Nat]
XferOK == xfer # NoXfer => xfer \in Transfer /\ xfer.at \in 1..xfer.len

(* Whatever is in spi_cmd, a length in it is a number. *)
WordOK(w) == w.kind \in {"topi", "frompi"} => w.a \in Nat
CmdOK ==
  /\ "cmd" \in DOMAIN buf /\ 1 \in DOMAIN buf.cmd
  /\ WordOK(buf.cmd[1])

(* The PI has a next word as long as it has a job. *)
Jobs == {"idle", "length", "clear", "fetch", "send", "read", "write", "other"}
JobRecord == [job : Jobs, arg : Nat, stage : {"command", "data"}, at : Nat]
Count(p) ==
  IF p.stage = "data" /\ p.job \in {"send", "fetch"} THEN p.arg ELSE 1
PiOK ==
  /\ pi \in JobRecord
  /\ pi.job \in {"fetch", "send"} => pi.arg > 0
  /\ pi.at \in 1..Count(pi)

Inv == Turn /\ XferOK /\ CmdOK /\ PiOK

LEMMA NoXferIsNone == NoXfer \notin Transfer
BY SpinetAssumption DEF Transfer

(* A transfer that is started when none is armed. *)
LEMMA StartXferWaits ==
  ASSUME NEW p, NEW name \in {"cmd", "topi", "frompi"}, NEW len \in Nat, NEW b,
         polled \subseteq {"spi_rdcmd"}, xfer = NoXfer,
         StartXfer(p, name, len, b), spi_process_callback' = p
  PROVE  Waits(p)' /\ XferOK' /\ buf' = b
<1>1. CASE len = 0
  BY <1>1 DEF StartXfer, Waits, XferOK
<1>2. CASE len # 0
  <2>1. /\ xfer' = [buf |-> name, len |-> len, at |-> 1]
        /\ polled' = {}
    BY <1>2 DEF StartXfer
  <2>2. xfer' \in Transfer /\ xfer'.at \in 1..xfer'.len
    BY <1>2, <2>1 DEF Transfer
  <2>. QED BY <2>1, <2>2, NoXferIsNone DEF StartXfer, Waits, XferOK
<1>. QED BY <1>1, <1>2

LEMMA OnesOK == WordOK(Ones) /\ \A v : WordOK(Word("value", v, 0))
BY DEF WordOK, Ones, Word

LEMMA ListenKeeps ==
  ASSUME CmdOK, polled \subseteq {"spi_rdcmd"}, xfer = NoXfer,
         Listen, handler' = NoProc, spi_event' = FALSE
  PROVE  Turn' /\ XferOK' /\ CmdOK'
<1>1. /\ Waits("spi_rdcmd")' /\ XferOK'
      /\ buf' = [buf EXCEPT !.cmd = <<Ones>>]
  BY StartXferWaits DEF Listen
<1>2. CmdOK'
  BY <1>1, OnesOK DEF CmdOK
<1>. QED BY <1>1, <1>2 DEF Turn, CommandTurn, Listen

LEMMA StartsKeeps ==
  ASSUME NEW h \in Handlers, NEW name \in {"cmd", "topi", "frompi"},
         NEW len \in Nat, NEW b,
         polled \subseteq {"spi_rdcmd"}, xfer = NoXfer,
         Starts(h, name, len, b), spi_event' = FALSE
  PROVE  Turn' /\ XferOK' /\ buf' = b
<1>1. Waits(h)' /\ XferOK' /\ buf' = b
  BY StartXferWaits DEF Starts
<1>. QED BY <1>1 DEF Turn, HandlerTurn, Starts

LEMMA RdCmdKeeps ==
  ASSUME Inv, RdCmd
  PROVE  Inv'
<1>. DEFINE c == buf.cmd[1]
<1>1. /\ polled \subseteq {"spi_rdcmd"} /\ xfer = NoXfer
      /\ handler = NoProc /\ spi_event' = FALSE
  BY DEF Inv, Turn, CommandTurn, HandlerTurn, EventTurn, Waits, RdCmd
<1>2. PiOK'
  BY DEF Inv, RdCmd, piVars, PiOK
<1>3. CASE c.kind = "read"
  <2>1. PICK v : Starts("spi_rdreg", "cmd", 1,
                        [buf EXCEPT !.cmd = <<Word("value", v, 0)>>])
    BY <1>3 DEF RdCmd
  <2>2. /\ Turn' /\ XferOK'
        /\ buf' = [buf EXCEPT !.cmd = <<Word("value", v, 0)>>]
    BY <1>1, <2>1, StartsKeeps DEF Handlers
  <2>3. CmdOK'
    BY <2>2, OnesOK DEF Inv, CmdOK
  <2>. QED BY <1>2, <2>2, <2>3 DEF Inv
<1>4. CASE c.kind = "write"
  <2>1. Starts("spi_wrreg", "cmd", 1, [buf EXCEPT !.cmd = <<Ones>>])
    BY <1>4 DEF RdCmd
  <2>2. Turn' /\ XferOK' /\ buf' = [buf EXCEPT !.cmd = <<Ones>>]
    BY <1>1, <2>1, StartsKeeps DEF Handlers
  <2>3. CmdOK'
    BY <2>2, OnesOK DEF Inv, CmdOK
  <2>. QED BY <1>2, <2>2, <2>3 DEF Inv
<1>5. CASE c.kind \in {"topi", "frompi"}
  <2>1. c.a \in Nat
    BY <1>5 DEF Inv, CmdOK, WordOK
  <2>2. \E h \in Handlers, name \in {"topi", "frompi"} : Starts(h, name, c.a, buf)
    BY <1>5 DEF RdCmd, Handlers
  <2>3. Turn' /\ XferOK' /\ buf' = buf
    BY <1>1, <2>1, <2>2, StartsKeeps
  <2>. QED BY <1>2, <2>3 DEF Inv, CmdOK
<1>6. CASE c.kind \notin {"read", "write", "frompi", "topi"}
  <2>1. Listen /\ handler' = handler
    BY <1>6 DEF RdCmd
  <2>. QED BY <1>1, <1>2, <2>1, ListenKeeps DEF Inv
<1>. QED BY <1>3, <1>4, <1>5, <1>6

LEMMA RdCmdResumesKeeps ==
  ASSUME Inv, RdCmdResumes
  PROVE  Inv'
<1>1. polled = {} /\ xfer = NoXfer /\ handler' = NoProc /\ spi_event' = FALSE
  BY DEF Inv, Turn, CommandTurn, HandlerTurn, EventTurn, RdCmdResumes
<1>2. PiOK'
  BY DEF Inv, RdCmdResumes, piVars, PiOK
<1>. QED BY <1>1, <1>2, ListenKeeps DEF Inv, RdCmdResumes

(* What the four handlers have in common when they end. *)
LEMMA EndsKeeps ==
  ASSUME Inv, handler \in Handlers, handler \in polled, handler' = NoProc,
         polled' = polled \ {handler}, spi_event' = TRUE,
         UNCHANGED <<rdcmd, xfer>>
  PROVE  Turn' /\ XferOK'
<1>1. rdcmd = "handler" /\ polled = {handler} /\ xfer = NoXfer
  BY SpinetAssumption DEF Inv, Turn, CommandTurn, HandlerTurn, EventTurn, Waits
<1>. QED BY <1>1 DEF Turn, EventTurn, XferOK

LEMMA PiKept ==
  ASSUME PiOK, UNCHANGED piVars
  PROVE  PiOK'
BY DEF piVars, PiOK

(* A packet from the radio does not touch spi_cmd. *)
LEMMA RplOutputKeeps ==
  ASSUME CmdOK, NEW size, RplOutput(size)
  PROVE  CmdOK'
<1>1. CASE UNCHANGED buf
  BY <1>1 DEF CmdOK
<1>2. CASE \E words : buf' = Filled("topi", words)
  BY <1>2 DEF Filled, CmdOK
<1>. QED BY <1>1, <1>2 DEF RplOutput

LEMMA HandlerEndsKeeps ==
  ASSUME Inv, RegisterRead \/ RegisterWrite \/ PacketTaken \/ PacketInjected
  PROVE  Inv'
<1>1. /\ handler \in Handlers /\ handler \in polled /\ handler' = NoProc
      /\ polled' = polled \ {handler} /\ spi_event' = TRUE
      /\ UNCHANGED <<rdcmd, xfer, piVars>>
  BY DEF RegisterRead, RegisterWrite, PacketTaken, PacketInjected, Ends, Handlers
<1>2. CASE UNCHANGED buf
  BY <1>1, <1>2, EndsKeeps, PiKept DEF Inv, CmdOK
<1>3. CASE \E size : RplOutput(size)
  BY <1>1, <1>3, EndsKeeps, PiKept, RplOutputKeeps DEF Inv
<1>4. UNCHANGED buf \/ \E size : RplOutput(size)
  BY DEF RegisterRead, RegisterWrite, PacketTaken, PacketInjected, Ends
<1>. QED BY <1>2, <1>3, <1>4

(* A step that leaves the processes and the transfer alone. *)
LEMMA TurnKept ==
  ASSUME Turn, XferOK, UNCHANGED <<procVars, xfer>>
  PROVE  Turn' /\ XferOK'
BY DEF procVars, Turn, CommandTurn, HandlerTurn, EventTurn, Waits, XferOK

LEMMA FromRadioKeeps ==
  ASSUME Inv, NEW size, FromRadio(size)
  PROVE  Inv'
BY TurnKept, PiKept, RplOutputKeeps DEF Inv, FromRadio

LEMMA BeginKeeps ==
  ASSUME Inv, NEW j \in Jobs \ {"idle"}, NEW x \in Nat,
         j \in {"fetch", "send"} => x > 0, Begin(Job(j, x))
  PROVE  Inv'
<1>1. UNCHANGED <<procVars, xfer, buf>> /\ pi' = Job(j, x)
  BY DEF Begin
<1>3. PiOK'
  BY <1>1 DEF PiOK, Job, JobRecord, Count
<1>. QED BY <1>1, <1>3, TurnKept DEF Inv, CmdOK
-----------------------------------------------------------------------------
(* The words of a job: as many as its packet has, and a length among them  *)
(* is a number.                                                             *)
LEMMA WordsType ==
  ASSUME NEW p \in JobRecord, p.job \in {"fetch", "send"} => p.arg > 0
  PROVE  /\ Len(WordsOf(p)) = Count(p)
         /\ \A i \in 1..Count(p) : WordOK(WordsOf(p)[i])
<1>1. CASE p.stage = "command"
  <2>1. WordOK(CommandOf(p))
    BY DEF WordOK, CommandOf, Word, JobRecord
  <2>2. WordsOf(p) = <<CommandOf(p)>>
    BY <1>1 DEF WordsOf
  <2>. QED BY <1>1, <2>1, <2>2 DEF Count
<1>2. CASE p.stage = "data" /\ p.job = "send"
  <2>1. WordsOf(p) = [i \in 1..p.arg |-> Word("out", Len(sent), i)]
    BY <1>2 DEF WordsOf, OutPacket
  <2>2. Len(WordsOf(p)) = p.arg
    BY <2>1 DEF JobRecord
  <2>3. \A i \in 1..p.arg : WordOK(WordsOf(p)[i])
    BY <2>1 DEF WordOK, Word
  <2>. QED BY <1>2, <2>2, <2>3 DEF Count
<1>3. CASE p.stage = "data" /\ p.job = "fetch"
  <2>1. WordsOf(p) = [i \in 1..p.arg |-> Ones]
    BY <1>3 DEF WordsOf
  <2>2. Len(WordsOf(p)) = p.arg
    BY <2>1 DEF JobRecord
  <2>3. \A i \in 1..p.arg : WordOK(WordsOf(p)[i])
    BY <2>1, OnesOK
  <2>. QED BY <1>3, <2>2, <2>3 DEF Count
<1>4. CASE p.stage = "data" /\ p.job \notin {"send", "fetch"}
  <2>1. \E w : WordsOf(p) = <<w>> /\ WordOK(w)
    BY <1>4, OnesOK DEF WordsOf
  <2>2. PICK w : WordsOf(p) = <<w>> /\ WordOK(w)
    BY <2>1
  <2>3. Count(p) = 1
    BY <1>4 DEF Count
  <2>. QED BY <2>2, <2>3
<1>. QED BY <1>1, <1>2, <1>3, <1>4 DEF JobRecord

(* The PI goes on to a job it may have, at its first word. *)
Fresh(p) ==
  p \in JobRecord /\ (p.job \in {"fetch", "send"} => p.arg > 0) /\ p.at = 1

LEMMA NextStageType ==
  ASSUME PiOK, NEW words
  PROVE  Fresh(NextStage(words))
<1>. DEFINE data   == pi.stage = "command" /\ pi.job # "other"
            length == /\ pi.stage = "data" /\ pi.job = "length"
                      /\ words[1].a \in 1..Cap
            fetch  == pi.stage = "data" /\ pi.job = "fetch"
<1>1. CASE data
  <2>1. NextStage(words) = [pi EXCEPT !.stage = "data", !.at = 1]
    BY <1>1 DEF NextStage
  <2>2. pi \in JobRecord /\ (pi.job \in {"fetch", "send"} => pi.arg > 0)
    BY DEF PiOK
  <2>3. [pi EXCEPT !.stage = "data", !.at = 1] \in JobRecord
    BY <2>2 DEF JobRecord
  <2>4. /\ [pi EXCEPT !.stage = "data", !.at = 1].job = pi.job
        /\ [pi EXCEPT !.stage = "data", !.at = 1].arg = pi.arg
        /\ [pi EXCEPT !.stage = "data", !.at = 1].at = 1
    BY <2>2 DEF JobRecord
  <2>. QED BY <2>1, <2>2, <2>3, <2>4 DEF Fresh
<1>2. CASE length
  <2>1. NextStage(words) = Job("fetch", words[1].a)
    BY <1>2 DEF NextStage
  <2>. QED BY <1>2, <2>1, SpinetAssumption DEF Job, Fresh, JobRecord, Jobs
<1>3. CASE fetch
  <2>1. NextStage(words) = Job("clear", 0)
    BY <1>3 DEF NextStage
  <2>. QED BY <2>1 DEF Job, Fresh, JobRecord, Jobs
<1>4. CASE ~data /\ ~length /\ ~fetch
  <2>1. NextStage(words) = Idle
    BY <1>4 DEF NextStage
  <2>. QED BY <2>1 DEF Idle, Fresh, JobRecord, Jobs
<1>. HIDE DEF data, length, fetch
<1>. QED BY <1>1, <1>2, <1>3, <1>4

LEMMA PiClocksPi ==
  ASSUME PiOK, PiClocks
  PROVE  PiOK'
<1>. DEFINE n == Len(WordsOf(pi))
<1>1. n = Count(pi) /\ n \in Nat
  BY WordsType DEF PiOK, Count, JobRecord
<1>2. CASE pi.at < n
  <2>1. pi' = [pi EXCEPT !.at = @ + 1]
    BY <1>2 DEF PiClocks
  <2>. HIDE DEF n
  <2>2. pi' \in JobRecord /\ Count(pi') = n
    BY <1>1, <2>1 DEF PiOK, JobRecord, Count
  <2>3. pi'.at \in 1..n /\ (pi'.job \in {"fetch", "send"} => pi'.arg > 0)
    BY <1>1, <1>2, <2>1 DEF PiOK, JobRecord
  <2>. QED BY <2>2, <2>3 DEF PiOK
<1>3. CASE ~(pi.at < n)
  <2>1. PICK words : pi' = NextStage(words)
    BY <1>3 DEF PiClocks
  <2>2. /\ pi' \in JobRecord
        /\ pi'.job \in {"fetch", "send"} => pi'.arg > 0
        /\ pi'.at = 1
    BY <2>1, NextStageType DEF Fresh
  <2>3. 1 \in 1..Count(pi')
    BY <2>2 DEF Count, JobRecord
  <2>. QED BY <2>2, <2>3 DEF PiOK
<1>. QED BY <1>2, <1>3

(* The end of a transfer polls the process whose turn it is. *)
LEMMA PiClocksTurn ==
  ASSUME Inv, PiClocks
  PROVE  Turn' /\ XferOK'
<1>1. UNCHANGED <<rdcmd, handler, spi_process_callback, spi_event>>
  BY DEF PiClocks
<1>2. CASE xfer = NoXfer
  <2>1. xfer' = NoXfer /\ polled' = polled
    BY <1>2 DEF PiClocks
  <2>. QED BY <1>1, <1>2, <2>1, TurnKept DEF Inv, procVars
<1>3. CASE xfer # NoXfer
  <2>1. /\ spi_process_callback \in {"spi_rdcmd", handler}
        /\ polled = {} /\ ~EventTurn
    BY <1>3 DEF Inv, Turn, CommandTurn, HandlerTurn, EventTurn, Waits
  <2>2. xfer \in Transfer /\ xfer.at \in 1..xfer.len
    BY <1>3 DEF Inv, XferOK
  <2>3. CASE xfer.at < xfer.len
    <3>1. xfer' = [xfer EXCEPT !.at = @ + 1] /\ polled' = {}
      BY <1>3, <2>1, <2>2, <2>3 DEF PiClocks, Transfer
    <3>2. xfer' \in Transfer /\ xfer'.at \in 1..xfer'.len
      BY <2>2, <2>3, <3>1 DEF Transfer
    <3>. QED
      BY <1>1, <1>3, <2>1, <3>1, <3>2, NoXferIsNone
      DEF Inv, Turn, CommandTurn, HandlerTurn, Waits, XferOK
  <2>4. CASE xfer.at = xfer.len
    <3>1. xfer' = NoXfer /\ polled' = {spi_process_callback}
      BY <1>3, <2>1, <2>2, <2>4 DEF PiClocks, Transfer
    <3>. QED
      BY <1>1, <2>1, <3>1
      DEF Inv, Turn, CommandTurn, HandlerTurn, Waits, XferOK
  <2>. QED BY <2>2, <2>3, <2>4 DEF Transfer
<1>. QED BY <1>2, <1>3

(* What the PI clocks into spi_cmd is a word of its job. *)
LEMMA PiClocksCmd ==
  ASSUME Inv, PiClocks
  PROVE  CmdOK'
<1>. DEFINE w == WordsOf(pi)[pi.at]
<1>1. WordOK(w)
  BY WordsType DEF Inv, PiOK
<1>. HIDE DEF w
<1>2. CASE xfer = NoXfer
  BY <1>2 DEF PiClocks, Inv, CmdOK
<1>3. CASE xfer # NoXfer
  <2>1. buf' = [buf EXCEPT ![xfer.buf] = [buf[xfer.buf] EXCEPT ![xfer.at] = w]]
    BY <1>3 DEF PiClocks, w
  <2>. QED BY <1>1, <2>1 DEF Inv, CmdOK
<1>. QED BY <1>2, <1>3

LEMMA InvInit == Init => Inv
<1>. SUFFICES ASSUME Init PROVE Inv
  OBVIOUS
<1>1. xfer \in Transfer /\ xfer.at \in 1..xfer.len
  BY DEF Init, Transfer
<1>2. Turn
  BY <1>1, NoXferIsNone DEF Init, Turn, CommandTurn, Waits
<1>3. CmdOK
  BY OnesOK DEF Init, CmdOK
<1>4. PiOK
  BY DEF Init, Idle, PiOK, JobRecord, Jobs, Count
<1>. QED BY <1>1, <1>2, <1>3, <1>4 DEF Inv, XferOK

LEMMA InvStep == Inv /\ [Next]_vars => Inv'
<1>. SUFFICES ASSUME Inv, [Next]_vars PROVE Inv'
  OBVIOUS
<1>1. CASE NodeStep
  BY <1>1, RdCmdKeeps, RdCmdResumesKeeps, HandlerEndsKeeps DEF NodeStep
<1>2. CASE \E size \in Sizes : FromRadio(size)
  BY <1>2, FromRadioKeeps
<1>3. CASE \/ PiReceives
           \/ \E size \in Sizes : size <= Cap /\ PiSends(size)
           \/ \E r \in Regs : PiRegister("write", r)
           \/ \E r \in Readable : PiRegister("read", r)
           \/ PiRegister("other", 0)
  <2>1. PICK j \in Jobs \ {"idle"}, x \in Nat :
          Begin(Job(j, x)) /\ (j \in {"fetch", "send"} => x > 0)
    BY <1>3, SpinetAssumption DEF PiReceives, PiSends, PiRegister, Jobs, Readable
  <2>. QED BY <2>1, BeginKeeps
<1>4. CASE PiClocks
  BY <1>4, PiClocksPi, PiClocksTurn, PiClocksCmd DEF Inv
<1>5. CASE UNCHANGED vars
  BY <1>5, TurnKept, PiKept DEF vars, Inv, CmdOK
<1>. QED BY <1>1, <1>2, <1>3, <1>4, <1>5 DEF Next

(* NoLostWakeup holds in every reachable state: for any sizes of packets    *)
(* and any jobs of the PI, each wait of the bridge ends with a transfer or  *)
(* an event that is on its way.                                             *)
THEOREM NeverWaitsInVain == Spec => []NoLostWakeup
<1>1. Inv => NoLostWakeup
  BY SpinetAssumption
  DEF Inv, Turn, CommandTurn, HandlerTurn, EventTurn, Waits, NoLostWakeup,
      Armed, Handlers
<1>. QED BY <1>1, InvInit, InvStep, PTL DEF Spec
-----------------------------------------------------------------------------
(* The two ends keep in step.  The handler of a job, and the buffer that a *)
(* stage of it exchanges.                                                   *)
HandlerOf(p) ==
  CASE p.job \in {"length", "read"} -> "spi_rdreg"
    [] p.job \in {"clear", "write"} -> "spi_wrreg"
    [] p.job = "fetch"              -> "spi_proc_topi"
    [] OTHER                        -> "spi_proc_frompi"

BufOf(p) ==
  CASE p.stage = "data" /\ p.job = "fetch" -> "topi"
    [] p.stage = "data" /\ p.job = "send"  -> "frompi"
    [] OTHER                               -> "cmd"

(* The stage of the PI is the transfer that is armed. *)
Matched ==
  /\ xfer # NoXfer
  /\ xfer.buf = BufOf(pi) /\ xfer.len = Count(pi) /\ xfer.at = pi.at
  /\ IF pi.stage = "command" THEN rdcmd = "command"
     ELSE rdcmd = "handler" /\ handler = HandlerOf(pi)

(* Between two stages nothing is armed: spi_rdcmd has the command of the    *)
(* stage to come, or a handler the last word of the job.                    *)
Between ==
  /\ xfer = NoXfer /\ pi.at = 1
  /\ pi.stage = "data" => rdcmd = "command" /\ buf.cmd[1] = CommandOf(pi)
  /\ pi.stage = "command" /\ rdcmd = "command" =>
       buf.cmd[1].kind \notin {"read", "write", "frompi", "topi"}

Sync ==
  /\ pi.stage = "data" => pi.job \notin {"idle", "other"}
  /\ pi.job = "idle" => pi = Idle
  /\ ready \in BOOLEAN
  /\ \/ Matched /\ ready /\ pi.at = 1
     \/ Matched /\ ~ready /\ pi.at > 1
     \/ Between /\ ~ready

WordKinds == {"ones", "value", "in", "out", "read", "write", "topi", "frompi", "other"}
Words == [kind : WordKinds, a : Int, b : Int]
Buffers ==
  [cmd : [1..1 -> Words], topi : [1..Cap -> Words], frompi : [1..Cap -> Words]]

(* Every variable that holds data has its type, and the PI asks only for   *)
(* what there is.                                                           *)
Typed ==
  /\ buf \in Buffers /\ regs \in [Regs -> Int]
  /\ sent \in Seq(Seq(Words)) /\ injected \in Seq(Seq(Words))
  /\ spi_topi_actual \in 0..Cap /\ whole \in {"no", "unread", "read"}
  /\ rx \in BOOLEAN /\ radio \in Nat /\ jobs \in Nat
GotOK == got \in Seq(Words) /\ Len(got) = pi.at - 1
ArgOK ==
  /\ pi.job \in {"fetch", "send"} => pi.arg <= Cap
  /\ pi.job = "write" => pi.arg \in Regs
  /\ pi.job = "read" => pi.arg \in Readable
DataOK == Typed /\ GotOK /\ ArgOK

(* The only value the PI writes to register 17 is zero: uip_len stays zero. *)
WriteOK ==
  /\ uip_len = 0
  /\ handler = "spi_wrreg" =>
       IF polled = {} THEN pi.stage = "data" /\ regnum = CommandOf(pi).a
       ELSE regnum = 17 => buf.cmd[1].a = 0

(* The packets that were injected are those that were sent, but for the one *)
(* the PI is sending and the one that is whole in spi_frompi.               *)
Sending == pi.job = "send"
Injecting == handler = "spi_proc_frompi" /\ polled # {}
SentCount ==
  Len(sent) = Len(injected) + (IF Sending THEN 1 ELSE 0) + (IF Injecting THEN 1 ELSE 0)
SentSame == \A i \in 1..Len(injected) : injected[i] = sent[i]
SentLast == Sending => sent[Len(sent)] = OutPacket(Len(sent), pi.arg)
PartSent ==
  handler = "spi_proc_frompi" /\ ~Injecting =>
    /\ Sending /\ pi.stage = "data" /\ spi_frompi_len = pi.arg
    /\ \A i \in 1..pi.at - 1 : buf.frompi[i] = Word("out", Len(sent), i)
WholeSent ==
  Injecting =>
    /\ spi_frompi_len \in 1..Cap
    /\ sent[Len(injected) + 1] = SubSeq(buf.frompi, 1, spi_frompi_len)
SendOK == SentCount /\ SentSame /\ SentLast /\ PartSent /\ WholeSent

(* spi_topi holds a packet from the radio, or what the PI has not yet taken *)
(* of it.                                                                   *)
InBuffer(p) ==
  \A i \in 1..spi_topi_actual :
    buf.topi[i] = Packet(p, spi_topi_actual - 1)[i]
PartlyTaken(p) ==
  \A i \in 1..spi_topi_actual :
    (IF i < pi.at THEN got[i] ELSE buf.topi[i]) = Packet(p, spi_topi_actual - 1)[i]

Unread == whole = "unread" /\ \E p \in 1..radio : InBuffer(p)
LengthRead ==
  /\ whole = "read" /\ \E p \in 1..radio : InBuffer(p)
  /\ \/ /\ pi.job = "length" /\ pi.stage = "data" /\ rdcmd = "handler"
        /\ buf.cmd[1].a = spi_topi_actual
     \/ pi.job = "fetch" /\ pi.stage = "command" /\ pi.arg = spi_topi_actual
Fetching ==
  /\ whole = "read" /\ \E p \in 1..radio : PartlyTaken(p)
  /\ pi.job = "fetch" /\ pi.stage = "data" /\ pi.arg = spi_topi_actual
FetchOK ==
  whole = "no" \/ (spi_topi_actual > 0 /\ (Unread \/ LengthRead \/ Fetching))

(* A transfer that is started when none is armed is armed at once. *)
LEMMA StartsDoes ==
  ASSUME NEW h, NEW name, NEW len \in Nat \ {0}, NEW b,
         polled = {"spi_rdcmd"}, xfer = NoXfer, Starts(h, name, len, b)
  PROVE  /\ rdcmd' = "handler" /\ handler' = h /\ polled' = {}
         /\ buf' = b /\ ready' = TRUE
         /\ xfer' = [buf |-> name, len |-> len, at |-> 1]
BY DEF Starts, StartXfer

LEMMA ListenDoes ==
  ASSUME polled \subseteq {"spi_rdcmd"}, xfer = NoXfer, Listen
  PROVE  /\ rdcmd' = "command" /\ polled' = {}
         /\ buf' = [buf EXCEPT !.cmd = <<Ones>>] /\ ready' = TRUE
         /\ xfer' = [buf |-> "cmd", len |-> 1, at |-> 1]
BY DEF Listen, StartXfer

(* The state in which spi_rdcmd is polled. *)
LEMMA AtRdCmd ==
  ASSUME Inv, Sync, RdCmd
  PROVE  /\ rdcmd = "command" /\ handler = NoProc /\ polled = {"spi_rdcmd"}
         /\ xfer = NoXfer /\ ~ready /\ pi.at = 1
         /\ \/ pi.stage = "data" /\ buf.cmd[1] = CommandOf(pi)
            \/ pi.stage = "command"
               /\ buf.cmd[1].kind \notin {"read", "write", "frompi", "topi"}
<1>1. /\ rdcmd = "command" /\ handler = NoProc /\ polled = {"spi_rdcmd"}
      /\ xfer = NoXfer
  BY DEF Inv, Turn, CommandTurn, HandlerTurn, EventTurn, Waits, RdCmd
<1>2. Between /\ ~ready
  BY <1>1 DEF Sync, Matched
<1>. QED BY <1>1, <1>2 DEF Between, Sync, Inv, PiOK, JobRecord

(* What it does: it arms the transfer the PI expects. *)
LEMMA RdCmdDoes ==
  ASSUME Inv, Sync, RdCmd
  PROVE  /\ ready' = TRUE /\ polled' = {} /\ UNCHANGED <<pi, got>>
         /\ \/ /\ pi.stage = "data" /\ rdcmd' = "handler" /\ handler' = HandlerOf(pi)
               /\ xfer' = [buf |-> BufOf(pi), len |-> Count(pi), at |-> 1]
               /\ \/ /\ pi.job \in {"length", "read"}
                     /\ \E v \in register_read(CommandOf(pi).a) :
                          buf' = [buf EXCEPT !.cmd = <<Word("value", v, 0)>>]
                     /\ whole' = IF CommandOf(pi).a = 17 /\ whole = "unread"
                                 THEN "read" ELSE whole
                  \/ /\ pi.job \in {"clear", "write"}
                     /\ buf' = [buf EXCEPT !.cmd = <<Ones>>]
                     /\ regnum' = CommandOf(pi).a
                     /\ whole' = whole
                  \/ /\ pi.job = "send" /\ buf' = buf /\ spi_frompi_len' = pi.arg
                     /\ whole' = whole
                  \/ /\ pi.job = "fetch" /\ buf' = buf /\ whole' = whole
            \/ /\ pi.stage = "command" /\ rdcmd' = "command" /\ handler' = NoProc
               /\ xfer' = [buf |-> "cmd", len |-> 1, at |-> 1]
               /\ buf' = [buf EXCEPT !.cmd = <<Ones>>]
               /\ whole' = whole
<1>. DEFINE c == buf.cmd[1]
<1>0. UNCHANGED <<pi, got>>
  BY DEF RdCmd, piVars
<1>1. CASE pi.stage = "command"
  <2>1. Listen /\ handler' = handler /\ whole' = whole
    BY <1>1, AtRdCmd DEF RdCmd
  <2>. QED BY <1>0, <1>1, <2>1, AtRdCmd, ListenDoes
<1>2. CASE pi.stage = "data"
  <2>0. /\ c = CommandOf(pi) /\ polled = {"spi_rdcmd"} /\ xfer = NoXfer
        /\ pi \in JobRecord /\ pi.job \notin {"idle", "other"}
    BY <1>2, AtRdCmd DEF Sync, Inv, PiOK
  <2>. HIDE DEF c
  <2>1. CASE pi.job \in {"length", "read"}
    <3>1. c.kind = "read" /\ HandlerOf(pi) = "spi_rdreg" /\ BufOf(pi) = "cmd" /\ Count(pi) = 1
      BY <2>0, <2>1 DEF CommandOf, Word, HandlerOf, BufOf, Count
    <3>2. PICK v \in register_read(c.a) :
            Starts("spi_rdreg", "cmd", 1, [buf EXCEPT !.cmd = <<Word("value", v, 0)>>])
      BY <3>1 DEF RdCmd, c
    <3>4. whole' = IF c.a = 17 /\ whole = "unread" THEN "read" ELSE whole
      BY <3>1 DEF RdCmd, c
    <3>3. /\ rdcmd' = "handler" /\ handler' = "spi_rdreg" /\ polled' = {}
          /\ buf' = [buf EXCEPT !.cmd = <<Word("value", v, 0)>>]
          /\ ready' = TRUE /\ xfer' = [buf |-> "cmd", len |-> 1, at |-> 1]
      <4>. DEFINE b == [buf EXCEPT !.cmd = <<Word("value", v, 0)>>]
      <4>1. Starts("spi_rdreg", "cmd", 1, b)
        BY <3>2
      <4>. HIDE DEF b
      <4>2. /\ rdcmd' = "handler" /\ handler' = "spi_rdreg" /\ polled' = {}
            /\ buf' = b
            /\ ready' = TRUE /\ xfer' = [buf |-> "cmd", len |-> 1, at |-> 1]
        BY <2>0, <4>1 DEF Starts, StartXfer
      <4>. QED BY <4>2 DEF b
    <3>. QED BY <1>0, <1>2, <2>0, <2>1, <3>1, <3>2, <3>3, <3>4
  <2>2. CASE pi.job \in {"clear", "write"}
    <3>1. c.kind = "write" /\ HandlerOf(pi) = "spi_wrreg" /\ BufOf(pi) = "cmd" /\ Count(pi) = 1
      BY <2>0, <2>2 DEF CommandOf, Word, HandlerOf, BufOf, Count
    <3>2. /\ Starts("spi_wrreg", "cmd", 1, [buf EXCEPT !.cmd = <<Ones>>])
          /\ regnum' = c.a /\ whole' = whole
      BY <3>1 DEF RdCmd, c
    <3>3. /\ rdcmd' = "handler" /\ handler' = "spi_wrreg" /\ polled' = {}
          /\ buf' = [buf EXCEPT !.cmd = <<Ones>>]
          /\ ready' = TRUE /\ xfer' = [buf |-> "cmd", len |-> 1, at |-> 1]
      <4>. DEFINE b == [buf EXCEPT !.cmd = <<Ones>>]
      <4>1. Starts("spi_wrreg", "cmd", 1, b)
        BY <3>2
      <4>. HIDE DEF b
      <4>2. /\ rdcmd' = "handler" /\ handler' = "spi_wrreg" /\ polled' = {}
            /\ buf' = b
            /\ ready' = TRUE /\ xfer' = [buf |-> "cmd", len |-> 1, at |-> 1]
        BY <2>0, <4>1 DEF Starts, StartXfer
      <4>. QED BY <4>2 DEF b
    <3>. QED BY <1>0, <1>2, <2>0, <2>2, <3>1, <3>2, <3>3
  <2>3. CASE pi.job = "send"
    <3>1. /\ c.kind = "frompi" /\ c.a = pi.arg /\ pi.arg \in Nat \ {0}
          /\ HandlerOf(pi) = "spi_proc_frompi" /\ BufOf(pi) = "frompi" /\ Count(pi) = pi.arg
      BY <1>2, <2>0, <2>3
      DEF CommandOf, Word, HandlerOf, BufOf, Count, Inv, PiOK, JobRecord
    <3>2. /\ Starts("spi_proc_frompi", "frompi", c.a, buf)
          /\ spi_frompi_len' = c.a /\ whole' = whole
      BY <3>1 DEF RdCmd, c
    <3>. QED BY <1>0, <1>2, <2>0, <2>3, <3>1, <3>2, StartsDoes
  <2>4. CASE pi.job = "fetch"
    <3>1. /\ c.kind = "topi" /\ c.a = pi.arg /\ pi.arg \in Nat \ {0}
          /\ HandlerOf(pi) = "spi_proc_topi" /\ BufOf(pi) = "topi" /\ Count(pi) = pi.arg
      BY <1>2, <2>0, <2>4
      DEF CommandOf, Word, HandlerOf, BufOf, Count, Inv, PiOK, JobRecord
    <3>2. /\ Starts("spi_proc_topi", "topi", c.a, buf)
          /\ whole' = whole
      BY <3>1 DEF RdCmd, c
    <3>. QED BY <1>0, <1>2, <2>0, <2>4, <3>1, <3>2, StartsDoes
  <2>. QED BY <2>0, <2>1, <2>2, <2>3, <2>4 DEF JobRecord, Jobs
<1>. QED BY <1>1, <1>2 DEF Inv, PiOK, JobRecord

(* The states in which a handler ends, and spi_rdcmd gets its event. *)
LEMMA AtEnd ==
  ASSUME Inv, Sync,
         \/ handler \in Handlers /\ handler \in polled
         \/ RdCmdResumes
  PROVE  /\ rdcmd = "handler" /\ xfer = NoXfer /\ ~ready
         /\ pi.at = 1 /\ pi.stage = "command"
<1>1. rdcmd = "handler" /\ xfer = NoXfer
  BY SpinetAssumption
  DEF Inv, Turn, CommandTurn, HandlerTurn, EventTurn, Waits, RdCmdResumes, Handlers
<1>2. Between /\ ~ready
  BY <1>1 DEF Sync, Matched
<1>. QED BY <1>1, <1>2 DEF Between, Sync, Inv, PiOK, JobRecord

(* The PI clocks a word of the transfer that is armed. *)
LEMMA AtClock ==
  ASSUME Inv, Sync, PiClocks
  PROVE  /\ Matched /\ pi # Idle /\ pi.job # "idle" /\ ready' = FALSE
         /\ pi.at \in 1..Count(pi) /\ Count(pi) \in Nat /\ Len(WordsOf(pi)) = Count(pi)
         /\ UNCHANGED <<rdcmd, handler>> /\ polled = {}
         /\ buf' = [buf EXCEPT ![xfer.buf][pi.at] = WordsOf(pi)[pi.at]]
         /\ IF pi.at < Count(pi)
            THEN /\ pi' = [pi EXCEPT !.at = @ + 1] /\ polled' = {}
                 /\ xfer' = [xfer EXCEPT !.at = @ + 1]
                 /\ got' = Append(got, buf[xfer.buf][pi.at])
            ELSE /\ pi.at = Count(pi)
                 /\ pi' = NextStage(Append(got, buf[xfer.buf][pi.at]))
                 /\ xfer' = NoXfer /\ got' = <<>>
                 /\ polled' = {spi_process_callback}
                 /\ spi_process_callback = IF rdcmd = "command" THEN "spi_rdcmd" ELSE handler
<1>1. pi # Idle /\ (pi.at = 1 => ready) /\ ready' = FALSE
      /\ UNCHANGED <<rdcmd, handler>>
  BY DEF PiClocks
<1>2. /\ pi \in JobRecord /\ pi.at \in 1..Count(pi) /\ Count(pi) \in Nat
      /\ Len(WordsOf(pi)) = Count(pi)
  BY WordsType DEF Inv, PiOK, Count, JobRecord
<1>3. Matched /\ pi.job # "idle"
  BY <1>1 DEF Sync, Between
<1>4. /\ xfer # NoXfer /\ xfer.at = pi.at /\ xfer.len = Count(pi)
      /\ spi_process_callback \in {"spi_rdcmd", handler} /\ polled = {}
      /\ spi_process_callback = IF rdcmd = "command" THEN "spi_rdcmd" ELSE handler
  BY <1>3 DEF Matched, Inv, Turn, CommandTurn, HandlerTurn, EventTurn, Waits
<1>5. buf' = [buf EXCEPT ![xfer.buf][pi.at] = WordsOf(pi)[pi.at]]
  BY <1>4 DEF PiClocks
<1>6. CASE pi.at < Count(pi)
  <2>1. pi' = [pi EXCEPT !.at = @ + 1] /\ got' = Append(got, buf[xfer.buf][pi.at])
    BY <1>2, <1>4, <1>6 DEF PiClocks
  <2>2. xfer' = [xfer EXCEPT !.at = @ + 1]
    BY <1>4, <1>6 DEF PiClocks
  <2>3. polled' = {}
    BY <1>2, <1>4, <1>6 DEF PiClocks
  <2>. QED BY <1>1, <1>2, <1>3, <1>4, <1>5, <1>6, <2>1, <2>2, <2>3
<1>7. CASE ~(pi.at < Count(pi))
  <2>1. pi.at = Count(pi)
    BY <1>2, <1>7
  <2>2. pi' = NextStage(Append(got, buf[xfer.buf][pi.at])) /\ got' = <<>>
    BY <1>2, <1>4, <1>7 DEF PiClocks
  <2>3. xfer' = NoXfer
    BY <1>4, <1>7 DEF PiClocks
  <2>4. polled' = {spi_process_callback}
    BY <1>2, <1>4, <2>1 DEF PiClocks
  <2>. QED BY <1>1, <1>2, <1>3, <1>4, <1>5, <1>7, <2>1, <2>2, <2>3, <2>4
<1>. QED BY <1>6, <1>7

(* Where the PI goes at the end of a stage. *)
LEMMA NextStageCases ==
  ASSUME Inv, Sync, pi.job # "idle", NEW words
  PROVE  \/ /\ pi.stage = "command" /\ pi.job # "other"
            /\ NextStage(words) = [pi EXCEPT !.stage = "data", !.at = 1]
         \/ /\ pi.stage = "command" /\ pi.job = "other" /\ NextStage(words) = Idle
         \/ /\ pi.stage = "data" /\ pi.job = "length" /\ words[1].a \in 1..Cap
            /\ NextStage(words) = Job("fetch", words[1].a)
         \/ /\ pi.stage = "data" /\ pi.job = "fetch"
            /\ NextStage(words) = Job("clear", 0)
         \/ /\ pi.stage = "data" /\ pi.job # "fetch" /\ NextStage(words) = Idle
            /\ pi.job = "length" => words[1].a \notin 1..Cap
<1>0. pi.stage \in {"command", "data"}
  BY DEF Inv, PiOK, JobRecord
<1>1. CASE pi.stage = "command" /\ pi.job # "other"
  BY <1>1 DEF NextStage
<1>2. CASE pi.stage = "command" /\ pi.job = "other"
  BY <1>2 DEF NextStage
<1>3. CASE pi.stage = "data" /\ pi.job = "length" /\ words[1].a \in 1..Cap
  BY <1>3 DEF NextStage
<1>4. CASE pi.stage = "data" /\ pi.job = "fetch"
  BY <1>4 DEF NextStage
<1>5. CASE pi.stage = "data" /\ pi.job # "fetch" /\ ~(pi.job = "length" /\ words[1].a \in 1..Cap)
  BY <1>5 DEF NextStage
<1>. QED BY <1>0, <1>1, <1>2, <1>3, <1>4, <1>5
-----------------------------------------------------------------------------
(* Sync is kept. *)
LEMMA SomeXfer ==
  ASSUME NEW b \in {"cmd", "topi", "frompi"}, NEW n \in Nat, NEW k \in Nat
  PROVE  [buf |-> b, len |-> n, at |-> k] # NoXfer
BY NoXferIsNone DEF Transfer

LEMMA StageType ==
  ASSUME PiOK
  PROVE  /\ BufOf(pi) \in {"cmd", "topi", "frompi"} /\ Count(pi) \in Nat
         /\ pi.at \in Nat /\ pi.stage \in {"command", "data"}
         /\ pi.stage = "command" => BufOf(pi) = "cmd" /\ Count(pi) = 1
BY DEF PiOK, JobRecord, BufOf, Count

LEMMA SyncRdCmd ==
  ASSUME Inv, Sync, RdCmd
  PROVE  Sync'
<1>1. /\ pi' = pi /\ ready' = TRUE
      /\ xfer' = [buf |-> BufOf(pi), len |-> Count(pi), at |-> 1]
      /\ IF pi.stage = "command" THEN rdcmd' = "command"
         ELSE rdcmd' = "handler" /\ handler' = HandlerOf(pi)
  BY RdCmdDoes, StageType DEF Inv
<1>2. pi.at = 1
  BY AtRdCmd
<1>3. xfer' # NoXfer
  BY <1>1, SomeXfer, StageType DEF Inv
<1>. QED BY <1>1, <1>2, <1>3 DEF Sync, Matched

LEMMA SyncRdCmdResumes ==
  ASSUME Inv, Sync, RdCmdResumes
  PROVE  Sync'
<1>1. pi.at = 1 /\ pi.stage = "command" /\ xfer = NoXfer
  BY AtEnd
<1>2. polled = {}
  BY DEF Inv, Turn, CommandTurn, HandlerTurn, EventTurn, RdCmdResumes
<1>3. /\ rdcmd' = "command" /\ ready' = TRUE
      /\ xfer' = [buf |-> "cmd", len |-> 1, at |-> 1]
  BY <1>1, <1>2, ListenDoes DEF RdCmdResumes
<1>4. pi' = pi
  BY DEF RdCmdResumes, piVars
<1>5. xfer' # NoXfer
  BY <1>3, SomeXfer
<1>6. BufOf(pi) = "cmd" /\ Count(pi) = 1
  BY <1>1, StageType DEF Inv
<1>. QED BY <1>1, <1>3, <1>4, <1>5, <1>6 DEF Sync, Matched

LEMMA SyncEnds ==
  ASSUME Inv, Sync, handler \in Handlers, handler \in polled,
         UNCHANGED <<rdcmd, xfer, ready, pi>>
  PROVE  Sync'
<1>1. /\ rdcmd = "handler" /\ xfer = NoXfer /\ ~ready
      /\ pi.at = 1 /\ pi.stage = "command"
  BY AtEnd
<1>. QED BY <1>1 DEF Sync, Between

LEMMA SyncFromRadio ==
  ASSUME Sync, UNCHANGED <<rdcmd, handler, xfer, ready, pi>>, buf'.cmd = buf.cmd
  PROVE  Sync'
BY DEF Sync, Between, Matched

LEMMA SyncBegin ==
  ASSUME Sync, NEW j \in Jobs \ {"idle"}, NEW x, Begin(Job(j, x))
  PROVE  Sync'
<1>1. /\ pi = Idle /\ pi' = Job(j, x)
      /\ UNCHANGED <<rdcmd, handler, xfer, ready, buf>>
  BY DEF Begin, procVars
<1>2. /\ pi.at = 1 /\ pi'.at = 1 /\ pi.stage = "command" /\ pi'.stage = "command"
      /\ pi'.job = j
      /\ BufOf(pi) = BufOf(pi') /\ Count(pi) = Count(pi')
  BY <1>1 DEF Idle, Job, BufOf, Count
<1>. QED BY <1>1, <1>2 DEF Sync, Between, Matched

LEMMA SyncPiClocks ==
  ASSUME Inv, Sync, PiClocks
  PROVE  Sync'
<1>0. /\ Matched /\ ready' = FALSE /\ UNCHANGED <<rdcmd, handler>>
      /\ pi.job # "idle" /\ pi \in JobRecord /\ xfer \in Transfer
  BY AtClock DEF Matched, Inv, PiOK, XferOK
<1>1. CASE pi.at < Count(pi)
  <2>1. /\ pi' = [pi EXCEPT !.at = @ + 1] /\ xfer' = [xfer EXCEPT !.at = @ + 1]
    BY <1>1, AtClock
  <2>2. /\ pi'.at = pi.at + 1 /\ pi'.at > 1
        /\ UNCHANGED <<pi.job, pi.arg, pi.stage>>
    BY <1>0, <2>1 DEF JobRecord, Inv, PiOK
  <2>3. BufOf(pi') = BufOf(pi) /\ Count(pi') = Count(pi) /\ HandlerOf(pi') = HandlerOf(pi)
    BY <2>2 DEF BufOf, Count, HandlerOf
  <2>4. /\ xfer' \in Transfer /\ xfer'.at = xfer.at + 1
        /\ xfer'.buf = xfer.buf /\ xfer'.len = xfer.len
    BY <1>0, <2>1 DEF Transfer
  <2>5. xfer' # NoXfer
    BY <2>4, NoXferIsNone
  <2>6. Matched'
    BY <1>0, <2>2, <2>3, <2>4, <2>5 DEF Matched
  <2>. QED BY <1>0, <2>2, <2>6 DEF Sync
<1>2. CASE ~(pi.at < Count(pi))
  <2>. DEFINE words == Append(got, buf[xfer.buf][pi.at])
  <2>1. pi' = NextStage(words) /\ xfer' = NoXfer
    BY <1>2, AtClock
  <2>2. pi' \in JobRecord /\ pi'.at = 1
    BY <2>1, NextStageType DEF Fresh, Inv
  <2>. HIDE DEF words
  <2>3. CASE pi.stage = "data"
    <3>1. rdcmd' = "handler"
      BY <1>0, <2>3 DEF Matched
    <3>2. pi'.stage = "command" /\ (pi'.job = "idle" => pi' = Idle)
      BY <1>0, <2>1, <2>3, NextStageCases DEF Job, Idle
    <3>. QED BY <1>0, <2>1, <2>2, <3>1, <3>2 DEF Sync, Between
  <2>4. CASE pi.stage = "command"
    <3>1. /\ rdcmd' = "command" /\ xfer.buf = "cmd" /\ pi.at = 1
          /\ WordsOf(pi) = <<CommandOf(pi)>>
      BY <1>0, <2>4, AtClock, StageType DEF Matched, WordsOf, Inv
    <3>2. buf'.cmd[1] = CommandOf(pi)
      <4>1. buf' = [buf EXCEPT !.cmd = [buf.cmd EXCEPT ![1] = CommandOf(pi)]]
        BY <3>1, AtClock
      <4>. QED BY <4>1 DEF Inv, CmdOK
    <3>3. CASE pi.job = "other"
      <4>1. pi' = Idle
        BY <2>1, <2>4, <3>3 DEF NextStage
      <4>2. buf'.cmd[1].kind = "other"
        BY <3>2, <3>3 DEF CommandOf, Word
      <4>3. pi'.stage = "command" /\ pi'.at = 1
        BY <4>1 DEF Idle
      <4>4. Between'
        BY <2>1, <4>2, <4>3 DEF Between
      <4>. QED BY <1>0, <4>1, <4>3, <4>4 DEF Sync
    <3>4. CASE pi.job # "other"
      <4>1. pi' = [pi EXCEPT !.stage = "data", !.at = 1]
        BY <2>1, <2>4, <3>4 DEF NextStage
      <4>2. pi'.job = pi.job /\ pi'.arg = pi.arg /\ pi'.stage = "data" /\ pi'.at = 1
        BY <1>0, <4>1 DEF JobRecord
      <4>3. CommandOf(pi') = CommandOf(pi)
        BY <4>2 DEF CommandOf
      <4>. QED BY <1>0, <2>1, <3>1, <3>2, <3>4, <4>2, <4>3 DEF Sync, Between
    <3>. QED BY <3>3, <3>4
  <2>. QED BY <1>0, <2>3, <2>4 DEF JobRecord
<1>. QED BY <1>1, <1>2

LEMMA SyncInit == Init => Sync
<1>. SUFFICES ASSUME Init PROVE Sync
  OBVIOUS
<1>1. xfer = [buf |-> "cmd", len |-> 1, at |-> 1] /\ pi = Idle
      /\ rdcmd = "command" /\ ready
  BY DEF Init
<1>2. xfer # NoXfer
  BY <1>1, SomeXfer
<1>. QED BY <1>1, <1>2 DEF Init, Idle, Sync, Matched, BufOf, Count
-----------------------------------------------------------------------------
(* The data are kept in their types. *)
LEMMA WordTyped ==
  /\ Ones \in Words
  /\ \A k \in WordKinds, a \in Int, b \in Int : Word(k, a, b) \in Words
BY DEF Words, WordKinds, Ones, Word

LEMMA CmdTyped ==
  ASSUME buf \in Buffers, NEW w \in Words
  PROVE  [buf EXCEPT !.cmd = <<w>>] \in Buffers
<1>1. <<w>> \in [1..1 -> Words]
  OBVIOUS
<1>. QED BY <1>1 DEF Buffers

LEMMA PacketTyped ==
  ASSUME NEW p \in Int, NEW n \in Nat
  PROVE  /\ DOMAIN Packet(p, n) = 1..(n + 1)
         /\ \A i \in 1..(n + 1) : Packet(p, n)[i] \in Words
<1>1. \A i \in 1..(n + 1) : Packet(p, n)[i] = Word("in", p, IF i = 1 THEN -n ELSE i)
  BY DEF Packet
<1>2. \A i \in 1..(n + 1) : (IF i = 1 THEN -n ELSE i) \in Int
  OBVIOUS
<1>3. "in" \in WordKinds
  BY DEF WordKinds
<1>. QED BY <1>1, <1>2, <1>3, WordTyped DEF Packet

LEMMA PacketSeq ==
  ASSUME NEW p \in Int, NEW n \in Nat
  PROVE  Packet(p, n) \in Seq(Words) /\ Len(Packet(p, n)) = n + 1
<1>. DEFINE w(i) == Word("in", p, IF i = 1 THEN -n ELSE i)
<1>1. Packet(p, n) = [i \in 1..(n + 1) |-> w(i)]
  BY DEF Packet
<1>2. \A i \in 1..(n + 1) : w(i) \in Words
  BY PacketTyped DEF Packet
<1>3. n + 1 \in Nat
  OBVIOUS
<1>. HIDE DEF w
<1>. QED BY <1>1, <1>2, <1>3

(* The packet in the buffer to the PI. *)
LEMMA RplOutputDoes ==
  ASSUME Typed, NEW n \in Nat, RplOutput(n)
  PROVE  /\ radio' = radio + 1 /\ rx' = TRUE
         /\ \/ UNCHANGED <<buf, spi_topi_actual, whole>>
            \/ /\ n + 1 <= Cap /\ spi_topi_actual' = n + 1 /\ whole' = "unread"
               /\ buf' \in Buffers /\ buf'.cmd = buf.cmd /\ buf'.frompi = buf.frompi
               /\ \A i \in 1..(n + 1) : buf'.topi[i] = Packet(radio + 1, n)[i]
<1>1. CASE n + 1 > Cap
  BY <1>1 DEF RplOutput
<1>2. CASE ~(n + 1 > Cap)
  <2>. DEFINE f == [i \in DOMAIN buf.topi |->
                      IF i \in DOMAIN Packet(radio + 1, n) THEN Packet(radio + 1, n)[i]
                      ELSE buf.topi[i]]
  <2>1. /\ radio' = radio + 1 /\ rx' = TRUE
        /\ buf' = [buf EXCEPT !.topi = f]
        /\ spi_topi_actual' = n + 1 /\ whole' = "unread"
    BY <1>2 DEF RplOutput, Filled
  <2>2. n + 1 <= Cap
    BY <1>2, SpinetAssumption
  <2>3. buf \in Buffers /\ DOMAIN buf.topi = 1..Cap
    BY DEF Typed, Buffers
  <2>4. /\ DOMAIN Packet(radio + 1, n) = 1..(n + 1)
        /\ \A i \in 1..(n + 1) : Packet(radio + 1, n)[i] \in Words
    <3>1. radio + 1 \in Int
      BY DEF Typed
    <3>. QED BY <3>1, PacketTyped
  <2>5. f \in [1..Cap -> Words]
    BY <2>3, <2>4 DEF Buffers
  <2>6. \A i \in 1..(n + 1) : f[i] = Packet(radio + 1, n)[i]
    BY <2>2, <2>3, <2>4, SpinetAssumption
  <2>. HIDE DEF f
  <2>7. /\ buf' \in Buffers /\ buf'.cmd = buf.cmd /\ buf'.frompi = buf.frompi
        /\ buf'.topi = f
    BY <2>1, <2>3, <2>5 DEF Buffers
  <2>. QED BY <2>1, <2>2, <2>6, <2>7
<1>. QED BY <1>1, <1>2

LEMMA RplOutputTyped ==
  ASSUME Typed, NEW n \in Nat, RplOutput(n), UNCHANGED <<regs, sent, injected, jobs>>
  PROVE  Typed'
<1>1. radio' = radio + 1 /\ rx' = TRUE
  BY RplOutputDoes
<1>2. CASE UNCHANGED <<buf, spi_topi_actual, whole>>
  BY <1>1, <1>2 DEF Typed
<1>3. CASE n + 1 <= Cap /\ spi_topi_actual' = n + 1 /\ whole' = "unread" /\ buf' \in Buffers
  <2>1. n + 1 \in 0..Cap
    BY <1>3, SpinetAssumption
  <2>. QED BY <1>1, <1>3, <2>1 DEF Typed
<1>. QED BY <1>2, <1>3, RplOutputDoes

(* What the PI sends in a stage. *)
LEMMA WordsTyped ==
  ASSUME PiOK, DataOK
  PROVE  \A i \in 1..Count(pi) : WordsOf(pi)[i] \in Words
<1>. USE DEF PiOK, JobRecord
<1>1. CASE pi.stage = "command"
  <2>1. \E k \in WordKinds, a \in Nat : CommandOf(pi) = Word(k, a, 0)
    BY DEF CommandOf, WordKinds
  <2>2. CommandOf(pi) \in Words
    BY <2>1, WordTyped
  <2>3. WordsOf(pi) = <<CommandOf(pi)>> /\ Count(pi) = 1
    BY <1>1 DEF WordsOf, Count
  <2>. QED BY <2>2, <2>3
<1>2. CASE pi.stage = "data" /\ pi.job = "send"
  <2>1. /\ WordsOf(pi) = [i \in 1..pi.arg |-> Word("out", Len(sent), i)]
        /\ Count(pi) = pi.arg
    BY <1>2 DEF WordsOf, OutPacket, Count
  <2>2. Len(sent) \in Int /\ "out" \in WordKinds
    BY LenProperties DEF DataOK, Typed, WordKinds
  <2>. QED BY <2>1, <2>2, WordTyped
<1>3. CASE pi.stage = "data" /\ pi.job = "fetch"
  <2>1. WordsOf(pi) = [i \in 1..pi.arg |-> Ones] /\ Count(pi) = pi.arg
    BY <1>3 DEF WordsOf, Count
  <2>. QED BY <2>1, WordTyped
<1>4. CASE pi.stage = "data" /\ pi.job \notin {"send", "fetch"}
  <2>1. "value" \in WordKinds /\ jobs \in Int
    BY DEF WordKinds, DataOK, Typed
  <2>2. Word("value", jobs, 0) \in Words /\ Word("value", 0, 0) \in Words
    BY <2>1, WordTyped
  <2>3. \E w \in Words : WordsOf(pi) = <<w>>
    BY <1>4, <2>2, WordTyped DEF WordsOf
  <2>4. Count(pi) = 1
    BY <1>4 DEF Count
  <2>. QED BY <2>3, <2>4
<1>. QED BY <1>1, <1>2, <1>3, <1>4

LEMMA BufferAt ==
  ASSUME PiOK, DataOK
  PROVE  \A i \in 1..Count(pi) : i \in DOMAIN buf[BufOf(pi)] /\ buf[BufOf(pi)][i] \in Words
<1>1. CASE pi.stage = "data" /\ pi.job \in {"send", "fetch"}
  <2>1. BufOf(pi) \in {"topi", "frompi"} /\ Count(pi) = pi.arg /\ pi.arg <= Cap
        /\ pi.arg \in Nat
    BY <1>1 DEF BufOf, Count, DataOK, ArgOK, PiOK, JobRecord
  <2>. QED BY <2>1, SpinetAssumption DEF DataOK, Typed, Buffers
<1>2. CASE ~(pi.stage = "data" /\ pi.job \in {"send", "fetch"})
  <2>1. BufOf(pi) = "cmd" /\ Count(pi) = 1
    BY <1>2 DEF BufOf, Count
  <2>. QED BY <2>1 DEF DataOK, Typed, Buffers
<1>. QED BY <1>1, <1>2

LEMMA DataRdCmd ==
  ASSUME Inv, Sync, DataOK, RdCmd
  PROVE  DataOK'
<1>1. /\ UNCHANGED <<pi, got, sent, jobs, regs, injected, spi_topi_actual, rx, radio>>
  BY DEF RdCmd, piVars
<1>2. whole' \in {"no", "unread", "read"}
  BY RdCmdDoes DEF DataOK, Typed
<1>3. CASE pi.stage = "data" /\ pi.job \in {"length", "read"}
  <2>1. CommandOf(pi).a \in Regs \cup {16, 17, 18}
    BY <1>3 DEF CommandOf, Word, DataOK, ArgOK, Readable
  <2>2. register_read(CommandOf(pi).a) \subseteq Int
    BY <2>1, SpinetAssumption DEF register_read, DataOK, Typed
  <2>0. PICK v \in register_read(CommandOf(pi).a) :
          buf' = [buf EXCEPT !.cmd = <<Word("value", v, 0)>>]
    BY <1>3, RdCmdDoes
  <2>3. Word("value", v, 0) \in Words
    BY <2>2, WordTyped DEF WordKinds
  <2>. DEFINE w == Word("value", v, 0)
  <2>4. buf' = [buf EXCEPT !.cmd = <<w>>]
    BY <2>0
  <2>. HIDE DEF w
  <2>5. buf' \in Buffers
    BY <2>3, <2>4, CmdTyped DEF w, DataOK, Typed
  <2>. QED BY <1>1, <1>2, <2>5 DEF DataOK, Typed, GotOK, ArgOK
<1>4. CASE ~(pi.stage = "data" /\ pi.job \in {"length", "read"})
  <2>1. buf' = buf \/ buf' = [buf EXCEPT !.cmd = <<Ones>>]
    BY <1>4, RdCmdDoes
  <2>2. buf' \in Buffers
    BY <2>1, CmdTyped, WordTyped DEF DataOK, Typed
  <2>. QED BY <1>1, <1>2, <2>2 DEF DataOK, Typed, GotOK, ArgOK
<1>. QED BY <1>3, <1>4

LEMMA DataRdCmdResumes ==
  ASSUME Inv, Sync, DataOK, RdCmdResumes
  PROVE  DataOK'
<1>1. /\ UNCHANGED <<pi, got, sent, jobs, regs, injected, spi_topi_actual, rx, radio, whole>>
  BY DEF RdCmdResumes, piVars, regVars, topiVars
<1>2. polled = {} /\ xfer = NoXfer
  BY DEF Inv, Turn, CommandTurn, HandlerTurn, EventTurn, RdCmdResumes
<1>3. buf' = [buf EXCEPT !.cmd = <<Ones>>]
  BY <1>2, ListenDoes DEF RdCmdResumes
<1>4. buf' \in Buffers
  BY <1>3, CmdTyped, WordTyped DEF DataOK, Typed
<1>. QED BY <1>1, <1>4 DEF DataOK, Typed, GotOK, ArgOK

(* A handler ends that writes no packet and no register. *)
LEMMA DataKept ==
  ASSUME DataOK, UNCHANGED <<buf, regs, injected, topiVars, piVars>>
  PROVE  DataOK'
BY DEF DataOK, Typed, GotOK, ArgOK, topiVars, piVars

LEMMA DataRegisterWrite ==
  ASSUME DataOK, RegisterWrite
  PROVE  DataOK'
<1>1. UNCHANGED <<buf, injected, topiVars, piVars>>
  BY DEF RegisterWrite, Ends
<1>2. buf.cmd[1].a \in Int
  BY DEF DataOK, Typed, Buffers, Words
<1>3. regs' \in [Regs -> Int]
  BY <1>2 DEF RegisterWrite, register_write, DataOK, Typed
<1>. QED BY <1>1, <1>3 DEF DataOK, Typed, GotOK, ArgOK, topiVars, piVars

(* The part of the buffer that is given to tcpip_input. *)
LEMMA FromPiTyped ==
  ASSUME buf \in Buffers, NEW n \in 1..Cap
  PROVE  /\ SubSeq(buf.frompi, 1, n) \in Seq(Words)
         /\ Len(SubSeq(buf.frompi, 1, n)) = n
         /\ \A i \in 1..n : SubSeq(buf.frompi, 1, n)[i] = buf.frompi[i]
<1>1. \A i \in 1..n : buf.frompi[i] \in Words
  BY SpinetAssumption DEF Buffers
<1>2. n \in Int /\ n >= 1
  BY SpinetAssumption
<1>. QED BY <1>1, <1>2, SubSeqProperties

LEMMA DataPacketInjected ==
  ASSUME DataOK, SendOK, PacketInjected
  PROVE  DataOK'
<1>1. spi_frompi_len \in 1..Cap
  BY DEF SendOK, WholeSent, Injecting, PacketInjected
<1>2. injected' \in Seq(Seq(Words))
  <2>1. SubSeq(buf.frompi, 1, spi_frompi_len) \in Seq(Words)
    BY <1>1, FromPiTyped DEF DataOK, Typed
  <2>. QED BY <2>1, AppendProperties DEF PacketInjected, DataOK, Typed
<1>3. UNCHANGED <<pi, got, sent, jobs, regs>>
  BY DEF PacketInjected, piVars
<1>4. CASE UNCHANGED <<topiVars, buf>>
  BY <1>2, <1>3, <1>4 DEF DataOK, Typed, GotOK, ArgOK, topiVars
<1>5. CASE RplOutput(spi_frompi_len)
  <2>1. spi_frompi_len \in Nat
    BY <1>1, SpinetAssumption
  <2>2. radio' = radio + 1 /\ rx' = TRUE
    BY <1>5, <2>1, RplOutputDoes DEF DataOK
  <2>3. buf' \in Buffers /\ spi_topi_actual' \in 0..Cap
        /\ whole' \in {"no", "unread", "read"}
    <3>1. spi_frompi_len + 1 <= Cap => spi_frompi_len + 1 \in 0..Cap
      BY <2>1, SpinetAssumption
    <3>. QED BY <1>5, <2>1, <3>1, RplOutputDoes DEF DataOK, Typed
  <2>. QED BY <1>2, <1>3, <2>2, <2>3 DEF DataOK, Typed, GotOK, ArgOK
<1>. QED BY <1>4, <1>5 DEF PacketInjected

LEMMA DataFromRadio ==
  ASSUME DataOK, NEW n \in Nat, FromRadio(n)
  PROVE  DataOK'
<1>1. UNCHANGED <<pi, got, sent, jobs, regs, injected>> /\ RplOutput(n)
  BY DEF FromRadio, regVars, piVars
<1>. QED BY <1>1, RplOutputTyped DEF DataOK, GotOK, ArgOK

LEMMA OutTyped ==
  ASSUME NEW p \in Int, NEW n \in Nat
  PROVE  /\ OutPacket(p, n) \in Seq(Words) /\ Len(OutPacket(p, n)) = n
         /\ \A i \in 1..n : OutPacket(p, n)[i] = Word("out", p, i)
<1>1. OutPacket(p, n) = [i \in 1..n |-> Word("out", p, i)]
  BY DEF OutPacket
<1>2. \A i \in 1..n : Word("out", p, i) \in Words
  BY WordTyped DEF WordKinds
<1>. QED BY <1>1, <1>2

LEMMA DataBegin ==
  ASSUME DataOK, NEW j, NEW x, Begin(Job(j, x)),
         j = "send" => x <= Cap, j = "write" => x \in Regs,
         j = "read" => x \in Readable, j # "fetch",
         rx' \in BOOLEAN, sent' \in Seq(Seq(Words))
  PROVE  DataOK'
<1>1. /\ pi = Idle /\ pi' = Job(j, x) /\ jobs' = jobs + 1
      /\ UNCHANGED <<got, buf, regs, injected, spi_topi_actual, radio, whole>>
  BY DEF Begin, regVars
<1>2. pi.at = 1 /\ pi'.at = 1 /\ pi'.job = j /\ pi'.arg = x
  BY <1>1 DEF Idle, Job
<1>3. GotOK' /\ ArgOK'
  BY <1>1, <1>2 DEF DataOK, GotOK, ArgOK
<1>4. Typed'
  BY <1>1 DEF DataOK, Typed
<1>. QED BY <1>3, <1>4 DEF DataOK

LEMMA DataPiClocks ==
  ASSUME Inv, Sync, DataOK, PiClocks
  PROVE  DataOK'
<1>0. /\ xfer.buf = BufOf(pi) /\ BufOf(pi) \in {"cmd", "topi", "frompi"}
      /\ pi.at \in 1..Count(pi) /\ pi \in JobRecord
  BY AtClock, StageType DEF Matched, Inv, PiOK
<1>1. /\ WordsOf(pi)[pi.at] \in Words
      /\ pi.at \in DOMAIN buf[xfer.buf] /\ buf[xfer.buf][pi.at] \in Words
  BY <1>0, WordsTyped, BufferAt DEF Inv
<1>2. buf' \in Buffers
  <2>. DEFINE w == WordsOf(pi)[pi.at]
  <2>1. buf' = [buf EXCEPT ![xfer.buf] = [buf[xfer.buf] EXCEPT ![pi.at] = w]]
    BY AtClock
  <2>. HIDE DEF w
  <2>2. w \in Words
    BY <1>1 DEF w
  <2>. QED BY <1>0, <2>1, <2>2 DEF DataOK, Typed, Buffers
<1>3. UNCHANGED <<regs, sent, injected, spi_topi_actual, rx, radio, jobs>>
      /\ whole' \in {"no", "unread", "read"}
  BY DEF PiClocks, regVars, DataOK, Typed
<1>4. Typed'
  BY <1>2, <1>3 DEF DataOK, Typed
<1>5. CASE pi.at < Count(pi)
  <2>1. pi' = [pi EXCEPT !.at = @ + 1] /\ got' = Append(got, buf[xfer.buf][pi.at])
    BY <1>5, AtClock
  <2>2. pi'.at = pi.at + 1 /\ pi'.job = pi.job /\ pi'.arg = pi.arg
    BY <1>0, <2>1 DEF JobRecord
  <2>3. got' \in Seq(Words) /\ Len(got') = Len(got) + 1
    BY <1>1, <2>1, AppendProperties DEF DataOK, GotOK
  <2>4. GotOK'
    BY <1>0, <2>2, <2>3 DEF DataOK, GotOK, JobRecord
  <2>. QED BY <1>4, <2>2, <2>4 DEF DataOK, ArgOK
<1>6. CASE ~(pi.at < Count(pi))
  <2>. DEFINE words == Append(got, buf[xfer.buf][pi.at])
  <2>1. pi' = NextStage(words) /\ got' = <<>> /\ pi.job # "idle"
    BY <1>6, AtClock
  <2>. HIDE DEF words
  <2>2. pi'.at = 1
    BY <2>1, NextStageType DEF Fresh, Inv
  <2>3. GotOK'
    BY <2>1, <2>2, EmptySeq DEF GotOK
  <2>4. ArgOK'
    <3>1. CASE pi' = [pi EXCEPT !.stage = "data", !.at = 1]
      <4>1. pi'.job = pi.job /\ pi'.arg = pi.arg
        BY <1>0, <3>1 DEF JobRecord
      <4>. QED BY <4>1 DEF DataOK, ArgOK
    <3>2. CASE words[1].a \in 1..Cap /\ pi' = Job("fetch", words[1].a)
      <4>1. pi'.job = "fetch" /\ pi'.arg <= Cap
        BY <3>2, SpinetAssumption DEF Job
      <4>. QED BY <4>1 DEF ArgOK
    <3>3. CASE pi' = Idle \/ pi' = Job("clear", 0)
      <4>1. pi'.job \in {"idle", "clear"}
        BY <3>3 DEF Idle, Job
      <4>. QED BY <4>1 DEF ArgOK
    <3>. QED BY <2>1, <3>1, <3>2, <3>3, NextStageCases
  <2>. QED BY <1>4, <2>3, <2>4 DEF DataOK
<1>. QED BY <1>5, <1>6

LEMMA DataInit == Init => DataOK
<1>. SUFFICES ASSUME Init PROVE DataOK
  OBVIOUS
<1>1. buf \in Buffers
  <2>1. <<Ones>> \in [1..1 -> Words] /\ [i \in 1..Cap |-> Ones] \in [1..Cap -> Words]
    BY WordTyped
  <2>. QED BY <2>1 DEF Init, Buffers
<1>2. pi.at = 1 /\ pi.job = "idle"
  BY DEF Init, Idle
<1>3. GotOK /\ ArgOK
  BY <1>2, EmptySeq DEF Init, GotOK, ArgOK
<1>4. Typed
  <2>1. <<>> \in Seq(Seq(Words)) /\ 0 \in 0..Cap /\ [r \in Regs |-> 0] \in [Regs -> Int]
    BY EmptySeq, SpinetAssumption
  <2>2. /\ regs = [r \in Regs |-> 0] /\ sent = <<>> /\ injected = <<>>
        /\ spi_topi_actual = 0 /\ whole = "no" /\ rx = FALSE /\ radio = 0 /\ jobs = 0
    BY DEF Init
  <2>. QED BY <1>1, <2>1, <2>2 DEF Typed
<1>. QED BY <1>3, <1>4 DEF DataOK
-----------------------------------------------------------------------------
(* What is written to register 17 is zero. *)
LEMMA WriteRdCmd ==
  ASSUME Inv, Sync, WriteOK, RdCmd
  PROVE  WriteOK'
<1>1. uip_len' = 0 /\ polled' = {} /\ pi' = pi
  BY RdCmdDoes DEF WriteOK, RdCmd
<1>2. CASE pi.stage = "command"
  BY <1>1, <1>2, RdCmdDoes, SpinetAssumption DEF WriteOK, Handlers
<1>3. CASE pi.stage = "data" /\ pi.job \in {"clear", "write"}
  <2>1. regnum' = CommandOf(pi).a
    BY <1>3, RdCmdDoes
  <2>. QED BY <1>1, <1>3, <2>1 DEF WriteOK
<1>4. CASE pi.stage = "data" /\ pi.job \notin {"clear", "write"}
  <2>1. handler' = HandlerOf(pi)
    BY <1>4, RdCmdDoes
  <2>2. handler' # "spi_wrreg"
    BY <1>4, <2>1 DEF HandlerOf
  <2>. QED BY <1>1, <2>2 DEF WriteOK
<1>. QED BY <1>2, <1>3, <1>4, StageType DEF Inv

(* Any step after which no handler runs. *)
LEMMA WriteNoHandler ==
  ASSUME handler' = NoProc, uip_len' = 0
  PROVE  WriteOK'
BY SpinetAssumption DEF WriteOK, Handlers

LEMMA ResumesNoHandler ==
  ASSUME Inv, RdCmdResumes
  PROVE  handler' = NoProc
BY DEF Inv, Turn, CommandTurn, HandlerTurn, EventTurn, RdCmdResumes

LEMMA WriteRdCmdResumes ==
  ASSUME Inv, WriteOK, RdCmdResumes
  PROVE  WriteOK'
<1>1. uip_len' = 0
  BY DEF WriteOK, RdCmdResumes, regVars
<1>. QED BY <1>1, ResumesNoHandler, WriteNoHandler

LEMMA WriteHandlerEnds ==
  ASSUME WriteOK, RegisterRead \/ RegisterWrite \/ PacketTaken \/ PacketInjected
  PROVE  WriteOK'
<1>1. handler' = NoProc
  BY DEF RegisterRead, RegisterWrite, PacketTaken, PacketInjected, Ends
<1>2. CASE RegisterWrite
  <2>1. handler = "spi_wrreg" /\ polled # {}
    BY <1>2 DEF RegisterWrite, Ends
  <2>2. uip_len' = 0
    BY <1>2, <2>1 DEF RegisterWrite, register_write, WriteOK
  <2>. QED BY <1>1, <2>2, WriteNoHandler
<1>3. CASE ~RegisterWrite
  <2>1. uip_len' = 0
    BY <1>3 DEF RegisterRead, PacketTaken, PacketInjected, regVars, WriteOK
  <2>. QED BY <1>1, <2>1, WriteNoHandler
<1>. QED BY <1>2, <1>3

LEMMA WriteKept ==
  ASSUME WriteOK, UNCHANGED <<handler, polled, uip_len, regnum, pi>>,
         buf'.cmd = buf.cmd
  PROVE  WriteOK'
BY DEF WriteOK

LEMMA WriteBegin ==
  ASSUME WriteOK, NEW p, Begin(p)
  PROVE  WriteOK'
<1>1. pi.stage # "data"
  BY DEF Begin, Idle
<1>2. UNCHANGED <<handler, polled, uip_len, regnum, buf>>
  BY DEF Begin, procVars, regVars
<1>. QED BY <1>1, <1>2 DEF WriteOK

LEMMA WritePiClocks ==
  ASSUME Inv, Sync, DataOK, WriteOK, PiClocks
  PROVE  WriteOK'
<1>1. uip_len' = 0 /\ regnum' = regnum /\ handler' = handler /\ polled = {}
  BY AtClock DEF WriteOK, PiClocks, regVars
<1>2. CASE handler # "spi_wrreg"
  BY <1>1, <1>2 DEF WriteOK
<1>3. CASE handler = "spi_wrreg"
  <2>1. pi.stage = "data" /\ regnum = CommandOf(pi).a
    BY <1>1, <1>3 DEF WriteOK
  <2>2. HandlerOf(pi) = "spi_wrreg" /\ pi.at \in 1..Count(pi)
    BY <1>3, <2>1, AtClock DEF Matched
  <2>3. pi.job \in {"clear", "write"}
    BY <2>2 DEF HandlerOf
  <2>4. pi.at = 1 /\ Count(pi) = 1 /\ BufOf(pi) = "cmd"
    BY <2>1, <2>2, <2>3 DEF Count, BufOf
  <2>5. polled' # {}
    BY <2>4, AtClock
  <2>6. ASSUME regnum = 17 PROVE buf'.cmd[1].a = 0
    <3>1. pi.job = "clear"
      <4>1. pi.job = "write" => CommandOf(pi).a \in 0..15
        BY SpinetAssumption DEF CommandOf, Word, DataOK, ArgOK
      <4>. QED BY <2>1, <2>3, <2>6, <4>1
    <3>2. WordsOf(pi)[1] = Word("value", 0, 0)
      BY <2>1, <3>1 DEF WordsOf
    <3>3. buf' = [buf EXCEPT !.cmd = [buf.cmd EXCEPT ![1] = Word("value", 0, 0)]]
      BY <2>4, <3>2, AtClock DEF Matched
    <3>4. buf'.cmd[1] = Word("value", 0, 0)
      BY <3>3 DEF DataOK, Typed, Buffers
    <3>. QED BY <3>4 DEF Word
  <2>. QED BY <1>1, <2>5, <2>6 DEF WriteOK
<1>. QED BY <1>2, <1>3

LEMMA WriteInit == Init => WriteOK
BY SpinetAssumption DEF Init, WriteOK, Handlers
-----------------------------------------------------------------------------
(* What is sent is injected. *)
LEMMA SendRdCmd ==
  ASSUME Inv, Sync, SendOK, RdCmd
  PROVE  SendOK'
<1>1. /\ UNCHANGED <<pi, sent, injected>> /\ polled' = {} /\ handler = NoProc
      /\ pi.at = 1
  BY RdCmdDoes, AtRdCmd DEF RdCmd, piVars
<1>2. ~Injecting /\ ~Injecting'
  BY <1>1, SpinetAssumption DEF Injecting, Handlers
<1>3. SentCount' /\ SentSame' /\ SentLast' /\ WholeSent'
  BY <1>1, <1>2 DEF SendOK, SentCount, SentSame, SentLast, WholeSent, Sending
<1>4. PartSent'
  <2>. SUFFICES ASSUME handler' = "spi_proc_frompi" PROVE PartSent'
    BY DEF PartSent
  <2>1. pi.stage = "data" /\ HandlerOf(pi) = "spi_proc_frompi"
    BY RdCmdDoes, SpinetAssumption DEF Handlers
  <2>2. pi.job = "send"
    BY <2>1 DEF HandlerOf, Inv, PiOK, JobRecord, Jobs, Sync
  <2>3. spi_frompi_len' = pi.arg
    BY <2>1, <2>2, RdCmdDoes
  <2>. QED BY <1>1, <2>1, <2>2, <2>3 DEF PartSent, Sending
<1>. QED BY <1>3, <1>4 DEF SendOK

(* A step after which no handler runs, as none injected before. *)
LEMMA SendNoHandler ==
  ASSUME SendOK, ~Injecting, handler' = NoProc, UNCHANGED <<pi, sent, injected>>
  PROVE  SendOK'
<1>1. ~Injecting' /\ handler' # "spi_proc_frompi"
  BY SpinetAssumption DEF Injecting, Handlers
<1>. QED
  BY <1>1 DEF SendOK, SentCount, SentSame, SentLast, WholeSent, PartSent, Sending

LEMMA SendRdCmdResumes ==
  ASSUME Inv, SendOK, RdCmdResumes
  PROVE  SendOK'
<1>1. UNCHANGED <<handler, pi, sent, injected>>
  BY DEF RdCmdResumes, piVars, regVars
<1>2. ~Injecting
  BY <1>1, ResumesNoHandler, SpinetAssumption DEF Injecting, Handlers
<1>. QED BY <1>1, <1>2, ResumesNoHandler, SendNoHandler

LEMMA SendEnds ==
  ASSUME SendOK, RegisterRead \/ RegisterWrite \/ PacketTaken
  PROVE  SendOK'
<1>1. handler # "spi_proc_frompi" /\ handler' = NoProc /\ UNCHANGED <<pi, sent, injected>>
  BY DEF RegisterRead, RegisterWrite, PacketTaken, Ends, piVars, regVars
<1>. QED BY <1>1, SendNoHandler DEF Injecting

LEMMA SendPacketInjected ==
  ASSUME DataOK, SendOK, PacketInjected
  PROVE  SendOK'
<1>. DEFINE n == Len(injected)
            w == SubSeq(buf.frompi, 1, spi_frompi_len)
<1>1. /\ Injecting /\ handler' = NoProc /\ injected' = Append(injected, w)
      /\ UNCHANGED <<pi, sent>>
  BY DEF PacketInjected, Injecting, piVars
<1>2. w = sent[n + 1] /\ w \in Seq(Words)
  BY <1>1, FromPiTyped DEF SendOK, WholeSent, DataOK, Typed
<1>. HIDE DEF w
<1>3. ~Injecting' /\ handler' # "spi_proc_frompi"
  BY <1>1, SpinetAssumption DEF Injecting, Handlers
<1>4. n \in Nat /\ Len(injected') = n + 1
      /\ \A i \in 1..n : injected'[i] = injected[i]
      /\ injected'[n + 1] = w
  BY <1>1, <1>2, AppendProperties, LenProperties DEF DataOK, Typed
<1>5. SentSame'
  BY <1>1, <1>2, <1>4 DEF SendOK, SentSame
<1>6. SentCount' /\ SentLast'
  BY <1>1, <1>3, <1>4 DEF SendOK, SentCount, SentLast, Sending
<1>. QED BY <1>3, <1>5, <1>6 DEF SendOK, PartSent, WholeSent

LEMMA SendFromRadio ==
  ASSUME SendOK, UNCHANGED <<handler, polled, spi_frompi_len, pi, sent, injected>>,
         buf'.frompi = buf.frompi
  PROVE  SendOK'
BY
DEF SendOK, SentCount, SentSame, SentLast, PartSent, WholeSent, Sending, Injecting

LEMMA SendBegin ==
  ASSUME DataOK, SendOK, NEW j, NEW x \in Nat, Begin(Job(j, x)),
         IF j = "send" THEN sent' = Append(sent, OutPacket(Len(sent) + 1, x))
         ELSE sent' = sent
  PROVE  SendOK'
<1>1. /\ pi = Idle /\ pi' = Job(j, x)
      /\ UNCHANGED <<handler, polled, spi_frompi_len, injected, buf>>
  BY DEF Begin, procVars, regVars
<1>2. ~Sending /\ pi'.job = j /\ pi'.arg = x
  BY <1>1 DEF Idle, Job, Sending
<1>3. UNCHANGED Injecting
  BY <1>1 DEF Injecting
<1>4. PartSent'
  BY <1>1, <1>2, <1>3 DEF SendOK, PartSent
<1>5. CASE j = "send"
  <2>. DEFINE n == Len(sent)
  <2>1. /\ sent \in Seq(Seq(Words)) /\ n \in Nat
        /\ injected \in Seq(Seq(Words)) /\ Len(injected) \in Nat
    BY LenProperties DEF DataOK, Typed
  <2>2. OutPacket(n + 1, x) \in Seq(Words)
    BY <2>1, OutTyped
  <2>3. /\ Len(sent') = n + 1 /\ \A i \in 1..n : sent'[i] = sent[i]
        /\ sent'[n + 1] = OutPacket(n + 1, x)
    BY <1>5, <2>1, <2>2, AppendProperties
  <2>4. n = Len(injected) + IF Injecting THEN 1 ELSE 0
    BY <1>2, <2>1 DEF SendOK, SentCount
  <2>9. Injecting \in BOOLEAN
    BY DEF Injecting
  <2>. HIDE DEF n
  <2>10. Len(injected) <= n
    BY <2>1, <2>4, <2>9
  <2>5. SentSame'
    <3>1. \A i \in 1..Len(injected) : i \in 1..n
      BY <2>1, <2>10
    <3>. QED BY <1>1, <2>3, <3>1 DEF SendOK, SentSame
  <2>6. SentCount'
    <3>1. n + 1 = Len(injected) + 1 + IF Injecting THEN 1 ELSE 0
      BY <2>1, <2>4, <2>9
    <3>. QED BY <1>1, <1>2, <1>3, <1>5, <2>3, <3>1 DEF SentCount, Sending
  <2>7. SentLast'
    BY <1>2, <2>3 DEF SentLast
  <2>8. WholeSent'
    <3>1. Injecting => sent'[Len(injected) + 1] = sent[Len(injected) + 1]
      BY <2>1, <2>3, <2>4, <2>9
    <3>. QED BY <1>1, <1>3, <3>1 DEF SendOK, WholeSent
  <2>. QED BY <1>4, <2>5, <2>6, <2>7, <2>8 DEF SendOK
<1>6. CASE j # "send"
  BY <1>1, <1>2, <1>3, <1>4, <1>6
  DEF SendOK, SentCount, SentSame, SentLast, WholeSent, Sending
<1>. QED BY <1>5, <1>6

(* The word that the PI clocks, of the packet it sends. *)
LEMMA ClockedWord ==
  ASSUME Inv, Sync, DataOK, PiClocks, pi.stage = "data", pi.job = "send"
  PROVE  /\ Count(pi) = pi.arg /\ pi.arg \in 1..Cap /\ pi.at \in 1..pi.arg
         /\ \A i \in 1..Cap :
              buf'.frompi[i] = IF i = pi.at THEN Word("out", Len(sent), i)
                               ELSE buf.frompi[i]
<1>1. /\ Count(pi) = pi.arg /\ pi.arg \in 1..Cap /\ BufOf(pi) = "frompi"
  BY SpinetAssumption
  DEF Count, Inv, PiOK, JobRecord, DataOK, ArgOK, BufOf
<1>2. pi.at \in 1..pi.arg
  BY <1>1 DEF Inv, PiOK
<1>3. WordsOf(pi)[pi.at] = Word("out", Len(sent), pi.at)
  BY <1>2 DEF WordsOf, OutPacket
<1>. DEFINE w == Word("out", Len(sent), pi.at)
<1>4. buf' = [buf EXCEPT !.frompi = [buf.frompi EXCEPT ![pi.at] = w]]
  BY <1>1, <1>3, AtClock DEF Matched
<1>. HIDE DEF w
<1>5. \A i \in 1..Cap : buf'.frompi[i] = IF i = pi.at THEN w ELSE buf.frompi[i]
  BY <1>4 DEF DataOK, Typed, Buffers
<1>. QED BY <1>1, <1>2, <1>5 DEF w

LEMMA SendPiClocks ==
  ASSUME Inv, Sync, DataOK, SendOK, PiClocks
  PROVE  SendOK'
<1>0. /\ polled = {} /\ pi \in JobRecord /\ handler' = handler
      /\ UNCHANGED <<sent, injected, spi_frompi_len>> /\ pi.job # "idle"
      /\ pi.stage = "data" => handler = HandlerOf(pi)
      /\ pi.stage = "command" => rdcmd = "command"
  BY AtClock DEF PiClocks, regVars, Inv, PiOK, Matched
<1>1. ~Injecting
  BY <1>0 DEF Injecting
<1>2. SentSame'
  BY <1>0 DEF SendOK, SentSame
<1>3. CASE pi.at < Count(pi)
  <2>1. polled' = {} /\ pi' = [pi EXCEPT !.at = @ + 1]
    BY <1>3, AtClock
  <2>2. /\ ~Injecting' /\ pi'.job = pi.job /\ pi'.arg = pi.arg /\ pi'.stage = pi.stage
        /\ pi'.at = pi.at + 1
    BY <1>0, <2>1 DEF Injecting, JobRecord
  <2>3. SentCount' /\ SentLast' /\ WholeSent'
    BY <1>0, <1>1, <2>2 DEF SendOK, SentCount, SentLast, WholeSent, Sending
  <2>4. PartSent'
    <3>. SUFFICES ASSUME handler = "spi_proc_frompi" PROVE PartSent'
      BY <1>0 DEF PartSent
    <3>1. /\ Sending /\ pi.stage = "data" /\ spi_frompi_len = pi.arg
          /\ \A i \in 1..pi.at - 1 : buf.frompi[i] = Word("out", Len(sent), i)
      BY <1>1 DEF SendOK, PartSent
    <3>2. \A i \in 1..pi.at : buf'.frompi[i] = Word("out", Len(sent), i)
      BY <3>1, ClockedWord, SpinetAssumption DEF Sending
    <3>3. pi'.at - 1 = pi.at
      BY <1>0, <2>2 DEF JobRecord
    <3>. QED BY <1>0, <2>2, <3>1, <3>2, <3>3 DEF PartSent, Sending
  <2>. QED BY <1>2, <2>3, <2>4 DEF SendOK
<1>4. CASE ~(pi.at < Count(pi)) /\ pi.stage = "command"
  <2>1. handler' # "spi_proc_frompi"
    BY <1>0, <1>4, SpinetAssumption
    DEF Inv, Turn, CommandTurn, HandlerTurn, EventTurn, Handlers
  <2>. DEFINE words == Append(got, buf[xfer.buf][pi.at])
  <2>2. pi' = NextStage(words)
    BY <1>4, AtClock
  <2>. HIDE DEF words
  <2>3. /\ Sending' <=> Sending
        /\ Sending => pi'.arg = pi.arg
    <3>1. CASE pi.job = "other"
      BY <1>0, <1>4, <2>2, <3>1, NextStageCases DEF Sending, Idle
    <3>2. CASE pi.job # "other"
      <4>1. pi' = [pi EXCEPT !.stage = "data", !.at = 1]
        BY <1>0, <1>4, <2>2, <3>2, NextStageCases
      <4>2. pi'.job = pi.job /\ pi'.arg = pi.arg
        BY <1>0, <4>1 DEF JobRecord
      <4>. QED BY <4>2 DEF Sending
    <3>. QED BY <3>1, <3>2
  <2>. QED BY <1>0, <1>1, <1>2, <2>1, <2>3
    DEF SendOK, SentCount, SentLast, PartSent, WholeSent, Injecting
<1>5. CASE ~(pi.at < Count(pi)) /\ pi.stage = "data"
  <2>. DEFINE words == Append(got, buf[xfer.buf][pi.at])
  <2>2. /\ pi' = NextStage(words) /\ polled' = {handler}
        /\ pi.at = Count(pi)
    BY <1>5, AtClock DEF Matched
  <2>. HIDE DEF words
  <2>3. ~Sending'
    BY <1>0, <1>5, <2>2, NextStageCases DEF Sending, Idle, Job
  <2>4. CASE pi.job = "send"
    <3>1. handler = "spi_proc_frompi"
      BY <1>0, <1>5, <2>4 DEF HandlerOf
    <3>2. Injecting'
      BY <1>0, <2>2, <3>1 DEF Injecting
    <3>3. SentCount' /\ SentLast' /\ PartSent'
      BY <1>0, <1>1, <2>3, <2>4, <3>2
      DEF SendOK, SentCount, SentLast, PartSent, Sending
    <3>4. /\ spi_frompi_len = pi.arg
          /\ \A i \in 1..pi.at - 1 : buf.frompi[i] = Word("out", Len(sent), i)
      BY <1>1, <3>1 DEF SendOK, PartSent
    <3>5. /\ pi.at = pi.arg /\ pi.arg \in 1..Cap
          /\ \A i \in 1..pi.arg : buf'.frompi[i] = Word("out", Len(sent), i)
      BY <1>5, <2>2, <2>4, <3>4, ClockedWord, SpinetAssumption
    <3>6. sent[Len(sent)] = OutPacket(Len(sent), pi.arg)
      BY <2>4 DEF SendOK, SentLast, Sending
    <3>7. Len(injected) + 1 = Len(sent) /\ Len(sent) \in Int /\ pi.arg \in Nat
      BY <1>0, <1>1, <2>4, LenProperties
      DEF SendOK, SentCount, Sending, DataOK, Typed, JobRecord
    <3>8. OutPacket(Len(sent), pi.arg) = SubSeq(buf'.frompi, 1, pi.arg)
      <4>1. buf' \in Buffers
        BY DataPiClocks DEF DataOK, Typed
      <4>. DEFINE f == buf'.frompi
      <4>2. /\ SubSeq(f, 1, pi.arg) \in Seq(Words)
            /\ Len(SubSeq(f, 1, pi.arg)) = pi.arg
            /\ \A i \in 1..pi.arg : SubSeq(f, 1, pi.arg)[i] = f[i]
        <5>1. \A i \in 1..pi.arg : f[i] \in Words
          BY <3>5, <4>1, SpinetAssumption DEF Buffers
        <5>2. pi.arg \in Int /\ pi.arg >= 1
          BY <3>5, <3>7
        <5>. HIDE DEF f
        <5>. QED BY <5>1, <5>2, SubSeqProperties
      <4>3. \A i \in 1..pi.arg : f[i] = Word("out", Len(sent), i)
        BY <3>5
      <4>. HIDE DEF f
      <4>. DEFINE s == SubSeq(f, 1, pi.arg)
                  o == OutPacket(Len(sent), pi.arg)
      <4>4. /\ o \in Seq(Words) /\ Len(o) = pi.arg
            /\ \A i \in 1..pi.arg : o[i] = Word("out", Len(sent), i)
        BY <3>7, OutTyped
      <4>5. s \in Seq(Words) /\ Len(s) = pi.arg
            /\ \A i \in 1..pi.arg : s[i] = o[i]
        BY <4>2, <4>3, <4>4
      <4>. HIDE DEF s, o
      <4>6. o = s
        BY <4>4, <4>5, SeqEqual
      <4>. QED BY <4>6 DEF s, o, f
    <3>9. WholeSent'
      BY <1>0, <3>4, <3>5, <3>6, <3>7, <3>8 DEF WholeSent
    <3>. QED BY <1>2, <3>3, <3>9 DEF SendOK
  <2>5. CASE pi.job # "send"
    <3>1. handler' # "spi_proc_frompi"
      BY <1>0, <1>5, <2>5 DEF HandlerOf, Sync, JobRecord, Jobs
    <3>. QED BY <1>0, <1>1, <1>2, <2>3, <2>5, <3>1
      DEF SendOK, SentCount, SentLast, PartSent, WholeSent, Injecting, Sending
  <2>. QED BY <2>4, <2>5
<1>. QED BY <1>0, <1>3, <1>4, <1>5 DEF JobRecord

LEMMA SendInit == Init => SendOK
<1>. SUFFICES ASSUME Init PROVE SendOK
  OBVIOUS
<1>1. pi.job = "idle" /\ handler = NoProc /\ sent = <<>> /\ injected = <<>>
  BY DEF Init, Idle
<1>2. handler # "spi_proc_frompi"
  BY <1>1, SpinetAssumption DEF Handlers
<1>. QED BY <1>1, <1>2
  DEF SendOK, SentCount, SentSame, SentLast, PartSent, WholeSent, Sending, Injecting
-----------------------------------------------------------------------------
(* The packet whose length the PI has read stays in spi_topi until it is    *)
(* fetched, or another one takes its place.                                 *)
LEMMA FetchKept ==
  ASSUME FetchOK, UNCHANGED <<whole, spi_topi_actual, pi, got, rdcmd>>,
         buf'.topi = buf.topi, radio' = radio,
         whole = "read" => buf'.cmd = buf.cmd
  PROVE  FetchOK'
<1>1. /\ UNCHANGED (\E p \in 1..radio : InBuffer(p))
      /\ UNCHANGED (\E p \in 1..radio : PartlyTaken(p))
  BY DEF InBuffer, PartlyTaken
<1>. QED BY <1>1 DEF FetchOK, Unread, LengthRead, Fetching

LEMMA FetchRdCmd ==
  ASSUME Inv, Sync, DataOK, FetchOK, RdCmd
  PROVE  FetchOK'
<1>1. /\ UNCHANGED <<spi_topi_actual, radio, pi, got>>
      /\ rdcmd = "command" /\ pi.at = 1 /\ pi.stage \in {"command", "data"}
  BY AtRdCmd DEF RdCmd, piVars
<1>2. buf'.topi = buf.topi
  BY RdCmdDoes DEF DataOK, Typed, Buffers
<1>3. /\ UNCHANGED (\E p \in 1..radio : InBuffer(p))
      /\ UNCHANGED (\E p \in 1..radio : PartlyTaken(p))
  BY <1>1, <1>2 DEF InBuffer, PartlyTaken
<1>4. CASE pi.stage = "data" /\ pi.job = "length" /\ whole = "unread"
  <2>1. CommandOf(pi).a = 17
    BY <1>4 DEF CommandOf, Word
  <2>2. register_read(17) = {spi_topi_actual}
    BY DEF register_read
  <2>3. /\ whole' = "read" /\ rdcmd' = "handler"
        /\ buf' = [buf EXCEPT !.cmd = <<Word("value", spi_topi_actual, 0)>>]
    BY <1>4, <2>1, <2>2, RdCmdDoes
  <2>4. buf'.cmd[1].a = spi_topi_actual
    BY <2>3 DEF Word, DataOK, Typed, Buffers
  <2>. QED BY <1>1, <1>3, <1>4, <2>3, <2>4 DEF FetchOK, Unread, LengthRead, Fetching
<1>5. CASE ~(pi.stage = "data" /\ pi.job = "length" /\ whole = "unread")
  <2>1. pi.stage = "data" /\ pi.job = "read" => CommandOf(pi).a # 17
    BY SpinetAssumption DEF CommandOf, Word, DataOK, ArgOK, Readable
  <2>2. whole' = whole
    BY <1>5, <2>1, RdCmdDoes
  <2>. QED BY <1>1, <1>3, <2>2 DEF FetchOK, Unread, LengthRead, Fetching
<1>. QED BY <1>4, <1>5

LEMMA FetchRdCmdResumes ==
  ASSUME Inv, Sync, DataOK, FetchOK, RdCmdResumes
  PROVE  FetchOK'
<1>1. UNCHANGED <<whole, spi_topi_actual, radio, pi, got>> /\ pi.stage = "command"
  BY AtEnd DEF RdCmdResumes, topiVars, piVars
<1>2. polled = {} /\ xfer = NoXfer
  BY DEF Inv, Turn, CommandTurn, HandlerTurn, EventTurn, RdCmdResumes
<1>3. buf'.topi = buf.topi
  BY <1>2, ListenDoes DEF RdCmdResumes, DataOK, Typed, Buffers
<1>4. UNCHANGED (\E p \in 1..radio : InBuffer(p))
  BY <1>1, <1>3 DEF InBuffer
<1>. QED BY <1>1, <1>4 DEF FetchOK, Unread, LengthRead, Fetching

LEMMA FetchEnds ==
  ASSUME FetchOK, UNCHANGED <<rdcmd, buf, piVars, topiVars>>
  PROVE  FetchOK'
BY FetchKept DEF piVars, topiVars

LEMMA FetchRplOutput ==
  ASSUME Typed, FetchOK, NEW n \in Nat \ {0}, RplOutput(n), UNCHANGED <<pi, got, rdcmd>>
  PROVE  FetchOK'
<1>1. radio' = radio + 1 /\ radio \in Nat
  BY RplOutputDoes DEF Typed
<1>2. CASE UNCHANGED <<buf, spi_topi_actual, whole>>
  <2>1. 1..radio \subseteq 1..radio'
    BY <1>1
  <2>2. /\ (\E p \in 1..radio : InBuffer(p)) => (\E p \in 1..radio : InBuffer(p))'
        /\ (\E p \in 1..radio : PartlyTaken(p)) => (\E p \in 1..radio : PartlyTaken(p))'
    BY <1>2, <2>1 DEF InBuffer, PartlyTaken
  <2>. QED BY <1>2, <2>2 DEF FetchOK, Unread, LengthRead, Fetching
<1>3. CASE /\ n + 1 <= Cap /\ spi_topi_actual' = n + 1 /\ whole' = "unread"
           /\ \A i \in 1..(n + 1) : buf'.topi[i] = Packet(radio + 1, n)[i]
  <2>1. spi_topi_actual' > 0 /\ spi_topi_actual' - 1 = n /\ radio + 1 \in 1..radio'
    BY <1>1, <1>3
  <2>2. PICK p : p = radio + 1
    OBVIOUS
  <2>3. InBuffer(p)'
    BY <1>3, <2>1, <2>2 DEF InBuffer
  <2>4. Unread'
    BY <1>3, <2>1, <2>2, <2>3 DEF Unread
  <2>. QED BY <2>1, <2>4 DEF FetchOK
<1>. QED BY <1>2, <1>3, RplOutputDoes

LEMMA FetchBegin ==
  ASSUME FetchOK, NEW j, NEW x, Begin(Job(j, x))
  PROVE  FetchOK'
<1>1. /\ pi = Idle /\ UNCHANGED <<spi_topi_actual, radio, whole, buf>>
  BY DEF Begin
<1>2. whole # "read"
  BY <1>1 DEF FetchOK, Unread, LengthRead, Fetching, Idle
<1>3. UNCHANGED (\E p \in 1..radio : InBuffer(p))
  BY <1>1 DEF InBuffer
<1>. QED BY <1>1, <1>2, <1>3 DEF FetchOK, Unread, LengthRead, Fetching

(* The PI clocks words of another buffer. *)
LEMMA TopiKept ==
  ASSUME Inv, Sync, DataOK, PiClocks, ~(pi.stage = "data" /\ pi.job = "fetch")
  PROVE  buf'.topi = buf.topi
<1>1. BufOf(pi) \in {"cmd", "frompi"}
  BY DEF BufOf
<1>2. xfer.buf = BufOf(pi)
  BY AtClock DEF Matched
<1>. DEFINE w == WordsOf(pi)[pi.at]
<1>3. buf' = [buf EXCEPT ![xfer.buf] = [buf[xfer.buf] EXCEPT ![pi.at] = w]]
  BY AtClock
<1>. HIDE DEF w
<1>. QED BY <1>1, <1>2, <1>3 DEF DataOK, Typed, Buffers

(* The PI takes a word of the packet it fetches. *)
LEMMA Taken ==
  ASSUME Inv, Sync, DataOK, PiClocks, Fetching
  PROVE  /\ pi.at \in 1..spi_topi_actual /\ Count(pi) = spi_topi_actual
         /\ xfer.buf = "topi"
         /\ \A i \in 1..Cap : i # pi.at => buf'.topi[i] = buf.topi[i]
<1>1. Count(pi) = spi_topi_actual /\ BufOf(pi) = "topi" /\ pi.at \in 1..Count(pi)
  BY AtClock DEF Fetching, Count, BufOf
<1>2. xfer.buf = "topi"
  BY <1>1, AtClock DEF Matched
<1>. DEFINE w == WordsOf(pi)[pi.at]
<1>3. buf' = [buf EXCEPT !.topi = [buf.topi EXCEPT ![pi.at] = w]]
  BY <1>2, AtClock
<1>. HIDE DEF w
<1>4. \A i \in 1..Cap : i # pi.at => buf'.topi[i] = buf.topi[i]
  BY <1>3 DEF DataOK, Typed, Buffers
<1>. QED BY <1>1, <1>2, <1>4

LEMMA FetchPiClocks ==
  ASSUME Inv, Sync, DataOK, FetchOK, PiClocks
  PROVE  FetchOK'
<1>0. /\ UNCHANGED <<spi_topi_actual, radio, rdcmd>> /\ pi \in JobRecord
      /\ pi.at \in 1..Count(pi) /\ pi.job # "idle"
      /\ spi_topi_actual \in 0..Cap /\ spi_topi_actual \in Nat
  <2>1. UNCHANGED <<spi_topi_actual, radio, rdcmd>>
    BY DEF PiClocks
  <2>2. pi.at \in 1..Count(pi) /\ pi.job # "idle"
    BY AtClock
  <2>. QED BY <2>1, <2>2, SpinetAssumption DEF Inv, PiOK, DataOK, Typed
<1>1. CASE whole = "no"
  BY <1>1 DEF PiClocks, FetchOK
<1>2. CASE spi_topi_actual > 0 /\ Unread
  <2>1. CASE pi.stage = "data" /\ pi.job = "fetch"
    BY <1>2, <2>1 DEF PiClocks, FetchOK, Unread
  <2>2. CASE ~(pi.stage = "data" /\ pi.job = "fetch")
    <3>1. whole' = whole /\ buf'.topi = buf.topi
      BY <2>2, TopiKept DEF PiClocks
    <3>2. UNCHANGED (\E p \in 1..radio : InBuffer(p))
      BY <1>0, <3>1 DEF InBuffer
    <3>. QED BY <1>0, <1>2, <3>1, <3>2 DEF FetchOK, Unread
  <2>. QED BY <2>1, <2>2
<1>3. CASE spi_topi_actual > 0 /\ LengthRead
  <2>1. ~(pi.stage = "data" /\ pi.job = "fetch")
    BY <1>3 DEF LengthRead
  <2>2. whole' = whole /\ buf'.topi = buf.topi
    BY <2>1, TopiKept DEF PiClocks
  <2>3. UNCHANGED (\E p \in 1..radio : InBuffer(p))
    BY <1>0, <2>2 DEF InBuffer
  <2>4. Count(pi) = 1 /\ pi.at = 1
    BY <1>0, <2>1, <1>3 DEF LengthRead, Count
  <2>5. pi' = NextStage(Append(got, buf[xfer.buf][pi.at]))
    BY <2>4, AtClock
  <2>6. CASE pi.job = "length" /\ pi.stage = "data" /\ buf.cmd[1].a = spi_topi_actual
    <3>1. xfer.buf = "cmd"
      BY <2>6, AtClock DEF Matched, BufOf
    <3>. DEFINE words == Append(got, buf.cmd[1])
    <3>2. words[1] = buf.cmd[1]
      BY <2>4, AppendProperties DEF DataOK, GotOK, Typed, Buffers
    <3>3. pi' = NextStage(words)
      BY <2>4, <2>5, <3>1
    <3>. HIDE DEF words
    <3>4. words[1].a \in 1..Cap /\ words[1].a = spi_topi_actual
      BY <1>0, <1>3, <2>6, <3>2
    <3>5. pi' = Job("fetch", spi_topi_actual)
      BY <1>0, <2>6, <3>3, <3>4, NextStageCases
    <3>6. pi'.job = "fetch" /\ pi'.stage = "command" /\ pi'.arg = spi_topi_actual
      BY <3>5 DEF Job
    <3>. QED BY <1>0, <1>3, <2>2, <2>3, <3>6 DEF FetchOK, LengthRead
  <2>7. CASE pi.job = "fetch" /\ pi.stage = "command" /\ pi.arg = spi_topi_actual
    <3>1. pi' = [pi EXCEPT !.stage = "data", !.at = 1]
      BY <2>5, <2>7 DEF NextStage
    <3>2. /\ pi'.job = "fetch" /\ pi'.stage = "data" /\ pi'.arg = spi_topi_actual
          /\ pi'.at = 1
      BY <1>0, <2>7, <3>1 DEF JobRecord
    <3>3. (\E p \in 1..radio : InBuffer(p)) => (\E p \in 1..radio : PartlyTaken(p))'
      BY <1>0, <2>2, <3>2 DEF InBuffer, PartlyTaken
    <3>. QED BY <1>0, <1>3, <2>2, <3>2, <3>3 DEF FetchOK, LengthRead, Fetching
  <2>. QED BY <1>3, <2>6, <2>7 DEF LengthRead
<1>4. CASE spi_topi_actual > 0 /\ Fetching
  <2>0. /\ pi.at \in 1..spi_topi_actual /\ Count(pi) = spi_topi_actual
        /\ xfer.buf = "topi"
        /\ \A i \in 1..Cap : i # pi.at => buf'.topi[i] = buf.topi[i]
    BY <1>4, Taken
  <2>1. CASE pi.at < spi_topi_actual
    <3>1. /\ pi' = [pi EXCEPT !.at = @ + 1]
          /\ got' = Append(got, buf.topi[pi.at])
      BY <2>0, <2>1, AtClock
    <3>2. /\ pi'.at = pi.at + 1 /\ pi'.job = pi.job /\ pi'.stage = pi.stage
          /\ pi'.arg = pi.arg
      BY <1>0, <3>1 DEF JobRecord
    <3>3. whole' = "read"
      <4>1. Len(WordsOf(pi)) # pi.at
        BY <1>0, <2>0, <2>1, AtClock DEF JobRecord
      <4>2. whole = "read"
        BY <1>4 DEF Fetching
      <4>. QED BY <4>1, <4>2 DEF PiClocks
    <3>4. /\ \A i \in 1..pi.at - 1 : got'[i] = got[i]
          /\ got'[pi.at] = buf.topi[pi.at]
      <4>1. buf.topi[pi.at] \in Words
        <5>1. pi.at \in 1..Cap
          BY <1>0, <2>0, SpinetAssumption
        <5>. QED BY <5>1 DEF DataOK, Typed, Buffers
      <4>2. got \in Seq(Words) /\ Len(got) = pi.at - 1 /\ pi.at \in Nat
        BY <1>0 DEF DataOK, GotOK, JobRecord
      <4>. QED BY <3>1, <4>1, <4>2, AppendProperties
    <3>5. ASSUME NEW p, PartlyTaken(p) PROVE PartlyTaken(p)'
      <4>. SUFFICES ASSUME NEW i \in 1..spi_topi_actual
                    PROVE  (IF i < pi'.at THEN got'[i] ELSE buf'.topi[i])
                             = Packet(p, spi_topi_actual - 1)[i]
        BY <1>0 DEF PartlyTaken
      <4>1. i \in 1..Cap /\ i \in Nat /\ pi.at \in Nat
        BY <1>0, SpinetAssumption DEF JobRecord
      <4>2. (IF i < pi.at THEN got[i] ELSE buf.topi[i]) = Packet(p, spi_topi_actual - 1)[i]
        BY <3>5 DEF PartlyTaken
      <4>3. CASE i < pi.at
        <5>1. i \in 1..pi.at - 1 /\ i < pi'.at
          BY <3>2, <4>1, <4>3
        <5>. QED BY <3>4, <4>2, <4>3, <5>1
      <4>4. CASE i = pi.at
        <5>1. i < pi'.at /\ ~(i < pi.at)
          BY <3>2, <4>1, <4>4
        <5>. QED BY <3>4, <4>2, <4>4, <5>1
      <4>5. CASE i > pi.at
        <5>1. ~(i < pi'.at) /\ ~(i < pi.at) /\ i # pi.at
          BY <3>2, <4>1, <4>5
        <5>. QED BY <2>0, <4>1, <4>2, <5>1
      <4>. QED BY <4>1, <4>3, <4>4, <4>5
    <3>6. Fetching'
      BY <1>0, <1>4, <3>2, <3>3, <3>5 DEF Fetching
    <3>. QED BY <1>0, <1>4, <3>6 DEF FetchOK
  <2>2. CASE ~(pi.at < spi_topi_actual)
    <3>1. pi.at = Len(WordsOf(pi))
      BY <2>0, <2>2, AtClock, <1>0
    <3>2. whole' = "no"
      BY <1>4, <3>1 DEF PiClocks, Fetching
    <3>. QED BY <3>2 DEF FetchOK
  <2>. QED BY <2>1, <2>2
<1>. QED BY <1>1, <1>2, <1>3, <1>4 DEF FetchOK

LEMMA FetchInit == Init => FetchOK
BY DEF Init, FetchOK

(* When the last word of the packet is taken, the PI has all of it. *)
LEMMA FetchEnd ==
  ASSUME Inv, Sync, DataOK, FetchOK, PiClocks,
         pi.job = "fetch", pi.stage = "data", pi'.job = "clear", whole = "read"
  PROVE  \E p \in 1..radio : Append(got, buf.topi[pi.at]) = Packet(p, pi.arg - 1)
<1>1. Fetching
  BY DEF FetchOK, Unread, LengthRead
<1>2. /\ pi.at \in 1..spi_topi_actual /\ Count(pi) = spi_topi_actual
      /\ xfer.buf = "topi" /\ pi.arg = spi_topi_actual
  BY <1>1, Taken DEF Fetching
<1>3. pi \in JobRecord /\ spi_topi_actual \in 0..Cap /\ radio \in Nat
  BY DEF Inv, PiOK, DataOK, Typed
<1>4. pi.at = pi.arg
  <2>1. SUFFICES ASSUME pi.at < Count(pi) PROVE FALSE
    BY <1>2, AtClock
  <2>2. pi' = [pi EXCEPT !.at = @ + 1]
    BY <2>1, AtClock
  <2>. QED BY <1>3, <2>2 DEF JobRecord
<1>5. PICK p \in 1..radio : PartlyTaken(p)
  BY <1>1 DEF Fetching
<1>. DEFINE s == Append(got, buf.topi[pi.at])
            t == Packet(p, pi.arg - 1)
<1>6. /\ s \in Seq(Words) /\ Len(s) = pi.arg
      /\ \A i \in 1..pi.arg - 1 : s[i] = got[i]
      /\ s[pi.arg] = buf.topi[pi.arg]
  <2>1. buf.topi[pi.at] \in Words
    BY <1>2, <1>3, SpinetAssumption DEF DataOK, Typed, Buffers
  <2>2. got \in Seq(Words) /\ Len(got) = pi.arg - 1 /\ pi.arg \in Nat
    BY <1>3, <1>4 DEF DataOK, GotOK, JobRecord
  <2>. QED BY <1>4, <2>1, <2>2, AppendProperties
<1>7. t \in Seq(Words) /\ Len(t) = pi.arg
  <2>1. pi.arg - 1 \in Nat /\ p \in Int /\ (pi.arg - 1) + 1 = pi.arg
    BY <1>2, <1>3, <1>4 DEF JobRecord
  <2>. QED BY <2>1, PacketSeq
<1>8. \A i \in 1..pi.arg : s[i] = t[i]
  <2>. SUFFICES ASSUME NEW i \in 1..pi.arg PROVE s[i] = t[i]
    OBVIOUS
  <2>1. (IF i < pi.at THEN got[i] ELSE buf.topi[i]) = t[i]
    BY <1>2, <1>5 DEF PartlyTaken
  <2>. HIDE DEF s, t
  <2>2. CASE i < pi.at
    <3>1. i \in 1..pi.arg - 1
      BY <1>3, <1>4, <2>2 DEF JobRecord
    <3>. QED BY <1>6, <2>1, <2>2, <3>1
  <2>3. CASE ~(i < pi.at)
    <3>1. i = pi.arg
      BY <1>3, <1>4, <2>3 DEF JobRecord
    <3>. QED BY <1>6, <2>1, <2>3, <3>1
  <2>. QED BY <2>2, <2>3
<1>. HIDE DEF s, t
<1>9. s = t
  BY <1>6, <1>7, <1>8, SeqEqual
<1>. QED BY <1>9 DEF s, t
-----------------------------------------------------------------------------
(* The process to poll is known, also while nothing is armed. *)
ProcOK ==
  /\ spi_process_callback \in Handlers \cup {"spi_rdcmd"} /\ spi_event \in BOOLEAN

LEMMA ProcInit == Init => ProcOK
BY DEF Init, ProcOK

LEMMA ProcStep ==
  ASSUME ProcOK, [Next]_vars
  PROVE  ProcOK'
<1>1. CASE NodeStep
  <2>1. CASE RdCmd
    <3>1. \/ spi_process_callback' = "spi_rdcmd"
          \/ \E h \in Handlers : spi_process_callback' = h
      BY <2>1 DEF RdCmd, Listen, Starts, Handlers
    <3>. QED BY <2>1, <3>1 DEF RdCmd, ProcOK
  <2>2. CASE RdCmdResumes
    BY <2>2 DEF RdCmdResumes, Listen, ProcOK
  <2>3. CASE RegisterRead \/ RegisterWrite \/ PacketTaken \/ PacketInjected
    BY <2>3
    DEF RegisterRead, RegisterWrite, PacketTaken, PacketInjected, Ends, ProcOK
  <2>. QED BY <1>1, <2>1, <2>2, <2>3 DEF NodeStep
<1>2. CASE ~NodeStep
  <2>1. UNCHANGED <<spi_process_callback, spi_event>>
    BY <1>2 DEF Next, FromRadio, PiReceives, PiSends, PiRegister, Begin, PiClocks,
                procVars, vars
  <2>. QED BY <2>1 DEF ProcOK
<1>. QED BY <1>1, <1>2

(* The whole invariant; Exchange is its part about the two ends. *)
Exchange == Inv /\ Sync /\ DataOK /\ WriteOK /\ SendOK /\ FetchOK

LEMMA ExchangeInit == Init => Exchange
BY InvInit, SyncInit, DataInit, WriteInit, SendInit, FetchInit DEF Exchange

LEMMA ExchangeHandlerEnds ==
  ASSUME Exchange, RegisterRead \/ RegisterWrite \/ PacketTaken \/ PacketInjected
  PROVE  Exchange'
<1>1. /\ handler \in Handlers /\ handler \in polled
      /\ UNCHANGED <<rdcmd, xfer, ready, piVars>>
  BY DEF RegisterRead, RegisterWrite, PacketTaken, PacketInjected, Ends, Handlers
<1>2. Inv' /\ Sync' /\ WriteOK'
  BY <1>1, HandlerEndsKeeps, SyncEnds, WriteHandlerEnds DEF Exchange, piVars
<1>3. CASE RegisterRead \/ PacketTaken
  <2>1. UNCHANGED <<buf, regs, injected, topiVars>>
    BY <1>3 DEF RegisterRead, PacketTaken, Ends, regVars
  <2>2. DataOK'
    BY <1>1, <2>1, DataKept DEF Exchange
  <2>3. SendOK'
    BY <1>3, SendEnds DEF Exchange
  <2>4. FetchOK'
    BY <1>1, <2>1, FetchEnds DEF Exchange
  <2>. QED BY <1>2, <2>2, <2>3, <2>4 DEF Exchange
<1>4. CASE RegisterWrite
  <2>1. UNCHANGED <<buf, topiVars>>
    BY <1>4 DEF RegisterWrite, Ends
  <2>2. FetchOK'
    BY <1>1, <2>1, FetchEnds DEF Exchange
  <2>. QED BY <1>2, <1>4, <2>2, DataRegisterWrite, SendEnds DEF Exchange
<1>5. CASE PacketInjected
  <2>1. DataOK' /\ SendOK'
    BY <1>5, DataPacketInjected, SendPacketInjected DEF Exchange
  <2>2. FetchOK'
    <3>1. CASE UNCHANGED <<topiVars, buf>>
      BY <1>1, <3>1, FetchEnds DEF Exchange
    <3>2. CASE RplOutput(spi_frompi_len)
      <4>1. spi_frompi_len \in Nat \ {0}
        BY <1>1, <1>5, SpinetAssumption
        DEF Exchange, SendOK, WholeSent, Injecting, PacketInjected
      <4>. QED BY <1>1, <3>2, <4>1, FetchRplOutput DEF Exchange, DataOK, piVars
    <3>. QED BY <1>5, <3>1, <3>2 DEF PacketInjected
  <2>. QED BY <1>2, <2>1, <2>2 DEF Exchange
<1>. QED BY <1>3, <1>4, <1>5

LEMMA ExchangeFromRadio ==
  ASSUME Exchange, NEW n \in Sizes, FromRadio(n)
  PROVE  Exchange'
<1>1. n \in Nat \ {0} /\ n \in Nat
  BY SpinetAssumption
<1>2. /\ UNCHANGED <<rdcmd, handler, polled, xfer, ready, uip_len, regnum, spi_frompi_len,
                     pi, got, sent, injected>>
      /\ RplOutput(n)
  BY DEF FromRadio, procVars, regVars, piVars
<1>3. buf'.cmd = buf.cmd /\ buf'.frompi = buf.frompi
  BY <1>1, <1>2, RplOutputDoes DEF Exchange, DataOK
<1>4. Inv' /\ Sync' /\ DataOK'
  BY <1>1, <1>2, <1>3, FromRadioKeeps, SyncFromRadio, DataFromRadio DEF Exchange
<1>5. WriteOK' /\ SendOK'
  BY <1>2, <1>3, WriteKept, SendFromRadio DEF Exchange
<1>6. FetchOK'
  BY <1>1, <1>2, FetchRplOutput DEF Exchange, DataOK
<1>. QED BY <1>4, <1>5, <1>6 DEF Exchange

LEMMA ExchangeBegin ==
  ASSUME Exchange, NEW j \in Jobs \ {"idle", "fetch"}, NEW x \in Nat, Begin(Job(j, x)),
         j = "send" => x \in 1..Cap, j = "write" => x \in Regs,
         j = "read" => x \in Readable, rx' \in BOOLEAN,
         IF j = "send" THEN sent' = Append(sent, OutPacket(Len(sent) + 1, x))
         ELSE sent' = sent
  PROVE  Exchange'
<1>1. x \in 1..Cap => x > 0 /\ x <= Cap
  BY SpinetAssumption
<1>2. sent' \in Seq(Seq(Words))
  <2>1. sent \in Seq(Seq(Words)) /\ Len(sent) + 1 \in Int
    BY LenProperties DEF Exchange, DataOK, Typed
  <2>2. OutPacket(Len(sent) + 1, x) \in Seq(Words)
    BY <2>1, OutTyped
  <2>3. Append(sent, OutPacket(Len(sent) + 1, x)) \in Seq(Seq(Words))
    BY <2>1, <2>2, AppendProperties
  <2>. QED BY <2>1, <2>3
<1>3. Inv' /\ Sync'
  BY <1>1, BeginKeeps, SyncBegin DEF Exchange
<1>4. DataOK'
  BY <1>1, <1>2, DataBegin DEF Exchange
<1>5. WriteOK' /\ SendOK' /\ FetchOK'
  BY WriteBegin, SendBegin, FetchBegin DEF Exchange
<1>. QED BY <1>3, <1>4, <1>5 DEF Exchange

LEMMA ExchangeStep == Exchange /\ [Next]_vars => Exchange'
<1>. SUFFICES ASSUME Exchange, [Next]_vars PROVE Exchange'
  OBVIOUS
<1>1. CASE RdCmd
  BY <1>1, RdCmdKeeps, SyncRdCmd, DataRdCmd, WriteRdCmd, SendRdCmd, FetchRdCmd
  DEF Exchange
<1>2. CASE RdCmdResumes
  BY <1>2, RdCmdResumesKeeps, SyncRdCmdResumes, DataRdCmdResumes, WriteRdCmdResumes,
     SendRdCmdResumes, FetchRdCmdResumes DEF Exchange
<1>3. CASE RegisterRead \/ RegisterWrite \/ PacketTaken \/ PacketInjected
  BY <1>3, ExchangeHandlerEnds
<1>4. CASE \E size \in Sizes : FromRadio(size)
  BY <1>4, ExchangeFromRadio
<1>5. CASE PiReceives
  BY <1>5, ExchangeBegin DEF PiReceives, Jobs
<1>6. ASSUME NEW size \in Sizes, size <= Cap, PiSends(size) PROVE Exchange'
  <2>1. size \in Nat /\ size \in 1..Cap
    BY <1>6, SpinetAssumption
  <2>2. rx' \in BOOLEAN
    BY <1>6 DEF PiSends, Exchange, DataOK, Typed
  <2>. QED BY <1>6, <2>1, <2>2, ExchangeBegin DEF PiSends, Jobs
<1>7. ASSUME NEW j \in {"read", "write"}, NEW r \in Readable, PiRegister(j, r),
             j = "write" => r \in Regs
      PROVE  Exchange'
  <2>1. r \in Nat
    BY SpinetAssumption DEF Readable
  <2>2. rx' \in BOOLEAN
    BY <1>7 DEF PiRegister, Exchange, DataOK, Typed
  <2>. QED BY <1>7, <2>1, <2>2, ExchangeBegin DEF PiRegister, Jobs
<1>8. CASE PiRegister("other", 0)
  <2>1. rx' \in BOOLEAN
    BY <1>8 DEF PiRegister, Exchange, DataOK, Typed
  <2>. QED BY <1>8, <2>1, ExchangeBegin DEF PiRegister, Jobs
<1>9. CASE PiClocks
  <2>1. Inv'
    BY <1>9, InvStep DEF Exchange, Next
  <2>. QED BY <1>9, <2>1, SyncPiClocks, DataPiClocks, WritePiClocks, SendPiClocks,
              FetchPiClocks DEF Exchange
<1>10. CASE UNCHANGED vars
  <2>1. UNCHANGED <<procVars, regVars, topiVars, piVars, xfer, buf, ready>>
    BY <1>10 DEF vars
  <2>2. Inv' /\ Sync' /\ DataOK'
    BY <2>1, <1>10, InvStep, SyncFromRadio, DataKept
    DEF Exchange, procVars, regVars, piVars
  <2>3. WriteOK' /\ SendOK' /\ FetchOK'
    BY <2>1, WriteKept, SendFromRadio, FetchEnds
    DEF Exchange, procVars, regVars, piVars
  <2>. QED BY <2>2, <2>3 DEF Exchange
<1>11. CASE \/ \E r \in Regs : PiRegister("write", r)
            \/ \E r \in Readable : PiRegister("read", r)
  BY <1>7, <1>11 DEF Readable
<1>. QED BY <1>1, <1>2, <1>3, <1>4, <1>5, <1>6, <1>8, <1>9, <1>10, <1>11
  DEF Next, NodeStep

IInv == Exchange /\ ProcOK

LEMMA Invariant == Spec => []IInv
BY ExchangeInit, ExchangeStep, ProcInit, ProcStep, PTL DEF Spec, IInv

(* TypeOK holds in every reachable state; with it no transfer runs past its *)
(* buffer, and the length the node announces fits the buffer to the PI.     *)
THEOREM TypesHold == Spec => []TypeOK
<1>1. IInv => TypeOK
  <2>. SUFFICES ASSUME IInv PROVE TypeOK
    OBVIOUS
  <2>1. /\ rdcmd \in {"command", "handler"} /\ handler \in Handlers \cup {NoProc}
        /\ spi_process_callback \in Handlers \cup {"spi_rdcmd"}
        /\ polled \subseteq Handlers \cup {"spi_rdcmd"}
        /\ spi_event \in BOOLEAN
    BY DEF IInv, Exchange, ProcOK, Inv, Turn, CommandTurn, HandlerTurn, EventTurn,
       Waits
  <2>2. ready \in BOOLEAN /\ rx \in BOOLEAN /\ spi_topi_actual \in 0..Cap
        /\ uip_len = 0 /\ whole \in {"no", "unread", "read"}
    BY DEF IInv, Exchange, Sync, DataOK, Typed, WriteOK
  <2>3. xfer = NoXfer \/ (xfer.len \in 1..Cap /\ xfer.at \in 1..xfer.len)
    <3>1. CASE xfer # NoXfer
      <4>1. xfer.at \in 1..xfer.len /\ xfer.len = Count(pi)
        BY <3>1 DEF IInv, Exchange, Sync, Matched, Between, Inv, XferOK
      <4>2. Count(pi) \in 1..Cap
        BY SpinetAssumption
        DEF IInv, Exchange, Inv, PiOK, JobRecord, Count, DataOK, ArgOK
      <4>. QED BY <4>1, <4>2
    <3>. QED BY <3>1
  <2>. QED BY <2>1, <2>2, <2>3 DEF TypeOK
<1>. QED BY <1>1, Invariant, PTL

(* InStep holds in every reachable state: whatever the PI asks for, it      *)
(* clocks each stage into an untouched transfer of exactly that length.     *)
THEOREM StaysInStep == Spec => []InStep
<1>1. IInv => InStep
  <2>. SUFFICES ASSUME IInv PROVE InStep
    OBVIOUS
  <2>1. Len(WordsOf(pi)) = Count(pi)
    BY WordsType DEF IInv, Exchange, Inv, PiOK
  <2>2. pi \in JobRecord
    BY DEF IInv, Exchange, Inv, PiOK
  <2>. QED BY <2>1, <2>2
           DEF IInv, Exchange, Sync, Matched, Between, InStep, JobRecord
<1>. QED BY <1>1, Invariant, PTL

(* InOrder holds in every reachable state: for any packets of the PI, those *)
(* that reached tcpip_input are the first ones sent, each once and whole.   *)
THEOREM InjectedInOrder == Spec => []InOrder
<1>1. IInv => InOrder
  <2>. SUFFICES ASSUME IInv PROVE InOrder
    OBVIOUS
  <2>. DEFINE m == Len(injected)
  <2>1. /\ sent \in Seq(Seq(Words)) /\ injected \in Seq(Seq(Words))
        /\ m \in Nat /\ Len(sent) \in Nat
    BY LenProperties DEF IInv, Exchange, DataOK, Typed
  <2>2. m \in (Len(sent) - 2)..Len(sent)
    <3>2. PICK a \in {0, 1}, b \in {0, 1} : Len(sent) = Len(injected) + a + b
      <4>1. /\ (IF Sending THEN 1 ELSE 0) \in {0, 1}
            /\ (IF Injecting THEN 1 ELSE 0) \in {0, 1}
        OBVIOUS
      <4>. QED BY <4>1 DEF IInv, Exchange, SendOK, SentCount
    <3>. QED BY <2>1, <3>2
  <2>3. \A i \in 1..m : injected[i] = sent[i]
    BY DEF IInv, Exchange, SendOK, SentSame
  <2>. DEFINE s == SubSeq(sent, 1, m)
  <2>. HIDE DEF m
  <2>4. \A i \in 1..m : sent[i] \in Seq(Words)
    BY <2>1, <2>2, ElementOfSeq
  <2>5. /\ s \in Seq(Seq(Words)) /\ Len(s) = m /\ \A i \in 1..m : s[i] = sent[i]
    <3>1. m \in Int
      BY <2>1
    <3>2. /\ s \in Seq(Seq(Words)) /\ Len(s) = IF 1 <= m THEN m - 1 + 1 ELSE 0
          /\ \A i \in 1..m - 1 + 1 : s[i] = sent[1 + i - 1]
      BY <2>4, <3>1, SubSeqProperties
    <3>3. m - 1 + 1 = m /\ \A i \in 1..m : 1 + i - 1 = i
      BY <3>1
    <3>. QED BY <2>1, <3>2, <3>3
  <2>. HIDE DEF s
  <2>6. injected = s
    BY <2>1, <2>3, <2>5, SeqEqual DEF m
  <2>. QED BY <2>2, <2>6 DEF InOrder, m, s
<1>. QED BY <1>1, Invariant, PTL

(* FetchedWhole holds of every behaviour: a packet from the radio that is   *)
(* not overtaken reaches the PI whole, for any sizes of packets.            *)
THEOREM FetchesWhole == Spec => FetchedWhole
<1>. DEFINE Done == /\ pi.job = "fetch" /\ pi.stage = "data"
                    /\ pi'.job = "clear" /\ whole = "read"
            Has == \E p \in 1..radio : Append(got, buf.topi[pi.at]) = Packet(p, pi.arg - 1)
<1>1. IInv /\ [Next]_vars => [Done => Has]_vars
  <2>. SUFFICES ASSUME IInv, [Next]_vars, Done PROVE Has
    OBVIOUS
  <2>1. CASE PiClocks
    BY <2>1, FetchEnd DEF IInv, Exchange
  <2>2. CASE ~PiClocks
    <3>1. \/ UNCHANGED pi
          \/ pi = Idle
      BY <2>2 DEF Next, NodeStep, RdCmd, RdCmdResumes, RegisterRead, RegisterWrite,
         PacketTaken,
         PacketInjected, Ends, FromRadio, PiReceives, PiSends, PiRegister, Begin, piVars, vars
    <3>. QED BY <3>1 DEF Idle
  <2>. QED BY <2>1, <2>2
<1>. QED BY <1>1, Invariant, PTL DEF Spec, FetchedWhole
=============================================================================
