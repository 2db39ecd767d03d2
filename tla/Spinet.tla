------------------------------- MODULE Spinet -------------------------------
(***************************************************************************)
(* The border router: spi-iface.c, spi-regs.c and rpl-iface.c, which carry *)
(* packets between the radio and a Linux host (the PI) over SPI.  The node *)
(* is the slave: a process arms a transfer and pulses a line, the PI then  *)
(* clocks the bus, and the end of the transfer polls a process.            *)
(*                                                                         *)
(* A transfer exchanges words, each the size of a command: the word of the *)
(* buffer goes out and the one that comes in takes its place.  The PI is   *)
(* external; it follows the comments spi-iface.c:423-432 and 455-461.      *)
(***************************************************************************)
EXTENDS Integers, Sequences

CONSTANTS
  Regs,        \* of regs[16], those the PI uses
  Sizes,       \* of packets, in words
  Cap,         \* words in spi_topi and spi_frompi
  Queued,      \* what csma_packet_count may return
  NoXfer, NoProc,
  MaxRadio,    \* bound: packets from the radio
  MaxJobs      \* bound: jobs the PI begins

Handlers == {"spi_rdreg", "spi_wrreg", "spi_proc_topi", "spi_proc_frompi"}

ASSUME SpinetAssumption ==
  /\ Regs \subseteq 0..15 /\ Sizes \subseteq Nat \ {0}
  /\ Cap \in Nat \ {0} /\ Queued \subseteq Nat
  /\ NoProc \notin Handlers
  /\ NoXfer \notin [buf : {"cmd", "topi", "frompi"}, len : Nat, at : Nat]
  /\ MaxRadio \in Nat /\ MaxJobs \in Nat

VARIABLES
  rdcmd,               \* spi_rdcmd waits for a "command" or for a "handler"
  handler,             \* the handler process that runs
  spi_process_callback,
  polled,              \* processes with a poll pending
  spi_event,           \* the event is in the kernel's queue
  xfer,                \* the transfer that is armed: buffer, length, next word
  buf,                 \* spi_cmd, spi_topi, spi_frompi
  spi_topi_actual, regnum, spi_frompi_len, regs,
  ready, rx,           \* pulses of IOID_28 and IOID_29 the PI has not used
  uip_len,             \* between events of the node
  injected,            \* history: the packets given to tcpip_input
  pi,                  \* the job of the PI, its stage and its next word
  got,                 \* the words of the current stage
  sent, radio, jobs,   \* history: packets the PI sends, packets from the radio
  whole                \* history: spi_topi holds the packet whose length was
                       \* read: "no", "unread", "read"
procVars == <<rdcmd, handler, spi_process_callback, polled, spi_event>>
regVars  == <<regnum, spi_frompi_len, regs, uip_len, injected>>
topiVars == <<spi_topi_actual, rx, radio, whole>>
piVars   == <<pi, got, sent, jobs>>
vars == <<procVars, regVars, topiVars, piVars, xfer, buf, ready>>

Word(k, a, b) == [kind |-> k, a |-> a, b |-> b]
Ones == Word("ones", 0, 0)             \* 0xff ff ff ff
-----------------------------------------------------------------------------
(* spi_start_xfer of len words, with b the contents of the buffers.  A      *)
(* transfer of no words, or one while another is armed, polls the process   *)
(* at once; the line is pulsed in any case.                                 *)
StartXfer(proc, name, len, b) ==
  /\ buf' = b /\ ready' = TRUE
  /\ IF len = 0 \/ xfer # NoXfer
       THEN xfer' = xfer /\ polled' = (polled \ {"spi_rdcmd"}) \cup {proc}
       ELSE /\ xfer' = [buf |-> name, len |-> len, at |-> 1]
            /\ polled' = polled \ {"spi_rdcmd"}

(* The top of the loop of spi_rdcmd. *)
Listen ==
  /\ rdcmd' = "command" /\ spi_process_callback' = "spi_rdcmd"
  /\ StartXfer("spi_rdcmd", "cmd", 1, [buf EXCEPT !.cmd = <<Ones>>])

(* The values register r may be read as. *)
register_read(r) ==
  CASE r \in 0..15 -> {regs[r]}
    [] r = 16 -> {305420169}           \* 0x12345789
    [] r = 17 -> {spi_topi_actual}     \* to_pi_pktlen
    [] r = 18 -> Queued
    [] OTHER -> {-1}

StartsAlone(h, name, len, b) ==        \* bug: the callback is not set
  /\ handler' = h /\ rdcmd' = "handler"
  /\ UNCHANGED spi_process_callback
  /\ StartXfer(h, name, len, b)

(* A handler is started by spi_rdcmd and runs up to its wait. *)
Starts(h, name, len, b) ==
  /\ handler' = h /\ spi_process_callback' = h /\ rdcmd' = "handler"
  /\ StartXfer(h, name, len, b)

(* spi_rdcmd is polled: it dispatches the command in spi_cmd. *)
RdCmd ==
  LET c == buf.cmd[1] IN
  /\ rdcmd = "command" /\ "spi_rdcmd" \in polled
  /\ \/ /\ c.kind = "read" /\ regnum' = c.a
        /\ \E v \in register_read(c.a) :
             Starts("spi_rdreg", "cmd", 1,
                    [buf EXCEPT !.cmd = <<Word("value", v, 0)>>])
        /\ whole' = IF c.a = 17 /\ whole = "unread" THEN "read" ELSE whole
        /\ UNCHANGED spi_frompi_len
     \/ /\ c.kind = "write" /\ regnum' = c.a
        /\ Starts("spi_wrreg", "cmd", 1, [buf EXCEPT !.cmd = <<Ones>>])
        /\ UNCHANGED <<spi_frompi_len, whole>>
     \/ /\ c.kind = "frompi" /\ spi_frompi_len' = c.a
        /\ Starts("spi_proc_frompi", "frompi", c.a, buf)
        /\ UNCHANGED <<regnum, whole>>
     \/ /\ c.kind = "topi"
        /\ Starts("spi_proc_topi", "topi", c.a, buf)
        /\ UNCHANGED <<regnum, spi_frompi_len, whole>>
     \/ /\ c.kind \notin {"read", "write", "frompi", "topi"}
        /\ Listen
        /\ UNCHANGED <<handler, regnum, spi_frompi_len, whole>>
  /\ UNCHANGED <<spi_event, regs, uip_len, injected, spi_topi_actual, rx, radio, piVars>>

RdCmdResumesEarly ==                   \* bug: it does not wait for the event
  /\ rdcmd = "handler" /\ spi_event' = FALSE
  /\ Listen
  /\ UNCHANGED <<handler, regVars, topiVars, piVars>>

(* spi_rdcmd has the handler's event. *)
RdCmdResumes ==
  /\ spi_event /\ rdcmd = "handler" /\ spi_event' = FALSE
  /\ Listen
  /\ UNCHANGED <<handler, regVars, topiVars, piVars>>

EndsSilently(h) ==                     \* bug: the event is not posted
  /\ handler = h /\ h \in polled
  /\ handler' = NoProc /\ polled' = polled \ {h}
  /\ UNCHANGED <<spi_event, rdcmd, spi_process_callback, xfer, buf, ready, piVars>>

(* A handler is polled, posts spi_event and ends. *)
Ends(h) ==
  /\ handler = h /\ h \in polled
  /\ handler' = NoProc /\ polled' = polled \ {h} /\ spi_event' = TRUE
  /\ UNCHANGED <<rdcmd, spi_process_callback, xfer, buf, ready, piVars>>

RegisterRead == Ends("spi_rdreg") /\ UNCHANGED <<regVars, topiVars>>
PacketTaken  == Ends("spi_proc_topi") /\ UNCHANGED <<regVars, topiVars>>

register_write(r, v) ==
  /\ regs' = IF r \in 0..15 THEN [regs EXCEPT ![r] = v] ELSE regs
  /\ uip_len' = IF r = 17 THEN v ELSE uip_len

RegisterWrite ==
  /\ Ends("spi_wrreg")
  /\ register_write(regnum, buf.cmd[1].a)
  /\ UNCHANGED <<regnum, spi_frompi_len, injected, topiVars>>
-----------------------------------------------------------------------------
(* A packet of the stack goes to the PI: rpl_output, copy_uip_to_spi with   *)
(* its Ethernet header, toggle_rx_intr.  One that is too long is dropped,   *)
(* and the line pulsed all the same.  The header tells the length.          *)
Packet(p, size) ==
  [i \in 1..(size + 1) |-> Word("in", p, IF i = 1 THEN -size ELSE i)]

Filled(name, words) ==
  [buf EXCEPT ![name] =
     [i \in DOMAIN buf[name] |-> IF i \in DOMAIN words THEN words[i] ELSE buf[name][i]]]

RplOutputNoHeader(size) ==             \* bug: the header is not counted
  /\ radio < MaxRadio /\ radio' = radio + 1
  /\ rx' = TRUE
  /\ IF size > Cap
       THEN UNCHANGED <<buf, spi_topi_actual, whole>>
       ELSE /\ buf' = Filled("topi", Packet(radio', size))
            /\ spi_topi_actual' = size + 1 /\ whole' = "unread"

RplOutputShort(size) ==                \* bug: the length is the payload's
  /\ radio < MaxRadio /\ radio' = radio + 1
  /\ rx' = TRUE
  /\ IF size + 1 > Cap
       THEN UNCHANGED <<buf, spi_topi_actual, whole>>
       ELSE /\ buf' = Filled("topi", Packet(radio', size))
            /\ spi_topi_actual' = size /\ whole' = "unread"

RplOutput(size) ==
  /\ radio < MaxRadio /\ radio' = radio + 1
  /\ rx' = TRUE
  /\ IF size + 1 > Cap
       THEN UNCHANGED <<buf, spi_topi_actual, whole>>
       ELSE /\ buf' = Filled("topi", Packet(radio', size))
            /\ spi_topi_actual' = size + 1 /\ whole' = "unread"

FromRadio(size) ==
  /\ RplOutput(size)
  /\ UNCHANGED <<procVars, regVars, piVars, xfer, ready>>

PacketInjectedEarly ==                 \* bug: the transfer is not awaited
  /\ handler = "spi_proc_frompi"
  /\ handler' = NoProc /\ polled' = polled \ {handler} /\ spi_event' = TRUE
  /\ injected' = Append(injected, SubSeq(buf.frompi, 1, spi_frompi_len))
  /\ uip_len' = 0
  /\ UNCHANGED <<topiVars, buf, rdcmd, spi_process_callback, xfer, ready, piVars, regnum,
                 spi_frompi_len, regs>>

(* The packet of the PI goes to tcpip_input; the stack keeps it or, with no *)
(* better route, hands it back to rpl_output.                               *)
PacketInjected ==
  /\ handler = "spi_proc_frompi" /\ handler \in polled
  /\ handler' = NoProc /\ polled' = polled \ {handler} /\ spi_event' = TRUE
  /\ injected' = Append(injected, SubSeq(buf.frompi, 1, spi_frompi_len))
  /\ uip_len' = 0
  /\ \/ UNCHANGED <<topiVars, buf>>
     \/ RplOutput(spi_frompi_len)
  /\ UNCHANGED <<rdcmd, spi_process_callback, xfer, ready, piVars, regnum, spi_frompi_len, regs>>
-----------------------------------------------------------------------------
(* The PI.  A job has a command stage of one word and a data stage; an      *)
(* unknown command has no data.                                             *)
Idle == [job |-> "idle", arg |-> 0, stage |-> "command", at |-> 1]
Job(j, x) == [job |-> j, arg |-> x, stage |-> "command", at |-> 1]

CommandOf(p) ==
  CASE p.job = "length" -> Word("read", 17, 0)
    [] p.job = "clear"  -> Word("write", 17, 0)
    [] p.job = "fetch"  -> Word("topi", p.arg, 0)
    [] p.job = "send"   -> Word("frompi", p.arg, 0)
    [] p.job = "read"   -> Word("read", p.arg, 0)
    [] p.job = "write"  -> Word("write", p.arg, 0)
    [] OTHER            -> Word("other", 0, 0)

OutPacket(p, size) == [i \in 1..size |-> Word("out", p, i)]

WordsOf(p) ==
  IF p.stage = "command" THEN <<CommandOf(p)>>
  ELSE CASE p.job = "send"  -> OutPacket(Len(sent), p.arg)
         [] p.job = "write" -> <<Word("value", jobs, 0)>>
         [] p.job = "clear" -> <<Word("value", 0, 0)>>
         [] p.job = "fetch" -> [i \in 1..p.arg |-> Ones]
         [] OTHER           -> <<Ones>>

Begin(p) ==
  /\ pi = Idle /\ jobs < MaxJobs /\ jobs' = jobs + 1
  /\ pi' = p
  /\ UNCHANGED <<got, procVars, regVars, spi_topi_actual, radio, whole, xfer, buf, ready>>

PiReceives == rx /\ rx' = FALSE /\ Begin(Job("length", 0)) /\ UNCHANGED sent
PiSends(size) ==
  /\ Begin(Job("send", size)) /\ sent' = Append(sent, OutPacket(Len(sent) + 1, size))
  /\ UNCHANGED rx
PiRegister(j, r) == Begin(Job(j, r)) /\ UNCHANGED <<sent, rx>>
Readable == Regs \cup {16, 18}

(* What follows when the last word of a stage is through. *)
NextStage(words) ==
  CASE pi.stage = "command" /\ pi.job # "other" -> [pi EXCEPT !.stage = "data", !.at = 1]
    [] pi.stage = "data" /\ pi.job = "length" /\ words[1].a \in 1..Cap
         -> Job("fetch", words[1].a)
    [] pi.stage = "data" /\ pi.job = "fetch" -> Job("clear", 0)
    [] OTHER -> Idle

(* One word over the bus; the first one of a stage waits for the pulse.     *)
(* The last one of the transfer that is armed raises the interrupt, whose   *)
(* handler is UserCallbackFxn; process_poll forgets a process that has      *)
(* ended.                                                                   *)
PiClocks ==
  LET out == WordsOf(pi)
      armed == xfer # NoXfer
      words == Append(got, IF armed THEN buf[xfer.buf][xfer.at] ELSE Ones) IN
  /\ pi # Idle
  /\ pi.at = 1 => ready
  /\ ready' = FALSE
  /\ buf' = IF armed THEN [buf EXCEPT ![xfer.buf][xfer.at] = out[pi.at]] ELSE buf
  /\ xfer' = IF armed /\ xfer.at < xfer.len THEN [xfer EXCEPT !.at = @ + 1] ELSE NoXfer
  /\ polled' = IF armed /\ xfer.at = xfer.len /\ spi_process_callback \in {"spi_rdcmd", handler}
                 THEN polled \cup {spi_process_callback} ELSE polled
  /\ IF pi.at < Len(out)
       THEN pi' = [pi EXCEPT !.at = @ + 1] /\ got' = words
       ELSE pi' = NextStage(words) /\ got' = <<>>
  /\ whole' = IF /\ pi.job = "fetch" /\ pi.stage = "data"
                 /\ whole # "read" \/ pi.at = Len(out)
                THEN "no" ELSE whole
  /\ UNCHANGED <<rdcmd, handler, spi_process_callback, spi_event, regVars, spi_topi_actual, rx, radio, sent, jobs>>
-----------------------------------------------------------------------------
(* spi_init has started spi_rdcmd. *)
Init ==
  /\ rdcmd = "command" /\ handler = NoProc /\ spi_process_callback = "spi_rdcmd"
  /\ polled = {} /\ spi_event = FALSE
  /\ xfer = [buf |-> "cmd", len |-> 1, at |-> 1]
  /\ buf = [cmd |-> <<Ones>>, topi |-> [i \in 1..Cap |-> Ones],
            frompi |-> [i \in 1..Cap |-> Ones]]
  /\ spi_topi_actual = 0 /\ regnum = 0 /\ spi_frompi_len = 0
  /\ regs = [r \in Regs |-> 0]
  /\ ready = TRUE /\ rx = FALSE /\ uip_len = 0 /\ injected = <<>>
  /\ pi = Idle /\ got = <<>> /\ sent = <<>> /\ radio = 0 /\ jobs = 0
  /\ whole = "no"

NodeStep ==
  \/ RdCmd \/ RdCmdResumes
  \/ RegisterRead \/ RegisterWrite \/ PacketTaken \/ PacketInjected

Next ==
  \/ NodeStep
  \/ \E size \in Sizes : FromRadio(size)
  \/ PiReceives
  \/ \E size \in Sizes : size <= Cap /\ PiSends(size)
  \/ \E r \in Regs : PiRegister("write", r)
  \/ \E r \in Readable : PiRegister("read", r)
  \/ PiRegister("other", 0)
  \/ PiClocks

Spec == Init /\ [][Next]_vars

(* The kernel runs a process that is polled or has an event, and the PI     *)
(* goes on with a job that it has begun.                                    *)
FairSpec == Spec /\ WF_vars(NodeStep) /\ WF_vars(PiClocks)
-----------------------------------------------------------------------------
(* Every variable has its type. *)
TypeOK ==
  /\ rdcmd \in {"command", "handler"} /\ handler \in Handlers \cup {NoProc}
  /\ spi_process_callback \in Handlers \cup {"spi_rdcmd"}
  /\ polled \subseteq Handlers \cup {"spi_rdcmd"}
  /\ {spi_event, ready, rx} \subseteq BOOLEAN
  /\ xfer = NoXfer \/ (xfer.len \in 1..Cap /\ xfer.at \in 1..xfer.len)
  /\ spi_topi_actual \in 0..Cap /\ uip_len = 0
  /\ whole \in {"no", "unread", "read"}

(* Nobody waits in vain (PROCESS_WAIT_EVENT_UNTIL in spi-iface.c:238-298,   *)
(* 330, 356, 444, 473): whoever waits for a poll is the process the end of  *)
(* the transfer will poll, and that transfer is armed or its poll pending;  *)
(* spi_rdcmd waits for spi_event only while a handler runs or has posted    *)
(* it.                                                                      *)
Armed(proc) ==
  \/ proc \in polled
  \/ xfer # NoXfer /\ spi_process_callback = proc
NoLostWakeup ==
  /\ rdcmd = "command" => Armed("spi_rdcmd") /\ handler = NoProc /\ ~spi_event
  /\ rdcmd = "handler" => (handler # NoProc) # spi_event
  /\ handler # NoProc => Armed(handler)

(* The PI never clocks into nothing: when it takes the pulse for the next   *)
(* stage, an untouched transfer of exactly the words of that stage is       *)
(* armed; so the two never fall out of step, and SPI_transfer never finds   *)
(* another transfer in progress (spi-iface.c:190).                          *)
InStep ==
  /\ ready /\ pi # Idle =>
       /\ pi.at = 1 /\ xfer # NoXfer /\ xfer.at = 1
       /\ xfer.len = Len(WordsOf(pi))
  /\ pi.at > 1 => xfer # NoXfer /\ xfer.at = pi.at /\ xfer.len = Len(WordsOf(pi))

(* The packets of the PI reach tcpip_input once each, whole and in order.   *)
InOrder ==
  /\ Len(injected) \in (Len(sent) - 2)..Len(sent)
  /\ injected = SubSeq(sent, 1, Len(injected))

(* A packet from the radio that no other one overtakes, from the moment the *)
(* PI reads its length to the last of its words, reaches the PI whole.      *)
FetchedWhole ==
  [][/\ pi.job = "fetch" /\ pi.stage = "data" /\ pi'.job = "clear" /\ whole = "read"
     => \E p \in 1..radio :
          Append(got, buf.topi[pi.at]) = Packet(p, pi.arg - 1)]_vars

(* Each job of the PI ends. *)
JobEnds == pi # Idle ~> pi = Idle
-----------------------------------------------------------------------------
(* Step 7 of spi-iface.c:431, "pi sends 0x11 0x00 0x11 0xff / 0x00 ... to   *)
(* write the received length to zero": once it has, and no packet came      *)
(* since the fetch, the length reads as zero.                               *)
LengthCleared ==
  [][pi.job = "clear" /\ pi' = Idle /\ whole = "no" => spi_topi_actual = 0]_vars
=============================================================================
