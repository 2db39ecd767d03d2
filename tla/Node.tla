-------------------------------- MODULE Node --------------------------------
(***************************************************************************)
(* What the two kinds of sensor nodes have in common (waterNode.c and      *)
(* airborneNode.c): the main process sensor_process starts send_cal_proc   *)
(* or send_data_proc and waits for sensor_done_evt; both hand messages to  *)
(* the message sender; sysmon reboots the node after too many failures;    *)
(* commands change the configuration at any time.                          *)
(*                                                                         *)
(* The module is open: WaterNode and AirborneNode add the main process and *)
(* the way the data process waits, which is where the nodes differ.        *)
(*                                                                         *)
(* Readings are abstract.  A calibration message says which calibration of *)
(* which boot it holds; calibrations are numbered, 0 being the one in the  *)
(* flash memory.  sysmon's period of half a second is left out: its check  *)
(* may come between any two events.                                        *)
(***************************************************************************)
EXTENDS Messenger

CONSTANTS
  Main,                  \* the process sensor_process
  Cal,                   \* the process send_cal_proc
  Data,                  \* the process send_data_proc
  Sensors,               \* the sensor processes of one measurement
  Server,                \* the address that is configured at boot
  Settle,                \* etimer_set(&et, 1) and (&et, 3), in ticks
  Watch,                 \* etimer_set(&et, CLOCK_SECOND), in ticks
  SensorInterval,        \* config_get_sensor_interval(), in ticks
  RetryInterval,         \* config_get_retry_interval(), in ticks
  MaxFailures,           \* config_get_maxfailures()
  MaxSeq,                \* bound: messages of one boot
  MaxFin,                \* bound: fin events in the queue at one time
  MaxLines,              \* bound: lines typed at the console
  MaxChanges,            \* bound: calibrations set by command in one boot
  MaxRuns,               \* bound: run requests
  MaxBoots               \* bound: reboots

ASSUME NodeAssumption ==
  /\ {Main, Cal, Data} \subseteq Procs \ {Sender}
  /\ Main # Cal /\ Main # Data /\ Cal # Data
  /\ Server \in Addr
  /\ {Settle, Watch, SensorInterval, RetryInterval, MaxFailures}
       \subseteq Nat \ {0}
  /\ {MaxSeq, MaxFin, MaxLines, MaxChanges, MaxRuns, MaxBoots} \subseteq Nat
  /\ [kind : {"cal"}, calibration : 0..MaxChanges, boot : 0..MaxBoots]
       \subseteq Body
  /\ [kind : {"data"}, boot : 0..MaxBoots] \subseteq Body

VARIABLES
  main,                  \* what sensor_process waits for
  result,                \* result of the previous send
  cal, cal_msg, cal_rc,  \* send_cal_proc: its place, message and rc
  data, data_msg, data_rc,        \* send_data_proc: the same
  running,               \* the sensor processes that run
  sequence,              \* number of the next message
  failure_counter,       \* consecutive failures
  calibration_changed,   \* config: the calibration is to be sent
  calibration,           \* config: number of the current calibration
  boots,                 \* reboots so far
  lines, runs            \* lines typed and runs requested so far

calVars == <<cal, cal_msg, cal_rc>>
dataVars == <<data, data_msg, data_rc, running>>
configVars == <<calibration_changed, calibration>>
boundVars == <<boots, lines, runs>>
nodeVars == <<main, result, calVars, dataVars, configVars, sequence,
              failure_counter, boundVars>>

NodeTypeOK ==
  /\ ContikiTypeOK /\ SenderTypeOK
  /\ main \in {"wait", "cal", "data"}
  /\ cal \in {"idle", "settle", "await"}
  /\ data \in {"idle", "settle", "reading", "pause", "color", "await"}
  /\ {result, cal_rc, data_rc, calibration_changed} \subseteq BOOLEAN
  /\ {cal_msg, data_msg} \subseteq Message \cup {NoMsg}
  /\ running \subseteq Sensors
  /\ sequence \in 0..MaxSeq
  /\ failure_counter \in Nat
  /\ calibration \in 0..MaxChanges

CalBody == [kind |-> "cal", calibration |-> calibration, boot |-> boots]
DataBody == [kind |-> "data", boot |-> boots]
MessageOf(b) == [dst |-> Server, seq |-> sequence, body |-> b]

AtBoot == [p \in Procs |-> IF p = Main THEN SensorInterval ELSE Off]

(* sensor_process enters its loop: the configuration comes from flash, the *)
(* interval timer runs.                                                    *)
NodeInit(changed) ==
  /\ MessengerInit(Server)
  /\ events = <<>> /\ timers = AtBoot
  /\ main = "wait" /\ result = FALSE
  /\ cal = "idle" /\ cal_msg = NoMsg /\ cal_rc = FALSE
  /\ data = "idle" /\ data_msg = NoMsg /\ data_rc = FALSE
  /\ running = {}
  /\ sequence = 0 /\ failure_counter = 0
  /\ calibration_changed = changed /\ calibration = 0
  /\ boots = 0 /\ lines = 0 /\ runs = 0

-----------------------------------------------------------------------------
(* The end of a sending process is heard by the processes that were        *)
(* started before it, the one started last first.                          *)
ExitSender(q) == Tell(Tell(q, Main), Sender)

(* sensor_process starts send_cal_proc, which waits for things to settle.  *)
StartCal(q) ==
  /\ main' = "cal"
  /\ cal' = "settle"
  /\ timers' = Set(Cal, Settle)
  /\ events' = q
  /\ UNCHANGED <<messengerVars, result, cal_msg, cal_rc, dataVars, configVars,
                 sequence, failure_counter, boundVars>>

(* sensor_process starts send_data_proc, which takes its number at once.    *)
StartData(q) ==
  /\ main' = "data"
  /\ data' = "settle"
  /\ data_msg' = MessageOf(DataBody)
  /\ sequence' = sequence + 1
  /\ timers' = Set(Data, Settle)
  /\ events' = q
  /\ UNCHANGED <<messengerVars, result, calVars, data_rc, running, configVars,
                 failure_counter, boundVars>>

(* A process is not concerned by the event. *)
NodeIgnores(q) ==
  /\ events' = q
  /\ UNCHANGED <<timers, messengerVars, nodeVars>>

(* send_cal_proc builds and hands over its message. *)
CalSubmit(q) ==
  LET m == MessageOf(CalBody)
  IN  /\ MessengerSend(Cal, m, q)
      /\ cal_msg' = m
      /\ sequence' = sequence + 1
      /\ timers' = Set(Cal, RetryInterval)
      /\ cal' = "await"
      /\ UNCHANGED <<conn, networkVars, main, result, cal_rc, dataVars,
                     configVars, failure_counter, boundVars>>

(* Variant: a failure is not counted. *)
CalFinishUncounted(ok, q) ==
  /\ failure_counter' = IF ok THEN 0 ELSE failure_counter
  /\ calibration_changed' = (calibration_changed /\ ~ok)
  /\ cal_rc' = (cal_rc \/ ok)
  /\ cal' = "idle"
  /\ timers' = Stop(Cal)
  /\ events' = ExitSender(Post(q, Main, "done"))
  /\ UNCHANGED <<messengerVars, main, result, cal_msg, dataVars, sequence,
                 calibration, boundVars>>

(* send_cal_proc ends.  A positive answer clears the change that was to be *)
(* reported and sets rc, which nothing resets.                             *)
CalFinish(ok, q) ==
  /\ failure_counter' = IF ok THEN 0 ELSE failure_counter + 1
  /\ calibration_changed' = (calibration_changed /\ ~ok)
  /\ cal_rc' = (cal_rc \/ ok)
  /\ cal' = "idle"
  /\ timers' = Stop(Cal)
  /\ events' = ExitSender(Post(q, Main, "done"))
  /\ UNCHANGED <<messengerVars, main, result, cal_msg, dataVars, sequence,
                 calibration, boundVars>>

CalSettled ==
  /\ cal = "settle"
  /\ \E e \in Kinds : Receives(Cal, e)
  /\ IF Expired(Cal) THEN CalSubmit(Tail(events)) ELSE NodeIgnores(Tail(events))

CalAnswered ==
  /\ cal = "await"
  /\ Receives(Cal, "MSG")
  /\ CalFinish(last_ack_ok, Tail(events))

CalOther ==
  /\ cal = "await"
  /\ \E e \in Kinds \ {"MSG"} : Receives(Cal, e)
  /\ IF Expired(Cal) THEN CalFinish(FALSE, Tail(events))
                     ELSE NodeIgnores(Tail(events))

-----------------------------------------------------------------------------
(* send_data_proc goes on to `where' with its etimer set to t and the      *)
(* sensor processes r running.                                             *)
DataGoes(where, t, r, q) ==
  /\ data' = where
  /\ running' = r
  /\ timers' = Set(Data, t)
  /\ events' = q
  /\ UNCHANGED <<messengerVars, main, result, calVars, data_msg, data_rc,
                 configVars, sequence, failure_counter, boundVars>>

(* send_data_proc starts the sensor processes.  One that cannot open the   *)
(* bus has ended when process_start returns; send_data_proc, which is      *)
(* running, does not hear of that end.                                     *)
DataSettled ==
  /\ data = "settle"
  /\ \E e \in Kinds : Receives(Data, e)
  /\ IF Expired(Data)
     THEN \E r \in SUBSET Sensors :
            DataGoes("reading", Watch, r,
                     IF r = Sensors THEN Tail(events)
                                    ELSE ExitSender(Tail(events)))
     ELSE NodeIgnores(Tail(events))

(* send_data_proc ends, with the same clearing of a change. *)
DataFinish(ok, q) ==
  /\ failure_counter' = IF ok THEN 0 ELSE failure_counter + 1
  /\ calibration_changed' = (calibration_changed /\ ~ok)
  /\ data_rc' = ok
  /\ data' = "idle"
  /\ timers' = Stop(Data)
  /\ events' = ExitSender(Post(q, Main, "done"))
  /\ UNCHANGED <<messengerVars, main, result, calVars, data_msg, running,
                 sequence, calibration, boundVars>>

DataAnswered ==
  /\ data = "await"
  /\ Receives(Data, "MSG")
  /\ DataFinish(last_ack_ok, Tail(events))

DataOther ==
  /\ data = "await"
  /\ \E e \in Kinds \ {"MSG"} : Receives(Data, e)
  /\ IF Expired(Data) THEN DataFinish(FALSE, Tail(events))
                      ELSE NodeIgnores(Tail(events))

(* A sensor process ends and every other process hears of it, the one      *)
(* started last first.                                                     *)
SensorEnds(s) ==
  /\ Between
  /\ s \in running
  /\ running' = running \ {s}
  /\ events' = Tell(ExitSender(events), Data)
  /\ UNCHANGED <<timers, messengerVars, main, result, calVars, data, data_msg,
                 data_rc, configVars, sequence, failure_counter, boundVars>>

-----------------------------------------------------------------------------
(* The result sensor_process takes over from the process it waited for,    *)
(* and when it will act again.                                             *)
TakeResult(rc) ==
  /\ main' = "wait"
  /\ result' = rc
  /\ timers' = Set(Main, IF rc THEN SensorInterval ELSE RetryInterval)
  /\ events' = Tail(events)

(* sensor_process waits for sensor_done_evt and for nothing else. *)
MainBusy ==
  /\ main # "wait"
  /\ \E e \in Kinds \ {"done"} : Receives(Main, e)
  /\ NodeIgnores(Tail(events))

(* Events for processes that have ended. *)
Gone ==
  /\ \E e \in Kinds : \/ cal = "idle" /\ Receives(Cal, e)
                      \/ data = "idle" /\ Receives(Data, e)
  /\ NodeIgnores(Tail(events))

(* The command service and the console: config_set_calibration, which      *)
(* tells nobody.  Bound: MaxChanges.                                       *)
SetCalibration ==
  /\ Between
  /\ calibration < MaxChanges
  /\ calibration' = calibration + 1
  /\ calibration_changed' = TRUE
  /\ UNCHANGED <<kernelVars, messengerVars, main, result, calVars, dataVars,
                 sequence, failure_counter, boundVars>>

(* cmd_skipcal: when the shell's turn comes after a line was typed, it      *)
(* takes the mark of a changed calibration away.                            *)
SkipCal ==
  /\ Between
  /\ lines > 0
  /\ calibration_changed
  /\ calibration_changed' = FALSE
  /\ UNCHANGED <<kernelVars, messengerVars, main, result, calVars, dataVars,
                 calibration, sequence, failure_counter, boundVars>>

(* config_timeout_change: an interval was set, or "run" was typed.         *)
(* Bound: MaxRuns.                                                         *)
RequestRun ==
  /\ Between
  /\ runs < MaxRuns
  /\ runs' = runs + 1
  /\ events' = Post(events, Main, "run")
  /\ UNCHANGED <<timers, messengerVars, main, result, calVars, dataVars,
                 configVars, sequence, failure_counter, boots, lines>>

(* A line at the console is posted to every running process.               *)
(* Bound: MaxLines.                                                        *)
SerialLine ==
  /\ Between
  /\ lines < MaxLines
  /\ lines' = lines + 1
  /\ LET q == IF cal # "idle" THEN Post(events, Cal, "line")
              ELSE IF data # "idle" THEN Post(events, Data, "line")
              ELSE events
     IN  events' = Post(Post(q, Sender, "line"), Main, "line")
  /\ UNCHANGED <<timers, messengerVars, main, result, calVars, dataVars,
                 configVars, sequence, failure_counter, boots, runs>>

(* sysmon reboots the node.  Nothing but the flash memory survives; what   *)
(* is on the network stays there.  Bound: MaxBoots.                        *)
Reboot(changed) ==
  /\ Between
  /\ failure_counter >= MaxFailures
  /\ boots < MaxBoots
  /\ boots' = boots + 1
  /\ events' = <<>> /\ timers' = AtBoot
  /\ main' = "wait" /\ result' = FALSE
  /\ cal' = "idle" /\ cal_msg' = NoMsg /\ cal_rc' = FALSE
  /\ data' = "idle" /\ data_msg' = NoMsg /\ data_rc' = FALSE
  /\ running' = {}
  /\ sequence' = 0 /\ failure_counter' = 0
  /\ calibration_changed' = changed /\ calibration' = 0
  /\ send_started' = FALSE /\ requestor' = NoProc /\ current_data' = NoMsg
  /\ current_sequence' = 0 /\ current_attempt' = 0 /\ last_ack_ok' = FALSE
  /\ tries' = 0
  /\ UNCHANGED <<conn, networkVars, lines, runs>>

Fins == Cardinality({i \in 1..Len(events) : events[i].ev = "fin"})

(* The steps of the message sender, the network and the kernel. *)
SenderStep ==
  /\ SenderStart \/ SenderFin \/ SenderOther
  /\ UNCHANGED nodeVars

(* Bound: MaxFin. *)
AckStep ==
  /\ Fins < MaxFin
  /\ \E a \in acks : AckArrives(a)
  /\ UNCHANGED nodeVars

ServerStep ==
  /\ \E pkt \in sent : ServerReceives(pkt[1], pkt[2])
  /\ UNCHANGED nodeVars

KernelStep ==
  /\ Tick \/ \E p \in Procs : TimerPoll(p)
  /\ UNCHANGED <<messengerVars, nodeVars>>

CalStep == CalSettled \/ CalAnswered \/ CalOther

CommandStep == SetCalibration \/ SkipCal \/ RequestRun \/ SerialLine

-----------------------------------------------------------------------------
(* The main process is never left waiting: as long as it waits for a        *)
(* sending process, that process runs or its sensor_done_evt is queued, and *)
(* no second one is queued or left behind to be taken for the next.         *)
DoneComes ==
  /\ main = "cal" => (cal # "idle") # Pending(Main, "done")
  /\ main = "data" => (data # "idle") # Pending(Main, "done")
  /\ main = "wait" => cal = "idle" /\ data = "idle" /\ ~Pending(Main, "done")

=============================================================================
