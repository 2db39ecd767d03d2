---------------------------- MODULE AirborneNode ----------------------------
(***************************************************************************)
(* The airborne node (src/airborneNode/airborneNode.c).  Its main process  *)
(* sends the calibration until that has succeeded once, and again when the *)
(* configuration says it changed.  Its data process looks at its sensors   *)
(* only when its etimer expires, and gives the message sender one more     *)
(* second for the answer.  What the water node defines too is named        *)
(* Airborne... here, so that one module can reason about both.             *)
(***************************************************************************)
EXTENDS Node

VARIABLE state           \* enum sender_states: what is sent next

airborneVars == <<kernelVars, messengerVars, nodeVars, state>>

(* The mark of a changed calibration is set when the flash memory held no  *)
(* configuration of this device type.                                      *)
AirborneInit ==
  /\ \E changed \in BOOLEAN : NodeInit(changed)
  /\ state = "SEND_CAL"

-----------------------------------------------------------------------------
(* sensor_process in its loop.  Bound: after MaxSeq messages it starts      *)
(* nothing more.                                                            *)
AirborneWait ==
  /\ main = "wait"
  /\ \E e \in Kinds :
       /\ Receives(Main, e)
       /\ IF /\ sequence < MaxSeq
             /\ e = "run" \/ calibration_changed \/ Expired(Main)
          THEN IF calibration_changed \/ state = "SEND_CAL"
               THEN StartCal(Tail(events))
               ELSE StartData(Tail(events))
          ELSE NodeIgnores(Tail(events))
  /\ UNCHANGED state

(* Variant: the state goes on whatever the result was. *)
AirborneCalDoneAnyway ==
  /\ main = "cal"
  /\ Receives(Main, "done")
  /\ TakeResult(cal_rc)
  /\ state' = "SEND_DATA"
  /\ UNCHANGED <<messengerVars, calVars, dataVars, configVars, sequence,
                 failure_counter, boundVars>>

(* sensor_process when the calibration was sent, or not. *)
AirborneCalDone ==
  /\ main = "cal"
  /\ Receives(Main, "done")
  /\ TakeResult(cal_rc)
  /\ state' = IF cal_rc THEN "SEND_DATA" ELSE state
  /\ UNCHANGED <<messengerVars, calVars, dataVars, configVars, sequence,
                 failure_counter, boundVars>>

(* sensor_process when the data was sent, or not. *)
AirborneDataDone ==
  /\ main = "data"
  /\ Receives(Main, "done")
  /\ TakeResult(data_rc)
  /\ state' = IF data_rc THEN "SEND_DATA" ELSE state
  /\ UNCHANGED <<messengerVars, calVars, dataVars, configVars, sequence,
                 failure_counter, boundVars>>

(* send_data_proc hands over its message, its etimer newly set. *)
AirborneSubmit(q) ==
  /\ MessengerSend(Data, data_msg, q)
  /\ data' = "await"
  /\ timers' = Set(Data, Watch)
  /\ UNCHANGED <<conn, networkVars, main, result, calVars, data_msg, data_rc,
                 running, configVars, sequence, failure_counter, boundVars>>

(* Variant: the etimer's event is taken once, the etimer not set again. *)
AirborneReadingOnce ==
  /\ data = "reading"
  /\ \E e \in Kinds : Receives(Data, e)
  /\ IF Receives(Data, "TIMER") /\ running = {}
     THEN AirborneSubmit(Tail(events)) ELSE NodeIgnores(Tail(events))

(* send_data_proc while sensors run.  It waits for its etimer or for        *)
(* PROCESS_EVENT_EXIT, which is not the event the end of a sensor posts.    *)
AirborneReading ==
  /\ data = "reading"
  /\ \E e \in Kinds : Receives(Data, e)
  /\ IF ~Expired(Data) THEN NodeIgnores(Tail(events))
     ELSE IF running = {} THEN AirborneSubmit(Tail(events))
     ELSE DataGoes("reading", Watch, running, Tail(events))

-----------------------------------------------------------------------------
AirborneMainStep ==
  \/ AirborneWait \/ AirborneCalDone \/ AirborneDataDone
  \/ (MainBusy \/ Gone) /\ UNCHANGED state

AirborneDataStep == DataSettled \/ AirborneReading \/ DataAnswered \/ DataOther

(* The other processes leave the main process's state alone. *)
ProcessStep == (SenderStep \/ CalStep \/ AirborneDataStep) /\ UNCHANGED state

ClockStep == KernelStep /\ UNCHANGED state

SensorStep(s) == SensorEnds(s) /\ UNCHANGED state

OutsideStep == (AckStep \/ ServerStep \/ CommandStep) /\ UNCHANGED state

(* The reboot forgets that the calibration was sent. *)
NodeReboot ==
  /\ \E changed \in BOOLEAN : Reboot(changed)
  /\ state' = "SEND_CAL"

AirborneNext ==
  \/ AirborneMainStep \/ ProcessStep \/ ClockStep \/ OutsideStep \/ NodeReboot
  \/ \E s \in Sensors : SensorStep(s)

AirborneSpec == AirborneInit /\ [][AirborneNext]_airborneVars

(* The scheduler and the clock run, sysmon runs, and the sensor processes  *)
(* end.                                                                    *)
AirborneFairness ==
  /\ []<>(events = <<>>)
  /\ WF_airborneVars(ProcessStep \/ AirborneMainStep)
  /\ SF_airborneVars(ClockStep)
  /\ \A s \in Sensors : WF_airborneVars(SensorStep(s))
  /\ SF_airborneVars(NodeReboot)

AirborneFairSpec == AirborneSpec /\ AirborneFairness

-----------------------------------------------------------------------------
(* Lines 124-125, "The server stores the calibration data and will connect  *)
(* the new data messages to the most recent calibration check in": whatever *)
(* happens to answers and to patience, no data is handed over in the first  *)
(* boot before a calibration of this boot has arrived.                      *)
DataAfterCal ==
  [][data # "await" /\ data' = "await" /\ boots = 0 =>
       \E m \in received : m.body.kind = "cal" /\ m.body.boot = boots]_airborneVars

(* Every cycle ends, however impatient the processes are. *)
AirborneCycleEnds == main # "wait" ~> main = "wait"

(* A node that hears nothing from its server reboots. *)
SilenceReboots == [](acks = {}) => <>(boots > 0)

-----------------------------------------------------------------------------
(* Lines 285-286, "the messenger process will take it from here, sending    *)
(* asynchrously and posting a status message when its done": the status     *)
(* the data process takes is that of the message it handed over.            *)
AirborneResultTrue ==
  [][main = "data" /\ main' = "wait" /\ result' => data_msg \in received]_airborneVars

=============================================================================
