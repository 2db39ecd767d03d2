----------------------------- MODULE WaterNode -----------------------------
(***************************************************************************)
(* The water node (src/waterNode/waterNode.c).  Its main process sends the *)
(* calibration whenever the configuration says it changed, and clears that *)
(* mark when the attempt is over.  Its data process reads the colour       *)
(* sensor a second time for the ambient light, hands over its message and  *)
(* then waits without an etimer of its own.                                *)
(***************************************************************************)
EXTENDS Node

CONSTANT Color           \* the process tcs3472_proc

ASSUME WaterAssumption == Color \in Sensors

vars == <<kernelVars, messengerVars, nodeVars>>

Init == NodeInit(TRUE)

-----------------------------------------------------------------------------
(* sensor_process in its loop.  Bound: after MaxSeq messages it starts      *)
(* nothing more.                                                            *)
MainWait ==
  /\ main = "wait"
  /\ \E e \in Kinds :
       /\ Receives(Main, e)
       /\ IF /\ sequence < MaxSeq
             /\ e = "run" \/ calibration_changed \/ Expired(Main)
          THEN IF calibration_changed THEN StartCal(Tail(events))
                                      ELSE StartData(Tail(events))
          ELSE NodeIgnores(Tail(events))

(* sensor_process when the calibration was sent, or not. *)
MainCalDone ==
  /\ main = "cal"
  /\ Receives(Main, "done")
  /\ TakeResult(cal_rc)
  /\ calibration_changed' = FALSE
  /\ UNCHANGED <<messengerVars, calVars, dataVars, calibration, sequence,
                 failure_counter, boundVars>>

(* Variant: any event ends the wait for sensor_done_evt. *)
MainDataDoneAny ==
  /\ main = "data"
  /\ \E e \in Kinds : Receives(Main, e)
  /\ TakeResult(data_rc)
  /\ UNCHANGED <<messengerVars, calVars, dataVars, configVars, sequence,
                 failure_counter, boundVars>>

MainDataDone ==
  /\ main = "data"
  /\ Receives(Main, "done")
  /\ TakeResult(data_rc)
  /\ UNCHANGED <<messengerVars, calVars, dataVars, configVars, sequence,
                 failure_counter, boundVars>>

(* send_data_proc while sensors run: every event makes it look, and its    *)
(* etimer only makes it look again.                                        *)
DataReading ==
  /\ data = "reading"
  /\ \E e \in Kinds : Receives(Data, e)
  /\ IF running = {}
     THEN DataGoes("pause", Settle, {}, Tail(events))
     ELSE IF Expired(Data)
          THEN DataGoes("reading", Watch, running, Tail(events))
          ELSE NodeIgnores(Tail(events))

(* send_data_proc hands over its message; its etimer is left as it is. *)
DataSubmit(q) ==
  /\ MessengerSend(Data, data_msg, q)
  /\ data' = "await"
  /\ running' = {}
  /\ UNCHANGED <<timers, conn, networkVars, main, result, calVars, data_msg,
                 data_rc, configVars, sequence, failure_counter, boundVars>>

(* send_data_proc has paused and starts the colour sensor for the ambient  *)
(* light.  If that ends at once, the sender and sensor_process hear of it  *)
(* and send_data_proc goes on: here it is called once more, after them.    *)
DataPaused ==
  /\ data = "pause"
  /\ \E e \in Kinds : Receives(Data, e)
  /\ IF Expired(Data)
     THEN /\ data' = "color"
          /\ \/ running' = {Color} /\ events' = Tail(events)
             \/ /\ running' = {}
                /\ events' = ExitSender(Tell(Tail(events), Data))
          /\ UNCHANGED <<timers, messengerVars, main, result, calVars, data_msg,
                         data_rc, configVars, sequence, failure_counter,
                         boundVars>>
     ELSE NodeIgnores(Tail(events))

DataColor ==
  /\ data = "color"
  /\ \E e \in Kinds : Receives(Data, e)
  /\ IF running = {} THEN DataSubmit(Tail(events))
                     ELSE NodeIgnores(Tail(events))

-----------------------------------------------------------------------------
MainStep == MainWait \/ MainCalDone \/ MainDataDone \/ MainBusy \/ Gone

DataStep ==
  DataSettled \/ DataReading \/ DataPaused \/ DataColor \/ DataAnswered
  \/ DataOther

Next ==
  \/ SenderStep \/ AckStep \/ ServerStep \/ KernelStep
  \/ MainStep \/ CalStep \/ DataStep \/ CommandStep
  \/ \E s \in Sensors : SensorEnds(s)
  \/ Reboot(TRUE)

Spec == Init /\ [][Next]_vars

(* The scheduler and the clock run, sysmon runs, and the sensor processes  *)
(* end.                                                                    *)
Fairness ==
  /\ []<>(events = <<>>)
  /\ WF_vars(SenderStep \/ MainStep \/ CalStep \/ DataStep)
  /\ SF_vars(KernelStep)
  /\ \A s \in Sensors : WF_vars(SensorEnds(s))
  /\ SF_vars(Reboot(TRUE))

FairSpec == Spec /\ Fairness

-----------------------------------------------------------------------------
TypeOK == NodeTypeOK

(* Until the first reboot, data is reported as sent only if the message of  *)
(* this very cycle arrived: no late answer to the calibration, and no       *)
(* refused message, is taken for it.                                        *)
DataResultTrue ==
  [][main = "data" /\ main' = "wait" /\ result' /\ boots = 0 =>
       data_msg \in received]_vars

(* Until the first reboot, the failures that lead to it are failures in a   *)
(* row: when the counter goes back to zero, the message sent last arrived.  *)
FailuresInARow ==
  [][failure_counter' < failure_counter /\ boots' = 0 =>
       current_data \in received]_vars

(* Every cycle ends: the main process comes back to its loop. *)
CycleEnds == main # "wait" ~> main = "wait"

-----------------------------------------------------------------------------
(* waterNode.c lines 130-131, "we *should* send calibration data whenever   *)
(* there is a change in the calibration data": the change is marked, being  *)
(* sent, or with the server.                                                *)
ChangeIsSent ==
  calibration_changed
  \/ main = "cal"
  \/ \E m \in received : m.body.kind = "cal" /\ m.body.boot = boots
                       /\ m.body.calibration = calibration

(* waterNode.c line 273, "This function should be called periodically to    *)
(* report sensor values": the main process comes back to its loop.          *)
Periodic == main # "wait" ~> main = "wait"

=============================================================================
