---------------------------- MODULE Measurement ----------------------------
(***************************************************************************)
(* One measurement after the other: send_data_proc of the two nodes, from  *)
(* the moment it is started to the moment its message is complete, with    *)
(* the sensor processes it starts.  Node abstracts from all this: there a  *)
(* sensor process starts and ends.                                         *)
(***************************************************************************)
EXTENDS Sensors

CONSTANTS
  Watch,         \* etimer_set(&et, CLOCK_SECOND), in ticks
  Pause,         \* etimer_set(&et, 3)
  MaxMeasures    \* bound: measurements

ASSUME MeasurementAssumption == {Watch, Pause, MaxMeasures} \subseteq Nat \ {0}

VARIABLES
  kind,          \* which node this is
  now,           \* number of the measurement
  completions,   \* the sensor processes not yet seen to have ended
  msg            \* the fields of the message: the measurement they are from
measureVars == <<kind, now, completions, msg>>
vars == <<sensorVars, measureVars>>

Order == IF kind = "water" THEN <<"ms5637", "si7210", "tcs3472", "pic32">>
                           ELSE <<"ms5637", "si7020">>
Reported == (Fields \ {"val"}) \cup {"ambient"}

Begin ==
  /\ cpu = <<>> /\ ~Running(Client) /\ now < MaxMeasures
  /\ now' = now + 1 /\ msg' = [f \in Reported |-> 0] /\ completions' = {}
  /\ at' = [at EXCEPT ![Client] = <<"start", 1>>] /\ until' = [until EXCEPT ![Client] = "timer"]
  /\ timers' = Set(Client, 1)
  /\ UNCHANGED <<cpu, events, loopVars, sem, ok, got, faults, kind>>

ClientAt(place) == Runs(Client) /\ at[Client] = place

StartSensor ==
  \E i \in DOMAIN Order :
    /\ ClientAt(<<"start", i>>)
    /\ Start(Order[i], IF i < Len(Order) THEN <<"start", i + 1>> ELSE <<"watch", 0>>)
    /\ completions' = completions \cup {Order[i]}
    /\ UNCHANGED <<ok, got, kind, now, msg>>

(* send_data_proc of the water node looks at every event, that of the       *)
(* airborne node when its etimer has expired.                               *)
Look(t) == Yields(Client, <<"look", 0>>, IF kind = "water" THEN "any" ELSE "timer", t)
StartWatch ==
  /\ ClientAt(<<"watch", 0>>) /\ Look(Watch)
  /\ UNCHANGED <<loopVars, sem, ok, got, faults, measureVars>>

Taken(ended) == [f \in Reported |-> IF \E p \in ended : f \in FieldsOf(p) THEN got[f] ELSE msg[f]]
Finish == Ends(Client)
LookAroundForAWhile ==                \* bug: "Sensor timeout" gives the sensors up
  /\ ClientAt(<<"look", 0>>)
  /\ LET ended == {p \in completions : ~Running(p) \/ Expired(Client)}
     IN  /\ completions' = completions \ ended /\ msg' = Taken(ended)
         /\ IF completions # ended THEN Look(timers[Client])
            ELSE IF kind = "water" THEN Yields(Client, <<"ambient", 0>>, "timer", Pause)
            ELSE Finish
  /\ UNCHANGED <<loopVars, sem, ok, got, faults, kind, now>>
LookAroundAtOnce ==                   \* bug: no pause before the ambient light
  /\ ClientAt(<<"look", 0>>)
  /\ LET ended == {p \in completions : ~Running(p)}
     IN  /\ completions' = completions \ ended /\ msg' = Taken(ended)
         /\ IF completions # ended THEN Look(IF Expired(Client) THEN Watch ELSE timers[Client])
            ELSE IF kind = "water" THEN Goes(Client, <<"ambient", 0>>)
            ELSE Finish
  /\ UNCHANGED <<loopVars, sem, ok, got, faults, kind, now>>
LookAround ==
  /\ ClientAt(<<"look", 0>>)
  /\ LET ended == {p \in completions : ~Running(p)}
     IN  /\ completions' = completions \ ended /\ msg' = Taken(ended)
         /\ IF completions # ended THEN Look(IF Expired(Client) THEN Watch ELSE timers[Client])
            ELSE IF kind = "water" THEN Yields(Client, <<"ambient", 0>>, "timer", Pause)
            ELSE Finish
  /\ UNCHANGED <<loopVars, sem, ok, got, faults, kind, now>>

(* The colour sensor is started once more for the ambient light.            *)
StartAmbient ==
  /\ ClientAt(<<"ambient", 0>>) /\ Start("tcs3472", <<"color", 0>>)
  /\ Fills("color", 0) /\ Reports("tcs3472", FALSE)
  /\ UNCHANGED measureVars

AwaitAmbient ==
  /\ ClientAt(<<"color", 0>>)
  /\ IF Running("tcs3472") THEN YieldsOnly(Client, <<"color", 0>>) /\ UNCHANGED msg
     ELSE Finish /\ msg' = [msg EXCEPT !["ambient"] = got["color"]]
  /\ UNCHANGED <<loopVars, sem, ok, got, faults, kind, now, completions>>

Init ==
  /\ SensorsInit
  /\ kind \in {"water", "airborne"} /\ now = 0 /\ completions = {}
  /\ msg = [f \in Reported |-> 0]

ClientStep == StartSensor \/ StartWatch \/ LookAround \/ StartAmbient \/ AwaitAmbient
KernelStep ==
  /\ \/ /\ cpu = <<>> /\ (Tick \/ \E p \in Procs : TimerPoll(p))
        /\ UNCHANGED <<cpu, at, until, loopVars, sem, ok, got, faults>>
     \/ \E p \in Procs : Resume(p) \/ Hears(p)
  /\ UNCHANGED measureVars
Step == KernelStep \/ ClientStep \/ (SensorStep(now) /\ UNCHANGED measureVars)
Next == Begin \/ Step
Spec == Init /\ [][Next]_vars /\ WF_vars(Step)

-----------------------------------------------------------------------------
AtEnd == now > 0 /\ ~Running(Client) /\ cpu = <<>>

(* What each variable may hold.  The semaphore is never taken while nobody  *)
(* holds the bus: no path of a driver leaves without SENSOR_REL.            *)
TypeOK ==
  /\ ContikiTypeOK /\ sem \in Nat \ {0}
  /\ count \in [Drivers -> -1..(Wrap - 1)]
  /\ got \in [Fields -> 0..now] /\ msg \in [Reported -> 0..now]
  /\ completions \subseteq Drivers

(* When pic32_proc says that it succeeded (conduct->rc, pic32drvr.c:100),   *)
(* every range of the message was read for this message: none is left from  *)
(* an earlier one by a transfer that failed on the way.                     *)
RangesHonest == AtEnd /\ kind = "water" /\ ok["pic32"] => \A i \in Ranges : msg[RangeField[i]] = now

(* A message is complete only when all its sensor processes have ended, and *)
(* it holds what they left in their buffers: the loop over `completions`    *)
(* and the wait for the ambient light (waterNode.c:326-410) miss no end,    *)
(* in whatever order the processes end.                                     *)
Collected ==
  AtEnd => \A i \in DOMAIN Order : ~Running(Order[i])
             /\ \A f \in FieldsOf(Order[i]) \ {"val"} :
                  msg[IF f = "color" THEN "ambient" ELSE f] = got[f]

(* A sensor process is not started while an event of its last run is still  *)
(* on its way to it, which its first wait would take for its own: "There    *)
(* are pending events ... race conditions abound" (waterNode.c:393).        *)
StartsClean ==
  [][\A p \in Drivers : (at[p] = Gone /\ at'[p] # Gone) => ~Pending(p, "TIMER")]_vars

(* A measurement that has started is completed: every wait of every driver  *)
(* is woken and every loop left.  What can hold it up for ever is one thing *)
(* only, the time-out of si7210_field_strength: its `return false` is       *)
(* PT_WAITING, and the process waits for an event nobody posts.             *)
TimedOut == Running("si7210") /\ at["si7210"][1] \in {"dsp", "again"} /\ count["si7210"] <= 0
MeasurementEnds == Running(Client) ~> (~Running(Client) \/ TimedOut)

(* "Read from the integrated sensors and report their values to the server" *)
(* (waterNode.c:271): a field of a message is of this measurement, or zero. *)
(* It is not: nobody looks at rc, and a reading that failed leaves the      *)
(* value of an earlier measurement in its static buffer.                    *)
ReportsItsReading == AtEnd => \A f \in Reported : msg[f] \in {0, now}

(* "did not get finished status in 1000 attempts" (tcs3472.c:151) and       *)
(* "timed out waiting for result" (si7210.c:322): the loops over the        *)
(* sensors' status ask no more often than their counter says.               *)
GivesUp == \A p \in Drivers : tried[p] <= Tries
=============================================================================
