------------------------------- MODULE Sensors -------------------------------
(***************************************************************************)
(* The sensor processes (ms5637.c, si7020.c, si7210.c, tcs3472.c and       *)
(* pic32drvr.c), which share the I2C bus under the semaphore mutexi2c.  A  *)
(* process runs from one wait to the next without being interrupted; most  *)
(* actions are one hold of the bus, SENSOR_AQ to SENSOR_REL, with what the *)
(* process does after it until the next hold or until it waits.            *)
(***************************************************************************)
EXTENDS Contiki, FiniteSets

CONSTANTS
  Client,      \* the process that starts the sensors
  Tries,       \* bound of the drivers' loops (5, 32, 100 and 256 in the code)
  Regs,        \* registers read in a row (6 of si7210, 4 of pic32)
  Wrap,        \* 2^16: the values of tcs3472's uint16_t count
  MaxFaults    \* bound: transfers that fail, answers that are not ready

Drivers == {"ms5637", "si7020", "si7210", "tcs3472", "pic32"}
ASSUME SensorsAssumption ==
  /\ Procs = Drivers \cup {Client} /\ Client \notin Drivers
  /\ {Tries, Wrap, MaxFaults} \subseteq Nat \ {0} /\ Wrap > Tries /\ Regs \in 1..4

VARIABLES
  cpu,         \* the calls under way, innermost first: of processes that run,
               \* and of those to be told that another one has ended
  at,          \* where each process goes on
  until,       \* what a process that waits waits for: its etimer, or any event
  sem,         \* mutexi2c
  count,       \* the counters of the drivers' loops
  tried,       \* history: how often these loops asked
  flag,        \* si7210: val has DSP_SIGM_DATA_FLAG set
  ok,          \* rc or status in the buffers the processes fill
  got,         \* fields of these buffers: the measurement they were read in
  faults
waitVars == <<cpu, at, until, kernelVars>>
loopVars == <<count, tried, flag>>
sensorVars == <<waitVars, loopVars, sem, ok, got, faults>>

(* val is not in a buffer: it is what si7210 read last.                     *)
Ranges == 1..Regs
RangeField == <<"range1", "range2", "range3", "range4">>
FieldsOf(p) == CASE p = "ms5637" -> {"pressure", "temppressure"}
                 [] p = "si7020" -> {"humidity", "temperature"}
                 [] p = "si7210" -> {"hall", "val"}
                 [] p = "tcs3472" -> {"color"}
                 [] p = "pic32" -> {RangeField[i] : i \in Ranges}
Fields == UNION {FieldsOf(p) : p \in Drivers}

Gone == <<"off", 0>>
Running(p) == at[p] # Gone

-----------------------------------------------------------------------------
(* Processes. *)

Runs(p) == cpu # <<>> /\ Head(cpu) = <<p, "runs">>
WakesUp(p) == Running(p) /\ (until[p] = "any" \/ Expired(p))
Called(p) == IF WakesUp(p) THEN << <<p, "runs">> >> ELSE <<>>
Resumed == UNCHANGED <<timers, at, until, loopVars, sem, ok, got, faults>>

(* The scheduler delivers an event to a process that waits, or the end of   *)
(* another process is told it.                                              *)
Resume(p) ==
  /\ cpu = <<>> /\ Receives(p, "TIMER")
  /\ events' = Tail(events) /\ cpu' = Called(p) /\ Resumed
Hears(p) ==
  /\ cpu # <<>> /\ Head(cpu) = <<p, "told">>
  /\ cpu' = Called(p) \o Tail(cpu) /\ UNCHANGED events /\ Resumed

(* The process goes on, waits for its etimer or for any event, or ends.     *)
Goes(p, place) == at' = [at EXCEPT ![p] = place] /\ UNCHANGED <<cpu, until, kernelVars>>
Yields(p, place, what, t) ==
  /\ at' = [at EXCEPT ![p] = place] /\ until' = [until EXCEPT ![p] = what]
  /\ timers' = Set(p, t) /\ cpu' = Tail(cpu) /\ UNCHANGED events
Waits(p, place) == Yields(p, place, "timer", 1)
YieldsOnly(p, place) == Yields(p, place, "any", timers[p])

(* exit_process tells every process that is not in the middle of a call,    *)
(* the one started last first; one that would not wake up stays as it is.   *)
Calling(p) == \E i \in 2..Len(cpu) : cpu[i] = <<p, "runs">>
Tells(p, q) ==
  IF q # p /\ WakesUp(q) /\ ~Calling(q) THEN << <<q, "told">> >> ELSE <<>>
Told(p) == Tells(p, "pic32") \o Tells(p, "tcs3472") \o Tells(p, "si7210")
           \o Tells(p, "si7020") \o Tells(p, "ms5637") \o Tells(p, Client)
Ends(p) ==
  /\ at' = [at EXCEPT ![p] = Gone] /\ timers' = Stop(p) /\ UNCHANGED events
  /\ until' = [until EXCEPT ![p] = "timer"]
  /\ cpu' = Told(p) \o Tail(cpu)

-----------------------------------------------------------------------------
(* The bus: how a hold of it turns out, and how often the semaphore is      *)
(* signalled after.  The bus can always be opened.                          *)
Holds(p, place, answer, signals) ==
  /\ Runs(p) /\ at[p] = place
  /\ sem > 0 /\ sem' = sem - 1 + signals
  /\ answer = "ok" \/ faults < MaxFaults
  /\ faults' = IF answer = "ok" THEN faults ELSE faults + 1
Bus(p, place, answer) == Holds(p, place, answer, 1)
Written == {"ok", "fail"}
Polled == {"ok", "busy", "fail"}

Reports(p, rc) == ok' = [ok EXCEPT ![p] = rc]
Fills(f, n) == got' = [got EXCEPT ![f] = n]
Counts(p, n) == count' = [count EXCEPT ![p] = n]
Asked(p) == tried' = [tried EXCEPT ![p] = @ + 1]

-----------------------------------------------------------------------------
(* ms5637_cvt_and_read and si7020_read_data, for one field and then for the *)
(* other, which is read whatever came of the first.                         *)
Halves(p) == IF p = "ms5637" THEN <<"pressure", "temppressure">> ELSE <<"humidity", "temperature">>
NextHalf(p, h) == IF h = 1 THEN Goes(p, <<"convert", 2>>) ELSE Ends(p)

Ms5637ConvertNoTimer ==               \* bug: waits for an etimer it has not set
  \E h \in 1..2, a \in Written :
    /\ Bus("ms5637", <<"convert", h>>, a)
    /\ Reports("ms5637", a = "ok")
    /\ IF a = "ok" THEN YieldsOnly("ms5637", <<"read", h>>) ELSE NextHalf("ms5637", h)
    /\ UNCHANGED <<loopVars, got>>
Ms5637Convert ==
  \E h \in 1..2, a \in Written :
    /\ Bus("ms5637", <<"convert", h>>, a)
    /\ Reports("ms5637", a = "ok")
    /\ IF a = "ok" THEN Waits("ms5637", <<"read", h>>) ELSE NextHalf("ms5637", h)
    /\ UNCHANGED <<loopVars, got>>

Ms5637Read(n) ==
  \E h \in 1..2, a \in Written :
    /\ Bus("ms5637", <<"read", h>>, a)
    /\ Reports("ms5637", a = "ok")
    /\ IF a = "ok" THEN Fills(Halves("ms5637")[h], n) ELSE UNCHANGED got
    /\ NextHalf("ms5637", h) /\ UNCHANGED loopVars

Si7020Convert ==                      \* whether it succeeds is not looked at
  \E h \in 1..2, a \in Written :
    /\ Bus("si7020", <<"convert", h>>, a)
    /\ Counts("si7020", Tries) /\ Waits("si7020", <<"read", h>>)
    /\ UNCHANGED <<tried, flag, ok, got>>

Si7020Read(n) ==
  \E h \in 1..2, a \in Written :
    /\ Bus("si7020", <<"read", h>>, a)
    /\ IF a = "ok"
       THEN /\ Fills(Halves("si7020")[h], n) /\ Reports("si7020", TRUE)
            /\ NextHalf("si7020", h) /\ UNCHANGED count
       ELSE /\ Counts("si7020", count["si7020"] - 1) /\ UNCHANGED got
            /\ IF count["si7020"] > 1 THEN Waits("si7020", <<"read", h>>) /\ UNCHANGED ok
               ELSE NextHalf("si7020", h) /\ Reports("si7020", FALSE)
    /\ UNCHANGED <<tried, flag>>

-----------------------------------------------------------------------------
(* si7210_init *)

Si7210Wake ==
  \E a \in Written :
    /\ Bus("si7210", <<"wake", 0>>, a)
    /\ Counts("si7210", Tries) /\ Goes("si7210", <<"check", 0>>)
    /\ UNCHANGED <<tried, flag, ok, got>>

Si7210Check ==
  \E a \in Written :
    /\ Bus("si7210", <<"check", 0>>, a) /\ Reports("si7210", a = "ok")
    /\ IF a = "ok" THEN Goes("si7210", <<"ctrl3", 0>>) ELSE Waits("si7210", <<"recheck", 0>>)
    /\ UNCHANGED <<loopVars, got>>

Si7210Recheck ==
  /\ Runs("si7210") /\ at["si7210"] = <<"recheck", 0>>
  /\ Counts("si7210", count["si7210"] - 1)
  /\ IF count["si7210"] > 1 THEN Goes("si7210", <<"check", 0>>) ELSE Ends("si7210")
  /\ UNCHANGED <<tried, flag, sem, ok, got, faults>>

Si7210Ctrl3 ==
  \E a \in Written :
    /\ Bus("si7210", <<"ctrl3", 0>>, a) /\ Reports("si7210", a = "ok")
    /\ IF a = "ok" THEN Goes("si7210", <<"otp", 1>>) ELSE Ends("si7210")
    /\ UNCHANGED <<loopVars, got>>

(* si7210_apply_compensation with si7210_read_otp_reg, register by register. *)
(* A register that could not be stored is forgotten, unless it is the last.  *)
Si7210Otp ==
  \E i \in Ranges, a \in Written :
    /\ Bus("si7210", <<"otp", i>>, a) /\ Reports("si7210", a = "ok")
    /\ Waits("si7210", <<"busy", i>>) /\ UNCHANGED <<loopVars, got>>

Si7210Busy ==
  \E i \in Ranges, a \in Polled :
    /\ Bus("si7210", <<"busy", i>>, a) /\ Reports("si7210", ok["si7210"] /\ a # "fail")
    /\ IF ok["si7210"] /\ a = "busy" THEN Waits("si7210", <<"busy", i>>)
       ELSE Goes("si7210", <<"fetch", i>>)
    /\ UNCHANGED <<loopVars, got>>

Si7210Fetch ==
  \E i \in Ranges, a \in Written :
    /\ Bus("si7210", <<"fetch", i>>, a) /\ Reports("si7210", ok["si7210"] /\ a = "ok")
    /\ IF ok["si7210"] /\ a = "ok" THEN Goes("si7210", <<"store", i>>) ELSE Ends("si7210")
    /\ UNCHANGED <<loopVars, got>>

Si7210Store ==
  \E i \in Ranges, a \in Written :
    /\ Bus("si7210", <<"store", i>>, a) /\ Reports("si7210", a = "ok")
    /\ IF i < Regs THEN Goes("si7210", <<"otp", i + 1>>)
       ELSE IF a = "ok" THEN Goes("si7210", <<"burst", 0>>) ELSE Ends("si7210")
    /\ UNCHANGED <<loopVars, got>>

-----------------------------------------------------------------------------
(* si7210_field_strength *)

Si7210Burst ==
  \E a \in Written :
    /\ Bus("si7210", <<"burst", 0>>, a) /\ Reports("si7210", a = "ok")
    /\ Counts("si7210", Tries)
    /\ IF a = "ok" THEN Goes("si7210", <<"dsp", 0>>) /\ UNCHANGED got
       ELSE Ends("si7210") /\ Fills("hall", 0)
    /\ UNCHANGED <<tried, flag>>

(* The end of the loop.  What leaves it for a time-out returns false, which *)
(* is PT_WAITING: the process is called again, for whatever event, where it *)
(* waited last.  A failed read leaves val as it was.                        *)
LoopEnds(c, flagged, here) ==
  /\ Counts("si7210", IF c < 0 THEN -1 ELSE c)
  /\ IF c > 0 /\ ~flagged THEN Goes("si7210", <<"dsp", 0>>)
     ELSE IF c = 0 \/ ~flagged THEN YieldsOnly("si7210", here)
     ELSE Goes("si7210", <<"low", 0>>)

Si7210Dsp(n) ==
  \E a \in Polled :
    /\ Bus("si7210", <<"dsp", 0>>, a) /\ Asked("si7210") /\ Reports("si7210", a # "fail")
    /\ IF a = "fail" THEN Waits("si7210", <<"again", 0>>) /\ UNCHANGED <<count, flag, got>>
       ELSE /\ flag' = (a = "ok") /\ Fills("val", n)
            /\ LoopEnds(count["si7210"] - 1, a = "ok", <<"dsp", 0>>)

Si7210Again ==
  /\ Runs("si7210") /\ at["si7210"] = <<"again", 0>>
  /\ LoopEnds(count["si7210"] - 1, flag, <<"again", 0>>)
  /\ UNCHANGED <<tried, flag, sem, ok, got, faults>>

(* The low byte takes the place of the high one in val.  That it could not  *)
(* be read goes unnoticed: a pointer is compared with false.                *)
Si7210Low(n) ==
  \E a \in Written, f \in BOOLEAN :
    /\ Bus("si7210", <<"low", 0>>, a) /\ Reports("si7210", TRUE)
    /\ got' = [got EXCEPT !["hall"] = got["val"], !["val"] = IF a = "ok" THEN n ELSE @]
    /\ flag' = IF a = "ok" THEN f ELSE flag
    /\ Ends("si7210") /\ UNCHANGED <<count, tried>>

-----------------------------------------------------------------------------
(* tcs3472_proc *)

Tcs3472On ==
  \E a \in Written :
    /\ Bus("tcs3472", <<"on", 0>>, a)
    /\ Waits("tcs3472", <<"set", 1>>) /\ UNCHANGED <<loopVars, ok, got>>

Tcs3472Set ==                         \* the gain, the accumulation time
  \E i \in 1..2, a \in Written :
    /\ Bus("tcs3472", <<"set", i>>, a)
    /\ IF a = "ok" THEN Goes("tcs3472", IF i = 1 THEN <<"set", 2>> ELSE <<"enable", 0>>) /\ UNCHANGED ok
       ELSE Ends("tcs3472") /\ Reports("tcs3472", FALSE)
    /\ UNCHANGED <<loopVars, got>>

Tcs3472EnableKeeps ==                 \* bug: a failure leaves before SENSOR_REL
  \E a \in Written :
    /\ Holds("tcs3472", <<"enable", 0>>, a, IF a = "ok" THEN 1 ELSE 0)
    /\ Counts("tcs3472", Tries)
    /\ IF a = "ok" THEN Yields("tcs3472", <<"poll", 0>>, "any", 1) /\ UNCHANGED ok
       ELSE Ends("tcs3472") /\ Reports("tcs3472", FALSE)
    /\ UNCHANGED <<tried, flag, got>>
Tcs3472Enable ==                      \* a failure releases the bus twice
  \E a \in Written :
    /\ Holds("tcs3472", <<"enable", 0>>, a, IF a = "ok" THEN 1 ELSE 2)
    /\ Counts("tcs3472", Tries)
    /\ IF a = "ok" THEN Yields("tcs3472", <<"poll", 0>>, "any", 1) /\ UNCHANGED ok
       ELSE Ends("tcs3472") /\ Reports("tcs3472", FALSE)
    /\ UNCHANGED <<tried, flag, got>>

(* etimer_expiration_time is true of every event.  A read that fails skips  *)
(* the test of the count, which then wraps.                                 *)
Tcs3472Poll ==
  \E a \in Polled :
    LET c == (count["tcs3472"] + Wrap - 1) % Wrap
    IN  /\ Bus("tcs3472", <<"poll", 0>>, a) /\ Counts("tcs3472", c) /\ Asked("tcs3472")
        /\ IF a # "fail" /\ c = 0 THEN Ends("tcs3472")
           ELSE IF a = "ok" THEN Goes("tcs3472", <<"values", 0>>)
           ELSE Yields("tcs3472", <<"poll", 0>>, "any", 1)
        /\ UNCHANGED <<flag, ok, got>>

Tcs3472Values(n) ==
  \E a \in Written :
    /\ Bus("tcs3472", <<"values", 0>>, a) /\ Reports("tcs3472", a = "ok")
    /\ IF a = "ok" THEN Fills("color", n) ELSE UNCHANGED got
    /\ Ends("tcs3472") /\ UNCHANGED loopVars

-----------------------------------------------------------------------------
(* pic32_proc *)

Pic32Ask ==
  \E a \in Polled :
    /\ Bus("pic32", <<"ask", 0>>, a) /\ Asked("pic32")
    /\ IF a = "ok" THEN Goes("pic32", <<"range", 1>>) /\ UNCHANGED <<count, ok>>
       ELSE /\ Counts("pic32", count["pic32"] - 1)
            /\ IF count["pic32"] > 1 THEN Waits("pic32", <<"ask", 0>>) /\ UNCHANGED ok
               ELSE Ends("pic32") /\ Reports("pic32", FALSE)
    /\ UNCHANGED <<flag, got>>

Pic32RangeAnyway(n) ==                \* bug: a range that could not be read is skipped
  \E i \in Ranges, a \in Written :
    /\ Bus("pic32", <<"range", i>>, a)
    /\ IF a = "ok" THEN Fills(RangeField[i], n) ELSE UNCHANGED got
    /\ IF i < Regs THEN Goes("pic32", <<"range", i + 1>>) /\ UNCHANGED ok
       ELSE Ends("pic32") /\ Reports("pic32", a = "ok")
    /\ UNCHANGED loopVars
Pic32Range(n) ==
  \E i \in Ranges, a \in Written :
    /\ Bus("pic32", <<"range", i>>, a)
    /\ IF a = "ok" THEN Fills(RangeField[i], n) ELSE UNCHANGED got
    /\ IF a = "ok" /\ i < Regs THEN Goes("pic32", <<"range", i + 1>>) /\ UNCHANGED ok
       ELSE Ends("pic32") /\ Reports("pic32", a = "ok")
    /\ UNCHANGED loopVars

-----------------------------------------------------------------------------
(* process_start: the process runs to its first wait before process_start   *)
(* returns; pic32 waits before it uses the bus.                             *)
First(p) == CASE p \in {"ms5637", "si7020"} -> <<"convert", 1>>
              [] p = "si7210" -> <<"wake", 0>>
              [] p = "tcs3472" -> <<"on", 0>>
              [] p = "pic32" -> <<"ask", 0>>
Start(p, then) ==
  /\ at' = [at EXCEPT ![p] = First(p), ![Client] = then]
  /\ count' = [count EXCEPT ![p] = Tries] /\ tried' = [tried EXCEPT ![p] = 0]
  /\ until' = [until EXCEPT ![p] = "timer"]
  /\ IF p = "pic32" THEN timers' = Set(p, 1) /\ UNCHANGED cpu ELSE cpu' = << <<p, "runs">> >> \o cpu /\ UNCHANGED timers
  /\ UNCHANGED <<events, flag, sem, faults>>

SensorStep(n) ==
  \/ Ms5637Convert \/ Ms5637Read(n) \/ Si7020Convert \/ Si7020Read(n)
  \/ Si7210Wake \/ Si7210Check \/ Si7210Recheck \/ Si7210Ctrl3
  \/ Si7210Otp \/ Si7210Busy \/ Si7210Fetch \/ Si7210Store
  \/ Si7210Burst \/ Si7210Dsp(n) \/ Si7210Again \/ Si7210Low(n)
  \/ Tcs3472On \/ Tcs3472Set \/ Tcs3472Enable \/ Tcs3472Poll \/ Tcs3472Values(n)
  \/ Pic32Ask \/ Pic32Range(n)

SensorsInit ==
  /\ ContikiInit
  /\ cpu = <<>> /\ at = [p \in Procs |-> Gone] /\ until = [p \in Procs |-> "timer"]
  /\ sem = 1 /\ count = [p \in Drivers |-> 0] /\ tried = [p \in Drivers |-> 0]
  /\ flag = FALSE /\ ok = [p \in Drivers |-> FALSE] /\ got = [f \in Fields |-> 0]
  /\ faults = 0
=============================================================================
