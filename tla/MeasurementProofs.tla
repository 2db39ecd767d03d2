-------------------------- MODULE MeasurementProofs --------------------------
(***************************************************************************)
(* Theorems about Measurement, for every number of registers, every bound  *)
(* of the drivers' loops, every number of faults and of measurements.      *)
(***************************************************************************)
EXTENDS Measurement, SequenceTheorems, TLAPS

USE DEF Off

Names == {"off", "convert", "read", "wake", "check", "recheck", "ctrl3", "otp",
          "busy", "fetch", "store", "burst", "dsp", "again", "low", "on", "set",
          "enable", "poll", "values", "ask", "range",
          "start", "watch", "look", "ambient", "color"}
Place == Names \X Nat
Frame == Procs \X {"runs", "told"}

(* The sensors this kind of node starts. *)
Mine == IF kind = "water" THEN {"ms5637", "si7210", "tcs3472", "pic32"}
                          ELSE {"ms5637", "si7020"}

CallsOK ==
  /\ ContikiTypeOK
  /\ cpu \in Seq(Frame)
  /\ at \in [Procs -> Place]
  /\ until \in [Procs -> {"timer", "any"}]

DataOK ==
  /\ sem \in Nat \ {0}
  /\ count \in [Drivers -> -1..(Wrap - 1)]
  /\ ok \in [Drivers -> BOOLEAN]
  /\ got \in [Fields -> 0..now]

ClientOK ==
  /\ kind \in {"water", "airborne"}
  /\ now \in Nat
  /\ completions \subseteq Mine
  /\ msg \in [Reported -> 0..now]

(* The counters of the loops that count before they look are not zero. *)
Counted ==
  /\ at["si7020"][1] = "read" => count["si7020"] \in 1..Tries
  /\ at["si7210"][1] \in {"check", "recheck"} => count["si7210"] \in 1..Tries
  /\ at["pic32"][1] = "ask" => count["pic32"] \in 1..Tries

Typed == CallsOK /\ DataOK /\ ClientOK /\ Counted

LEMMA Constants ==
  /\ Drivers \subseteq Procs /\ Client \in Procs /\ Client \notin Drivers
  /\ Procs = Drivers \cup {Client}
  /\ Tries \in Nat \ {0} /\ Wrap \in Nat \ {0} /\ Tries < Wrap
  /\ Regs \in 1..4
  /\ Watch \in Nat \ {0} /\ Pause \in Nat \ {0}
BY SensorsAssumption, MeasurementAssumption

LEMMA Places ==
  /\ \A s \in Names, n \in Nat : <<s, n>> \in Place
  /\ \A s, n : s # "off" => <<s, n>> # Gone
BY DEF Place, Gone

(* Every field is of one driver. *)
LEMMA OwnFields ==
  /\ \A p \in Drivers : FieldsOf(p) \subseteq Fields
  /\ \A p, q \in Drivers : \A f : f \in FieldsOf(p) /\ f \in FieldsOf(q) => p = q
<1>1. Ranges \subseteq 1..4
  BY Constants DEF Ranges
<1>2. \A f \in {RangeField[i] : i \in Ranges} :
        f \in {"range1", "range2", "range3", "range4"}
  BY <1>1 DEF RangeField
<1>3. \A p \in Drivers : FieldsOf(p) \subseteq Fields
  BY DEF Fields
<1>4. /\ FieldsOf("ms5637") = {"pressure", "temppressure"}
      /\ FieldsOf("si7020") = {"humidity", "temperature"}
      /\ FieldsOf("si7210") = {"hall", "val"}
      /\ FieldsOf("tcs3472") = {"color"}
      /\ FieldsOf("pic32") = {RangeField[i] : i \in Ranges}
  BY DEF FieldsOf
<1>5. ASSUME NEW p \in Drivers, NEW q \in Drivers, NEW f,
             f \in FieldsOf(p), f \in FieldsOf(q)
      PROVE  p = q
  BY <1>2, <1>4, <1>5 DEF Drivers
<1>. QED BY <1>3, <1>5

-----------------------------------------------------------------------------
(* A process that runs goes on, waits, or ends. *)
Moves(p) ==
  \/ \E place \in Place : place # Gone /\ Goes(p, place)
  \/ \E place \in Place, what \in {"timer", "any"}, t \in Nat \cup {Off} :
       place # Gone /\ Yields(p, place, what, t)
  \/ Ends(p)

LEMMA MovesOthers ==
  ASSUME CallsOK, NEW p \in Procs, Moves(p)
  PROVE  \A q \in Procs \ {p} : at'[q] = at[q]
BY DEF CallsOK, Moves, Goes, Yields, Ends

(* A driver goes to one of the places S, or ends. *)
Leads(p, S) ==
  \/ \E place \in S : \/ Goes(p, place) \/ Waits(p, place)
                      \/ YieldsOnly(p, place) \/ Yields(p, place, "any", 1)
  \/ Ends(p)

LEMMA LeadsTo ==
  ASSUME CallsOK, NEW p \in Procs, NEW S \in SUBSET (Place \ {Gone}),
         Leads(p, S)
  PROVE  Moves(p) /\ at'[p] \in S \cup {Gone}
<1>1. CASE Ends(p)
  BY <1>1 DEF Moves, Ends, CallsOK
<1>2. ASSUME NEW place \in S,
             \/ Goes(p, place) \/ Waits(p, place)
             \/ YieldsOnly(p, place) \/ Yields(p, place, "any", 1)
      PROVE  Moves(p) /\ at'[p] \in S \cup {Gone}
  <2>1. timers[p] \in Nat \cup {Off}
    BY DEF CallsOK, ContikiTypeOK
  <2>2. Moves(p)
    BY <1>2, <2>1 DEF Moves, Waits, YieldsOnly
  <2>3. at'[p] = place
    BY <1>2 DEF CallsOK, Goes, Waits, YieldsOnly, Yields
  <2>. QED BY <2>2, <2>3
<1>. QED BY <1>1, <1>2 DEF Leads

(* What a driver does to the data: its own, and within the types. *)
Local(p) ==
  /\ Runs(p) /\ Running(p) /\ Moves(p)
  /\ DataOK'
  /\ \A f \in Fields \ FieldsOf(p) : got'[f] = got[f]
  /\ \A q \in Drivers \ {p} : ok'[q] = ok[q] /\ count'[q] = count[q]

(* The counter of p if p counts before it looks. *)
CountedOf(p) ==
  /\ p = "si7020" /\ at[p][1] = "read" => count[p] \in 1..Tries
  /\ p = "si7210" /\ at[p][1] \in {"check", "recheck"} => count[p] \in 1..Tries
  /\ p = "pic32" /\ at[p][1] = "ask" => count[p] \in 1..Tries

LEMMA CountedKept ==
  ASSUME Typed, NEW p \in Drivers, Local(p), CountedOf(p)'
  PROVE  Counted'
<1>1. \A q \in Drivers \ {p} : at'[q] = at[q] /\ count'[q] = count[q]
  BY MovesOthers, Constants DEF Typed, Local
<1>. QED BY <1>1 DEF Counted, CountedOf, Typed, Drivers

(* The steps of the drivers are made of these. *)
LEMMA BusHeld ==
  ASSUME Typed, NEW p \in Drivers, NEW place, place # Gone, NEW a,
         NEW n \in Nat \ {0}, Holds(p, place, a, n)
  PROVE  Runs(p) /\ Running(p) /\ at[p] = place /\ sem' \in Nat \ {0}
BY DEF Holds, Running, Typed, DataOK

LEMMA LocalIs ==
  ASSUME Typed, UNCHANGED measureVars, NEW p \in Drivers,
         Runs(p), Running(p), sem' \in Nat \ {0},
         NEW S \in SUBSET (Place \ {Gone}), Leads(p, S),
         ok' = ok \/ \E rc \in BOOLEAN : Reports(p, rc),
         \/ got' = got
         \/ \E f \in FieldsOf(p), n \in 0..now : Fills(f, n)
         \/ \E f, g \in FieldsOf(p), m, n \in 0..now :
              got' = [got EXCEPT ![f] = m, ![g] = n],
         count' = count \/ \E n \in -1..(Wrap - 1) : Counts(p, n)
  PROVE  Local(p) /\ at'[p] \in S \cup {Gone}
<1>1. Moves(p) /\ at'[p] \in S \cup {Gone}
  BY LeadsTo, Constants DEF Typed
<1>2. /\ ok' \in [Drivers -> BOOLEAN]
      /\ \A q \in Drivers \ {p} : ok'[q] = ok[q]
  BY DEF Reports, Typed, DataOK
<1>3. /\ count' \in [Drivers -> -1..(Wrap - 1)]
      /\ \A q \in Drivers \ {p} : count'[q] = count[q]
  BY DEF Counts, Typed, DataOK
<1>4. /\ got' \in [Fields -> 0..now]
      /\ \A f \in Fields \ FieldsOf(p) : got'[f] = got[f]
  BY OwnFields DEF Fills, Typed, DataOK
<1>5. now' = now
  BY DEF measureVars
<1>. QED BY <1>1, <1>2, <1>3, <1>4, <1>5 DEF Local, DataOK

LEMMA NowType == Typed => now \in 0..now /\ 0 \in 0..now
BY DEF Typed, ClientOK

-----------------------------------------------------------------------------
(* Every driver. *)
LEMMA Ms5637Local ==
  ASSUME Typed, UNCHANGED measureVars, Ms5637Convert \/ Ms5637Read(now)
  PROVE  Local("ms5637") /\ Counted'
<1>. DEFINE p == "ms5637"
<1>. USE Places DEF Names
<1>0. p \in Drivers /\ 1 \in Nat \ {0}
  BY DEF Drivers
<1>1. PICK h \in 1..2, a \in Written :
        /\ Bus(p, <<"convert", h>>, a) \/ Bus(p, <<"read", h>>, a)
        /\ Reports(p, a = "ok")
        /\ Waits(p, <<"read", h>>) \/ NextHalf(p, h)
        /\ got' = got \/ Fills(Halves(p)[h], now)
        /\ UNCHANGED loopVars
  BY DEF Ms5637Convert, Ms5637Read
<1>. DEFINE S == {<<"read", h>>, <<"convert", 2>>}
<1>2. S \in SUBSET (Place \ {Gone}) /\ <<"convert", h>> # Gone
  OBVIOUS
<1>3. Leads(p, S)
  BY <1>1 DEF NextHalf, Leads
<1>4. Runs(p) /\ Running(p) /\ sem' \in Nat \ {0}
  BY <1>0, <1>1, <1>2, BusHeld DEF Bus
<1>5. Halves(p)[h] \in FieldsOf(p)
  BY DEF Halves, FieldsOf
<1>. HIDE DEF S
<1>6. Local(p)
  BY <1>0, <1>1, <1>2, <1>3, <1>4, <1>5, LocalIs, NowType DEF loopVars
<1>. QED BY <1>0, <1>6, CountedKept DEF CountedOf

LEMMA Si7020Local ==
  ASSUME Typed, UNCHANGED measureVars, Si7020Convert \/ Si7020Read(now)
  PROVE  Local("si7020") /\ Counted'
<1>. DEFINE p == "si7020"
<1>. USE Places DEF Names
<1>0. p \in Drivers /\ 1 \in Nat \ {0}
  BY DEF Drivers
<1>1. CASE Si7020Convert
  <2>1. PICK h \in 1..2, a \in Written :
          /\ Bus(p, <<"convert", h>>, a)
          /\ Counts(p, Tries) /\ Waits(p, <<"read", h>>)
          /\ UNCHANGED <<tried, flag, ok, got>>
    BY <1>1 DEF Si7020Convert
  <2>. DEFINE S == {<<"read", h>>}
  <2>2. S \in SUBSET (Place \ {Gone}) /\ <<"convert", h>> # Gone
    OBVIOUS
  <2>3. Leads(p, S)
    BY <2>1 DEF Leads
  <2>4. Runs(p) /\ Running(p) /\ sem' \in Nat \ {0}
    BY <1>0, <2>1, <2>2, BusHeld DEF Bus
  <2>5. Tries \in -1..(Wrap - 1) /\ Tries \in 1..Tries
    BY Constants
  <2>. HIDE DEF S
  <2>6. Local(p)
    BY <1>0, <2>1, <2>2, <2>3, <2>4, <2>5, LocalIs
  <2>7. count'[p] = Tries
    BY <1>0, <2>1 DEF Counts, Typed, DataOK
  <2>. QED BY <1>0, <2>5, <2>6, <2>7, CountedKept DEF CountedOf
<1>2. CASE Si7020Read(now)
  <2>1. PICK h \in 1..2, a \in Written :
          /\ Bus(p, <<"read", h>>, a)
          /\ \/ /\ Fills(Halves(p)[h], now) /\ Reports(p, TRUE)
                /\ NextHalf(p, h) /\ UNCHANGED count
             \/ /\ Counts(p, count[p] - 1) /\ UNCHANGED got
                /\ \/ count[p] > 1 /\ Waits(p, <<"read", h>>) /\ UNCHANGED ok
                   \/ NextHalf(p, h) /\ Reports(p, FALSE)
    BY <1>2 DEF Si7020Read
  <2>2. <<"read", h>> # Gone /\ <<"read", h>> \in Place
        /\ <<"convert", 2>> # Gone /\ <<"convert", 2>> \in Place
    OBVIOUS
  <2>3. Runs(p) /\ Running(p) /\ sem' \in Nat \ {0} /\ at[p] = <<"read", h>>
    BY <1>0, <2>1, <2>2, BusHeld DEF Bus
  <2>4. Halves(p)[h] \in FieldsOf(p)
    BY DEF Halves, FieldsOf
  <2>5. count[p] \in 1..Tries
    BY <2>3 DEF Typed, Counted
  <2>6. count[p] - 1 \in -1..(Wrap - 1)
    BY <2>5, Constants
  <2>7. CASE NextHalf(p, h)
    <3>. DEFINE S == {<<"convert", 2>>}
    <3>1. Leads(p, S) /\ S \in SUBSET (Place \ {Gone})
      BY <2>2, <2>7 DEF NextHalf, Leads
    <3>2. at'[p] \in S \cup {Gone} => at'[p][1] # "read"
      BY DEF Gone
    <3>. HIDE DEF S
    <3>3. Local(p) /\ at'[p] \in S \cup {Gone}
      BY <1>0, <2>1, <2>3, <2>4, <2>6, <3>1, LocalIs, NowType
    <3>. QED BY <1>0, <3>2, <3>3, CountedKept DEF CountedOf
  <2>8. CASE Waits(p, <<"read", h>>) /\ ok' = ok /\ got' = got /\ count[p] > 1
             /\ Counts(p, count[p] - 1)
    <3>. DEFINE S == {<<"read", h>>}
    <3>1. Leads(p, S) /\ S \in SUBSET (Place \ {Gone})
      BY <2>2, <2>8 DEF Leads
    <3>. HIDE DEF S
    <3>2. Local(p)
      BY <1>0, <2>3, <2>6, <2>8, <3>1, LocalIs
    <3>3. PICK c \in 1..Tries : c = count[p]
      BY <2>5
    <3>4. count'[p] = c - 1
      BY <1>0, <2>8, <3>3 DEF Counts, Typed, DataOK
    <3>5. count'[p] \in 1..Tries
      BY <2>8, <3>3, <3>4, Constants
    <3>. QED BY <1>0, <3>2, <3>5, CountedKept DEF CountedOf
  <2>. QED BY <2>1, <2>7, <2>8
<1>. QED BY <1>1, <1>2

LEMMA Si7210InitLocal ==
  ASSUME Typed, UNCHANGED measureVars,
         Si7210Wake \/ Si7210Check \/ Si7210Recheck
  PROVE  Local("si7210") /\ Counted'
<1>. DEFINE p == "si7210"
            S == {<<"check", 0>>, <<"recheck", 0>>, <<"ctrl3", 0>>}
<1>. USE Places DEF Names
<1>0. p \in Drivers /\ 1 \in Nat \ {0}
  BY DEF Drivers
<1>1. S \in SUBSET (Place \ {Gone}) /\ <<"wake", 0>> # Gone
      /\ <<"check", 0>> # Gone /\ <<"recheck", 0>> # Gone
  OBVIOUS
<1>2. Tries \in -1..(Wrap - 1) /\ Tries \in 1..Tries
  BY Constants
<1>3. CASE Si7210Wake
  <2>1. PICK a \in Written :
          /\ Bus(p, <<"wake", 0>>, a)
          /\ Counts(p, Tries) /\ Goes(p, <<"check", 0>>)
          /\ UNCHANGED <<tried, flag, ok, got>>
    BY <1>3 DEF Si7210Wake
  <2>2. Leads(p, S)
    BY <2>1 DEF Leads
  <2>3. Runs(p) /\ Running(p) /\ sem' \in Nat \ {0}
    BY <1>0, <1>1, <2>1, BusHeld DEF Bus
  <2>. HIDE DEF S
  <2>4. Local(p)
    BY <1>0, <1>1, <1>2, <2>1, <2>2, <2>3, LocalIs
  <2>5. count'[p] = Tries
    BY <1>0, <2>1 DEF Counts, Typed, DataOK
  <2>. QED BY <1>0, <1>2, <2>4, <2>5, CountedKept DEF CountedOf
<1>4. CASE Si7210Check
  <2>1. PICK a \in Written :
          /\ Bus(p, <<"check", 0>>, a) /\ Reports(p, a = "ok")
          /\ Goes(p, <<"ctrl3", 0>>) \/ Waits(p, <<"recheck", 0>>)
          /\ UNCHANGED <<loopVars, got>>
    BY <1>4 DEF Si7210Check
  <2>2. Leads(p, S)
    BY <2>1 DEF Leads
  <2>3. Runs(p) /\ Running(p) /\ sem' \in Nat \ {0} /\ at[p] = <<"check", 0>>
    BY <1>0, <1>1, <2>1, BusHeld DEF Bus
  <2>. HIDE DEF S
  <2>4. Local(p)
    BY <1>0, <1>1, <2>1, <2>2, <2>3, LocalIs DEF loopVars
  <2>5. count' = count /\ count[p] \in 1..Tries
    BY <2>1, <2>3 DEF loopVars, Typed, Counted
  <2>. QED BY <1>0, <2>4, <2>5, CountedKept DEF CountedOf
<1>5. CASE Si7210Recheck
  <2>1. /\ Runs(p) /\ at[p] = <<"recheck", 0>>
        /\ Counts(p, count[p] - 1)
        /\ \/ count[p] > 1 /\ Goes(p, <<"check", 0>>)
           \/ Ends(p)
        /\ UNCHANGED <<tried, flag, sem, ok, got, faults>>
    BY <1>5 DEF Si7210Recheck
  <2>2. Running(p) /\ sem' \in Nat \ {0} /\ Leads(p, S)
    BY <1>1, <2>1 DEF Running, Typed, DataOK, Leads
  <2>3. PICK c \in 1..Tries : c = count[p]
    BY <2>1 DEF Typed, Counted
  <2>4. count[p] - 1 \in -1..(Wrap - 1)
    BY <2>3, Constants
  <2>5. count'[p] = c - 1
    BY <1>0, <2>1, <2>3 DEF Counts, Typed, DataOK
  <2>. HIDE DEF S
  <2>6. Local(p)
    BY <1>0, <1>1, <2>1, <2>2, <2>4, LocalIs
  <2>7. at'[p] = Gone \/ count'[p] \in 1..Tries
    <3>1. CASE Ends(p)
      BY <1>0, <3>1, Constants DEF Ends, Typed, CallsOK
    <3>2. CASE count[p] > 1
      BY <2>3, <2>5, <3>2, Constants
    <3>. QED BY <2>1, <3>1, <3>2
  <2>. QED BY <1>0, <2>6, <2>7, CountedKept DEF CountedOf, Gone
<1>. QED BY <1>3, <1>4, <1>5

(* The places of si7210_proc after si7210_init has found the chip. *)
After7210 ==
  {<<"burst", 0>>, <<"dsp", 0>>, <<"again", 0>>, <<"low", 0>>, <<"ctrl3", 0>>}
  \cup ({"otp", "busy", "fetch", "store"} \X Ranges)

LEMMA After7210Places ==
  /\ After7210 \in SUBSET (Place \ {Gone})
  /\ \A x \in After7210 \cup {Gone} : x[1] \notin {"check", "recheck"}
BY Places DEF After7210, Names, Gone, Ranges

LEMMA Si7210LocalIs ==
  ASSUME Typed, UNCHANGED measureVars, Runs("si7210"), Running("si7210"),
         sem' \in Nat \ {0}, Leads("si7210", After7210),
         ok' = ok \/ \E rc \in BOOLEAN : Reports("si7210", rc),
         \/ got' = got
         \/ \E f \in FieldsOf("si7210"), n \in 0..now : Fills(f, n)
         \/ \E f, g \in FieldsOf("si7210"), m, n \in 0..now :
              got' = [got EXCEPT ![f] = m, ![g] = n],
         count' = count \/ \E n \in -1..(Wrap - 1) : Counts("si7210", n)
  PROVE  Local("si7210") /\ Counted'
<1>0. "si7210" \in Drivers
  BY DEF Drivers
<1>1. Local("si7210") /\ at'["si7210"] \in After7210 \cup {Gone}
  BY <1>0, LocalIs, After7210Places
<1>2. at'["si7210"][1] \notin {"check", "recheck"}
  BY <1>1, After7210Places
<1>. QED BY <1>0, <1>1, <1>2, CountedKept DEF CountedOf

LEMMA Si7210OtpLocal ==
  ASSUME Typed, UNCHANGED measureVars,
         Si7210Ctrl3 \/ Si7210Otp \/ Si7210Busy \/ Si7210Fetch \/ Si7210Store
  PROVE  Local("si7210") /\ Counted'
<1>. DEFINE p == "si7210"
<1>0. p \in Drivers /\ 1 \in Nat \ {0}
  BY DEF Drivers
<1>1. PICK place \in After7210, a \in Polled, rc \in BOOLEAN :
        /\ Bus(p, place, a) /\ Reports(p, rc)
        /\ Leads(p, After7210)
        /\ UNCHANGED <<loopVars, got>>
  <2>. USE DEF After7210, Leads, Written, Polled
  <2>r. 1 \in Ranges /\ ok[p] \in BOOLEAN
        /\ \A i \in Ranges : i < Regs => i + 1 \in Ranges
    BY <1>0, Constants DEF Ranges, Typed, DataOK
  <2>1. CASE Si7210Ctrl3
    BY <2>1, <2>r DEF Si7210Ctrl3
  <2>2. CASE Si7210Otp
    BY <2>2, <2>r DEF Si7210Otp
  <2>3. CASE Si7210Busy
    BY <2>3, <2>r DEF Si7210Busy
  <2>4. CASE Si7210Fetch
    BY <2>4, <2>r DEF Si7210Fetch
  <2>5. CASE Si7210Store
    BY <2>5, <2>r DEF Si7210Store
  <2>. QED BY <2>1, <2>2, <2>3, <2>4, <2>5
<1>2. place # Gone
  BY After7210Places
<1>3. Runs(p) /\ Running(p) /\ sem' \in Nat \ {0}
  BY <1>0, <1>1, <1>2, BusHeld DEF Bus
<1>. QED BY <1>1, <1>3, Si7210LocalIs DEF loopVars

LEMMA Si7210FieldLocal ==
  ASSUME Typed, UNCHANGED measureVars,
         Si7210Burst \/ Si7210Dsp(now) \/ Si7210Again \/ Si7210Low(now)
  PROVE  Local("si7210") /\ Counted'
<1>. DEFINE p == "si7210"
<1>0. /\ p \in Drivers /\ 1 \in Nat \ {0}
      /\ "hall" \in FieldsOf(p) /\ "val" \in FieldsOf(p)
  BY DEF Drivers, FieldsOf
<1>1. {<<"burst", 0>>, <<"dsp", 0>>, <<"again", 0>>, <<"low", 0>>}
        \subseteq After7210
  BY DEF After7210
<1>. DEFINE Run == Runs(p) /\ Running(p) /\ sem' \in Nat \ {0}
<1>2. ASSUME NEW place \in After7210, NEW a, Bus(p, place, a)
      PROVE  Run
  <2>1. place # Gone
    BY After7210Places
  <2>. QED BY <1>0, <1>2, <2>1, BusHeld DEF Bus
<1>3. ASSUME NEW f, NEW here \in After7210, LoopEnds(count[p] - 1, f, here)
      PROVE  /\ Leads(p, After7210)
             /\ \E n \in -1..(Wrap - 1) : Counts(p, n)
  <2>1. PICK c \in -1..(Wrap - 1) : c = count[p]
    BY <1>0 DEF Typed, DataOK
  <2>2. PICK n : n = IF c - 1 < 0 THEN -1 ELSE c - 1
    OBVIOUS
  <2>3. Counts(p, n)
    BY <1>3, <2>1, <2>2 DEF LoopEnds
  <2>4. n \in -1..(Wrap - 1)
    BY <2>2, Constants
  <2>5. Leads(p, After7210)
    BY <1>1, <1>3 DEF LoopEnds, Leads
  <2>. QED BY <2>3, <2>4, <2>5
<1>4. CASE Si7210Burst
  <2>1. PICK a \in Written :
          /\ Bus(p, <<"burst", 0>>, a) /\ Reports(p, a = "ok")
          /\ Counts(p, Tries)
          /\ \/ Goes(p, <<"dsp", 0>>) /\ UNCHANGED got
             \/ Ends(p) /\ Fills("hall", 0)
    BY <1>4 DEF Si7210Burst
  <2>2. Leads(p, After7210)
    BY <1>1, <2>1 DEF Leads
  <2>3. Tries \in -1..(Wrap - 1)
    BY Constants
  <2>4. Run
    BY <1>1, <1>2, <2>1
  <2>. QED BY <1>0, <2>1, <2>2, <2>3, <2>4, Si7210LocalIs, NowType
<1>5. CASE Si7210Dsp(now)
  <2>1. PICK a \in Polled :
          /\ Bus(p, <<"dsp", 0>>, a) /\ Reports(p, a # "fail")
          /\ \/ Waits(p, <<"again", 0>>) /\ UNCHANGED <<count, flag, got>>
             \/ /\ Fills("val", now)
                /\ LoopEnds(count[p] - 1, a = "ok", <<"dsp", 0>>)
    BY <1>5 DEF Si7210Dsp
  <2>2. Run
    BY <1>1, <1>2, <2>1
  <2>3. CASE Waits(p, <<"again", 0>>) /\ UNCHANGED <<count, flag, got>>
    <3>1. Leads(p, After7210)
      BY <1>1, <2>3 DEF Leads
    <3>. QED BY <2>1, <2>2, <2>3, <3>1, Si7210LocalIs
  <2>4. CASE Fills("val", now) /\ LoopEnds(count[p] - 1, a = "ok", <<"dsp", 0>>)
    <3>1. /\ Leads(p, After7210)
          /\ \E n \in -1..(Wrap - 1) : Counts(p, n)
      BY <1>1, <1>3, <2>4
    <3>. QED BY <1>0, <2>1, <2>2, <2>4, <3>1, Si7210LocalIs, NowType
  <2>. QED BY <2>1, <2>3, <2>4
<1>6. CASE Si7210Again
  <2>1. /\ Runs(p) /\ at[p] = <<"again", 0>>
        /\ LoopEnds(count[p] - 1, flag, <<"again", 0>>)
        /\ UNCHANGED <<sem, ok, got>>
    BY <1>6 DEF Si7210Again
  <2>2. Run
    BY <2>1 DEF Running, Gone, Typed, DataOK
  <2>3. /\ Leads(p, After7210)
        /\ \E n \in -1..(Wrap - 1) : Counts(p, n)
    BY <1>1, <1>3, <2>1
  <2>. QED BY <2>1, <2>2, <2>3, Si7210LocalIs
<1>7. CASE Si7210Low(now)
  <2>1. PICK a \in Written :
          /\ Bus(p, <<"low", 0>>, a) /\ Reports(p, TRUE)
          /\ got' = [got EXCEPT !["hall"] = got["val"],
                                !["val"] = IF a = "ok" THEN now ELSE @]
          /\ Ends(p) /\ UNCHANGED <<count, tried>>
    BY <1>7 DEF Si7210Low
  <2>2. Run /\ Leads(p, After7210)
    BY <1>1, <1>2, <2>1 DEF Leads
  <2>3. got["val"] \in 0..now
    BY <1>0, OwnFields DEF Typed, DataOK
  <2>4. \E m, n \in 0..now :
          got' = [got EXCEPT !["hall"] = m, !["val"] = n]
    BY <2>1, <2>3, NowType
  <2>. QED BY <1>0, <2>1, <2>2, <2>4, Si7210LocalIs
<1>. QED BY <1>4, <1>5, <1>6, <1>7

LEMMA Tcs3472Local ==
  ASSUME Typed, UNCHANGED measureVars,
         \/ Tcs3472On \/ Tcs3472Set \/ Tcs3472Enable \/ Tcs3472Poll
         \/ Tcs3472Values(now)
  PROVE  Local("tcs3472") /\ Counted'
<1>. DEFINE p == "tcs3472"
            S == {<<"set", 1>>, <<"set", 2>>, <<"enable", 0>>, <<"poll", 0>>,
                  <<"values", 0>>}
<1>0. p \in Drivers /\ 1 \in Nat \ {0} /\ 2 \in Nat \ {0}
      /\ "color" \in FieldsOf(p)
  BY DEF Drivers, FieldsOf
<1>1. /\ S \in SUBSET (Place \ {Gone})
      /\ \A place \in S \cup {<<"on", 0>>} : place # Gone
  BY Places DEF Names
<1>2. ASSUME NEW place \in S \cup {<<"on", 0>>}, NEW a, NEW n \in {1, 2},
             Holds(p, place, a, n), Leads(p, S),
             ok' = ok \/ \E rc \in BOOLEAN : Reports(p, rc),
             got' = got \/ Fills("color", now),
             count' = count \/ \E c \in -1..(Wrap - 1) : Counts(p, c)
      PROVE  Local(p)
  <2>1. Runs(p) /\ Running(p) /\ sem' \in Nat \ {0}
    BY <1>0, <1>1, <1>2, BusHeld
  <2>. HIDE DEF S
  <2>. QED BY <1>0, <1>1, <1>2, <2>1, LocalIs, NowType
<1>3. CASE Tcs3472On
  <2>1. PICK a \in Written :
          /\ Holds(p, <<"on", 0>>, a, 1) /\ Waits(p, <<"set", 1>>)
          /\ count' = count /\ ok' = ok /\ got' = got
    BY <1>3 DEF Tcs3472On, Bus, loopVars
  <2>2. Leads(p, S)
    BY <2>1 DEF Leads
  <2>. QED BY <1>2, <2>1, <2>2, <1>0, CountedKept DEF CountedOf
<1>4. CASE Tcs3472Set
  <2>1. PICK i \in 1..2, a \in Written :
          /\ Holds(p, <<"set", i>>, a, 1)
          /\ \/ /\ Goes(p, IF i = 1 THEN <<"set", 2>> ELSE <<"enable", 0>>)
                /\ ok' = ok
             \/ Ends(p) /\ Reports(p, FALSE)
          /\ count' = count /\ got' = got
    BY <1>4 DEF Tcs3472Set, Bus, loopVars
  <2>2. Leads(p, S)
    BY <2>1 DEF Leads
  <2>3. <<"set", i>> \in S
    OBVIOUS
  <2>. QED BY <1>2, <2>1, <2>2, <2>3, <1>0, CountedKept DEF CountedOf
<1>5. CASE Tcs3472Enable
  <2>1. PICK a \in Written :
          /\ Holds(p, <<"enable", 0>>, a, IF a = "ok" THEN 1 ELSE 2)
          /\ Counts(p, Tries)
          /\ \/ Yields(p, <<"poll", 0>>, "any", 1) /\ ok' = ok
             \/ Ends(p) /\ Reports(p, FALSE)
          /\ got' = got
    BY <1>5 DEF Tcs3472Enable
  <2>2. Leads(p, S)
    BY <2>1 DEF Leads
  <2>3. PICK n \in {1, 2} : n = IF a = "ok" THEN 1 ELSE 2
    OBVIOUS
  <2>4. Tries \in -1..(Wrap - 1)
    BY Constants
  <2>. QED BY <1>2, <2>1, <2>2, <2>3, <2>4, <1>0, CountedKept DEF CountedOf
<1>6. CASE Tcs3472Poll
  <2>1. PICK c : c = (count[p] + Wrap - 1) % Wrap
    OBVIOUS
  <2>2. PICK a \in Polled :
          /\ Holds(p, <<"poll", 0>>, a, 1) /\ Counts(p, c)
          /\ Ends(p) \/ Goes(p, <<"values", 0>>)
             \/ Yields(p, <<"poll", 0>>, "any", 1)
          /\ ok' = ok /\ got' = got
    BY <1>6, <2>1 DEF Tcs3472Poll, Bus
  <2>3. Leads(p, S)
    BY <2>2 DEF Leads
  <2>4. PICK k \in Int : k = count[p]
    BY <1>0, Constants DEF Typed, DataOK
  <2>5. c = (k + Wrap - 1) % Wrap /\ Wrap \in Nat \ {0}
    BY <2>1, <2>4, Constants
  <2>6. c \in -1..(Wrap - 1)
    BY <2>5
  <2>. QED BY <1>2, <2>2, <2>3, <2>6, <1>0, CountedKept DEF CountedOf
<1>7. CASE Tcs3472Values(now)
  <2>1. PICK a \in Written :
          /\ Holds(p, <<"values", 0>>, a, 1) /\ Reports(p, a = "ok")
          /\ got' = got \/ Fills("color", now)
          /\ Ends(p) /\ count' = count
    BY <1>7 DEF Tcs3472Values, Bus, loopVars
  <2>2. Leads(p, S)
    BY <2>1 DEF Leads
  <2>. QED BY <1>2, <2>1, <2>2, <1>0, CountedKept DEF CountedOf
<1>. QED BY <1>3, <1>4, <1>5, <1>6, <1>7

LEMMA Pic32Local ==
  ASSUME Typed, UNCHANGED measureVars, Pic32Ask \/ Pic32Range(now)
  PROVE  Local("pic32") /\ Counted'
<1>. DEFINE p == "pic32"
<1>. USE Places DEF Names
<1>0. p \in Drivers /\ 1 \in Nat \ {0} /\ <<"ask", 0>> # Gone
      /\ <<"ask", 0>> \in Place
  BY DEF Drivers
<1>1. CASE Pic32Ask
  <2>1. PICK a \in Polled :
          /\ Bus(p, <<"ask", 0>>, a)
          /\ \/ Goes(p, <<"range", 1>>) /\ UNCHANGED <<count, ok>>
             \/ /\ Counts(p, count[p] - 1)
                /\ \/ count[p] > 1 /\ Waits(p, <<"ask", 0>>) /\ UNCHANGED ok
                   \/ Ends(p) /\ Reports(p, FALSE)
          /\ UNCHANGED got
    BY <1>1 DEF Pic32Ask
  <2>. DEFINE S == {<<"range", 1>>, <<"ask", 0>>}
  <2>2. S \in SUBSET (Place \ {Gone}) /\ Leads(p, S)
    BY <2>1 DEF Leads
  <2>3. Runs(p) /\ Running(p) /\ sem' \in Nat \ {0} /\ at[p] = <<"ask", 0>>
    BY <1>0, <2>1, BusHeld DEF Bus
  <2>4. PICK c \in 1..Tries : c = count[p]
    BY <2>3 DEF Typed, Counted
  <2>5. count[p] - 1 \in -1..(Wrap - 1)
    BY <2>4, Constants
  <2>. HIDE DEF S
  <2>6. Local(p)
    BY <1>0, <2>1, <2>2, <2>3, <2>5, LocalIs
  <2>7. at'[p][1] # "ask" \/ count'[p] \in 1..Tries
    <3>1. CASE Goes(p, <<"range", 1>>)
      BY <1>0, <3>1, Constants DEF Goes, Typed, CallsOK
    <3>2. CASE Ends(p)
      BY <1>0, <3>2, Constants DEF Ends, Typed, CallsOK, Gone
    <3>3. CASE count[p] > 1 /\ Counts(p, count[p] - 1)
      <4>1. count'[p] = c - 1
        BY <1>0, <2>4, <3>3 DEF Counts, Typed, DataOK
      <4>. QED BY <2>4, <3>3, <4>1, Constants
    <3>. QED BY <2>1, <3>1, <3>2, <3>3
  <2>. QED BY <1>0, <2>6, <2>7, CountedKept DEF CountedOf
<1>2. CASE Pic32Range(now)
  <2>. DEFINE S == {<<"range", i>> : i \in Ranges}
  <2>1. PICK i \in Ranges, a \in Written :
          /\ Bus(p, <<"range", i>>, a)
          /\ got' = got \/ Fills(RangeField[i], now)
          /\ \/ i < Regs /\ Goes(p, <<"range", i + 1>>) /\ UNCHANGED ok
             \/ Ends(p) /\ Reports(p, a = "ok")
          /\ UNCHANGED loopVars
    BY <1>2 DEF Pic32Range
  <2>2. Ranges \subseteq Nat /\ (i < Regs => i + 1 \in Ranges)
    BY Constants DEF Ranges
  <2>3. \A x \in S : x \in Place /\ x # Gone /\ x[1] = "range"
    BY <2>2
  <2>4. Leads(p, S)
    BY <2>1, <2>2 DEF Leads
  <2>5. Runs(p) /\ Running(p) /\ sem' \in Nat \ {0}
    BY <1>0, <2>1, <2>3, BusHeld DEF Bus
  <2>6. RangeField[i] \in FieldsOf(p)
    BY DEF FieldsOf
  <2>. HIDE DEF S
  <2>7. Local(p) /\ at'[p] \in S \cup {Gone}
    BY <1>0, <2>1, <2>3, <2>4, <2>5, <2>6, LocalIs, NowType DEF loopVars
  <2>8. at'[p][1] # "ask"
    BY <2>3, <2>7 DEF Gone
  <2>. QED BY <1>0, <2>7, <2>8, CountedKept DEF CountedOf
<1>. QED BY <1>1, <1>2

(* So every step of a driver is one of its own and keeps to its own. *)
LEMMA DriverStep ==
  ASSUME Typed, SensorStep(now), UNCHANGED measureVars
  PROVE  /\ Counted'
         /\ \/ \E p \in Drivers \ {"pic32"} : Local(p)
            \/ Local("pic32") /\ (Pic32Ask \/ Pic32Range(now))
BY Ms5637Local, Si7020Local, Si7210InitLocal, Si7210OtpLocal, Si7210FieldLocal,
   Tcs3472Local, Pic32Local DEF SensorStep, Drivers

-----------------------------------------------------------------------------
(* The calls under way: no process is called while it is being called, and  *)
(* one that runs is not gone.                                               *)
RunsOn(s, q) == \E i \in 1..Len(s) : s[i] = <<q, "runs">>
StackOf(s) == \A i, j \in 1..Len(s) : i < j => s[j] # <<s[i][1], "runs">>
Stack == StackOf(cpu) /\ \A p \in Procs : RunsOn(cpu, p) => Running(p)

(* What has ended has stopped its etimer. *)
Stopped == \A p \in Procs : ~Running(p) => timers[p] = Off

LEMMA Popped ==
  ASSUME NEW s \in Seq(Frame), s # <<>>, StackOf(s)
  PROVE  /\ Tail(s) \in Seq(Frame) /\ StackOf(Tail(s))
         /\ \A q : RunsOn(Tail(s), q) => RunsOn(s, q)
         /\ \A q : RunsOn(s, q) /\ Head(s) # <<q, "runs">> => RunsOn(Tail(s), q)
         /\ ~RunsOn(Tail(s), Head(s)[1])
         /\ \A q : RunsOn(Tail(s), q) <=> \E i \in 2..Len(s) : s[i] = <<q, "runs">>
<1>1. /\ Tail(s) \in Seq(Frame) /\ Len(s) \in Nat \ {0}
      /\ Len(Tail(s)) = Len(s) - 1 /\ Head(s) = s[1]
      /\ \A i \in 1..Len(Tail(s)) : Tail(s)[i] = s[i + 1]
  OBVIOUS
<1>2. StackOf(Tail(s))
  BY <1>1 DEF StackOf
<1>3. ASSUME NEW q
      PROVE  RunsOn(Tail(s), q) <=> \E i \in 2..Len(s) : s[i] = <<q, "runs">>
  <2>1. ASSUME NEW i \in 2..Len(s), s[i] = <<q, "runs">>
        PROVE  RunsOn(Tail(s), q)
    <3>1. i - 1 \in 1..Len(Tail(s)) /\ (i - 1) + 1 = i
      BY <1>1
    <3>. QED BY <1>1, <2>1, <3>1 DEF RunsOn
  <2>2. ASSUME NEW i \in 1..Len(Tail(s)), Tail(s)[i] = <<q, "runs">>
        PROVE  \E k \in 2..Len(s) : s[k] = <<q, "runs">>
    <3>1. i + 1 \in 2..Len(s)
      BY <1>1
    <3>. QED BY <1>1, <2>2, <3>1
  <2>. QED BY <2>1, <2>2 DEF RunsOn
<1>4. \A i \in 2..Len(s) : s[i] # <<Head(s)[1], "runs">>
  BY <1>1 DEF StackOf
<1>5. \A q : RunsOn(Tail(s), q) => RunsOn(s, q)
  BY <1>1, <1>3 DEF RunsOn
<1>6. ASSUME NEW q, RunsOn(s, q), Head(s) # <<q, "runs">>
      PROVE  RunsOn(Tail(s), q)
  <2>1. PICK i \in 1..Len(s) : s[i] = <<q, "runs">>
    BY <1>6 DEF RunsOn
  <2>2. i # 1
    BY <1>1, <1>6, <2>1
  <2>3. i \in 2..Len(s)
    BY <1>1, <2>2
  <2>. QED BY <1>3, <2>1, <2>3
<1>. QED BY <1>1, <1>2, <1>3, <1>4, <1>5, <1>6

LEMMA Pushed ==
  ASSUME NEW T \in Seq(Frame), NEW B \in Seq(Frame), StackOf(B),
         Len(T) = 1 \/ \A i \in 1..Len(T) : T[i][2] = "told",
         \A i \in 1..Len(T) : ~RunsOn(B, T[i][1])
  PROVE  /\ T \o B \in Seq(Frame) /\ StackOf(T \o B)
         /\ \A q : RunsOn(T \o B, q) <=> RunsOn(T, q) \/ RunsOn(B, q)
<1>. DEFINE s == T \o B
<1>1. /\ s \in Seq(Frame) /\ Len(s) = Len(T) + Len(B)
      /\ Len(T) \in Nat /\ Len(B) \in Nat
      /\ \A i \in 1..Len(s) : s[i] = IF i <= Len(T) THEN T[i] ELSE B[i - Len(T)]
  OBVIOUS
<1>. HIDE DEF s
<1>2. ASSUME NEW i \in 1..Len(s), NEW j \in 1..Len(s), i < j,
             s[j] = <<s[i][1], "runs">>
      PROVE  FALSE
  <2>1. CASE j <= Len(T)
    <3>1. i \in 1..Len(T) /\ j \in 1..Len(T) /\ Len(T) # 1
      BY <1>1, <1>2, <2>1
    <3>2. s[j] = T[j]
      BY <1>1, <2>1
    <3>3. T[j][2] = "told"
      BY <3>1
    <3>. QED BY <1>2, <3>2, <3>3
  <2>2. CASE i <= Len(T) /\ ~(j <= Len(T))
    <3>1. i \in 1..Len(T) /\ j - Len(T) \in 1..Len(B)
      BY <1>1, <2>2
    <3>2. s[i] = T[i] /\ s[j] = B[j - Len(T)]
      BY <1>1, <2>2
    <3>. QED BY <1>2, <3>1, <3>2 DEF RunsOn
  <2>3. CASE ~(i <= Len(T)) /\ ~(j <= Len(T))
    <3>1. /\ i - Len(T) \in 1..Len(B) /\ j - Len(T) \in 1..Len(B)
          /\ i - Len(T) < j - Len(T)
      BY <1>1, <1>2, <2>3
    <3>2. s[i] = B[i - Len(T)] /\ s[j] = B[j - Len(T)]
      BY <1>1, <2>3
    <3>. QED BY <1>2, <3>1, <3>2 DEF StackOf
  <2>. QED BY <1>1, <1>2, <2>1, <2>2, <2>3
<1>3. ASSUME NEW q
      PROVE  RunsOn(s, q) <=> RunsOn(T, q) \/ RunsOn(B, q)
  <2>1. ASSUME NEW i \in 1..Len(s), s[i] = <<q, "runs">>
        PROVE  RunsOn(T, q) \/ RunsOn(B, q)
    <3>1. CASE i <= Len(T)
      BY <1>1, <2>1, <3>1 DEF RunsOn
    <3>2. CASE ~(i <= Len(T))
      <4>1. i - Len(T) \in 1..Len(B) /\ s[i] = B[i - Len(T)]
        BY <1>1, <3>2
      <4>. QED BY <2>1, <4>1 DEF RunsOn
    <3>. QED BY <3>1, <3>2
  <2>2. ASSUME NEW i \in 1..Len(T), T[i] = <<q, "runs">>
        PROVE  RunsOn(s, q)
    <3>1. i \in 1..Len(s) /\ s[i] = T[i]
      BY <1>1
    <3>. QED BY <2>2, <3>1 DEF RunsOn
  <2>3. ASSUME NEW i \in 1..Len(B), B[i] = <<q, "runs">>
        PROVE  RunsOn(s, q)
    <3>1. /\ i + Len(T) \in 1..Len(s) /\ ~(i + Len(T) <= Len(T))
          /\ (i + Len(T)) - Len(T) = i
      BY <1>1
    <3>2. s[i + Len(T)] = B[i]
      BY <1>1, <3>1
    <3>. QED BY <2>3, <3>1, <3>2 DEF RunsOn
  <2>. QED BY <2>1, <2>2, <2>3 DEF RunsOn
<1>4. StackOf(s)
  BY <1>2 DEF StackOf
<1>. QED BY <1>1, <1>3, <1>4 DEF s

(* exit_process tells processes that are not in the middle of a call. *)
LEMMA ToldIs ==
  ASSUME NEW p \in Procs
  PROVE  Told(p) \in Seq({<<q, "told">> : q \in {r \in Procs : ~Calling(r)}})
<1>. DEFINE E == {<<q, "told">> : q \in {r \in Procs : ~Calling(r)}}
<1>1. ASSUME NEW q \in Procs
      PROVE  Tells(p, q) \in Seq(E)
  <2>1. ~Calling(q) => <<q, "told">> \in E
    OBVIOUS
  <2>2. \A e \in E : << e >> \in Seq(E)
    <3>. HIDE DEF E
    <3>. QED OBVIOUS
  <2>. QED BY <2>1, <2>2 DEF Tells
<1>2. {"pic32", "tcs3472", "si7210", "si7020", "ms5637", Client} \subseteq Procs
  BY Constants DEF Drivers
<1>. HIDE DEF E
<1>3. \A s, t \in Seq(E) : s \o t \in Seq(E)
  OBVIOUS
<1>4. Told(p) \in Seq(E)
  BY <1>1, <1>2, <1>3 DEF Told
<1>. QED BY <1>4 DEF E

(* A process that stays where it is, goes on, waits or ends: what is called *)
(* above it, and what it leaves to the others.                              *)
Others(p) ==
  /\ events' = events
  /\ \A q \in Procs \ {p} : /\ at'[q] = at[q] /\ until'[q] = until[q]
                            /\ timers'[q] = timers[q]
                            /\ RunsOn(cpu', q) <=> RunsOn(cpu, q)

LEMMA MoveKeeps ==
  ASSUME CallsOK, Stack, Stopped, NEW p \in Procs, Runs(p), Moves(p)
  PROVE  CallsOK' /\ Stack' /\ Stopped' /\ Others(p) /\ Running(p)
<1>1. /\ cpu \in Seq(Frame) /\ cpu # <<>> /\ StackOf(cpu)
      /\ Head(cpu) = <<p, "runs">>
  BY DEF CallsOK, Runs, Stack
<1>2. RunsOn(cpu, p) /\ Running(p)
  <2>1. 1 \in 1..Len(cpu) /\ Head(cpu) = cpu[1]
    BY <1>1
  <2>. QED BY <1>1, <2>1 DEF RunsOn, Stack
<1>. DEFINE T == Tail(cpu)
<1>3. /\ T \in Seq(Frame) /\ StackOf(T) /\ ~RunsOn(T, p)
      /\ \A q : RunsOn(T, q) <=> Calling(q)
      /\ \A q \in Procs \ {p} : RunsOn(T, q) <=> RunsOn(cpu, q)
  <2>1. Head(cpu)[1] = p /\ \A q \in Procs \ {p} : Head(cpu) # <<q, "runs">>
    BY <1>1
  <2>2. /\ Tail(cpu) \in Seq(Frame) /\ StackOf(Tail(cpu))
        /\ \A q : RunsOn(Tail(cpu), q) => RunsOn(cpu, q)
        /\ \A q : RunsOn(cpu, q) /\ Head(cpu) # <<q, "runs">> => RunsOn(Tail(cpu), q)
        /\ ~RunsOn(Tail(cpu), Head(cpu)[1])
        /\ \A q : RunsOn(Tail(cpu), q) <=> \E i \in 2..Len(cpu) : cpu[i] = <<q, "runs">>
    BY <1>1, Popped
  <2>3. \A q : RunsOn(Tail(cpu), q) <=> Calling(q)
    BY <2>2 DEF Calling
  <2>. QED BY <2>1, <2>2, <2>3
<1>4. Gone \in Place
  BY Places DEF Gone, Names
<1>5. /\ timers[p] \in Nat \cup {Off} /\ timers \in [Procs -> Nat \cup {Off}]
      /\ events \in Seq(Event) /\ at \in [Procs -> Place]
      /\ until \in [Procs -> {"timer", "any"}]
  BY DEF CallsOK, ContikiTypeOK
<1>. HIDE DEF T
<1>6. ASSUME NEW place \in Place, place # Gone, Goes(p, place)
      PROVE  CallsOK' /\ Stack' /\ Stopped' /\ Others(p)
  <2>1. /\ at' = [at EXCEPT ![p] = place]
        /\ UNCHANGED <<cpu, until, events, timers>>
    BY <1>6 DEF Goes, kernelVars
  <2>2. CallsOK'
    BY <1>1, <1>5, <2>1 DEF CallsOK, ContikiTypeOK
  <2>3. \A q \in Procs : Running(q) => Running(q)'
    BY <1>5, <1>6, <2>1 DEF Running
  <2>4. Stack' /\ Stopped'
    BY <2>1, <2>3 DEF Stack, Stopped
  <2>. QED BY <1>5, <2>1, <2>2, <2>4 DEF Others
<1>7. ASSUME NEW place \in Place, place # Gone, NEW what \in {"timer", "any"},
             NEW t \in Nat \cup {Off}, Yields(p, place, what, t)
      PROVE  CallsOK' /\ Stack' /\ Stopped' /\ Others(p)
  <2>1. /\ at' = [at EXCEPT ![p] = place] /\ until' = [until EXCEPT ![p] = what]
        /\ timers' = [timers EXCEPT ![p] = t] /\ cpu' = T /\ events' = events
    BY <1>7 DEF Yields, Set, T
  <2>2. CallsOK'
    BY <1>3, <1>5, <2>1 DEF CallsOK, ContikiTypeOK
  <2>3. \A q \in Procs : Running(q) => Running(q)'
    BY <1>5, <1>7, <2>1 DEF Running
  <2>4. Running(p)'
    BY <1>5, <1>7, <2>1 DEF Running
  <2>5. \A q \in Procs : RunsOn(T, q) => Running(q)
    BY <1>3, <1>2 DEF Stack
  <2>6. Stack'
    BY <1>3, <2>1, <2>3, <2>5 DEF Stack
  <2>7. Stopped'
    BY <1>5, <2>1, <2>3, <2>4 DEF Stopped
  <2>. QED BY <1>3, <1>5, <2>1, <2>2, <2>6, <2>7 DEF Others
<1>8. CASE Ends(p)
  <2>1. /\ at' = [at EXCEPT ![p] = Gone] /\ until' = [until EXCEPT ![p] = "timer"]
        /\ timers' = [timers EXCEPT ![p] = Off] /\ events' = events
        /\ cpu' = Told(p) \o T
    BY <1>8 DEF Ends, Stop, T
  <2>2. /\ Told(p) \in Seq(Frame)
        /\ \A i \in 1..Len(Told(p)) : /\ Told(p)[i][2] = "told"
                                     /\ ~RunsOn(T, Told(p)[i][1])
    <3>. DEFINE E == {<<q, "told">> : q \in {r \in Procs : ~Calling(r)}}
    <3>1. Told(p) \in Seq(E)
      BY ToldIs
    <3>2. \A e \in E : e \in Frame /\ e[2] = "told" /\ ~RunsOn(T, e[1])
      BY <1>3 DEF Frame
    <3>. HIDE DEF E
    <3>3. E \subseteq Frame
      BY <3>2
    <3>4. \A i \in 1..Len(Told(p)) : Told(p)[i] \in E
      BY <3>1, ElementOfSeq
    <3>. QED BY <3>1, <3>2, <3>3, <3>4, SeqMonotonic
  <2>3. /\ cpu' \in Seq(Frame) /\ StackOf(cpu')
        /\ \A q : RunsOn(cpu', q) <=> RunsOn(Told(p), q) \/ RunsOn(T, q)
    BY <1>3, <2>1, <2>2, Pushed
  <2>4. \A q : RunsOn(cpu', q) <=> RunsOn(T, q)
    <3>1. ASSUME NEW q, NEW i \in 1..Len(Told(p)), Told(p)[i] = <<q, "runs">>
          PROVE  FALSE
      BY <2>2, <3>1
    <3>2. \A q : ~RunsOn(Told(p), q)
      BY <3>1 DEF RunsOn
    <3>. QED BY <2>3, <3>2
  <2>5. CallsOK'
    BY <1>4, <1>5, <2>1, <2>3 DEF CallsOK, ContikiTypeOK
  <2>6. \A q \in Procs \ {p} : Running(q)' <=> Running(q)
    BY <1>5, <2>1 DEF Running
  <2>7. Stack'
    BY <1>3, <2>3, <2>4, <2>6 DEF Stack
  <2>8. Stopped'
    BY <1>5, <2>1, <2>6 DEF Stopped
  <2>. QED BY <1>2, <1>3, <1>5, <2>1, <2>4, <2>5, <2>7, <2>8 DEF Others
<1>. QED BY <1>2, <1>6, <1>7, <1>8 DEF Moves

(* process_start of a driver that is not running.                           *)
LEMMA StartKeeps ==
  ASSUME CallsOK, Stack, Stopped, Runs(Client), NEW p \in Drivers, ~Running(p),
         NEW then \in Place, then # Gone, Start(p, then)
  PROVE  /\ CallsOK' /\ Stack' /\ Stopped' /\ events' = events
         /\ at'[p] = First(p) /\ at'[p] # Gone /\ at'[Client] = then
         /\ until'[Client] = until[Client] /\ timers'[Client] = timers[Client]
         /\ RunsOn(cpu', Client)
         /\ \A q \in Drivers \ {p} : at'[q] = at[q]
<1>1. /\ p \in Procs /\ Client \in Procs /\ p # Client
      /\ cpu \in Seq(Frame) /\ StackOf(cpu) /\ RunsOn(cpu, Client)
  <2>1. /\ cpu \in Seq(Frame) /\ cpu # <<>> /\ StackOf(cpu)
        /\ Head(cpu) = <<Client, "runs">>
    BY DEF CallsOK, Runs, Stack
  <2>2. 1 \in 1..Len(cpu) /\ Head(cpu) = cpu[1]
    BY <2>1
  <2>. QED BY <2>1, <2>2, Constants DEF RunsOn
<1>2. /\ timers \in [Procs -> Nat \cup {Off}] /\ at \in [Procs -> Place]
      /\ events \in Seq(Event) /\ until \in [Procs -> {"timer", "any"}]
  BY DEF CallsOK, ContikiTypeOK
<1>3. First(p) \in Place /\ First(p) # Gone
  BY Places DEF Drivers, First, Names
<1>4. /\ at' = [at EXCEPT ![p] = First(p), ![Client] = then]
      /\ until' = [until EXCEPT ![p] = "timer"] /\ events' = events
      /\ \/ timers' = [timers EXCEPT ![p] = 1] /\ cpu' = cpu
         \/ cpu' = << <<p, "runs">> >> \o cpu /\ timers' = timers
  BY DEF Start, Set
<1>5. /\ cpu' \in Seq(Frame) /\ StackOf(cpu')
      /\ \A q \in Procs \ {p} : RunsOn(cpu', q) <=> RunsOn(cpu, q)
  <2>1. CASE cpu' = cpu
    BY <1>1, <2>1
  <2>2. CASE cpu' = << <<p, "runs">> >> \o cpu
    <3>. DEFINE T == << <<p, "runs">> >>
    <3>1. /\ T \in Seq(Frame) /\ Len(T) = 1 /\ T[1] = <<p, "runs">>
          /\ \A i \in 1..Len(T) : i = 1
      BY <1>1 DEF Frame
    <3>2. ~RunsOn(cpu, p)
      BY <1>1 DEF Stack
    <3>3. \A q \in Procs \ {p} : ~RunsOn(T, q)
      BY <3>1 DEF RunsOn
    <3>. HIDE DEF T
    <3>4. \A i \in 1..Len(T) : ~RunsOn(cpu, T[i][1])
      BY <3>1, <3>2
    <3>5. cpu' = T \o cpu
      BY <2>2 DEF T
    <3>. QED BY <1>1, <3>1, <3>3, <3>4, <3>5, Pushed
  <2>. QED BY <1>4, <2>1, <2>2
<1>6. at'[p] = First(p) /\ at'[Client] = then
      /\ \A q \in Procs \ {p, Client} : at'[q] = at[q]
  BY <1>1, <1>2, <1>4
<1>7. \A q \in Procs : Running(q) => Running(q)'
  BY <1>3, <1>6 DEF Running
<1>8. CallsOK'
  <2>1. at' \in [Procs -> Place]
    BY <1>2, <1>3, <1>4
  <2>2. until' \in [Procs -> {"timer", "any"}] /\ events' \in Seq(Event)
    BY <1>2, <1>4
  <2>3. timers' \in [Procs -> Nat \cup {Off}]
    BY <1>2, <1>4
  <2>. QED BY <1>5, <2>1, <2>2, <2>3 DEF CallsOK, ContikiTypeOK
<1>9. Running(p)'
  BY <1>3, <1>6 DEF Running
<1>10. Stack'
  BY <1>5, <1>7, <1>9 DEF Stack
<1>11. Stopped'
  BY <1>1, <1>2, <1>4, <1>7, <1>9 DEF Stopped
<1>12. until'[Client] = until[Client] /\ timers'[Client] = timers[Client]
  BY <1>1, <1>2, <1>4
<1>13. \A q \in Drivers \ {p} : at'[q] = at[q]
  BY <1>6, Constants
<1>. QED BY <1>1, <1>3, <1>4, <1>5, <1>6, <1>8, <1>10, <1>11, <1>12, <1>13

-----------------------------------------------------------------------------
(* Where send_data_proc is, and the sensors that may run then.              *)
Phases ==
  {Gone, <<"watch", 0>>, <<"look", 0>>, <<"ambient", 0>>, <<"color", 0>>}
  \cup {<<"start", i>> : i \in 1..4}
Begun(i) == {Order[j] : j \in 1..(i - 1)}
Alone ==
  /\ at[Client] \in Phases
  /\ at[Client] \in {<<"ambient", 0>>, <<"color", 0>>} =>
       kind = "water" /\ completions = {}
  /\ \A i \in 1..4 : at[Client] = <<"start", i>> =>
       i <= Len(Order) /\ completions = Begun(i)
  /\ at[Client] = <<"watch", 0>> => completions = Mine
  /\ at[Client] = Gone => completions = {}
  /\ \A p \in Drivers : Running(p) =>
       p \in completions \/ (p = "tcs3472" /\ at[Client] = <<"color", 0>>)

(* The sensors that are no longer waited for are in the message.            *)
Copied(p) == \A f \in FieldsOf(p) \ {"val", "color"} : msg[f] = got[f]
Seen ==
  /\ \/ at[Client] \in {<<"look", 0>>, <<"ambient", 0>>, <<"color", 0>>}
     \/ now > 0 /\ at[Client] = Gone
     => \A p \in Mine \ completions : Copied(p)
  /\ now > 0 /\ at[Client] = Gone /\ kind = "water" => msg["ambient"] = got["color"]

(* The ranges pic32_proc has read so far are of this measurement.           *)
Ranged ==
  at[Client][1] # "start" /\ now > 0 /\ kind = "water" =>
    /\ \A i \in Ranges : at["pic32"] = <<"range", i>> =>
         \A j \in 1..(i - 1) : got[RangeField[j]] = now
    /\ at["pic32"] = Gone /\ ok["pic32"] => \A j \in Ranges : got[RangeField[j]] = now

(* Before it starts a sensor, no event of a sensor's last run is in the     *)
(* queue: it waited for its own etimer while no sensor ran.                 *)
Quiet(es) == \A p \in Drivers : ~Has(es, p, "TIMER")
Starting == {<<"start", 2>>, <<"start", 3>>, <<"start", 4>>, <<"watch", 0>>}
Pausing == {<<"start", 1>>, <<"ambient", 0>>}
Calm ==
  /\ at[Client] \in Starting => Quiet(events) /\ RunsOn(cpu, Client)
  /\ at[Client] \in Pausing =>
       /\ until[Client] = "timer"
       /\ Quiet(events) \/ (timers[Client] > 0 /\ ~RunsOn(cpu, Client))

IInv == Typed /\ Alone /\ Seen /\ Ranged /\ Stack /\ Stopped /\ Calm

-----------------------------------------------------------------------------
(* The steps of the kernel. *)
LEMMA CalledKeeps ==
  ASSUME CallsOK, Stack, NEW p \in Procs, NEW B \in Seq(Frame), StackOf(B),
         ~RunsOn(B, p), \A q : RunsOn(B, q) => RunsOn(cpu, q),
         cpu' = Called(p) \o B, at' = at
  PROVE  /\ cpu' \in Seq(Frame) /\ Stack'
         /\ \A q : RunsOn(cpu', q) <=> RunsOn(B, q) \/ (q = p /\ WakesUp(p))
<1>1. CASE WakesUp(p)
  <2>. DEFINE T == << <<p, "runs">> >>
  <2>1. /\ T \in Seq(Frame) /\ Len(T) = 1 /\ T[1] = <<p, "runs">>
        /\ \A i \in 1..Len(T) : i = 1
    BY DEF Frame
  <2>2. cpu' = T \o B
    BY <1>1 DEF Called
  <2>. HIDE DEF T
  <2>3. \A i \in 1..Len(T) : ~RunsOn(B, T[i][1])
    BY <2>1
  <2>4. \A q : RunsOn(T, q) <=> q = p
    BY <2>1 DEF RunsOn
  <2>5. /\ cpu' \in Seq(Frame) /\ StackOf(cpu')
        /\ \A q : RunsOn(cpu', q) <=> RunsOn(B, q) \/ q = p
    BY <2>1, <2>2, <2>3, <2>4, Pushed
  <2>. QED BY <1>1, <2>5 DEF Stack, Running, WakesUp
<1>2. CASE ~WakesUp(p)
  <2>1. cpu' = B
    BY <1>2 DEF Called
  <2>. QED BY <1>2, <2>1 DEF Stack, Running
<1>. QED BY <1>1, <1>2

LEMMA QuietKept ==
  /\ Quiet(<<>>)
  /\ \A es \in Seq(Event) : es # <<>> /\ Quiet(es) => Quiet(Tail(es))
  /\ \A es \in Seq(Event) : Quiet(es) => Quiet(Append(es, [to |-> Client, ev |-> "TIMER"]))
<1>1. Quiet(<<>>)
  BY DEF Quiet, Has
<1>2. ASSUME NEW es \in Seq(Event), es # <<>>, Quiet(es), NEW p \in Drivers,
             NEW i \in 1..Len(Tail(es)), Tail(es)[i] = [to |-> p, ev |-> "TIMER"]
      PROVE  FALSE
  <2>1. i + 1 \in 1..Len(es) /\ Tail(es)[i] = es[i + 1]
    BY <1>2
  <2>. QED BY <1>2, <2>1 DEF Quiet, Has
<1>3. ASSUME NEW es \in Seq(Event), Quiet(es), NEW p \in Drivers,
             NEW i \in 1..Len(Append(es, [to |-> Client, ev |-> "TIMER"])),
             Append(es, [to |-> Client, ev |-> "TIMER"])[i] = [to |-> p, ev |-> "TIMER"]
      PROVE  FALSE
  <2>. DEFINE e == [to |-> Client, ev |-> "TIMER"]
              x == [to |-> p, ev |-> "TIMER"]
  <2>1. e # x
    <3>1. e.to = Client /\ x.to = p /\ p # Client
      BY Constants
    <3>. QED BY <3>1
  <2>2. Append(es, e)[i] = x
    BY <1>3
  <2>. HIDE DEF e, x
  <2>3. i \in 1..(Len(es) + 1)
    <3>1. Append(es, e) = Append(es, [to |-> Client, ev |-> "TIMER"])
      BY DEF e
    <3>. HIDE DEF e
    <3>2. Len(Append(es, e)) = Len(es) + 1
      OBVIOUS
    <3>. QED BY <3>1, <3>2
  <2>4. i \in 1..Len(es) /\ es[i] = x
    BY <2>1, <2>2, <2>3
  <2>. QED BY <1>3, <2>4 DEF Quiet, Has, x
<1>. QED BY <1>1, <1>2, <1>3 DEF Quiet, Has

LEMMA KernelKeeps ==
  ASSUME IInv, KernelStep
  PROVE  IInv'
<1>. USE DEF IInv
<1>1. UNCHANGED <<at, until, count, sem, ok, got, kind, now, completions, msg>>
  BY DEF KernelStep, Resume, Hears, Resumed, loopVars, measureVars
<1>2. DataOK' /\ ClientOK' /\ Counted' /\ Alone' /\ Seen' /\ Ranged'
  <2>1. DataOK' /\ ClientOK' /\ Counted'
    BY <1>1 DEF Typed, DataOK, ClientOK, Counted, Mine
  <2>2. Alone'
    BY <1>1 DEF Alone, Phases, Begun, Order, Mine, Running
  <2>3. Seen' /\ Ranged'
    BY <1>1 DEF Seen, Ranged, Copied, Mine
  <2>. QED BY <2>1, <2>2, <2>3
<1>3. /\ timers \in [Procs -> Nat \cup {Off}] /\ events \in Seq(Event)
      /\ cpu \in Seq(Frame) /\ Client \in Procs
  BY Constants DEF Typed, CallsOK, ContikiTypeOK
<1>4. cpu = <<>> => at[Client] \notin Starting
  <2>1. cpu = <<>> => ~RunsOn(cpu, Client)
    BY DEF RunsOn
  <2>. QED BY <2>1 DEF Calm
<1>5. at[Client] \in Pausing => \A p \in Drivers : ~Running(p)
  <2>1. CASE at[Client] = <<"start", 1>>
    <3>1. completions = {} /\ at[Client] # <<"color", 0>>
      BY <2>1 DEF Alone, Begun
    <3>. QED BY <3>1 DEF Alone
  <2>2. CASE at[Client] = <<"ambient", 0>>
    <3>1. completions = {} /\ at[Client] # <<"color", 0>>
      BY <2>2 DEF Alone
    <3>. QED BY <3>1 DEF Alone
  <2>. QED BY <2>1, <2>2 DEF Pausing
<1>6. CASE cpu = <<>> /\ cpu' = cpu /\ Tick
  <2>1. /\ events = <<>> /\ events' = events
        /\ \A p \in Procs : timers[p] # 0
        /\ timers' = [p \in Procs |-> IF timers[p] = Off THEN Off ELSE timers[p] - 1]
    BY <1>6 DEF Tick
  <2>2. \A p \in Procs : timers'[p] \in Nat \cup {Off} /\ (timers[p] = Off => timers'[p] = Off)
    BY <1>3, <2>1
  <2>3. timers' \in [Procs -> Nat \cup {Off}]
    BY <2>1, <2>2
  <2>4. CallsOK'
    BY <1>1, <1>3, <1>6, <2>1, <2>3 DEF Typed, CallsOK, ContikiTypeOK
  <2>5. Stack' /\ Stopped'
    BY <1>1, <1>6, <2>2 DEF Stack, Stopped, Running
  <2>6. Quiet(events')
    BY <2>1, QuietKept
  <2>7. Calm'
    BY <1>1, <1>4, <1>6, <2>6 DEF Calm
  <2>. QED BY <1>2, <2>4, <2>5, <2>7 DEF Typed
<1>7. ASSUME cpu = <<>>, cpu' = cpu, NEW p \in Procs, TimerPoll(p)
      PROVE  IInv'
  <2>1. /\ timers[p] = 0 /\ timers' = [timers EXCEPT ![p] = Off]
        /\ events' = Append(events, [to |-> p, ev |-> "TIMER"])
    BY <1>7 DEF TimerPoll, Stop, Post
  <2>2. [to |-> p, ev |-> "TIMER"] \in Event
    BY DEF Event, Kinds
  <2>3. events' \in Seq(Event)
    <3>. HIDE DEF IInv
    <3>1. \A e \in Event : Append(events, e) \in Seq(Event)
      BY <1>3
    <3>. QED BY <2>1, <2>2, <3>1
  <2>4. CallsOK'
    BY <1>1, <1>3, <1>7, <2>1, <2>3 DEF Typed, CallsOK, ContikiTypeOK
  <2>5. Stack' /\ Stopped'
    BY <1>1, <1>3, <1>7, <2>1 DEF Stack, Stopped, Running
  <2>6. ASSUME at[Client] \in Pausing
        PROVE  Quiet(events')
    <3>1. p = Client
      BY <1>3, <1>5, <2>1, <2>6, Constants DEF Stopped
    <3>2. Quiet(events)
      BY <2>1, <2>6, <3>1 DEF Calm
    <3>. QED BY <1>3, <2>1, <3>1, <3>2, QuietKept
  <2>7. Calm'
    BY <1>1, <1>4, <1>7, <2>6 DEF Calm
  <2>. QED BY <1>2, <2>4, <2>5, <2>7 DEF Typed
<1>8. ASSUME NEW p \in Procs, NEW B \in Seq(Frame), StackOf(B), ~RunsOn(B, p),
             \A q : RunsOn(B, q) => RunsOn(cpu, q), cpu' = Called(p) \o B,
             at[Client] \in Starting => RunsOn(B, Client), timers' = timers,
             events' = events \/ (events # <<>> /\ events' = Tail(events))
      PROVE  IInv'
  <2>1. /\ cpu' \in Seq(Frame) /\ Stack'
        /\ \A q : RunsOn(cpu', q) <=> RunsOn(B, q) \/ (q = p /\ WakesUp(p))
    BY <1>1, <1>8, CalledKeeps DEF Typed
  <2>2. CallsOK'
    <3>0. events # <<>> => Tail(events) \in Seq(Event)
      BY <1>3
    <3>1. events' \in Seq(Event)
      BY <1>3, <1>8, <3>0
    <3>. QED BY <1>1, <1>3, <1>8, <2>1, <3>1 DEF Typed, CallsOK, ContikiTypeOK
  <2>3. Stopped'
    BY <1>1, <1>8 DEF Stopped, Running
  <2>4. Quiet(events) => Quiet(events')
    BY <1>3, <1>8, QuietKept
  <2>5. ASSUME at[Client] \in Pausing, RunsOn(cpu', Client)
        PROVE  Quiet(events)
    <3>1. CASE RunsOn(B, Client)
      BY <1>8, <2>5, <3>1 DEF Calm
    <3>2. CASE WakesUp(Client)
      <4>1. timers[Client] = -1
        BY <2>5, <3>2 DEF Calm, WakesUp, Expired
      <4>. QED BY <2>5, <4>1 DEF Calm
    <3>. QED BY <2>1, <2>5, <3>1, <3>2
  <2>6. Calm'
    BY <1>1, <1>8, <2>1, <2>4, <2>5 DEF Calm
  <2>. QED BY <1>2, <2>1, <2>2, <2>3, <2>6 DEF Typed
<1>9. ASSUME NEW p \in Procs, Resume(p)
      PROVE  IInv'
  <2>1. /\ cpu = <<>> /\ events # <<>> /\ events' = Tail(events)
        /\ cpu' = Called(p) /\ timers' = timers
    BY <1>9 DEF Resume, Receives, Resumed
  <2>. DEFINE B == <<>>
  <2>2. B \in Seq(Frame) /\ Len(B) = 0
    OBVIOUS
  <2>3. Called(p) \in Seq(Frame)
    BY DEF Called, Frame
  <2>4. cpu' = Called(p) \o B
    BY <2>1, <2>3, ConcatEmptySeq
  <2>. HIDE DEF B
  <2>5. StackOf(B) /\ \A q : ~RunsOn(B, q)
    BY <2>2 DEF StackOf, RunsOn
  <2>. QED BY <1>4, <1>8, <2>1, <2>2, <2>4, <2>5
<1>10. ASSUME NEW p \in Procs, Hears(p)
       PROVE  IInv'
  <2>1. /\ cpu # <<>> /\ Head(cpu) = <<p, "told">> /\ events' = events
        /\ cpu' = Called(p) \o Tail(cpu) /\ timers' = timers
    BY <1>10 DEF Hears, Resumed
  <2>2. Head(cpu)[1] = p /\ \A q : Head(cpu) # <<q, "runs">>
    BY <2>1
  <2>3. /\ Tail(cpu) \in Seq(Frame) /\ StackOf(Tail(cpu))
        /\ \A q : RunsOn(Tail(cpu), q) => RunsOn(cpu, q)
        /\ \A q : RunsOn(cpu, q) /\ Head(cpu) # <<q, "runs">> => RunsOn(Tail(cpu), q)
        /\ ~RunsOn(Tail(cpu), Head(cpu)[1])
    BY <1>3, <2>1, Popped DEF Stack
  <2>4. at[Client] \in Starting => RunsOn(Tail(cpu), Client)
    BY <2>2, <2>3 DEF Calm
  <2>. QED BY <1>8, <2>1, <2>2, <2>3, <2>4
<1>. QED BY <1>6, <1>7, <1>9, <1>10 DEF KernelStep

-----------------------------------------------------------------------------
(* The steps of the sensors. *)
LEMMA RangeFields ==
  /\ \A i \in Ranges : RangeField[i] \in FieldsOf("pic32")
  /\ \A i \in Ranges : RangeField[i] \in Fields
  /\ \A i, j \in Ranges : RangeField[i] = RangeField[j] => i = j
<1>1. \A i \in Ranges : RangeField[i] \in FieldsOf("pic32")
  BY DEF FieldsOf
<1>2. FieldsOf("pic32") \subseteq Fields
  BY OwnFields DEF Drivers
<1>3. Ranges \subseteq 1..4
  BY Constants DEF Ranges
<1>4. \A i, j \in 1..4 : RangeField[i] = RangeField[j] => i = j
  BY DEF RangeField
<1>. QED BY <1>1, <1>2, <1>3, <1>4

LEMMA RangesRead ==
  ASSUME IInv, UNCHANGED measureVars, at'[Client] = at[Client],
         Local("pic32"), Pic32Ask \/ Pic32Range(now)
  PROVE  Ranged'
<1>1. /\ at \in [Procs -> Place] /\ ok \in [Drivers -> BOOLEAN]
      /\ got \in [Fields -> 0..now] /\ "pic32" \in Procs /\ "pic32" \in Drivers
      /\ now' = now /\ kind' = kind
  BY Constants DEF IInv, Typed, CallsOK, DataOK, Drivers, measureVars
<1>2. SUFFICES ASSUME at[Client][1] # "start", now > 0, kind = "water"
               PROVE  /\ \A i \in Ranges : at'["pic32"] = <<"range", i>> =>
                           \A j \in 1..(i - 1) : got'[RangeField[j]] = now
                      /\ at'["pic32"] = Gone /\ ok'["pic32"] =>
                           \A j \in Ranges : got'[RangeField[j]] = now
  BY <1>1 DEF Ranged
<1>3. CASE Pic32Ask
  <2>1. \/ Goes("pic32", <<"range", 1>>)
        \/ Waits("pic32", <<"ask", 0>>)
        \/ Ends("pic32") /\ Reports("pic32", FALSE)
    BY <1>3 DEF Pic32Ask
  <2>2. \/ at'["pic32"] = <<"range", 1>>
        \/ at'["pic32"] = <<"ask", 0>>
        \/ at'["pic32"] = Gone /\ ok'["pic32"] = FALSE
    BY <1>1, <2>1 DEF Goes, Waits, Yields, Ends, Reports
  <2>. QED BY <2>2 DEF Gone
<1>4. CASE Pic32Range(now)
  <2>1. PICK i \in Ranges, a \in Written :
          /\ at["pic32"] = <<"range", i>>
          /\ a = "ok" => got' = [got EXCEPT ![RangeField[i]] = now]
          /\ \/ a = "ok" /\ i < Regs /\ Goes("pic32", <<"range", i + 1>>)
             \/ ~(a = "ok" /\ i < Regs) /\ Ends("pic32") /\ Reports("pic32", a = "ok")
    BY <1>4 DEF Pic32Range, Bus, Holds, Fills
  <2>2. \A j \in 1..(i - 1) : got[RangeField[j]] = now
    BY <1>2, <2>1 DEF IInv, Ranged
  <2>3. i \in 1..Regs /\ Regs \in 1..4 /\ Ranges = 1..Regs
    BY Constants DEF Ranges
  <2>4. ASSUME a = "ok"
        PROVE  \A j \in 1..i : got'[RangeField[j]] = now
    <3>1. ASSUME NEW j \in 1..i
          PROVE  got'[RangeField[j]] = now
      <4>1. j \in Ranges
        BY <2>3
      <4>2. CASE j = i
        BY <1>1, <2>1, <2>4, <4>2, RangeFields
      <4>3. CASE j # i
        <5>1. j \in 1..(i - 1) /\ RangeField[j] # RangeField[i]
          BY <2>3, <4>1, <4>3, RangeFields
        <5>. QED BY <1>1, <2>1, <2>2, <2>4, <4>1, <5>1, RangeFields
      <4>. QED BY <4>2, <4>3
    <3>. QED BY <3>1
  <2>5. CASE a = "ok" /\ i < Regs /\ Goes("pic32", <<"range", i + 1>>)
    <3>1. at'["pic32"] = <<"range", i + 1>>
      BY <1>1, <2>5 DEF Goes
    <3>2. \A k \in Ranges : <<"range", i + 1>> = <<"range", k>> => k - 1 = i
      BY <2>3
    <3>. QED BY <2>4, <2>5, <3>1, <3>2 DEF Gone
  <2>6. CASE ~(a = "ok" /\ i < Regs) /\ Ends("pic32") /\ Reports("pic32", a = "ok")
    <3>1. at'["pic32"] = Gone /\ (ok'["pic32"] => a = "ok")
      BY <1>1, <2>6 DEF Ends, Reports
    <3>2. a = "ok" => i = Regs
      BY <2>3, <2>6
    <3>. QED BY <2>3, <2>4, <3>1, <3>2 DEF Gone
  <2>. QED BY <2>1, <2>5, <2>6
<1>. QED BY <1>3, <1>4

LEMMA DriverKeeps ==
  ASSUME IInv, SensorStep(now), UNCHANGED measureVars
  PROVE  IInv'
<1>0. Typed /\ CallsOK /\ Stack /\ Stopped
  BY DEF IInv, Typed
<1>1. PICK p \in Drivers : /\ Local(p) /\ Counted'
                           /\ p = "pic32" => Pic32Ask \/ Pic32Range(now)
  BY <1>0, DriverStep DEF Drivers
<1>2. p \in Procs /\ Client \in Procs /\ Client # p
  BY Constants
<1>3. CallsOK' /\ Stack' /\ Stopped' /\ Others(p) /\ Running(p)
  BY <1>0, <1>1, <1>2, MoveKeeps DEF Local
<1>4. /\ at'[Client] = at[Client] /\ until'[Client] = until[Client]
      /\ timers'[Client] = timers[Client] /\ events' = events
      /\ RunsOn(cpu', Client) <=> RunsOn(cpu, Client)
      /\ \A q \in Drivers \ {p} : at'[q] = at[q]
  BY <1>2, <1>3, Constants DEF Others
<1>5. kind' = kind /\ now' = now /\ completions' = completions /\ msg' = msg
  BY DEF measureVars
<1>6. Typed'
  <2>1. ClientOK'
    BY <1>0, <1>5 DEF Typed, ClientOK, Mine
  <2>. QED BY <1>1, <1>3, <2>1 DEF Typed, Local
<1>7. p \in completions \/ (p = "tcs3472" /\ at[Client] = <<"color", 0>>)
  BY <1>3 DEF IInv, Alone
<1>8. Alone'
  <2>1. \A q \in Drivers : Running(q)' => Running(q)
    BY <1>3, <1>4 DEF Running
  <2>2. \A i : Begun(i)' = Begun(i)
    BY <1>5 DEF Begun, Order
  <2>3. Mine' = Mine /\ Order' = Order
    BY <1>5 DEF Mine, Order
  <2>. QED BY <1>4, <1>5, <2>1, <2>2, <2>3 DEF IInv, Alone, Phases
<1>9. Seen'
  <2>1. at[Client] # Gone
    BY <1>7 DEF IInv, Alone, Gone
  <2>2. Mine' = Mine
    BY <1>5 DEF Mine
  <2>3. ASSUME NEW q \in Mine \ completions, Copied(q)
        PROVE  Copied(q)'
    <3>1. q \in Drivers
      BY DEF Mine, Drivers
    <3>2. CASE q = p
      BY <1>7, <3>2 DEF Copied, FieldsOf
    <3>3. CASE q # p
      <4>1. \A f \in FieldsOf(q) : f \in Fields \ FieldsOf(p)
        BY <3>1, <3>3, OwnFields
      <4>2. \A f \in FieldsOf(q) : got'[f] = got[f]
        BY <1>1, <4>1 DEF Local
      <4>. QED BY <1>5, <2>3, <4>2 DEF Copied
    <3>. QED BY <3>2, <3>3
  <2>. QED BY <1>4, <1>5, <2>1, <2>2, <2>3 DEF IInv, Seen
<1>10. Ranged'
  <2>1. CASE p = "pic32"
    BY <1>1, <1>4, <2>1, RangesRead
  <2>2. CASE p # "pic32"
    <3>1. "pic32" \in Drivers
      BY DEF Drivers
    <3>2. at'["pic32"] = at["pic32"] /\ ok'["pic32"] = ok["pic32"]
      BY <1>1, <1>4, <2>2, <3>1 DEF Local
    <3>3. \A i \in Ranges : got'[RangeField[i]] = got[RangeField[i]]
      <4>1. \A i \in Ranges : RangeField[i] \in Fields \ FieldsOf(p)
        BY <2>2, <3>1, RangeFields, OwnFields
      <4>. QED BY <1>1, <4>1 DEF Local
    <3>4. \A i \in Ranges : \A j \in 1..(i - 1) : j \in Ranges
      BY Constants DEF Ranges
    <3>. QED BY <1>4, <1>5, <3>2, <3>3, <3>4 DEF IInv, Ranged
  <2>. QED BY <2>1, <2>2
<1>11. Calm'
  BY <1>4 DEF IInv, Calm
<1>. QED BY <1>3, <1>6, <1>8, <1>9, <1>10, <1>11 DEF IInv

-----------------------------------------------------------------------------
(* The steps of send_data_proc. *)
LEMMA Orders ==
  ASSUME kind \in {"water", "airborne"}
  PROVE  /\ Len(Order) \in 2..4 /\ DOMAIN Order = 1..Len(Order)
         /\ \A i \in 1..Len(Order) : Order[i] \in Mine
         /\ Mine \subseteq Drivers /\ Mine = Begun(Len(Order) + 1)
         /\ \A i, j \in 1..Len(Order) : Order[i] = Order[j] => i = j
         /\ \A i \in 1..Len(Order) : Begun(i + 1) = Begun(i) \cup {Order[i]}
         /\ kind = "water" => Len(Order) = 4 /\ Order[4] = "pic32"
<1>1. CASE kind = "water"
  <2>1. /\ Len(Order) = 4 /\ DOMAIN Order = 1..4
        /\ Order[1] = "ms5637" /\ Order[2] = "si7210" /\ Order[3] = "tcs3472"
        /\ Order[4] = "pic32"
    BY <1>1 DEF Order
  <2>2. Mine = {"ms5637", "si7210", "tcs3472", "pic32"}
    BY <1>1 DEF Mine
  <2>3. 1..(5 - 1) = {1, 2, 3, 4}
    OBVIOUS
  <2>4. Begun(5) = Mine
    BY <2>1, <2>2, <2>3 DEF Begun
  <2>5. \A i \in 1..4 : Begun(i + 1) = Begun(i) \cup {Order[i]}
    BY DEF Begun
  <2>. QED BY <1>1, <2>1, <2>2, <2>4, <2>5 DEF Drivers
<1>2. CASE kind # "water"
  <2>1. /\ Len(Order) = 2 /\ DOMAIN Order = 1..2
        /\ Order[1] = "ms5637" /\ Order[2] = "si7020"
    BY <1>2 DEF Order
  <2>2. Mine = {"ms5637", "si7020"}
    BY <1>2 DEF Mine
  <2>3. 1..(3 - 1) = {1, 2}
    OBVIOUS
  <2>4. Begun(3) = Mine
    BY <2>1, <2>2, <2>3 DEF Begun
  <2>5. \A i \in 1..2 : Begun(i + 1) = Begun(i) \cup {Order[i]}
    BY DEF Begun
  <2>. QED BY <1>2, <2>1, <2>2, <2>4, <2>5 DEF Drivers
<1>. QED BY <1>1, <1>2

LEMMA FirstCounted ==
  ASSUME Typed, NEW p \in Drivers, NEW then, Start(p, then),
         at'[p] = First(p), \A q \in Drivers \ {p} : at'[q] = at[q]
  PROVE  count' \in [Drivers -> -1..(Wrap - 1)] /\ Counted'
<1>1. count' = [count EXCEPT ![p] = Tries] /\ count \in [Drivers -> -1..(Wrap - 1)]
  BY DEF Start, Typed, DataOK
<1>2. Tries \in -1..(Wrap - 1) /\ Tries \in 1..Tries
  BY Constants
<1>3. count'[p] = Tries /\ \A q \in Drivers \ {p} : count'[q] = count[q]
  BY <1>1
<1>4. count' \in [Drivers -> -1..(Wrap - 1)]
  BY <1>1, <1>2
<1>5. First("si7020")[1] # "read" /\ First("si7210")[1] = "wake"
  BY DEF First
<1>6. /\ at'["si7020"][1] = "read" => count'["si7020"] \in 1..Tries
  BY <1>2, <1>3, <1>5 DEF Typed, Counted, Drivers
<1>7. at'["si7210"][1] \in {"check", "recheck"} => count'["si7210"] \in 1..Tries
  BY <1>2, <1>3, <1>5 DEF Typed, Counted, Drivers
<1>8. at'["pic32"][1] = "ask" => count'["pic32"] \in 1..Tries
  BY <1>2, <1>3 DEF Typed, Counted, Drivers
<1>. QED BY <1>4, <1>6, <1>7, <1>8 DEF Counted

LEMMA BeginKeeps ==
  ASSUME IInv, Begin
  PROVE  IInv'
<1>. USE DEF IInv
<1>1. /\ at[Client] = Gone /\ now' = now + 1 /\ msg' = [f \in Reported |-> 0]
      /\ completions' = {} /\ kind' = kind
      /\ at' = [at EXCEPT ![Client] = <<"start", 1>>]
      /\ until' = [until EXCEPT ![Client] = "timer"]
      /\ timers' = [timers EXCEPT ![Client] = 1]
      /\ UNCHANGED <<cpu, events, count, sem, ok, got>> /\ cpu = <<>>
  BY DEF Begin, Running, Set, loopVars
<1>2. /\ timers \in [Procs -> Nat \cup {Off}] /\ at \in [Procs -> Place]
      /\ until \in [Procs -> {"timer", "any"}] /\ Client \in Procs
      /\ events \in Seq(Event) /\ cpu \in Seq(Frame)
  BY Constants DEF Typed, CallsOK, ContikiTypeOK
<1>3. <<"start", 1>> \in Place /\ <<"start", 1>> # Gone
  BY Places DEF Names
<1>4. /\ at'[Client] = <<"start", 1>> /\ until'[Client] = "timer"
      /\ timers'[Client] = 1
      /\ \A p \in Procs \ {Client} : at'[p] = at[p] /\ timers'[p] = timers[p]
  BY <1>1, <1>2
<1>5. \A p \in Drivers : at'[p] = at[p] /\ ~Running(p)
  BY <1>1, <1>4, Constants DEF Alone, Gone
<1>6. CallsOK'
  <2>1. at' \in [Procs -> Place] /\ until' \in [Procs -> {"timer", "any"}]
    BY <1>1, <1>2, <1>3
  <2>2. timers' \in [Procs -> Nat \cup {Off}]
    BY <1>1, <1>2
  <2>. QED BY <1>1, <1>2, <2>1, <2>2 DEF CallsOK, ContikiTypeOK
<1>7. DataOK' /\ ClientOK' /\ Counted'
  <2>1. now \in Nat /\ now' \in Nat /\ 0..now \subseteq 0..now' /\ 0 \in 0..now'
    BY <1>1 DEF Typed, ClientOK
  <2>2. got' \in [Fields -> 0..now']
    BY <1>1, <2>1 DEF Typed, DataOK
  <2>3. msg' \in [Reported -> 0..now']
    BY <1>1, <2>1
  <2>4. DataOK'
    BY <1>1, <2>2 DEF Typed, DataOK
  <2>5. ClientOK'
    BY <1>1, <2>1, <2>3 DEF Typed, ClientOK, Reported
  <2>6. Counted'
    BY <1>1, <1>5 DEF Typed, Counted, Drivers
  <2>. QED BY <2>4, <2>5, <2>6
<1>8. Alone'
  <2>1. at'[Client] \in Phases
    BY <1>4 DEF Phases
  <2>2. Begun(1)' = {}
    BY DEF Begun
  <2>3. 1 <= Len(Order')
    BY <1>1 DEF Order
  <2>4. \A i \in 1..4 : at'[Client] = <<"start", i>> => i = 1
    BY <1>4
  <2>5. at'[Client][1] = "start"
    BY <1>4
  <2>. QED BY <1>1, <1>5, <2>1, <2>2, <2>3, <2>4, <2>5 DEF Alone, Running, Gone, Phases
<1>9. Seen' /\ Ranged'
  BY <1>4 DEF Seen, Ranged, Gone
<1>10. Stack' /\ Stopped'
  <2>1. \A q : ~RunsOn(cpu, q)
    BY <1>1 DEF RunsOn
  <2>2. Stack'
    BY <1>1, <2>1 DEF Stack
  <2>3. Stopped'
    BY <1>2, <1>3, <1>4 DEF Stopped, Running
  <2>. QED BY <2>2, <2>3
<1>11. Calm'
  <2>1. ~RunsOn(cpu', Client)
    BY <1>1 DEF RunsOn
  <2>2. at'[Client] \notin Starting
    BY <1>4 DEF Starting
  <2>. QED BY <1>4, <2>1, <2>2 DEF Calm
<1>. QED BY <1>6, <1>7, <1>8, <1>9, <1>10, <1>11 DEF Typed

(* Where it starts a sensor, no event of its last run is in the queue.      *)
LEMMA QuietStart ==
  ASSUME IInv, Runs(Client), at[Client] \in Starting \cup Pausing
  PROVE  Quiet(events)
<1>1. cpu \in Seq(Frame) /\ cpu # <<>> /\ Head(cpu) = <<Client, "runs">>
  BY DEF IInv, Typed, CallsOK, Runs
<1>2. 1 \in 1..Len(cpu) /\ cpu[1] = Head(cpu)
  BY <1>1
<1>3. RunsOn(cpu, Client)
  BY <1>1, <1>2 DEF RunsOn
<1>. QED BY <1>3 DEF IInv, Calm

LEMMA StartSensorKeeps ==
  ASSUME IInv, StartSensor
  PROVE  IInv'
<1>. USE DEF IInv
<1>1. PICK i \in DOMAIN Order :
        /\ Runs(Client) /\ at[Client] = <<"start", i>>
        /\ Start(Order[i], IF i < Len(Order) THEN <<"start", i + 1>> ELSE <<"watch", 0>>)
        /\ completions' = completions \cup {Order[i]}
        /\ UNCHANGED <<ok, got, kind, now, msg>>
  BY DEF StartSensor, ClientAt
<1>. DEFINE p == Order[i]
            then == IF i < Len(Order) THEN <<"start", i + 1>> ELSE <<"watch", 0>>
<1>2. /\ Len(Order) \in 2..4 /\ i \in 1..Len(Order) /\ i \in 1..4
      /\ p \in Mine /\ Mine \subseteq Drivers /\ p \in Drivers
      /\ Mine = Begun(Len(Order) + 1)
      /\ \A j \in 1..Len(Order) : Order[j] = p => j = i
      /\ Begun(i + 1) = Begun(i) \cup {p}
      /\ kind = "water" => Len(Order) = 4 /\ Order[4] = "pic32"
  <2>1. kind \in {"water", "airborne"}
    BY DEF Typed, ClientOK
  <2>2. /\ Len(Order) \in 2..4 /\ DOMAIN Order = 1..Len(Order)
        /\ \A j \in 1..Len(Order) : Order[j] \in Mine
        /\ Mine \subseteq Drivers /\ Mine = Begun(Len(Order) + 1)
        /\ \A j, k \in 1..Len(Order) : Order[j] = Order[k] => j = k
        /\ \A j \in 1..Len(Order) : Begun(j + 1) = Begun(j) \cup {Order[j]}
        /\ kind = "water" => Len(Order) = 4 /\ Order[4] = "pic32"
    BY <2>1, Orders
  <2>3. i \in 1..Len(Order) /\ i \in 1..4
    BY <2>2
  <2>4. p \in Mine /\ p \in Drivers
    BY <2>2, <2>3
  <2>. QED BY <2>2, <2>3, <2>4
<1>3. completions = Begun(i) /\ p \notin Begun(i)
  <2>1. completions = Begun(i)
    BY <1>1, <1>2 DEF Alone
  <2>2. \A j \in 1..(i - 1) : Order[j] # p
    BY <1>2
  <2>. QED BY <2>1, <2>2 DEF Begun
<1>4. ~Running(p)
  BY <1>1, <1>2, <1>3 DEF Alone
<1>5. /\ then \in Place /\ then # Gone
      /\ then \in Starting /\ then \in Phases
  <2>1. CASE i < Len(Order)
    <3>1. i + 1 \in 2..4 /\ then = <<"start", i + 1>>
      BY <1>2, <2>1
    <3>2. <<"start", i + 1>> \in Place /\ <<"start", i + 1>> # Gone
      BY <3>1, Places DEF Names
    <3>3. <<"start", i + 1>> \in Starting /\ <<"start", i + 1>> \in Phases
      BY <3>1 DEF Starting, Phases
    <3>. QED BY <3>1, <3>2, <3>3
  <2>2. CASE ~(i < Len(Order))
    BY <2>2, Places DEF Names, Starting, Phases
  <2>. QED BY <2>1, <2>2
<1>6. then = <<"watch", 0>> \/ \E k \in 2..4 : k = i + 1 /\ i < Len(Order) /\ then = <<"start", k>>
  BY <1>2
<1>. HIDE DEF p, then
<1>7. Start(p, then) /\ completions' = completions \cup {p}
  BY <1>1 DEF p, then
<1>8. /\ CallsOK' /\ Stack' /\ Stopped' /\ events' = events
      /\ at'[p] = First(p) /\ at'[p] # Gone /\ at'[Client] = then
      /\ RunsOn(cpu', Client) /\ \A q \in Drivers \ {p} : at'[q] = at[q]
  BY <1>1, <1>2, <1>4, <1>5, <1>7, StartKeeps DEF Typed
<1>9. /\ kind' = kind /\ now' = now /\ msg' = msg /\ ok' = ok /\ got' = got
      /\ sem' = sem /\ Mine' = Mine /\ Order' = Order
      /\ \A k : Begun(k)' = Begun(k)
  BY <1>1, <1>7 DEF Start, Mine, Order, Begun
<1>10. Typed'
  <2>1. count' \in [Drivers -> -1..(Wrap - 1)] /\ Counted'
    BY <1>2, <1>7, <1>8, FirstCounted
  <2>2. DataOK'
    BY <1>9, <2>1 DEF Typed, DataOK
  <2>3. ClientOK'
    BY <1>2, <1>7, <1>9 DEF Typed, ClientOK
  <2>. QED BY <1>8, <2>1, <2>2, <2>3 DEF Typed
<1>11. Alone'
  <2>1. completions' = Begun(i + 1)
    BY <1>2, <1>3, <1>7
  <2>2. \A q \in Drivers : Running(q)' => q \in completions'
    <3>1. \A q \in Drivers \ {p} : Running(q)' => q \in completions
      BY <1>1, <1>8 DEF Alone, Running
    <3>. QED BY <1>7, <3>1
  <2>3. CASE then = <<"watch", 0>>
    <3>1. i = Len(Order)
      BY <1>2, <2>3 DEF then
    <3>2. completions' = Mine
      BY <1>2, <2>1, <3>1
    <3>3. /\ at'[Client] \in Phases /\ at'[Client] = <<"watch", 0>>
          /\ at'[Client][1] = "watch" /\ at'[Client] # Gone
      BY <1>5, <1>8, <2>3
    <3>. QED BY <1>9, <2>2, <3>2, <3>3 DEF Alone, Phases
  <2>4. ASSUME NEW k \in 2..4, k = i + 1, i < Len(Order), then = <<"start", k>>
        PROVE  Alone'
    <3>1. /\ at'[Client] \in Phases /\ at'[Client] = <<"start", k>>
          /\ at'[Client][1] = "start" /\ at'[Client] # Gone
          /\ \A j : at'[Client] = <<"start", j>> => j = k
      BY <1>5, <1>8, <2>4
    <3>2. k <= Len(Order')
      BY <1>2, <1>9, <2>4
    <3>. QED BY <1>9, <2>1, <2>2, <2>4, <3>1, <3>2 DEF Alone, Phases
  <2>. QED BY <1>6, <2>3, <2>4
<1>12. Seen'
  BY <1>6, <1>8 DEF Seen, Gone
<1>13. Ranged'
  <2>1. CASE then = <<"watch", 0>> /\ kind = "water"
    <3>1. p = "pic32"
      BY <1>2, <2>1 DEF then, p
    <3>2. at'["pic32"] = <<"ask", 0>>
      BY <1>8, <3>1 DEF First
    <3>. QED BY <3>2 DEF Ranged, Gone
  <2>2. CASE kind # "water"
    BY <1>9, <2>2 DEF Ranged
  <2>3. CASE then[1] = "start"
    BY <1>8, <2>3 DEF Ranged
  <2>. QED BY <1>6, <2>1, <2>2, <2>3
<1>14. Calm'
  <2>1. at[Client] \in Starting \cup Pausing
    BY <1>1, <1>2 DEF Starting, Pausing
  <2>3. Quiet(events)
    BY <1>1, <2>1, QuietStart
  <2>2. then \notin Pausing
    BY <1>6 DEF Pausing
  <2>. QED BY <1>5, <1>8, <2>2, <2>3 DEF Calm
<1>. QED BY <1>8, <1>10, <1>11, <1>12, <1>13, <1>14

LEMMA StartAmbientKeeps ==
  ASSUME IInv, StartAmbient
  PROVE  IInv'
<1>. USE DEF IInv
<1>. DEFINE p == "tcs3472"
            then == <<"color", 0>>
<1>1. /\ Runs(Client) /\ at[Client] = <<"ambient", 0>> /\ Start(p, then)
      /\ got' = [got EXCEPT !["color"] = 0] /\ ok' = [ok EXCEPT ![p] = FALSE]
      /\ UNCHANGED measureVars
  BY DEF StartAmbient, ClientAt, Fills, Reports
<1>2. kind = "water" /\ completions = {} /\ \A q \in Drivers : ~Running(q)
  BY <1>1 DEF Alone
<1>3. p \in Drivers /\ then \in Place /\ then # Gone /\ then \in Phases
  BY Places DEF Names, Drivers, Phases
<1>4. /\ CallsOK' /\ Stack' /\ Stopped' /\ events' = events
      /\ at'[p] = First(p) /\ at'[p] # Gone /\ at'[Client] = then
      /\ \A q \in Drivers \ {p} : at'[q] = at[q]
  BY <1>1, <1>2, <1>3, StartKeeps DEF Typed
<1>5. /\ kind' = kind /\ now' = now /\ msg' = msg /\ completions' = completions
      /\ sem' = sem /\ Mine' = Mine
  BY <1>1 DEF Start, Mine, measureVars
<1>6. \A f \in Fields \ {"color"} : got'[f] = got[f]
  BY <1>1 DEF Typed, DataOK
<1>7. Typed'
  <2>1. count' \in [Drivers -> -1..(Wrap - 1)] /\ Counted'
    BY <1>1, <1>3, <1>4, FirstCounted
  <2>2. got' \in [Fields -> 0..now] /\ ok' \in [Drivers -> BOOLEAN]
    BY <1>1, NowType DEF Typed, DataOK
  <2>3. DataOK' /\ ClientOK'
    BY <1>5, <2>1, <2>2 DEF Typed, DataOK, ClientOK
  <2>. QED BY <1>4, <2>1, <2>3 DEF Typed
<1>8. Alone'
  <2>1. /\ at'[Client] = <<"color", 0>> /\ at'[Client][1] = "color"
        /\ at'[Client] # Gone /\ at'[Client] \in Phases
    BY <1>3, <1>4
  <2>2. \A q \in Drivers : Running(q)' => q = p
    BY <1>2, <1>4 DEF Running
  <2>. QED BY <1>2, <1>5, <2>1, <2>2 DEF Alone, Phases
<1>9. Seen'
  <2>1. \A q \in Mine \ completions : Copied(q)
    BY <1>1 DEF Seen
  <2>2. \A q \in Mine : \A f \in FieldsOf(q) \ {"val", "color"} : f \in Fields \ {"color"}
    BY OwnFields DEF Mine, Drivers
  <2>3. \A q \in Mine \ completions : Copied(q)'
    BY <1>5, <1>6, <2>1, <2>2 DEF Copied
  <2>. QED BY <1>4, <1>5, <2>3 DEF Seen, Gone
<1>10. Ranged'
  <2>1. \A i \in Ranges : RangeField[i] \in Fields \ {"color"}
    <3>1. \A i \in Ranges : RangeField[i] \notin FieldsOf(p)
      BY <1>3, RangeFields, OwnFields DEF Drivers
    <3>. QED BY <3>1, RangeFields DEF FieldsOf
  <2>2. \A i \in Ranges : got'[RangeField[i]] = got[RangeField[i]]
    BY <1>6, <2>1
  <2>3. at'["pic32"] = at["pic32"] /\ ok'["pic32"] = ok["pic32"]
    BY <1>1, <1>4 DEF Typed, DataOK, Drivers
  <2>4. \A i \in Ranges : \A j \in 1..(i - 1) : j \in Ranges
    BY Constants DEF Ranges
  <2>. QED BY <1>1, <1>5, <2>2, <2>3, <2>4 DEF Ranged
<1>11. Calm'
  BY <1>4 DEF Calm, Starting, Pausing
<1>. QED BY <1>4, <1>7, <1>8, <1>9, <1>10, <1>11

(* The client goes on, waits or ends, and looks at the sensors.             *)
LEMMA ClientMoves ==
  ASSUME IInv, Runs(Client), Moves(Client), at[Client][1] # "start",
         UNCHANGED <<count, sem, ok, got, kind, now>>,
         completions' \subseteq completions, msg' \in [Reported -> 0..now]
  PROVE  /\ Typed' /\ Stack' /\ Stopped' /\ Ranged'
         /\ \A p \in Drivers : at'[p] = at[p]
<1>1. CallsOK' /\ Stack' /\ Stopped' /\ Others(Client)
  BY MoveKeeps, Constants DEF IInv, Typed
<1>2. \A p \in Drivers : at'[p] = at[p]
  BY <1>1, Constants DEF Others
<1>3. DataOK' /\ ClientOK' /\ Counted'
  <2>1. DataOK' /\ Counted'
    BY <1>2 DEF IInv, Typed, DataOK, Counted, Drivers
  <2>2. ClientOK'
    BY DEF IInv, Typed, ClientOK, Mine
  <2>. QED BY <2>1, <2>2
<1>4. Ranged'
  BY <1>2 DEF IInv, Ranged, Drivers
<1>. QED BY <1>1, <1>2, <1>3, <1>4 DEF Typed

LEMMA StartWatchKeeps ==
  ASSUME IInv, StartWatch
  PROVE  IInv'
<1>1. /\ Runs(Client) /\ at[Client] = <<"watch", 0>>
      /\ Yields(Client, <<"look", 0>>, IF kind = "water" THEN "any" ELSE "timer", Watch)
      /\ UNCHANGED <<count, sem, ok, got, kind, now, completions, msg>>
  BY DEF StartWatch, ClientAt, Look, loopVars, measureVars
<1>2. <<"look", 0>> \in Place /\ <<"look", 0>> # Gone /\ Watch \in Nat
  BY Places, Constants DEF Names
<1>3. Moves(Client)
  BY <1>1, <1>2 DEF Moves
<1>4. at'[Client] = <<"look", 0>>
  BY <1>1, Constants DEF Yields, IInv, Typed, CallsOK
<1>5. /\ Typed' /\ Stack' /\ Stopped' /\ Ranged'
      /\ \A p \in Drivers : at'[p] = at[p]
  BY <1>1, <1>3, ClientMoves DEF IInv, Typed, ClientOK
<1>6. completions = Mine /\ \A p \in Drivers : Running(p) => p \in completions
  BY <1>1 DEF IInv, Alone
<1>7. Alone'
  <2>1. at'[Client][1] = "look" /\ at'[Client] # Gone /\ at'[Client] \in Phases
    BY <1>2, <1>4 DEF Phases
  <2>. QED BY <1>1, <1>4, <1>5, <1>6, <2>1 DEF Alone, Phases, Running
<1>8. Seen'
  BY <1>1, <1>2, <1>4, <1>6 DEF Seen, Mine
<1>9. Calm'
  BY <1>4 DEF Calm, Starting, Pausing
<1>. QED BY <1>5, <1>7, <1>8, <1>9 DEF IInv

LEMMA LookAroundKeeps ==
  ASSUME IInv, LookAround
  PROVE  IInv'
<1>. DEFINE ended == {p \in completions : ~Running(p)}
            what == IF kind = "water" THEN "any" ELSE "timer"
            t == IF Expired(Client) THEN Watch ELSE timers[Client]
<1>1. /\ Runs(Client) /\ at[Client] = <<"look", 0>>
      /\ completions' = completions \ ended /\ msg' = Taken(ended)
      /\ \/ Yields(Client, <<"look", 0>>, what, t)
         \/ /\ completions = ended /\ kind = "water"
            /\ Yields(Client, <<"ambient", 0>>, "timer", Pause)
         \/ completions = ended /\ kind # "water" /\ Ends(Client)
      /\ UNCHANGED <<count, sem, ok, got, kind, now>>
  BY DEF LookAround, ClientAt, Look, Finish, loopVars
<1>2. /\ at \in [Procs -> Place] /\ until \in [Procs -> {"timer", "any"}]
      /\ timers \in [Procs -> Nat \cup {Off}] /\ Client \in Procs
      /\ completions \subseteq Mine /\ Mine \subseteq Drivers
      /\ msg \in [Reported -> 0..now] /\ got \in [Fields -> 0..now]
  BY Constants DEF IInv, Typed, CallsOK, DataOK, ClientOK, ContikiTypeOK, Mine, Drivers
<1>3. what \in {"timer", "any"} /\ t \in Nat \cup {Off}
  BY <1>2, Constants
<1>. HIDE DEF what, t
<1>4. Moves(Client)
  <2>1. /\ <<"look", 0>> \in Place /\ <<"look", 0>> # Gone
        /\ <<"ambient", 0>> \in Place /\ <<"ambient", 0>> # Gone
        /\ Pause \in Nat
    BY Places, Constants DEF Names
  <2>. QED BY <1>1, <1>3, <2>1 DEF Moves
<1>5. /\ msg' \in [Reported -> 0..now]
      /\ \A f \in Reported :
           msg'[f] = IF \E p \in ended : f \in FieldsOf(p) THEN got[f] ELSE msg[f]
  <2>. HIDE DEF ended
  <2>1. \A f \in Reported : msg'[f] = IF \E p \in ended : f \in FieldsOf(p) THEN got[f] ELSE msg[f]
    BY <1>1 DEF Taken
  <2>2. ended \subseteq Drivers
    BY <1>2 DEF ended
  <2>3. \A f \in Reported : msg'[f] \in 0..now
    BY <1>2, <2>1, <2>2, OwnFields
  <2>. QED BY <1>1, <2>1, <2>3 DEF Taken
<1>6. /\ Typed' /\ Stack' /\ Stopped' /\ Ranged'
      /\ \A p \in Drivers : at'[p] = at[p]
  BY <1>1, <1>4, <1>5, ClientMoves
<1>7. \A p \in Drivers : Running(p) => p \in completions'
  <2>1. \A p \in Drivers : Running(p) => p \in completions
    BY <1>1 DEF IInv, Alone
  <2>. QED BY <1>1, <2>1
<1>8. \/ at'[Client] = <<"look", 0>>
      \/ at'[Client] = <<"ambient", 0>> /\ kind = "water" /\ completions' = {}
      \/ at'[Client] = Gone /\ kind # "water" /\ completions' = {}
  BY <1>1, <1>2 DEF Yields, Ends
<1>9. Alone'
  BY <1>1, <1>6, <1>7, <1>8 DEF Alone, Phases, Running, Gone
<1>10. Seen'
  <2>1. ASSUME NEW p \in Mine \ completions'
        PROVE  Copied(p)'
    <3>1. \A f \in FieldsOf(p) \ {"val", "color"} : f \in Reported
      BY <1>2, OwnFields DEF Reported
    <3>2. CASE p \in ended
      BY <1>1, <1>5, <3>1, <3>2 DEF Copied
    <3>3. CASE p \notin ended
      <4>1. p \in Mine \ completions
        BY <1>1, <2>1, <3>3
      <4>2. Copied(p)
        BY <1>1, <4>1 DEF IInv, Seen
      <4>. HIDE DEF ended
      <4>. QED BY <1>1, <1>5, <3>1, <4>2 DEF Copied
    <3>. QED BY <3>2, <3>3
  <2>2. Mine' = Mine
    BY <1>1 DEF Mine
  <2>. QED BY <1>1, <1>8, <2>1, <2>2 DEF Seen, Gone
<1>11. Calm'
  <2>1. ASSUME Yields(Client, <<"ambient", 0>>, "timer", Pause)
        PROVE  /\ until'[Client] = "timer" /\ timers'[Client] > 0
               /\ ~RunsOn(cpu', Client)
    <3>1. cpu \in Seq(Frame) /\ cpu # <<>> /\ Head(cpu) = <<Client, "runs">> /\ StackOf(cpu)
      BY <1>1 DEF IInv, Typed, CallsOK, Runs, Stack
    <3>2. ~RunsOn(Tail(cpu), Head(cpu)[1]) /\ Head(cpu)[1] = Client
      BY <3>1, Popped
    <3>3. cpu' = Tail(cpu) /\ until'[Client] = "timer" /\ timers'[Client] = Pause
      BY <1>2, <2>1 DEF Yields, Set
    <3>. QED BY <3>2, <3>3, Constants
  <2>2. at'[Client] = <<"ambient", 0>> => Yields(Client, <<"ambient", 0>>, "timer", Pause)
    BY <1>1, <1>2 DEF Yields, Ends, Gone
  <2>. QED BY <1>8, <2>1, <2>2 DEF Calm, Starting, Pausing, Gone
<1>. QED BY <1>6, <1>9, <1>10, <1>11 DEF IInv

LEMMA AwaitAmbientKeeps ==
  ASSUME IInv, AwaitAmbient
  PROVE  IInv'
<1>1. /\ Runs(Client) /\ at[Client] = <<"color", 0>>
      /\ \/ YieldsOnly(Client, <<"color", 0>>) /\ msg' = msg
         \/ /\ ~Running("tcs3472") /\ Ends(Client)
            /\ msg' = [msg EXCEPT !["ambient"] = got["color"]]
      /\ UNCHANGED <<count, sem, ok, got, kind, now, completions>>
  BY DEF AwaitAmbient, ClientAt, Finish, loopVars
<1>2. /\ at \in [Procs -> Place] /\ timers \in [Procs -> Nat \cup {Off}]
      /\ Client \in Procs /\ msg \in [Reported -> 0..now]
      /\ got["color"] \in 0..now /\ "ambient" \in Reported
  BY Constants, OwnFields
     DEF IInv, Typed, CallsOK, DataOK, ClientOK, ContikiTypeOK, Reported, FieldsOf, Drivers
<1>3. Moves(Client)
  <2>1. <<"color", 0>> \in Place /\ <<"color", 0>> # Gone
    BY Places DEF Names
  <2>2. timers[Client] \in Nat \cup {Off}
    BY <1>2
  <2>. QED BY <1>1, <2>1, <2>2 DEF Moves, YieldsOnly
<1>4. msg' \in [Reported -> 0..now]
  BY <1>1, <1>2
<1>5. /\ Typed' /\ Stack' /\ Stopped' /\ Ranged'
      /\ \A p \in Drivers : at'[p] = at[p]
  BY <1>1, <1>3, <1>4, ClientMoves
<1>6. kind = "water" /\ completions = {} /\ \A p \in Drivers : Running(p) => p = "tcs3472"
  BY <1>1 DEF IInv, Alone
<1>7. \/ at'[Client] = <<"color", 0>>
      \/ at'[Client] = Gone /\ msg'["ambient"] = got["color"] /\ ~Running("tcs3472")
  BY <1>1, <1>2 DEF YieldsOnly, Yields, Ends
<1>8. Alone'
  BY <1>1, <1>5, <1>6, <1>7 DEF Alone, Phases, Running, Gone
<1>9. Seen'
  <2>1. \A f \in Reported \ {"ambient"} : msg'[f] = msg[f]
    BY <1>1, <1>2
  <2>2. \A p \in Mine : \A f \in FieldsOf(p) \ {"val", "color"} : f \in Reported \ {"ambient"}
    <3>1. "ambient" \notin Fields
      <4>1. \A i \in Ranges : RangeField[i] # "ambient"
        BY Constants DEF Ranges, RangeField
      <4>. QED BY <4>1 DEF Fields, FieldsOf, Drivers
    <3>. QED BY <3>1, OwnFields DEF Reported, Mine, Drivers
  <2>3. \A p \in Mine \ completions : Copied(p)
    BY <1>1 DEF IInv, Seen
  <2>4. \A p \in Mine \ completions : Copied(p)'
    BY <1>1, <2>1, <2>2, <2>3 DEF Copied
  <2>. QED BY <1>1, <1>7, <2>4 DEF Seen, Mine, Gone
<1>10. Calm'
  BY <1>7 DEF Calm, Starting, Pausing, Gone
<1>. QED BY <1>5, <1>8, <1>9, <1>10 DEF IInv

-----------------------------------------------------------------------------
LEMMA InitIInv == Init => IInv
<1>. SUFFICES ASSUME Init PROVE IInv
  OBVIOUS
<1>1. /\ cpu = <<>> /\ at = [p \in Procs |-> Gone] /\ until = [p \in Procs |-> "timer"]
      /\ sem = 1 /\ count = [p \in Drivers |-> 0] /\ ok = [p \in Drivers |-> FALSE]
      /\ got = [f \in Fields |-> 0] /\ events = <<>> /\ timers = [p \in Procs |-> Off]
      /\ kind \in {"water", "airborne"} /\ now = 0 /\ completions = {}
      /\ msg = [f \in Reported |-> 0]
  BY DEF Init, SensorsInit, ContikiInit
<1>2. Gone \in Place
  BY Places DEF Names, Gone
<1>3. \A p \in Procs : at[p] = Gone
  BY <1>1
<1>4. Typed
  <2>1. CallsOK
    BY <1>1, <1>2 DEF CallsOK, ContikiTypeOK
  <2>2. DataOK
    BY <1>1, Constants DEF DataOK
  <2>3. ClientOK
    BY <1>1 DEF ClientOK
  <2>4. Counted
    BY <1>3, Constants DEF Counted, Drivers, Gone
  <2>. QED BY <2>1, <2>2, <2>3, <2>4 DEF Typed
<1>5. Alone
  BY <1>1, <1>3, Constants DEF Alone, Running, Phases, Gone
<1>6. Seen /\ Ranged
  BY <1>1, <1>3, Constants DEF Seen, Ranged, Gone
<1>7. Stack /\ Stopped
  BY <1>1 DEF Stack, StackOf, RunsOn, Stopped
<1>8. Calm
  BY <1>3, Constants DEF Calm, Starting, Pausing, Gone
<1>. QED BY <1>4, <1>5, <1>6, <1>7, <1>8 DEF IInv

LEMMA NextIInv == IInv /\ [Next]_vars => IInv'
<1>. SUFFICES ASSUME IInv, [Next]_vars PROVE IInv'
  OBVIOUS
<1>1. CASE UNCHANGED vars
  BY <1>1 DEF vars, sensorVars, waitVars, kernelVars, loopVars, measureVars, IInv,
     Typed, CallsOK, ContikiTypeOK, DataOK, ClientOK, Counted, Alone, Begun, Order,
     Mine, Phases, Running, Seen, Copied, Ranged, Stack, Stopped, Calm
<1>2. CASE SensorStep(now) /\ UNCHANGED measureVars
  BY <1>2, DriverKeeps
<1>. QED BY <1>1, <1>2, BeginKeeps, KernelKeeps, StartSensorKeeps, StartWatchKeeps,
     LookAroundKeeps, StartAmbientKeeps, AwaitAmbientKeeps DEF Next, Step, ClientStep

LEMMA Invariance == Spec => []IInv
BY InitIInv, NextIInv, PTL DEF Spec

(* Every variable is within its type, whatever the number of registers, the *)
(* bounds of the loops and the number of faults: a counter stays within its *)
(* int or its uint16_t, and no path of a driver leaves the semaphore of the *)
(* bus taken.                                                               *)
THEOREM TypesHold == Spec => []TypeOK
<1>1. IInv => TypeOK
  BY DEF IInv, Typed, CallsOK, DataOK, ClientOK, TypeOK, Mine, Drivers
<1>. QED BY <1>1, Invariance, PTL

(* When pic32_proc reports success, the ranges of the message are all of    *)
(* this measurement, for any number of ranges.                              *)
THEOREM RangesAreHonest == Spec => []RangesHonest
<1>1. ASSUME IInv, AtEnd, kind = "water", ok["pic32"], NEW i \in Ranges
      PROVE  msg[RangeField[i]] = now
  <2>1. at[Client] = Gone /\ now > 0 /\ at[Client][1] # "start" /\ completions = {}
    BY <1>1 DEF AtEnd, Running, IInv, Alone, Gone
  <2>2. at["pic32"] = Gone
    <3>1. at[Client] # <<"color", 0>> /\ "pic32" \in Drivers
      BY <2>1 DEF Gone, Drivers
    <3>. QED BY <1>1, <2>1, <3>1 DEF IInv, Alone, Running
  <2>3. got[RangeField[i]] = now
    BY <1>1, <2>1, <2>2 DEF IInv, Ranged
  <2>4. Copied("pic32")
    BY <1>1, <2>1 DEF IInv, Seen, Mine
  <2>5. RangeField[i] \in FieldsOf("pic32") \ {"val", "color"}
    <3>1. RangeField[i] \notin {"val", "color"}
      BY Constants DEF Ranges, RangeField
    <3>. QED BY <3>1, RangeFields
  <2>. QED BY <2>3, <2>4, <2>5 DEF Copied
<1>2. IInv => RangesHonest
  BY <1>1 DEF RangesHonest
<1>. QED BY <1>2, Invariance, PTL

(* A finished message holds what every sensor process of the node left in   *)
(* its buffer, and none of them still runs, in whatever order they ended.   *)
THEOREM MessageIsCollected == Spec => []Collected
<1>1. ASSUME IInv, AtEnd, NEW i \in DOMAIN Order
      PROVE  /\ ~Running(Order[i])
             /\ \A f \in FieldsOf(Order[i]) \ {"val"} :
                  msg[IF f = "color" THEN "ambient" ELSE f] = got[f]
  <2>1. at[Client] = Gone /\ now > 0 /\ completions = {}
    BY <1>1 DEF AtEnd, Running, IInv, Alone
  <2>2. kind \in {"water", "airborne"}
    BY <1>1 DEF IInv, Typed, ClientOK
  <2>3. Order[i] \in Mine /\ Order[i] \in Drivers
    BY <1>1, <2>2, Orders
  <2>4. ~Running(Order[i])
    BY <1>1, <2>1, <2>3 DEF IInv, Alone, Gone
  <2>5. Copied(Order[i])
    BY <1>1, <2>1, <2>3 DEF IInv, Seen
  <2>6. ASSUME "color" \in FieldsOf(Order[i])
        PROVE  msg["ambient"] = got["color"]
    <3>1. Order[i] = "tcs3472"
      BY <2>3, <2>6, OwnFields DEF FieldsOf, Drivers
    <3>2. kind = "water"
      BY <2>3, <3>1 DEF Mine
    <3>. QED BY <1>1, <2>1, <3>2 DEF IInv, Seen
  <2>. QED BY <2>4, <2>5, <2>6 DEF Copied
<1>2. IInv => Collected
  BY <1>1 DEF Collected
<1>. QED BY <1>2, Invariance, PTL

(* No sensor process is started while a timer event of its last run is in   *)
(* the queue: send_data_proc starts a sensor only when it was woken by its  *)
(* own etimer, which expired while no sensor ran.                           *)
THEOREM SensorsStartClean == Spec => StartsClean
<1>1. ASSUME IInv, [Next]_vars, NEW p \in Drivers, at[p] = Gone, at'[p] # Gone
      PROVE  ~Pending(p, "TIMER")
  <2>0. ~Running(p) /\ Typed /\ CallsOK /\ Stack /\ Stopped
    BY <1>1 DEF IInv, Typed, Running
  <2>1. CASE SensorStep(now) /\ UNCHANGED measureVars
    <3>1. PICK q \in Drivers : Local(q)
      BY <2>0, <2>1, DriverStep DEF Drivers
    <3>2. p # q
      BY <2>0, <3>1 DEF Local
    <3>3. at'[p] = at[p]
      BY <2>0, <3>1, <3>2, Constants, MovesOthers DEF Local
    <3>. QED BY <1>1, <3>3
  <2>2. CASE KernelStep \/ UNCHANGED vars
    BY <1>1, <2>2 DEF KernelStep, Resume, Hears, Resumed, vars, sensorVars, waitVars
  <2>3. CASE StartSensor \/ StartAmbient
    <3>1. Runs(Client) /\ at[Client] \in Starting \cup Pausing
      <4>1. CASE StartAmbient
        BY <4>1 DEF StartAmbient, ClientAt, Pausing
      <4>2. CASE StartSensor
        <5>1. PICK i \in DOMAIN Order : Runs(Client) /\ at[Client] = <<"start", i>>
          BY <4>2 DEF StartSensor, ClientAt
        <5>2. i \in 1..4
          BY <1>1, <5>1, Orders DEF IInv, Typed, ClientOK
        <5>. QED BY <5>1, <5>2 DEF Starting, Pausing
      <4>. QED BY <2>3, <4>1, <4>2
    <3>2. Quiet(events)
      BY <1>1, <3>1, QuietStart
    <3>. QED BY <3>2 DEF Quiet, Pending
  <2>4. CASE Begin \/ StartWatch \/ LookAround \/ AwaitAmbient
    <3>1. \A q \in Procs \ {Client} : at'[q] = at[q]
      BY <2>0, <2>4 DEF CallsOK, Begin, StartWatch, LookAround, AwaitAmbient, Look,
         Finish, YieldsOnly, Yields, Ends
    <3>. QED BY <1>1, <3>1, Constants
  <2>. QED BY <1>1, <2>1, <2>2, <2>3, <2>4 DEF Next, Step, ClientStep
<1>2. IInv /\ [Next]_vars =>
        [\A p \in Drivers : (at[p] = Gone /\ at'[p] # Gone) => ~Pending(p, "TIMER")]_vars
  BY <1>1
<1>. QED BY <1>2, Invariance, PTL DEF Spec, StartsClean
=============================================================================
