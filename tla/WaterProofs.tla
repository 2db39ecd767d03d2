---------------------------- MODULE WaterProofs ----------------------------
(***************************************************************************)
(* Theorems about WaterNode, for every set of sensors, every interval,     *)
(* every number of attempts and every limit of failures.                   *)
(***************************************************************************)
EXTENDS WaterNode, NodeProofs

USE DEF Off

-----------------------------------------------------------------------------
LEMMA MainInv ==
  ASSUME NodeInv, MainStep
  PROVE  NodeInv'
<1>1. CASE MainWait
  <2>1. PICK e \in Kinds :
          /\ Receives(Main, e)
          /\ \/ sequence < MaxSeq /\ StartCal(Tail(events))
             \/ sequence < MaxSeq /\ StartData(Tail(events))
             \/ NodeIgnores(Tail(events))
    BY <1>1 DEF MainWait
  <2>2. e # "done"
    BY <1>1, <2>1, ReceivedPending DEF MainWait, NodeInv, Turn
  <2>3. Tail(events) \in Seq(Event) /\ Same(events, Tail(events))
    BY <2>1, <2>2, TailSame DEF NodeInv, ContikiTypeOK
  <2>. QED BY <1>1, <2>1, <2>3, StartInv, IgnoresKept DEF MainWait
<1>2. CASE MainCalDone
  BY <1>2, TakeResultInv DEF MainCalDone, NodeInv, Places
<1>3. CASE MainDataDone
  BY <1>3, TakeResultInv DEF MainDataDone, NodeInv, Places, configVars
<1>4. CASE MainBusy \/ Gone
  BY <1>4, MainIgnoresInv
<1>. QED BY <1>1, <1>2, <1>3, <1>4 DEF MainStep

(* The steps of the data process that are the water node's own. *)
LEMMA WaterDataInv ==
  ASSUME NodeInv, DataReading \/ DataPaused \/ DataColor
  PROVE  NodeInv'
<1>. DEFINE q == Tail(events)
<1>0. /\ SenderOK /\ Places
      /\ timers \in [Procs -> Nat \cup {Off}]
      /\ Settle \in Nat /\ Watch \in Nat
  BY NodeAssumption DEF NodeInv, ContikiTypeOK
<1>1. q \in Seq(Event) /\ Same(events, q)
  BY Taken, Processes DEF DataReading, DataPaused, DataColor, Kinds
<1>. HIDE DEF q
<1>2. CASE NodeIgnores(q)
  BY <1>1, <1>2, IgnoresKept
<1>3. CASE DataReading /\ ~NodeIgnores(q)
  <2>1. \/ DataGoes("pause", Settle, {}, q)
        \/ DataGoes("reading", Watch, running, q)
    BY <1>3 DEF DataReading, q
  <2>2. data # "idle" /\ running \in SUBSET Sensors /\ {} \in SUBSET Sensors
    BY <1>0, <1>3 DEF DataReading, Places
  <2>. QED BY <1>0, <1>1, <2>1, <2>2, DataGoesInv
<1>4. CASE DataPaused /\ ~NodeIgnores(q)
  <2>1. /\ data # "idle" /\ data' = "color" /\ running' \subseteq Sensors
        /\ events' = q \/ events' = ExitSender(Tell(q, Data))
        /\ UNCHANGED <<timers, messengerVars, main, result, calVars, data_msg,
                       data_rc, configVars, sequence, failure_counter,
                       boundVars>>
    BY <1>4, WaterAssumption DEF DataPaused, q
  <2>2. SenderOK'
    BY <1>0, <2>1, SenderKept DEF messengerVars
  <2>3. events' \in Seq(Event) /\ Same(events, events')
    <3>1. Tell(q, Data) \in Seq(Event) /\ Same(q, Tell(q, Data))
      BY <1>1, TellSame, Processes
    <3>2. /\ ExitSender(Tell(q, Data)) \in Seq(Event)
          /\ Same(Tell(q, Data), ExitSender(Tell(q, Data)))
      BY <3>1, ExitSame
    <3>. QED BY <1>1, <2>1, <3>1, <3>2, SameTrans
  <2>. QED BY <1>0, <2>1, <2>2, <2>3, DataKept
<1>5. CASE DataColor /\ ~NodeIgnores(q)
  <2>1. DataSubmit(q) /\ data # "idle"
    BY <1>5 DEF DataColor, q
  <2>. QED BY <1>0, <1>1, <2>1, DataSendInv DEF DataSubmit
<1>. QED BY <1>2, <1>3, <1>4, <1>5

LEMMA NodeInductive ==
  ASSUME NodeInv, [Next]_vars
  PROVE  NodeInv'
<1>1. CASE UNCHANGED vars
  <2>1. SenderOK'
    BY <1>1, SenderKept DEF NodeInv, vars, messengerVars
  <2>. QED BY <1>1, <2>1, NodeKept, SameRefl
       DEF vars, NodeInv, ContikiTypeOK, kernelVars
<1>2. CASE Next
  <2>1. CASE SenderStep \/ AckStep \/ ServerStep \/ KernelStep
    BY <2>1, SenderInv, EnvironmentInv
  <2>2. CASE MainStep \/ CalStep \/ CommandStep
    BY <2>2, MainInv, CalInv, CommandInv
  <2>3. CASE DataStep
    BY <2>3, DataInv, WaterDataInv DEF DataStep
  <2>4. CASE Reboot(TRUE) \/ \E s \in Sensors : SensorEnds(s)
    BY <2>4, RebootInv, SensorInv
  <2>. QED BY <1>2, <2>1, <2>2, <2>3, <2>4 DEF Next
<1>. QED BY <1>1, <1>2

LEMMA NodeAlways == Spec => []NodeInv
<1>1. Init => NodeInv
  BY InitNode DEF Init
<1>2. NodeInv /\ [Next]_vars => NodeInv'
  BY NodeInductive
<1>. QED BY <1>1, <1>2, PTL DEF Spec

(* The variables keep their types: no counter leaves its range, and what    *)
(* the sender and the processes hold are messages.                          *)
THEOREM TypesHold == Spec => []TypeOK
<1>1. NodeInv => TypeOK
  BY NodeInvImplies DEF TypeOK
<1>. QED BY <1>1, NodeAlways, PTL

(* The main process of the water node is never left waiting for an event    *)
(* that does not come, and never finds one that was left behind.            *)
THEOREM NeverLeftWaiting == Spec => []DoneComes
<1>1. NodeInv => DoneComes
  BY NodeInvImplies
<1>. QED BY <1>1, NodeAlways, PTL

-----------------------------------------------------------------------------
LEMMA FirstInductive ==
  ASSUME MaxSeq <= SeqMod, NodeInv, FirstBoot, [Next]_vars
  PROVE  FirstBoot'
<1>1. CASE UNCHANGED vars
  BY <1>1, FirstKeptAll DEF vars, nodeVars, boundVars, dataVars, Ahead
<1>2. CASE SenderStep \/ AckStep \/ ServerStep \/ CalStep \/ Reboot(TRUE)
  BY <1>2, FirstSender, FirstAck, FirstServer, FirstCal, FirstReboot
<1>3. CASE MainStep
  <2>1. ASSUME NEW q, NodeIgnores(q)
        PROVE  FirstBoot'
    BY <2>1, FirstKeptAll DEF NodeIgnores, nodeVars, boundVars, dataVars, Ahead
  <2>2. CASE MainWait
    BY <2>1, <2>2, FirstStart DEF MainWait
  <2>3. CASE MainCalDone \/ MainDataDone
    BY <2>3, FirstKeptAll
    DEF MainCalDone, MainDataDone, boundVars, dataVars, Ahead
  <2>. QED BY <1>3, <2>2, <2>3, FirstOther DEF MainStep
<1>4. CASE DataReading \/ DataPaused \/ DataColor
  <2>. DEFINE q == Tail(events)
  <2>1. CASE DataSubmit(q) /\ data = "color"
    BY <2>1, FirstDataSend DEF DataSubmit, boundVars, Ahead
  <2>2. CASE Ahead /\ UNCHANGED <<messengerVars, boots, sequence, data_msg>>
    BY <2>2, FirstKeptAll
  <2>. QED BY <1>4, <2>1, <2>2
       DEF DataReading, DataPaused, DataColor, DataGoes, NodeIgnores,
           nodeVars, boundVars, dataVars, Ahead
<1>5. CASE KernelStep \/ CommandStep \/ \E s \in Sensors : SensorEnds(s)
  BY <1>5, FirstOther
<1>6. CASE DataSettled \/ DataAnswered \/ DataOther
  BY <1>6, FirstOther
<1>. QED BY <1>1, <1>2, <1>3, <1>4, <1>5, <1>6 DEF Next, DataStep

(* The counter of failures, on which the reboot hangs, counts failures in a *)
(* row: as long as no sequence number of the boot comes twice, and until    *)
(* the first reboot, it goes back to zero only for a message that arrived.  *)
THEOREM CountsFailuresInARow ==
  ASSUME MaxSeq <= SeqMod
  PROVE  Spec => FailuresInARow
<1>. DEFINE Inv == NodeInv /\ FirstBoot
<1>1. Init => Inv
  BY InitNode, FirstInit DEF Init
<1>2. Inv /\ [Next]_vars => Inv'
  BY NodeInductive, FirstInductive
<1>3. Inv /\ [Next]_vars =>
        [failure_counter' < failure_counter /\ boots' = 0 =>
           current_data \in received]_vars
  <2>. SUFFICES ASSUME NodeInv, FirstBoot, Next,
                       failure_counter' < failure_counter, boots' = 0
                PROVE  current_data \in received
    OBVIOUS
  <2>1. failure_counter \in Nat /\ boots \in Nat
    BY NodeAssumption DEF NodeInv, Places
  <2>2. ~Reboot(TRUE)
    BY <2>1 DEF Reboot
  <2>3. CASE CalStep \/ DataSettled \/ DataAnswered \/ DataOther
    <3>1. boots = 0
      BY <2>3
      DEF CalStep, CalSettled, CalAnswered, CalOther, CalSubmit, CalFinish,
          DataSettled, DataAnswered, DataOther, DataFinish, DataGoes,
          NodeIgnores, nodeVars, boundVars
    <3>. QED BY <2>3, <3>1, FailuresFall
  <2>4. CASE UNCHANGED failure_counter
    BY <2>1, <2>4
  <2>5. CASE SenderStep \/ AckStep \/ ServerStep \/ KernelStep
             \/ CommandStep \/ \E s \in Sensors : SensorEnds(s)
    BY <2>4, <2>5
    DEF SenderStep, AckStep, ServerStep, KernelStep, CommandStep,
        SetCalibration, SkipCal, RequestRun, SerialLine, SensorEnds, nodeVars
  <2>6. CASE MainStep
    BY <2>4, <2>6
    DEF MainStep, MainWait, MainCalDone, MainDataDone, MainBusy, Gone,
        StartCal, StartData, NodeIgnores, nodeVars
  <2>7. CASE DataReading \/ DataPaused \/ DataColor
    BY <2>4, <2>7
    DEF DataReading, DataPaused, DataColor, DataSubmit, DataGoes,
        NodeIgnores, nodeVars
  <2>. QED BY <2>2, <2>3, <2>5, <2>6, <2>7 DEF Next, DataStep
<1>. QED BY <1>1, <1>2, <1>3, PTL DEF Spec, FailuresInARow

-----------------------------------------------------------------------------
(* The ticks after which the sender gives up at the latest. *)
Rounds(k) == (MaxAttempts - 1 - k) * RetryDelay

Remaining ==
  Rounds(current_attempt) + (IF timers[Sender] = Off THEN 0 ELSE timers[Sender])

Deadline ==
  IF Pending(Sender, "start") THEN MaxAttempts * RetryDelay ELSE Remaining

(* The etimer of p outlasts the sender. *)
Outlasts(p) == timers[p] > 0 /\ timers[p] > Deadline

Owner(p) == send_started /\ requestor = p

(* The process that sends the calibration is there for the answer to its   *)
(* message; an answer that is still queued finds it with time left, or is  *)
(* not taken for another one.                                              *)
CalAnswer ==
  /\ Owner(Cal) => cal = "await" /\ Outlasts(Cal)
  /\ Pending(Cal, "MSG") =>
       \/ cal = "await" /\ ~send_started /\ timers[Cal] > 0
       \/ cal = "settle" /\ timers[Cal] > 0
       \/ cal = "idle"

(* The process that sends the data has no etimer and may leave before the  *)
(* answer comes.  Then the send failed for the main process, which waits    *)
(* long enough before it starts the next one.                              *)
DataAnswer ==
  /\ Owner(Data) =>
       \/ data = "await" /\ current_data = data_msg
       \/ /\ data = "idle"
          /\ main = "wait" => Outlasts(Main)
          /\ main = "cal" => cal # "idle" /\ (cal = "await" => Outlasts(Cal))
          /\ main = "data" => ~data_rc
  /\ Pending(Data, "MSG") =>
       \/ data = "await" /\ ~send_started /\ current_data = data_msg
       \/ data = "idle" /\ (main = "wait" => timers[Main] > 0)

Wakes ==
  /\ ~Pending(Main, "run") /\ runs = 0
  /\ timers[Sender] <= RetryDelay
  /\ NoStall

Answers == CalAnswer /\ DataAnswer /\ Wakes

LEMMA RoundsArithmetic ==
  ASSUME NEW k \in 0..MaxAttempts - 1
  PROVE  /\ Rounds(k) \in Nat
         /\ k + 1 <= MaxAttempts - 1 => Rounds(k + 1) + RetryDelay = Rounds(k)
         /\ Rounds(0) + RetryDelay = MaxAttempts * RetryDelay
         /\ Rounds(k) + RetryDelay <= MaxAttempts * RetryDelay
<1>. MaxAttempts \in Nat \ {0} /\ RetryDelay \in Nat \ {0}
  BY MessengerAssumption
<1>1. \A a \in Nat, b \in Nat, r \in Nat :
        a * r \in Nat /\ (a + b) * r = a * r + b * r /\ 1 * r = r
  OBVIOUS
<1>2. MaxAttempts - 1 - k \in Nat /\ MaxAttempts - 1 \in Nat /\ k \in Nat
  OBVIOUS
<1>3. ASSUME k + 1 <= MaxAttempts - 1
      PROVE  (MaxAttempts - 1 - (k + 1)) * RetryDelay + RetryDelay
                = (MaxAttempts - 1 - k) * RetryDelay
  <2>1. MaxAttempts - 1 - (k + 1) \in Nat
    BY <1>3
  <2>2. (MaxAttempts - 1 - (k + 1)) + 1 = MaxAttempts - 1 - k
    OBVIOUS
  <2>. QED BY <1>1, <2>1, <2>2
<1>4. (MaxAttempts - 1 - 0) * RetryDelay + RetryDelay = MaxAttempts * RetryDelay
  <2>1. MaxAttempts - 1 - 0 = MaxAttempts - 1 /\ (MaxAttempts - 1) + 1 = MaxAttempts
    OBVIOUS
  <2>. QED BY <1>1, <1>2, <2>1
<1>5. (MaxAttempts - 1 - k) * RetryDelay + RetryDelay <= MaxAttempts * RetryDelay
  <2>1. (MaxAttempts - 1 - k) + (k + 1) = MaxAttempts
    OBVIOUS
  <2>2. (k + 1) * RetryDelay = k * RetryDelay + RetryDelay
        /\ k * RetryDelay \in Nat
    BY <1>1, <1>2
  <2>3. MaxAttempts * RetryDelay
          = (MaxAttempts - 1 - k) * RetryDelay + (k + 1) * RetryDelay
    <3>1. k + 1 \in Nat
      BY <1>2
    <3>. QED BY <1>1, <1>2, <2>1, <3>1
  <2>4. (MaxAttempts - 1 - k) * RetryDelay \in Nat
    BY <1>1, <1>2
  <2>. QED BY <2>2, <2>3, <2>4
<1>. QED BY <1>1, <1>2, <1>3, <1>4, <1>5 DEF Rounds

(* A send ends within the time its attempts take. *)
LEMMA DeadlineBound ==
  ASSUME NodeInv, send_started, timers[Sender] <= RetryDelay
  PROVE  Deadline \in Nat /\ Deadline <= MaxAttempts * RetryDelay
<1>1. current_attempt \in 0..MaxAttempts - 1
  BY MessengerAssumption DEF NodeInv, SenderOK, SenderTypeOK, Busy
<1>2. timers[Sender] \in Nat \cup {-1}
  BY Processes DEF NodeInv, ContikiTypeOK
<1>. DEFINE k == Rounds(current_attempt)
            all == MaxAttempts * RetryDelay
<1>3. k \in Nat /\ RetryDelay \in Nat /\ k + RetryDelay <= all /\ all \in Int
  BY <1>1, RoundsArithmetic, MessengerAssumption
<1>4. Deadline = IF Pending(Sender, "start") THEN all
                 ELSE k + (IF timers[Sender] = -1 THEN 0 ELSE timers[Sender])
  BY DEF Deadline, Remaining
<1>. HIDE DEF k, all
<1>5. Deadline \in Nat /\ Deadline <= all
  BY <1>2, <1>3, <1>4
<1>. QED BY <1>5 DEF all

-----------------------------------------------------------------------------
(* Which events are in a queue after a call. *)
LEMMA HasPosted ==
  ASSUME NEW q \in Seq(Event), NEW p \in Procs, NEW e \in Kinds, NEW r, NEW f
  PROVE  Has(Post(q, p, e), r, f) <=> Has(q, r, f) \/ (r = p /\ f = e)
<1>. DEFINE x == [to |-> p, ev |-> e]
            s == Append(q, x)
<1>1. x \in Event
  BY DEF Event
<1>2. x = [to |-> r, ev |-> f] <=> r = p /\ f = e
  OBVIOUS
<1>. HIDE DEF x
<1>3. /\ Len(s) = Len(q) + 1 /\ Len(q) \in Nat
      /\ \A i \in 1..Len(q) : s[i] = q[i]
      /\ s[Len(q) + 1] = x
  BY <1>1, AppendProperties
<1>. HIDE DEF s
<1>4. Has(s, r, f) <=> Has(q, r, f) \/ x = [to |-> r, ev |-> f]
  <2>1. \A i \in 1..Len(s) : i \in 1..Len(q) \/ i = Len(q) + 1
    BY <1>3
  <2>2. /\ \A i \in 1..Len(q) : i \in 1..Len(s)
        /\ Len(q) + 1 \in 1..Len(s)
    BY <1>3
  <2>. QED BY <1>3, <2>1, <2>2 DEF Has
<1>. QED BY <1>2, <1>4 DEF Post, s, x

LEMMA HasTold ==
  ASSUME NEW q \in Seq(Event), NEW p \in Procs, NEW r, NEW f
  PROVE  Has(Tell(q, p), r, f) <=> Has(q, r, f) \/ (r = p /\ f = "EXITED")
<1>. DEFINE x == [to |-> p, ev |-> "EXITED"]
            s == <<x>> \o q
<1>1. x \in Event
  BY DEF Event, Kinds
<1>2. x = [to |-> r, ev |-> f] <=> r = p /\ f = "EXITED"
  OBVIOUS
<1>. HIDE DEF x
<1>3. <<x>> \in Seq(Event) /\ Len(<<x>>) = 1 /\ <<x>>[1] = x
  BY <1>1
<1>4. /\ Len(s) = 1 + Len(q) /\ Len(q) \in Nat
      /\ s[1] = x
      /\ \A i \in 2..Len(s) : s[i] = q[i - 1]
  BY <1>3, ConcatProperties
<1>. HIDE DEF s
<1>5. Has(s, r, f) <=> Has(q, r, f) \/ x = [to |-> r, ev |-> f]
  <2>1. \A i \in 1..Len(s) : i = 1 \/ (i \in 2..Len(s) /\ i - 1 \in 1..Len(q))
    BY <1>4
  <2>2. /\ 1 \in 1..Len(s)
        /\ \A i \in 1..Len(q) : i + 1 \in 1..Len(s) /\ s[i + 1] = q[i]
    BY <1>4
  <2>. QED BY <1>4, <2>1, <2>2 DEF Has
<1>. QED BY <1>2, <1>5 DEF Tell, s, x

LEMMA HasTaken ==
  ASSUME events \in Seq(Event), NEW p, NEW e, Receives(p, e), NEW r, NEW f
  PROVE  Pending(r, f) <=> Has(Tail(events), r, f) \/ (r = p /\ f = e)
<1>. DEFINE s == Tail(events)
            y == [to |-> r, ev |-> f]
<1>1. events # <<>> /\ Head(events) = [to |-> p, ev |-> e]
  BY DEF Receives
<1>2. /\ Len(s) = Len(events) - 1 /\ Len(events) \in Nat \ {0}
      /\ \A i \in 1..Len(s) : s[i] = events[i + 1]
      /\ events[1] = [to |-> p, ev |-> e]
  BY <1>1, TailProperties
<1>3. events[1] = y <=> r = p /\ f = e
  BY <1>2
<1>. HIDE DEF s, y
<1>4. (\E i \in 1..Len(events) : events[i] = y)
        <=> (\E i \in 1..Len(s) : s[i] = y) \/ events[1] = y
  <2>1. \A i \in 1..Len(events) :
          i = 1 \/ (i - 1 \in 1..Len(s) /\ s[i - 1] = events[i])
    BY <1>2
  <2>2. /\ 1 \in 1..Len(events)
        /\ \A i \in 1..Len(s) : i + 1 \in 1..Len(events)
    BY <1>2
  <2>. QED BY <1>2, <2>1, <2>2
<1>. QED BY <1>3, <1>4 DEF Pending, Has, s, y

(* The queue r holds the events that the answers depend on as q does. *)
Alike(q, r) ==
  /\ \A p \in {Cal, Data} : Has(r, p, "MSG") => Has(q, p, "MSG")
  /\ Has(r, Sender, "start") <=> Has(q, Sender, "start")
  /\ Has(r, Main, "run") => Has(q, Main, "run")
  /\ Has(q, Sender, "TIMER") => Has(r, Sender, "TIMER")

LEMMA AlikeTrans ==
  ASSUME NEW q, NEW r, NEW s, Alike(q, r), Alike(r, s)
  PROVE  Alike(q, s)
BY DEF Alike

LEMMA PostAlike ==
  ASSUME NEW q \in Seq(Event), NEW p \in Procs,
         NEW e \in Kinds \ {"MSG", "start", "run"}
  PROVE  Post(q, p, e) \in Seq(Event) /\ Alike(q, Post(q, p, e))
<1>1. Post(q, p, e) \in Seq(Event)
  BY DEF Post, Event
<1>. QED BY <1>1, HasPosted DEF Alike

LEMMA TellAlike ==
  ASSUME NEW q \in Seq(Event), NEW p \in Procs
  PROVE  Tell(q, p) \in Seq(Event) /\ Alike(q, Tell(q, p))
BY TellSame, HasTold DEF Alike

LEMMA ExitAlike ==
  ASSUME NEW q \in Seq(Event)
  PROVE  ExitSender(q) \in Seq(Event) /\ Alike(q, ExitSender(q))
<1>1. Tell(q, Main) \in Seq(Event) /\ Alike(q, Tell(q, Main))
  BY TellAlike, Processes
<1>2. Alike(Tell(q, Main), ExitSender(q)) /\ ExitSender(q) \in Seq(Event)
  BY <1>1, TellAlike, Processes DEF ExitSender
<1>. QED BY <1>1, <1>2, AlikeTrans

(* An event that is not for the sender is taken. *)
LEMMA TakenAlike ==
  ASSUME NodeInv, NEW p \in Procs \ {Sender}, \E e \in Kinds : Receives(p, e)
  PROVE  Tail(events) \in Seq(Event) /\ Alike(events, Tail(events))
<1>1. PICK e \in Kinds : Receives(p, e)
  OBVIOUS
<1>2. events \in Seq(Event) /\ events # <<>>
  BY <1>1 DEF NodeInv, ContikiTypeOK, Receives
<1>3. \A r, f : Pending(r, f) <=> Has(Tail(events), r, f) \/ (r = p /\ f = e)
  BY <1>1, <1>2, HasTaken
<1>. QED BY <1>2, <1>3, TailProperties DEF Alike, Pending

-----------------------------------------------------------------------------
(* A step that starts and ends no send. *)
LEMMA AnswersLater ==
  ASSUME NodeInv, Answers, Wakes',
         send_started' <=> send_started,
         UNCHANGED <<requestor, current_data, main, cal, data_msg, data_rc>>,
         data' = data \/ (Ahead /\ Ahead'),
         send_started => Deadline' \in Nat /\ Deadline' <= Deadline,
         timers'[Cal] = timers[Cal], timers'[Main] = timers[Main],
         Pending(Cal, "MSG")' => Pending(Cal, "MSG"),
         Pending(Data, "MSG")' => Pending(Data, "MSG")
  PROVE  Answers'
<1>1. \A p \in {Cal, Main} : timers[p] \in Nat \cup {-1}
  BY Processes DEF NodeInv, ContikiTypeOK
<1>2. send_started => Deadline \in Nat
  BY DeadlineBound DEF Answers, Wakes
<1>3. \A p \in {Cal, Main} : send_started /\ Outlasts(p) => Outlasts(p)'
  BY <1>1, <1>2 DEF Outlasts
<1>4. CalAnswer'
  BY <1>3 DEF Answers, CalAnswer, Owner
<1>5. DataAnswer'
  <2>1. CASE data' = data
    BY <1>3, <2>1 DEF Answers, DataAnswer, Owner
  <2>2. CASE Ahead /\ Ahead'
    BY <2>2 DEF Answers, DataAnswer, Owner, Ahead
  <2>. QED BY <2>1, <2>2
<1>. QED BY <1>4, <1>5 DEF Answers

(* A step that does not concern the sender. *)
LEMMA WakesKept ==
  ASSUME Wakes, Alike(events, events'), runs' = runs,
         send_started' = send_started, timers'[Sender] = timers[Sender]
  PROVE  Wakes'
BY DEF Wakes, NoStall, Alike, Pending

LEMMA DeadlineKept ==
  ASSUME Alike(events, events'), current_attempt' = current_attempt,
         timers'[Sender] = timers[Sender]
  PROVE  Deadline' = Deadline
BY DEF Deadline, Remaining, Alike, Pending

LEMMA AnswersKept ==
  ASSUME NodeInv, Answers, Alike(events, events'),
         UNCHANGED <<send_started, requestor, current_data, current_attempt,
                     main, cal, data_msg, data_rc, runs>>,
         data' = data \/ (Ahead /\ Ahead'),
         \A p \in {Cal, Main, Sender} : timers'[p] = timers[p]
  PROVE  Answers'
<1>1. Wakes'
  BY WakesKept DEF Answers
<1>2. Deadline' = Deadline
  BY DeadlineKept
<1>3. send_started => Deadline' \in Nat /\ Deadline' <= Deadline
  BY <1>2, DeadlineBound DEF Answers, Wakes
<1>4. /\ Pending(Cal, "MSG")' => Pending(Cal, "MSG")
      /\ Pending(Data, "MSG")' => Pending(Data, "MSG")
  BY DEF Alike, Pending
<1>. QED BY <1>1, <1>3, <1>4, AnswersLater

LEMMA AnswersIgnore ==
  ASSUME NodeInv, Answers, NEW q, Alike(events, q), NodeIgnores(q)
  PROVE  Answers'
BY AnswersKept
DEF NodeIgnores, messengerVars, senderVars, nodeVars, calVars, dataVars,
    boundVars

(* The sender ends a send and tells who asked for it. *)
LEMMA SendEnds ==
  ASSUME NodeInv, Answers, NEW q \in Seq(Event), send_started, ~send_started',
         events' = Post(q, requestor, "MSG"),
         \A p, e : Has(q, p, e) => Pending(p, e),
         timers' = Stop(Sender),
         UNCHANGED <<requestor, current_data, main, cal, data, data_msg,
                     data_rc, runs>>
  PROVE  Answers'
<1>1. requestor \in {Cal, Data} /\ requestor \in Procs /\ "MSG" \in Kinds
  BY Processes DEF NodeInv, SenderOK, Busy, Kinds
<1>2. \A p, e : Pending(p, e)' => Pending(p, e) \/ (p = requestor /\ e = "MSG")
  BY <1>1, HasPosted DEF Pending
<1>3. /\ timers'[Cal] = timers[Cal] /\ timers'[Main] = timers[Main]
      /\ timers'[Sender] = -1
  BY Processes DEF NodeInv, ContikiTypeOK, Stop
<1>4. Wakes'
  BY <1>2, <1>3, MessengerAssumption DEF Answers, Wakes, NoStall
<1>5. CalAnswer'
  BY <1>1, <1>2, <1>3, Processes DEF Answers, CalAnswer, Owner, Outlasts
<1>6. DataAnswer'
  BY <1>1, <1>2, <1>3, Processes DEF Answers, DataAnswer, Owner, Outlasts
<1>. QED BY <1>4, <1>5, <1>6 DEF Answers

LEMMA SenderAnswers ==
  ASSUME NodeInv, Answers, SenderStep
  PROVE  Answers'
<1>. USE MessengerAssumption
<1>. DEFINE q == Tail(events)
<1>0. /\ timers \in [Procs -> Nat \cup {-1}]
      /\ timers[Sender] \in Nat \cup {-1} /\ RetryDelay \in Nat \ {0}
  BY DEF NodeInv, ContikiTypeOK
<1>1. PICK e \in Kinds : Receives(Sender, e)
  BY DEF SenderStep, SenderStart, SenderFin, SenderOther, Kinds
<1>2. events \in Seq(Event) /\ events # <<>> /\ q \in Seq(Event)
  BY <1>1, TailProperties DEF NodeInv, ContikiTypeOK, Receives
<1>3. \A r, f : Pending(r, f) <=> Has(q, r, f) \/ (r = Sender /\ f = e)
  BY <1>1, <1>2, HasTaken
<1>4. UNCHANGED <<requestor, current_data, main, cal, data, data_msg, data_rc,
                  runs>>
  BY DEF SenderStep, SenderStart, SenderFin, SenderOther, OnStart, OnFin,
         OnOther, nodeVars, calVars, dataVars, boundVars
<1>5. timers'[Cal] = timers[Cal] /\ timers'[Main] = timers[Main]
  BY <1>0, Processes
  DEF SenderStep, SenderStart, SenderFin, SenderOther, OnStart, OnFin,
      OnOther, GiveUp, Resend, Set, Stop
<1>6. /\ ~Has(q, Main, "run")
      /\ Has(q, Cal, "MSG") => Pending(Cal, "MSG")
      /\ Has(q, Data, "MSG") => Pending(Data, "MSG")
  BY <1>3 DEF Answers, Wakes
<1>. HIDE DEF q
<1>7. ASSUME events' = q, ~send_started, ~send_started',
             timers' = timers \/ timers' = Stop(Sender)
      PROVE  Answers'
  <2>1. timers'[Sender] <= RetryDelay
    BY <1>0, <1>7 DEF Stop, Answers, Wakes
  <2>2. Wakes'
    BY <1>4, <1>6, <1>7, <2>1 DEF Wakes, Answers, NoStall, Pending
  <2>3. /\ Pending(Cal, "MSG")' => Pending(Cal, "MSG")
        /\ Pending(Data, "MSG")' => Pending(Data, "MSG")
    BY <1>6, <1>7 DEF Pending
  <2>. QED BY <1>4, <1>5, <1>7, <2>2, <2>3, AnswersLater
<1>8. ASSUME send_started, send_started', events' = q,
             timers'[Sender] \in Nat, timers'[Sender] <= RetryDelay,
             Deadline' \in Nat, Deadline' <= Deadline
      PROVE  Answers'
  <2>1. Wakes'
    BY <1>4, <1>6, <1>8 DEF Wakes, Answers, NoStall, Pending
  <2>2. /\ Pending(Cal, "MSG")' => Pending(Cal, "MSG")
        /\ Pending(Data, "MSG")' => Pending(Data, "MSG")
    BY <1>6, <1>8 DEF Pending
  <2>. QED BY <1>4, <1>5, <1>8, <2>1, <2>2, AnswersLater
<1>9. send_started => /\ current_attempt \in 0..MaxAttempts - 1
                      /\ Deadline \in Nat
                      /\ Deadline <= MaxAttempts * RetryDelay
  BY DeadlineBound DEF NodeInv, SenderOK, SenderTypeOK, Busy, Answers, Wakes
<1>10. CASE SenderStart
  <2>1. events' = q /\ send_started' = send_started
    BY <1>10 DEF SenderStart, OnStart, q
  <2>2. CASE send_started
    <3>1. current_attempt' = 0 /\ timers'[Sender] = RetryDelay
      BY <1>0, <1>10, <2>2 DEF SenderStart, OnStart, Set
    <3>2. Deadline = MaxAttempts * RetryDelay
      <4>1. Pending(Sender, "start")
        BY <1>2, <1>10, HasTaken DEF SenderStart
      <4>. QED BY <4>1 DEF Deadline
    <3>3. Remaining' = MaxAttempts * RetryDelay
      <4>1. 0 \in 0..MaxAttempts - 1
        OBVIOUS
      <4>2. Rounds(0) + RetryDelay = MaxAttempts * RetryDelay
        BY <4>1, RoundsArithmetic
      <4>. QED BY <1>0, <3>1, <4>2 DEF Remaining
    <3>4. Deadline' = Deadline
      BY <3>2, <3>3 DEF Deadline
    <3>. QED BY <1>0, <1>8, <1>9, <2>1, <2>2, <3>1, <3>4
  <2>3. CASE ~send_started
    <3>1. timers' = timers
      BY <1>10, <2>3 DEF SenderStart, OnStart
    <3>. QED BY <1>7, <2>1, <2>3, <3>1
  <2>. QED BY <2>2, <2>3
<1>11. CASE SenderFin
  <2>1. CASE send_started
    BY <1>2, <1>3, <1>4, <1>11, <2>1, SendEnds DEF SenderFin, OnFin, q
  <2>2. CASE ~send_started
    BY <1>7, <1>11, <2>2 DEF SenderFin, OnFin, q
  <2>. QED BY <2>1, <2>2
<1>12. CASE SenderOther
  <2>0. e # "start"
    BY <1>1, <1>12 DEF SenderOther, Receives
  <2>1. OnOther(q)
    BY <1>12 DEF SenderOther, q
  <2>2. CASE send_started /\ GiveUp(q)
    BY <1>2, <1>3, <1>4, <2>2, SendEnds DEF GiveUp
  <2>3. CASE /\ send_started /\ Expired(Sender)
             /\ current_attempt + 1 < MaxAttempts /\ Resend(q)
    <3>1. /\ timers[Sender] = -1 /\ timers'[Sender] = RetryDelay
          /\ current_attempt' = current_attempt + 1
          /\ events' = q /\ send_started' = send_started
      BY <1>0, <2>3 DEF Resend, Expired, Set
    <3>2. /\ current_attempt \in 0..MaxAttempts - 1
          /\ current_attempt + 1 <= MaxAttempts - 1
      BY <1>9, <2>3
    <3>3. Remaining' = Remaining
      <4>1. /\ Rounds(current_attempt + 1) + RetryDelay = Rounds(current_attempt)
            /\ Rounds(current_attempt) \in Nat
        BY <3>2, RoundsArithmetic
      <4>2. Remaining' = Rounds(current_attempt + 1) + RetryDelay
        BY <1>0, <3>1 DEF Remaining
      <4>3. Remaining = Rounds(current_attempt)
        BY <3>1, <4>1 DEF Remaining
      <4>. QED BY <4>1, <4>2, <4>3
    <3>4. Pending(Sender, "start")' <=> Pending(Sender, "start")
      BY <1>3, <2>0, <3>1 DEF Pending
    <3>5. Deadline' = Deadline
      BY <3>3, <3>4 DEF Deadline
    <3>. QED BY <1>0, <1>8, <1>9, <2>3, <3>1, <3>5
  <2>4. CASE /\ ~(Expired(Sender) /\ send_started)
             /\ events' = q
             /\ UNCHANGED <<current_attempt, send_started, timers>>
    <3>1. CASE ~send_started
      BY <1>7, <2>4, <3>1
    <3>2. CASE send_started
      <4>1. timers'[Sender] \in Nat /\ timers'[Sender] <= RetryDelay
        BY <1>0, <2>4, <3>2 DEF Expired, Answers, Wakes
      <4>2. Pending(Sender, "start")' <=> Pending(Sender, "start")
        BY <1>3, <2>0, <2>4 DEF Pending
      <4>3. Deadline' = Deadline
        BY <2>4, <4>2 DEF Deadline, Remaining
      <4>. QED BY <1>8, <1>9, <2>4, <3>2, <4>1, <4>3
    <3>. QED BY <3>1, <3>2
  <2>5. current_attempt + 1 < MaxAttempts \/ current_attempt + 1 >= MaxAttempts
    BY DEF NodeInv, SenderOK, SenderTypeOK
  <2>. QED BY <2>1, <2>2, <2>3, <2>4, <2>5 DEF OnOther
<1>. QED BY <1>10, <1>11, <1>12 DEF SenderStep

LEMMA KernelAnswers ==
  ASSUME NodeInv, Answers, KernelStep
  PROVE  Answers'
<1>0. /\ events \in Seq(Event) /\ timers \in [Procs -> Nat \cup {-1}]
      /\ \A p \in {Cal, Main, Sender} : p \in Procs
                                        /\ timers[p] \in Nat \cup {-1}
  BY Processes DEF NodeInv, ContikiTypeOK
<1>1. UNCHANGED <<send_started, requestor, current_data, current_attempt, main,
                  cal, data, data_msg, data_rc, runs>>
  BY DEF KernelStep, messengerVars, senderVars, nodeVars, calVars, dataVars,
         boundVars
<1>2. send_started => /\ current_attempt \in 0..MaxAttempts - 1
                      /\ Deadline \in Nat
  BY DeadlineBound, MessengerAssumption
  DEF NodeInv, SenderOK, SenderTypeOK, Busy, Answers, Wakes
<1>3. ASSUME NEW p \in Procs, TimerPoll(p)
      PROVE  Answers'
  <2>0. /\ events' = Post(events, p, "TIMER")
        /\ timers[p] = 0 /\ timers' = [timers EXCEPT ![p] = -1]
    BY <1>3 DEF TimerPoll, Stop
  <2>1. Alike(events, events')
    BY <1>0, <2>0, PostAlike DEF Kinds
  <2>2. \A r, f : Pending(r, f)' <=> Pending(r, f) \/ (r = p /\ f = "TIMER")
    <3>. "TIMER" \in Kinds
      BY DEF Kinds
    <3>. QED BY <1>0, <2>0, HasPosted DEF Pending
  <2>3. Remaining' = Remaining
    BY <1>0, <1>1, <2>0 DEF Remaining
  <2>4. Deadline' = Deadline
    BY <2>2, <2>3 DEF Deadline
  <2>5. Wakes'
    <3>1. timers'[Sender] <= RetryDelay
      BY <1>0, <2>0, MessengerAssumption DEF Answers, Wakes
    <3>2. NoStall'
      BY <1>0, <1>1, <2>0, <2>2 DEF Answers, Wakes, NoStall
    <3>. QED BY <1>1, <2>2, <3>1, <3>2 DEF Answers, Wakes
  <2>6. ASSUME NEW r \in {Cal, Main}
        PROVE  Outlasts(r) /\ send_started => Outlasts(r)'
    BY <1>0, <1>2, <2>0, <2>4 DEF Outlasts
  <2>7. ASSUME NEW r \in {Cal, Main}
        PROVE  timers[r] > 0 => timers'[r] > 0
    BY <1>0, <2>0
  <2>8. CalAnswer'
    BY <1>1, <2>2, <2>6, <2>7 DEF Answers, CalAnswer, Owner
  <2>9. DataAnswer'
    BY <1>1, <2>2, <2>6, <2>7 DEF Answers, DataAnswer, Owner
  <2>. QED BY <2>5, <2>8, <2>9 DEF Answers
<1>4. CASE Tick
  <2>0. /\ events = <<>> /\ events' = events
        /\ timers[Sender] # 0
        /\ \A p \in Procs : timers'[p] = IF timers[p] = -1 THEN -1
                                                           ELSE timers[p] - 1
    BY <1>0, <1>4 DEF Tick
  <2>1. \A p, e : ~Pending(p, e) /\ ~Pending(p, e)'
    BY <2>0 DEF Pending, Has
  <2>2. Wakes'
    <3>1. timers'[Sender] <= RetryDelay
      BY <1>0, <2>0, MessengerAssumption DEF Answers, Wakes
    <3>2. NoStall'
      BY <1>0, <1>1, <2>0, <2>1 DEF Answers, Wakes, NoStall
    <3>. QED BY <1>1, <2>1, <3>1, <3>2 DEF Answers, Wakes
  <2>3. ASSUME send_started, NEW r \in {Cal, Main}, Outlasts(r)
        PROVE  Outlasts(r)'
    <3>. DEFINE k == Rounds(current_attempt)
    <3>1. k \in Nat
      BY <1>2, <2>3, RoundsArithmetic
    <3>2. timers[Sender] \in Nat \ {0}
      BY <1>0, <2>0, <2>1, <2>3 DEF Answers, Wakes, NoStall
    <3>3. Deadline = k + timers[Sender]
      BY <2>1, <3>2 DEF Deadline, Remaining
    <3>4. timers'[Sender] = timers[Sender] - 1 /\ timers'[Sender] \in Nat
      BY <1>0, <2>0, <3>2
    <3>5. Deadline' = k + timers'[Sender]
      BY <1>1, <2>1, <3>4 DEF Deadline, Remaining
    <3>. HIDE DEF k
    <3>6. timers[r] > k + timers[Sender] /\ timers[r] \in Nat
      BY <1>0, <2>3, <3>3 DEF Outlasts
    <3>7. timers'[r] = timers[r] - 1
      BY <1>0, <2>0, <3>6
    <3>. QED BY <3>1, <3>2, <3>4, <3>5, <3>6, <3>7 DEF Outlasts
  <2>4. CalAnswer'
    BY <1>1, <2>1, <2>3 DEF Answers, CalAnswer, Owner
  <2>5. DataAnswer'
    BY <1>1, <2>1, <2>3 DEF Answers, DataAnswer, Owner
  <2>. QED BY <2>2, <2>4, <2>5 DEF Answers
<1>. QED BY <1>3, <1>4 DEF KernelStep

(* Acknowledgements, servers, commands, sensors and the reboot. *)
LEMMA OutsideAnswers ==
  ASSUME NodeInv, Answers, MaxRuns = 0,
         \/ AckStep \/ ServerStep \/ CommandStep \/ Reboot(TRUE)
         \/ \E s \in Sensors : SensorEnds(s)
         \/ UNCHANGED vars
  PROVE  Answers'
<1>0. events \in Seq(Event) /\ timers \in [Procs -> Nat \cup {-1}]
  BY DEF NodeInv, ContikiTypeOK
<1>1. Alike(events, events)
  BY DEF Alike
<1>2. CASE AckStep
  <2>1. PICK a \in acks : AckArrives(a)
    BY <1>2 DEF AckStep
  <2>2. Alike(events, events')
    BY <1>0, <2>1, PostAlike, Processes DEF AckArrives, Kinds
  <2>. QED BY <1>2, <2>1, <2>2, AnswersKept
           DEF AckStep, AckArrives, nodeVars, calVars, dataVars, boundVars
<1>3. CASE ServerStep \/ UNCHANGED vars
  BY <1>1, <1>3, AnswersKept
  DEF ServerStep, ServerReceives, senderVars, messengerVars, kernelVars, vars,
      nodeVars, calVars, dataVars, boundVars
<1>4. CASE SetCalibration \/ SkipCal
  BY <1>1, <1>4, AnswersKept
  DEF SetCalibration, SkipCal, kernelVars, messengerVars, senderVars, calVars, dataVars,
      boundVars
<1>5. CASE RequestRun
  BY <1>5 DEF RequestRun, Answers, Wakes
<1>6. CASE SerialLine
  <2>. "line" \in Kinds \ {"MSG", "start", "run"}
    BY DEF Kinds
  <2>1. PICK q : /\ \/ q = Post(events, Cal, "line")
                    \/ q = Post(events, Data, "line")
                    \/ q = events
                 /\ events' = Post(Post(q, Sender, "line"), Main, "line")
    BY <1>6 DEF SerialLine
  <2>2. q \in Seq(Event) /\ Alike(events, q)
    BY <1>0, <1>1, <2>1, PostAlike, Processes
  <2>3. /\ Post(q, Sender, "line") \in Seq(Event)
        /\ Alike(q, Post(q, Sender, "line"))
    BY <2>2, PostAlike, Processes
  <2>4. Alike(Post(q, Sender, "line"), events')
    BY <2>1, <2>3, PostAlike, Processes
  <2>5. Alike(events, events')
    BY <2>2, <2>3, <2>4, AlikeTrans
  <2>. QED BY <1>6, <2>5, AnswersKept
           DEF SerialLine, messengerVars, senderVars, calVars, dataVars
<1>7. ASSUME NEW s \in Sensors, SensorEnds(s)
      PROVE  Answers'
  <2>1. ExitSender(events) \in Seq(Event) /\ Alike(events, ExitSender(events))
    BY <1>0, ExitAlike
  <2>2. Alike(ExitSender(events), events')
    BY <1>7, <2>1, TellAlike, Processes DEF SensorEnds
  <2>3. Alike(events, events')
    BY <2>1, <2>2, AlikeTrans
  <2>. QED BY <1>7, <2>3, AnswersKept
           DEF SensorEnds, messengerVars, senderVars, calVars, boundVars
<1>8. CASE Reboot(TRUE)
  <2>1. /\ ~send_started' /\ \A p, e : ~Pending(p, e)'
        /\ runs' = runs /\ timers'[Sender] = -1
    BY <1>8, Processes DEF Reboot, Pending, Has, AtBoot
  <2>. QED BY <2>1, MessengerAssumption
           DEF Answers, CalAnswer, DataAnswer, Wakes, NoStall, Owner
<1>. QED BY <1>2, <1>3, <1>4, <1>5, <1>6, <1>7, <1>8 DEF CommandStep

-----------------------------------------------------------------------------
(* A process hands its message over, or the sender refuses it. *)
LEMMA SubmitWakes ==
  ASSUME NodeInv, Answers, NEW p, NEW m, NEW q \in Seq(Event),
         Alike(events, q), MessengerSend(p, m, q), runs' = runs,
         timers'[Sender] = timers[Sender]
  PROVE  Wakes'
<1>0. "start" \in Kinds /\ Sender \in Procs
  BY Processes DEF Kinds
<1>1. CASE send_started
  <2>1. events' = q /\ send_started' = send_started
    BY <1>1 DEF MessengerSend, senderVars
  <2>. QED BY <2>1, WakesKept DEF Answers
<1>2. CASE ~send_started
  <2>1. events' = Post(q, Sender, "start")
    BY <1>2 DEF MessengerSend
  <2>2. \A r, f : Pending(r, f)' <=> Has(q, r, f) \/ (r = Sender /\ f = "start")
    BY <1>0, <2>1, HasPosted DEF Pending
  <2>3. Pending(Sender, "start")' /\ ~Pending(Main, "run")'
    BY <2>2, Processes DEF Answers, Wakes, Alike, Pending
  <2>. QED BY <2>3 DEF Answers, Wakes, NoStall
<1>. QED BY <1>1, <1>2

LEMMA MainAnswers ==
  ASSUME RetryInterval > MaxAttempts * RetryDelay, NodeInv, Answers, MainStep
  PROVE  Answers'
<1>. DEFINE q == Tail(events)
<1>0. /\ events \in Seq(Event) /\ timers \in [Procs -> Nat \cup {-1}]
      /\ {Settle, SensorInterval, RetryInterval} \subseteq Nat \ {0}
      /\ MaxAttempts * RetryDelay \in Int
  BY NodeAssumption, MessengerAssumption DEF NodeInv, ContikiTypeOK
<1>1. \E p \in {Main, Cal, Data}, e \in Kinds : Receives(p, e)
  BY DEF MainStep, MainWait, MainCalDone, MainDataDone, MainBusy, Gone, Kinds
<1>2. q \in Seq(Event) /\ Alike(events, q)
  BY <1>1, TakenAlike, Processes
<1>. HIDE DEF q
<1>3. CASE NodeIgnores(q)
  BY <1>2, <1>3, AnswersIgnore
<1>4. ASSUME events' = q, timers'[Sender] = timers[Sender],
             UNCHANGED <<send_started, current_attempt, runs>>
      PROVE  /\ Wakes' /\ Deadline' = Deadline
             /\ send_started => /\ Deadline \in Nat
                                /\ Deadline <= MaxAttempts * RetryDelay
             /\ Pending(Cal, "MSG")' => Pending(Cal, "MSG")
             /\ Pending(Data, "MSG")' => Pending(Data, "MSG")
  BY <1>2, <1>4, WakesKept, DeadlineKept, DeadlineBound
  DEF Answers, Wakes, Alike, Pending
<1>5. CASE main = "wait" /\ StartCal(q)
  <2>1. /\ events' = q /\ timers' = Set(Cal, Settle)
        /\ UNCHANGED <<send_started, requestor, current_data, current_attempt,
                       data, data_msg, data_rc, runs>>
        /\ main' = "cal" /\ cal' = "settle"
    BY <1>5 DEF StartCal, messengerVars, senderVars, dataVars, boundVars
  <2>2. timers'[Sender] = timers[Sender] /\ timers'[Cal] = Settle
    BY <1>0, <2>1, Processes DEF Set
  <2>3. cal = "idle" /\ data = "idle"
    BY <1>5 DEF NodeInv, Turn
  <2>4. CalAnswer'
    BY <1>0, <1>4, <2>1, <2>2, <2>3 DEF Answers, CalAnswer, Owner
  <2>5. DataAnswer'
    BY <1>4, <2>1, <2>2, <2>3 DEF Answers, DataAnswer, Owner
  <2>. QED BY <1>4, <2>1, <2>2, <2>4, <2>5 DEF Answers
<1>6. CASE main = "wait" /\ Expired(Main) /\ StartData(q)
  <2>1. /\ events' = q /\ timers' = Set(Data, Settle)
        /\ UNCHANGED <<send_started, requestor, current_data, current_attempt,
                       cal, runs>>
        /\ main' = "data" /\ data' = "settle"
    BY <1>6 DEF StartData, messengerVars, senderVars, calVars, boundVars
  <2>2. timers'[Sender] = timers[Sender] /\ timers[Main] = -1
    BY <1>0, <1>6, <2>1, Processes DEF Set, Expired
  <2>3. cal = "idle" /\ data = "idle"
    BY <1>6 DEF NodeInv, Turn
  <2>4. ~Owner(Data) /\ ~Pending(Data, "MSG")
    BY <1>6, <2>2, <2>3 DEF Answers, DataAnswer, Outlasts
  <2>5. CalAnswer'
    BY <1>4, <2>1, <2>2, <2>3 DEF Answers, CalAnswer, Owner
  <2>6. DataAnswer'
    BY <1>4, <2>1, <2>2, <2>4 DEF DataAnswer, Owner
  <2>. QED BY <1>4, <2>1, <2>2, <2>5, <2>6 DEF Answers
<1>7. ASSUME main # "wait", cal = "idle", data = "idle", NEW rc \in BOOLEAN,
             TakeResult(rc), main = "data" => rc = data_rc,
             UNCHANGED <<messengerVars, calVars, dataVars, boundVars>>
      PROVE  Answers'
  <2>1. /\ events' = q
        /\ timers' = Set(Main, IF rc THEN SensorInterval ELSE RetryInterval)
        /\ UNCHANGED <<send_started, requestor, current_data, current_attempt,
                       cal, data, data_msg, data_rc, runs>>
        /\ main' = "wait"
    BY <1>7 DEF TakeResult, messengerVars, senderVars, calVars, dataVars,
                boundVars, q
  <2>2. /\ timers'[Sender] = timers[Sender] /\ timers'[Cal] = timers[Cal]
        /\ timers'[Main] \in Nat \ {0}
        /\ ~rc => timers'[Main] = RetryInterval
    BY <1>0, <2>1, Processes DEF Set
  <2>3. CalAnswer'
    BY <1>4, <1>7, <2>1, <2>2 DEF Answers, CalAnswer, Owner
  <2>4. Owner(Data) => ~rc
    BY <1>7 DEF Answers, DataAnswer, NodeInv, Places
  <2>5. Owner(Data) => Outlasts(Main)'
    BY <1>0, <1>4, <2>1, <2>2, <2>4 DEF Outlasts, Owner
  <2>6. DataAnswer'
    BY <1>4, <1>7, <2>1, <2>2, <2>5 DEF Answers, DataAnswer, Owner
  <2>. QED BY <1>4, <2>1, <2>2, <2>3, <2>6 DEF Answers
<1>8. CASE MainWait
  <2>1. PICK e \in Kinds :
          /\ Receives(Main, e)
          /\ \/ StartCal(q)
             \/ (e = "run" \/ Expired(Main)) /\ StartData(q)
             \/ NodeIgnores(q)
    BY <1>8 DEF MainWait, q
  <2>2. e # "run"
    <3>1. events \in Seq(Event)
      BY <1>0
    <3>2. Pending(Main, e)
      BY <2>1, <3>1, HasTaken
    <3>. QED BY <3>2 DEF Answers, Wakes
  <2>. QED BY <1>3, <1>5, <1>6, <1>8, <2>1, <2>2 DEF MainWait
<1>9. CASE MainCalDone \/ MainDataDone
  <2>1. Pending(Main, "done")
    BY <1>0, <1>9, HasTaken DEF MainCalDone, MainDataDone
  <2>2. cal = "idle" /\ data = "idle" /\ main # "wait"
    BY <2>1 DEF NodeInv, Turn
  <2>3. cal_rc \in BOOLEAN /\ data_rc \in BOOLEAN
    BY DEF NodeInv, Places
  <2>. QED BY <1>7, <1>9, <2>2, <2>3 DEF MainCalDone, MainDataDone
<1>. QED BY <1>3, <1>8, <1>9 DEF MainStep, MainBusy, Gone, q

LEMMA CalAnswers ==
  ASSUME RetryInterval > MaxAttempts * RetryDelay, NodeInv, Answers, CalStep
  PROVE  Answers'
<1>. DEFINE q == Tail(events)
<1>0. /\ events \in Seq(Event) /\ timers \in [Procs -> Nat \cup {-1}]
      /\ RetryInterval \in Nat \ {0} /\ MaxAttempts * RetryDelay \in Nat
  <2>1. \A a \in Nat, b \in Nat : a * b \in Nat
    OBVIOUS
  <2>. QED BY <2>1, NodeAssumption, MessengerAssumption
           DEF NodeInv, ContikiTypeOK
<1>1. \E e \in Kinds : Receives(Cal, e)
  BY DEF CalStep, CalSettled, CalAnswered, CalOther, Kinds
<1>2. q \in Seq(Event) /\ Alike(events, q)
  BY <1>1, TakenAlike, Processes
<1>3. main = "cal" /\ data = "idle"
  BY DEF CalStep, CalSettled, CalAnswered, CalOther, NodeInv, Turn, Places
<1>. HIDE DEF q
<1>4. CASE NodeIgnores(q)
  BY <1>2, <1>4, AnswersIgnore
<1>5. CASE cal = "settle" /\ Expired(Cal) /\ CalSubmit(q)
  <2>. DEFINE m == MessageOf(CalBody)
  <2>1. /\ MessengerSend(Cal, m, q)
        /\ timers' = Set(Cal, RetryInterval) /\ cal' = "await"
        /\ UNCHANGED <<main, data, data_msg, data_rc, runs>>
    BY <1>5 DEF CalSubmit, dataVars, boundVars
  <2>. HIDE DEF m
  <2>2. /\ timers'[Sender] = timers[Sender]
        /\ timers'[Cal] = RetryInterval /\ timers[Cal] = -1
    BY <1>0, <1>5, <2>1, Processes DEF Set, Expired
  <2>3. Wakes'
    BY <1>2, <2>1, <2>2, SubmitWakes
  <2>4. ~Pending(Cal, "MSG") /\ ~Owner(Cal)
    BY <1>5, <2>2 DEF Answers, CalAnswer
  <2>5. CASE send_started
    <3>1. /\ events' = q
          /\ UNCHANGED <<send_started, requestor, current_data, current_attempt>>
      BY <2>1, <2>5 DEF MessengerSend, senderVars
    <3>2. Deadline' = Deadline
      BY <1>2, <2>2, <3>1, DeadlineKept
    <3>3. Deadline \in Nat /\ Deadline <= MaxAttempts * RetryDelay
      BY <2>5, DeadlineBound DEF Answers, Wakes
    <3>4. Outlasts(Cal)'
      BY <1>0, <2>2, <3>2, <3>3 DEF Outlasts
    <3>5. \A p \in {Cal, Data} : Pending(p, "MSG")' => Pending(p, "MSG")
      BY <1>2, <3>1 DEF Alike, Pending
    <3>6. CalAnswer'
      BY <2>1, <2>4, <3>1, <3>4, <3>5 DEF CalAnswer, Owner
    <3>7. DataAnswer'
      BY <1>3, <2>1, <3>1, <3>4, <3>5 DEF Answers, DataAnswer, Owner
    <3>. QED BY <2>3, <3>6, <3>7 DEF Answers
  <2>6. CASE ~send_started
    <3>1. requestor' = Cal /\ events' = Post(q, Sender, "start")
      BY <2>1, <2>6 DEF MessengerSend
    <3>2. \A r, f : Pending(r, f)' <=> Has(q, r, f) \/ (r = Sender /\ f = "start")
      <4>. "start" \in Kinds
        BY DEF Kinds
      <4>. QED BY <1>2, <3>1, HasPosted, Processes DEF Pending
    <3>3. Deadline' = MaxAttempts * RetryDelay
      BY <3>2 DEF Deadline
    <3>4. Outlasts(Cal)'
      BY <1>0, <2>2, <3>3 DEF Outlasts
    <3>5. \A p \in {Cal, Data} : Pending(p, "MSG")' => Pending(p, "MSG")
      BY <1>2, <3>2, Processes DEF Alike, Pending
    <3>6. CalAnswer'
      BY <2>1, <2>4, <3>4, <3>5 DEF CalAnswer, Owner
    <3>7. DataAnswer'
      BY <1>3, <2>1, <3>1, <3>5, Processes DEF Answers, DataAnswer, Owner
    <3>. QED BY <2>3, <3>6, <3>7 DEF Answers
  <2>. QED BY <2>5, <2>6
<1>6. ASSUME cal = "await", NEW ok, CalFinish(ok, q),
             Pending(Cal, "MSG") \/ Expired(Cal)
      PROVE  Answers'
  <2>1. ~send_started
    <3>1. CASE Pending(Cal, "MSG")
      BY <1>6, <3>1 DEF Answers, CalAnswer
    <3>2. CASE Expired(Cal)
      <4>1. ~Outlasts(Cal)
        BY <3>2 DEF Expired, Outlasts
      <4>2. ~Owner(Cal) /\ ~Owner(Data)
        BY <1>3, <1>6, <4>1 DEF Answers, CalAnswer, DataAnswer
      <4>. QED BY <4>2 DEF Owner, NodeInv, SenderOK, Busy
    <3>. QED BY <1>6, <3>1, <3>2
  <2>2. /\ events' = ExitSender(Post(q, Main, "done"))
        /\ timers' = Stop(Cal) /\ cal' = "idle"
        /\ UNCHANGED <<send_started, requestor, main, data, data_msg, runs>>
    BY <1>6 DEF CalFinish, messengerVars, senderVars, dataVars, boundVars
  <2>3. Alike(events, events')
    <3>1. Post(q, Main, "done") \in Seq(Event) /\ Alike(q, Post(q, Main, "done"))
      BY <1>2, PostAlike, Processes DEF Kinds
    <3>2. Alike(Post(q, Main, "done"), events')
      BY <2>2, <3>1, ExitAlike
    <3>. QED BY <1>2, <3>1, <3>2, AlikeTrans
  <2>4. timers'[Sender] = timers[Sender]
    BY <1>0, <2>2, Processes DEF Stop
  <2>5. Wakes'
    BY <2>2, <2>3, <2>4, WakesKept DEF Answers
  <2>6. CalAnswer'
    BY <2>1, <2>2 DEF CalAnswer, Owner
  <2>7. DataAnswer'
    BY <1>3, <2>1, <2>2 DEF DataAnswer, Owner
  <2>. QED BY <2>5, <2>6, <2>7 DEF Answers
<1>7. CalAnswered => Pending(Cal, "MSG")
  BY <1>0, HasTaken DEF CalAnswered
<1>. QED BY <1>4, <1>5, <1>6, <1>7
     DEF CalStep, CalSettled, CalAnswered, CalOther, q

LEMMA DataAnswers ==
  ASSUME NodeInv, Answers, DataStep
  PROVE  Answers'
<1>. DEFINE q == Tail(events)
<1>0. /\ events \in Seq(Event) /\ timers \in [Procs -> Nat \cup {-1}]
  BY DEF NodeInv, ContikiTypeOK
<1>1. \E e \in Kinds : Receives(Data, e)
  BY DEF DataStep, DataSettled, DataReading, DataPaused, DataColor,
         DataAnswered, DataOther, Kinds
<1>2. q \in Seq(Event) /\ Alike(events, q)
  BY <1>1, TakenAlike, Processes
<1>3. main = "data" /\ cal = "idle"
  BY DEF DataStep, DataSettled, DataReading, DataPaused, DataColor,
         DataAnswered, DataOther, NodeInv, Turn, Places
<1>4. /\ ExitSender(q) \in Seq(Event) /\ Alike(events, ExitSender(q))
      /\ Alike(events, ExitSender(Tell(q, Data)))
  <2>1. ExitSender(q) \in Seq(Event) /\ Alike(q, ExitSender(q))
    BY <1>2, ExitAlike
  <2>2. Tell(q, Data) \in Seq(Event) /\ Alike(q, Tell(q, Data))
    BY <1>2, TellAlike, Processes
  <2>3. Alike(Tell(q, Data), ExitSender(Tell(q, Data)))
    BY <2>2, ExitAlike
  <2>. QED BY <1>2, <2>1, <2>2, <2>3, AlikeTrans
<1>. HIDE DEF q
<1>5. CASE NodeIgnores(q)
  BY <1>2, <1>5, AnswersIgnore
<1>6. ASSUME Ahead, NEW where, where \in {"reading", "pause"}, NEW t, NEW r,
             NEW s, Alike(events, s), DataGoes(where, t, r, s)
      PROVE  Answers'
  <2>1. \A p \in {Cal, Main, Sender} : timers'[p] = timers[p]
    BY <1>0, <1>6, Processes DEF DataGoes, Set
  <2>2. Ahead'
    BY <1>6 DEF DataGoes, Ahead
  <2>. QED BY <1>6, <2>1, <2>2, AnswersKept
           DEF DataGoes, messengerVars, senderVars, calVars, boundVars
<1>7. CASE DataPaused /\ ~NodeIgnores(q)
  <2>1. /\ data = "pause" /\ data' = "color"
        /\ events' = q \/ events' = ExitSender(Tell(q, Data))
        /\ UNCHANGED <<timers, messengerVars, main, calVars, data_msg, data_rc,
                       boundVars>>
    BY <1>7 DEF DataPaused, q
  <2>2. Ahead /\ Ahead'
    BY <2>1 DEF Ahead
  <2>3. Alike(events, events')
    BY <1>2, <1>4, <2>1
  <2>. QED BY <2>1, <2>2, <2>3, AnswersKept
           DEF messengerVars, senderVars, calVars, boundVars
<1>8. CASE data = "color" /\ DataSubmit(q)
  <2>1. /\ MessengerSend(Data, data_msg, q) /\ data' = "await"
        /\ UNCHANGED <<timers, main, cal, data_msg, data_rc, runs>>
    BY <1>8 DEF DataSubmit, calVars, boundVars
  <2>2. ~send_started /\ ~Pending(Data, "MSG")
    <3>1. ~Owner(Cal) /\ ~Owner(Data) /\ ~Pending(Data, "MSG")
      BY <1>3, <1>8 DEF Answers, CalAnswer, DataAnswer
    <3>. QED BY <3>1 DEF Owner, NodeInv, SenderOK, Busy
  <2>3. Wakes'
    BY <1>2, <2>1, SubmitWakes
  <2>4. /\ requestor' = Data /\ current_data' = data_msg
        /\ events' = Post(q, Sender, "start")
    BY <2>1, <2>2 DEF MessengerSend
  <2>5. \A r, f : Pending(r, f)' <=> Has(q, r, f) \/ (r = Sender /\ f = "start")
    <3>. "start" \in Kinds
      BY DEF Kinds
    <3>. QED BY <1>2, <2>4, HasPosted, Processes DEF Pending
  <2>6. ~Pending(Data, "MSG")'
    BY <1>2, <2>2, <2>5, Processes DEF Alike, Pending
  <2>7. CalAnswer'
    BY <1>3, <2>1, <2>4, Processes DEF CalAnswer, Owner
  <2>8. DataAnswer'
    BY <2>1, <2>4, <2>6 DEF DataAnswer
  <2>. QED BY <2>3, <2>7, <2>8 DEF Answers
<1>9. ASSUME data = "await", NEW ok, DataFinish(ok, q),
             ok => Pending(Data, "MSG")
      PROVE  Answers'
  <2>1. /\ events' = ExitSender(Post(q, Main, "done"))
        /\ timers' = Stop(Data) /\ data' = "idle" /\ data_rc' = ok
        /\ UNCHANGED <<send_started, requestor, main, cal, runs>>
    BY <1>9 DEF DataFinish, messengerVars, senderVars, calVars, boundVars
  <2>2. Alike(events, events')
    <3>1. Post(q, Main, "done") \in Seq(Event) /\ Alike(q, Post(q, Main, "done"))
      BY <1>2, PostAlike, Processes DEF Kinds
    <3>2. Alike(Post(q, Main, "done"), events')
      BY <2>1, <3>1, ExitAlike
    <3>. QED BY <1>2, <3>1, <3>2, AlikeTrans
  <2>3. timers'[Sender] = timers[Sender]
    BY <1>0, <2>1, Processes DEF Stop
  <2>4. Wakes'
    BY <2>1, <2>2, <2>3, WakesKept DEF Answers
  <2>5. CalAnswer'
    BY <1>3, <2>1 DEF Answers, CalAnswer, Owner
  <2>6. Owner(Data)' => ~ok
    BY <1>9, <2>1 DEF Answers, DataAnswer, Owner
  <2>7. DataAnswer'
    BY <1>3, <2>1, <2>6 DEF DataAnswer
  <2>. QED BY <2>4, <2>5, <2>7 DEF Answers
<1>10. DataAnswered => Pending(Data, "MSG")
  BY <1>0, HasTaken DEF DataAnswered
<1>11. CASE DataSettled
  BY <1>2, <1>4, <1>5, <1>6, <1>11 DEF DataSettled, Ahead, q
<1>12. CASE DataReading
  BY <1>2, <1>5, <1>6, <1>12 DEF DataReading, Ahead, q
<1>13. CASE DataPaused
  BY <1>5, <1>7, <1>13
<1>14. CASE DataColor
  BY <1>5, <1>8, <1>14 DEF DataColor, q
<1>15. CASE DataAnswered \/ DataOther
  BY <1>5, <1>9, <1>10, <1>15 DEF DataAnswered, DataOther, q
<1>. QED BY <1>11, <1>12, <1>13, <1>14, <1>15 DEF DataStep

LEMMA AnswersInductive ==
  ASSUME RetryInterval > MaxAttempts * RetryDelay, MaxRuns = 0,
         NodeInv, Answers, [Next]_vars
  PROVE  Answers'
BY SenderAnswers, KernelAnswers, OutsideAnswers, MainAnswers, CalAnswers,
   DataAnswers DEF Next

LEMMA AnswersInit ==
  ASSUME NEW changed, NodeInit(changed)
  PROVE  Answers
<1>1. /\ ~send_started /\ \A p, e : ~Pending(p, e)
      /\ runs = 0 /\ timers[Sender] = -1
  BY Processes DEF NodeInit, MessengerInit, Pending, Has, AtBoot
<1>. QED BY <1>1, MessengerAssumption
     DEF Answers, CalAnswer, DataAnswer, Wakes, NoStall, Owner

-----------------------------------------------------------------------------
(* What the data process leaves for the main process is true. *)
Told ==
  boots = 0 /\ main = "data" /\ data = "idle" /\ data_rc => data_msg \in received

LEMMA ToldInductive ==
  ASSUME NodeInv, FirstBoot, Answers, Told, [Next]_vars
  PROVE  Told'
<1>1. received \subseteq received'
  BY DEF Next, SenderStep, SenderStart, SenderFin, SenderOther, AckStep,
         AckArrives, ServerStep, ServerReceives, KernelStep, MainStep,
         MainWait, MainCalDone, MainDataDone, MainBusy, Gone, StartCal,
         StartData, NodeIgnores, CalStep, CalSettled, CalAnswered, CalOther,
         CalSubmit, CalFinish, DataStep, DataSettled, DataReading, DataPaused,
         DataColor, DataAnswered, DataOther, DataGoes, DataSubmit, DataFinish,
         CommandStep, SetCalibration, SkipCal, RequestRun, SerialLine, SensorEnds,
         Reboot, vars, messengerVars, networkVars
<1>2. CASE UNCHANGED <<boots, main, data, data_rc, data_msg>>
  BY <1>1, <1>2 DEF Told
<1>3. CASE main' # "data" \/ data' # "idle"
  BY <1>3 DEF Told
<1>4. ASSUME NEW q, DataFinish(FALSE, q)
      PROVE  Told'
  BY <1>4 DEF DataFinish, Told
<1>5. CASE DataAnswered
  <2>1. Pending(Data, "MSG")
    BY <1>5, HasTaken DEF DataAnswered, NodeInv, ContikiTypeOK
  <2>2. current_data = data_msg
    BY <1>5, <2>1 DEF DataAnswered, Answers, DataAnswer
  <2>3. boots' = 0 /\ data_rc' => current_data \in received
    BY <1>5 DEF DataAnswered, DataFinish, boundVars, FirstBoot, AckHonest
  <2>4. data_msg' = data_msg
    BY <1>5 DEF DataAnswered, DataFinish
  <2>. QED BY <1>1, <2>2, <2>3, <2>4 DEF Told
<1>6. CASE SenderStep \/ AckStep \/ ServerStep \/ KernelStep \/ UNCHANGED vars
  BY <1>2, <1>6 DEF SenderStep, AckStep, ServerStep, KernelStep, nodeVars,
                    dataVars, boundVars, vars
<1>7. CASE CalStep \/ CommandStep \/ \E s \in Sensors : SensorEnds(s)
  BY <1>2, <1>7
  DEF CalStep, CalSettled, CalAnswered, CalOther, CalSubmit, CalFinish,
      CommandStep, SetCalibration, SkipCal, RequestRun, SerialLine, SensorEnds,
      NodeIgnores, nodeVars, dataVars, boundVars
<1>8. CASE MainStep \/ Reboot(TRUE)
  BY <1>2, <1>3, <1>8
  DEF MainStep, MainWait, MainCalDone, MainDataDone, MainBusy, Gone, StartCal,
      StartData, TakeResult, NodeIgnores, nodeVars, dataVars, boundVars, Reboot
<1>9. CASE DataStep
  BY <1>2, <1>3, <1>4, <1>5, <1>9
  DEF DataStep, DataSettled, DataReading, DataPaused, DataColor, DataOther,
      DataGoes, DataSubmit, NodeIgnores, nodeVars, dataVars, boundVars
<1>. QED BY <1>6, <1>7, <1>8, <1>9 DEF Next

(* Data is reported as sent only if the message of this very cycle arrived. *)
(* It needs that the node waits longer after a failure than the attempts of *)
(* one message take, and that "run" is never typed, which shortens a wait.  *)
THEOREM DataIsReportedTruly ==
  ASSUME MaxSeq <= SeqMod, RetryInterval > MaxAttempts * RetryDelay,
         MaxRuns = 0
  PROVE  Spec => DataResultTrue
<1>. DEFINE Inv == NodeInv /\ FirstBoot /\ Answers /\ Told
<1>1. Init => Inv
  <2>. SUFFICES ASSUME Init PROVE Inv
    OBVIOUS
  <2>1. NodeInv /\ FirstBoot /\ Answers
    BY InitNode, FirstInit, AnswersInit DEF Init
  <2>2. Told
    BY DEF Init, NodeInit, Told
  <2>. QED BY <2>1, <2>2
<1>2. Inv /\ [Next]_vars => Inv'
  BY NodeInductive, FirstInductive, AnswersInductive, ToldInductive
<1>3. Inv /\ [Next]_vars =>
        [main = "data" /\ main' = "wait" /\ result' /\ boots = 0 =>
           data_msg \in received]_vars
  <2>. SUFFICES ASSUME NodeInv, Told, Next, main = "data", main' = "wait",
                       result', boots = 0
                PROVE  data_msg \in received
    OBVIOUS
  <2>1. MainDataDone
    BY DEF Next, SenderStep, AckStep, ServerStep, KernelStep, MainStep,
           MainWait, MainCalDone, MainBusy, Gone, NodeIgnores, CalStep,
           CalSettled, CalAnswered, CalOther, CalSubmit, CalFinish, DataStep,
           DataSettled, DataReading, DataPaused, DataColor, DataAnswered,
           DataOther, DataGoes, DataSubmit, DataFinish, CommandStep,
           SetCalibration, SkipCal, RequestRun, SerialLine, SensorEnds, Reboot,
           nodeVars
  <2>2. data_rc
    BY <2>1 DEF MainDataDone, TakeResult
  <2>3. Pending(Main, "done")
    BY <2>1, HasTaken DEF MainDataDone, NodeInv, ContikiTypeOK
  <2>4. data = "idle"
    BY <2>3 DEF NodeInv, Turn
  <2>. QED BY <2>2, <2>4 DEF Told
<1>. QED BY <1>1, <1>2, <1>3, PTL DEF Spec, DataResultTrue

=============================================================================
