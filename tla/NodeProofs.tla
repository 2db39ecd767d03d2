----------------------------- MODULE NodeProofs -----------------------------
(***************************************************************************)
(* What the steps of Node keep, for both kinds of nodes: the types, and    *)
(* whose turn it is.  Then the steps and the theorems of the airborne      *)
(* node; WaterProofs adds those of the water node.  All is for every set   *)
(* of sensors, every interval, every number of attempts and every limit    *)
(* of failures.                                                            *)
(***************************************************************************)
EXTENDS AirborneNode, SequenceTheorems, TLAPS

USE DEF Off

Done == [to |-> Main, ev |-> "done"]

(* A message that is being sent has an owner and an attempt left. *)
Busy ==
  send_started =>
    /\ requestor \in {Cal, Data}
    /\ current_data \in Message
    /\ current_attempt < MaxAttempts

(* The places of the processes and what they keep; a process that is to     *)
(* hand over a message has one, or a number for it.                         *)
Places ==
  /\ main \in {"wait", "cal", "data"}
  /\ cal \in {"idle", "settle", "await"}
  /\ data \in {"idle", "settle", "reading", "pause", "color", "await"}
  /\ {result, cal_rc, data_rc, calibration_changed} \subseteq BOOLEAN
  /\ {cal_msg, data_msg} \subseteq Message \cup {NoMsg}
  /\ running \subseteq Sensors
  /\ sequence \in 0..MaxSeq
  /\ failure_counter \in Nat
  /\ calibration \in 0..MaxChanges
  /\ boots \in 0..MaxBoots
  /\ data # "idle" => data_msg \in Message
  /\ cal = "settle" => sequence < MaxSeq

(* sensor_done_evt is at most once in the queue q. *)
Once(q) == \A i, j \in 1..Len(q) : q[i] = Done /\ q[j] = Done => i = j

(* Whose turn it is.  The main process waits while the process it started   *)
(* runs, and then while the event that process left behind is queued.       *)
Turn ==
  /\ main = "wait" => cal = "idle" /\ data = "idle"
  /\ main = "cal" => data = "idle"
  /\ main = "data" => cal = "idle"
  /\ main # "wait" /\ cal = "idle" /\ data = "idle" <=> Pending(Main, "done")
  /\ Once(events)

SenderOK == SenderTypeOK /\ Busy

NodeInv == ContikiTypeOK /\ SenderOK /\ Places /\ Turn

LEMMA NodeInvImplies == NodeInv => NodeTypeOK /\ DoneComes
<1>. SUFFICES ASSUME NodeInv PROVE NodeTypeOK /\ DoneComes
  OBVIOUS
<1>1. NodeTypeOK
  BY DEF NodeInv, SenderOK, Places, NodeTypeOK
<1>2. Pending(Main, "done") \in BOOLEAN
  BY DEF Pending, Has
<1>3. DoneComes
  BY <1>2 DEF NodeInv, Turn, Places, DoneComes
<1>. QED BY <1>1, <1>3

-----------------------------------------------------------------------------
(* The queue r holds sensor_done_evt if q does, and not more often. *)
Same(q, r) ==
  /\ Has(r, Main, "done") <=> Has(q, Main, "done")
  /\ Once(q) => Once(r)

LEMMA SameRefl == \A q : Same(q, q)
BY DEF Same

LEMMA SameTrans ==
  ASSUME NEW q, NEW r, NEW s, Same(q, r), Same(r, s)
  PROVE  Same(q, s)
BY DEF Same

LEMMA PostOther ==
  ASSUME NEW q \in Seq(Event), NEW p \in Procs, NEW e \in Kinds, e # "done"
  PROVE  /\ Post(q, p, e) \in Seq(Event)
         /\ Same(q, Post(q, p, e))
<1>. DEFINE x == [to |-> p, ev |-> e]
            r == Append(q, x)
<1>1. x \in Event /\ x # Done
  BY DEF Event, Done
<1>. HIDE DEF x
<1>2. /\ r \in Seq(Event)
      /\ Len(r) = Len(q) + 1
      /\ \A i \in 1..Len(q) : r[i] = q[i]
      /\ r[Len(q) + 1] = x
  BY <1>1, AppendProperties
<1>3. Len(q) \in Nat
  OBVIOUS
<1>4. \A i \in 1..Len(r) : r[i] = Done => i \in 1..Len(q) /\ q[i] = Done
  BY <1>1, <1>2, <1>3
<1>5. \A i \in 1..Len(q) : i \in 1..Len(r)
  BY <1>2, <1>3
<1>. HIDE DEF r
<1>6. Same(q, r)
  BY <1>2, <1>4, <1>5 DEF Same, Has, Once, Done
<1>. QED BY <1>2, <1>6 DEF Post, r, x

LEMMA PostDone ==
  ASSUME NEW q \in Seq(Event), ~Has(q, Main, "done")
  PROVE  LET r == Post(q, Main, "done")
         IN  r \in Seq(Event) /\ Has(r, Main, "done") /\ Once(r)
<1>. DEFINE r == Append(q, Done)
<1>1. Done \in Event
  BY NodeAssumption DEF Event, Done, Kinds
<1>2. /\ r \in Seq(Event)
      /\ Len(r) = Len(q) + 1
      /\ \A i \in 1..Len(q) : r[i] = q[i]
      /\ r[Len(q) + 1] = Done
  BY <1>1, AppendProperties
<1>3. Len(q) \in Nat
  OBVIOUS
<1>. HIDE DEF r
<1>4. Has(r, Main, "done")
  BY <1>2, <1>3 DEF Has, Done
<1>5. Once(r)
  BY <1>2, <1>3 DEF Has, Once, Done
<1>. QED BY <1>2, <1>4, <1>5 DEF Post, r, Done

LEMMA TellSame ==
  ASSUME NEW q \in Seq(Event), NEW p \in Procs
  PROVE  Tell(q, p) \in Seq(Event) /\ Same(q, Tell(q, p))
<1>. DEFINE x == [to |-> p, ev |-> "EXITED"]
            r == <<x>> \o q
<1>1. x \in Event /\ x # Done
  BY DEF Event, Done, Kinds
<1>. HIDE DEF x
<1>2. <<x>> \in Seq(Event) /\ Len(<<x>>) = 1 /\ <<x>>[1] = x
  BY <1>1
<1>3. /\ r \in Seq(Event)
      /\ Len(r) = 1 + Len(q)
      /\ r[1] = x
      /\ \A i \in 2..Len(r) : r[i] = q[i - 1]
  BY <1>2, ConcatProperties
<1>4. Len(q) \in Nat
  OBVIOUS
<1>. HIDE DEF r
<1>5. \A i \in 1..Len(r) : r[i] = Done => i - 1 \in 1..Len(q) /\ q[i - 1] = Done
  BY <1>1, <1>3, <1>4
<1>6. \A i \in 1..Len(q) : i + 1 \in 1..Len(r) /\ r[i + 1] = q[i]
  BY <1>3, <1>4
<1>7. Has(r, Main, "done") <=> Has(q, Main, "done")
  BY <1>5, <1>6 DEF Has, Done
<1>8. ASSUME Once(q) PROVE Once(r)
  <2>1. ASSUME NEW i \in 1..Len(r), NEW j \in 1..Len(r), r[i] = Done, r[j] = Done
        PROVE  i = j
    <3>1. i - 1 = j - 1
      BY <1>5, <1>8, <2>1 DEF Once
    <3>. QED BY <3>1, <1>3, <1>4
  <2>. QED BY <2>1 DEF Once
<1>. QED BY <1>3, <1>7, <1>8 DEF Tell, Same, r, x

LEMMA TailProperties ==
  ASSUME NEW q \in Seq(Event), q # <<>>
  PROVE  /\ Tail(q) \in Seq(Event)
         /\ Len(Tail(q)) = Len(q) - 1
         /\ Len(q) \in Nat \ {0}
         /\ \A i \in 1..Len(Tail(q)) : Tail(q)[i] = q[i + 1]
         /\ Head(q) = q[1]
BY HeadTailProperties, EmptySeq, LenProperties

LEMMA TailSame ==
  ASSUME events \in Seq(Event), NEW p, NEW e, Receives(p, e),
         e # "done" \/ p # Main
  PROVE  Tail(events) \in Seq(Event) /\ Same(events, Tail(events))
<1>. DEFINE r == Tail(events)
<1>1. /\ r \in Seq(Event)
      /\ Len(r) = Len(events) - 1
      /\ Len(events) \in Nat \ {0}
      /\ \A i \in 1..Len(r) : r[i] = events[i + 1]
      /\ events[1] # Done
  <2>1. events # <<>> /\ Head(events) # Done
    BY DEF Receives, Done
  <2>. QED BY <2>1, TailProperties
<1>. HIDE DEF r
<1>2. \A i \in 1..Len(r) : i + 1 \in 1..Len(events)
  BY <1>1
<1>3. \A i \in 1..Len(events) : events[i] = Done =>
        i - 1 \in 1..Len(r) /\ r[i - 1] = Done
  BY <1>1
<1>4. Has(r, Main, "done") <=> Has(events, Main, "done")
  BY <1>1, <1>2, <1>3 DEF Has, Done
<1>5. ASSUME Once(events) PROVE Once(r)
  <2>1. ASSUME NEW i \in 1..Len(r), NEW j \in 1..Len(r), r[i] = Done, r[j] = Done
        PROVE  i = j
    <3>1. i + 1 = j + 1
      BY <1>1, <1>2, <1>5, <2>1 DEF Once
    <3>. QED BY <3>1, <1>1
  <2>. QED BY <2>1 DEF Once
<1>. QED BY <1>1, <1>4, <1>5 DEF Same, r

LEMMA TailDone ==
  ASSUME events \in Seq(Event), Receives(Main, "done"), Once(events)
  PROVE  /\ Tail(events) \in Seq(Event)
         /\ Once(Tail(events))
         /\ ~Has(Tail(events), Main, "done")
<1>. DEFINE r == Tail(events)
<1>1. /\ r \in Seq(Event)
      /\ Len(r) = Len(events) - 1
      /\ Len(events) \in Nat \ {0}
      /\ \A i \in 1..Len(r) : r[i] = events[i + 1]
      /\ events[1] = Done
  <2>1. events # <<>> /\ Head(events) = Done
    BY DEF Receives, Done
  <2>. QED BY <2>1, TailProperties
<1>. HIDE DEF r
<1>2. \A i \in 1..Len(r) : r[i] # Done
  <2>1. ASSUME NEW i \in 1..Len(r), r[i] = Done
        PROVE  FALSE
    <3>1. i + 1 \in 1..Len(events) /\ 1 \in 1..Len(events)
      BY <1>1
    <3>2. i + 1 = 1
      BY <1>1, <2>1, <3>1 DEF Once
    <3>. QED BY <1>1, <3>2
  <2>. QED BY <2>1
<1>. QED BY <1>1, <1>2 DEF Has, Once, Done, r

LEMMA TimersType ==
  ASSUME timers \in [Procs -> Nat \cup {Off}], NEW p \in Procs, NEW t \in Nat
  PROVE  /\ Set(p, t) \in [Procs -> Nat \cup {Off}]
         /\ Stop(p) \in [Procs -> Nat \cup {Off}]
BY DEF Set, Stop

(* The processes of a node. *)
LEMMA Processes ==
  /\ {Main, Cal, Data, Sender} \subseteq Procs
  /\ Main # Cal /\ Main # Data /\ Cal # Data
  /\ Sender \notin {Main, Cal, Data}
BY NodeAssumption, MessengerAssumption

-----------------------------------------------------------------------------
(* What a step that leaves a part alone keeps of it. *)
LEMMA TurnKept ==
  ASSUME Turn, Same(events, events'), main' = main,
         cal' = "idle" <=> cal = "idle", data' = "idle" <=> data = "idle"
  PROVE  Turn'
<1>1. Pending(Main, "done")' <=> Pending(Main, "done")
  BY DEF Pending, Same
<1>2. Once(events)'
  BY DEF Turn, Same
<1>. QED BY <1>1, <1>2 DEF Turn

LEMMA SenderKept ==
  ASSUME SenderOK, UNCHANGED <<senderVars, conn, tries>>
  PROVE  SenderOK'
BY DEF SenderOK, SenderTypeOK, Busy, senderVars

LEMMA PlacesKept ==
  ASSUME Places, UNCHANGED nodeVars
  PROVE  Places'
BY DEF Places, nodeVars, calVars, dataVars, configVars, boundVars

LEMMA NodeKept ==
  ASSUME NodeInv, UNCHANGED nodeVars, SenderOK',
         events' \in Seq(Event), Same(events, events'),
         timers' \in [Procs -> Nat \cup {Off}]
  PROVE  NodeInv'
<1>1. Turn'
  BY TurnKept DEF NodeInv, nodeVars, calVars, dataVars
<1>2. Places'
  BY PlacesKept DEF NodeInv
<1>. QED BY <1>1, <1>2 DEF NodeInv, ContikiTypeOK

LEMMA IgnoresKept ==
  ASSUME NodeInv, NEW q \in Seq(Event), Same(events, q), NodeIgnores(q)
  PROVE  NodeInv'
<1>1. SenderOK'
  BY SenderKept DEF NodeInv, NodeIgnores, messengerVars
<1>. QED BY <1>1, NodeKept DEF NodeInv, NodeIgnores, ContikiTypeOK

(* An event that is not sensor_done_evt for the main process is taken. *)
LEMMA Taken ==
  ASSUME NodeInv, NEW p, NEW K \in SUBSET Kinds, p # Main \/ "done" \notin K,
         \E e \in K : Receives(p, e)
  PROVE  Tail(events) \in Seq(Event) /\ Same(events, Tail(events))
BY TailSame DEF NodeInv, ContikiTypeOK

LEMMA ExitSame ==
  ASSUME NEW q \in Seq(Event)
  PROVE  ExitSender(q) \in Seq(Event) /\ Same(q, ExitSender(q))
<1>1. Tell(q, Main) \in Seq(Event) /\ Same(q, Tell(q, Main))
  BY TellSame, Processes
<1>2. /\ Tell(Tell(q, Main), Sender) \in Seq(Event)
      /\ Same(Tell(q, Main), Tell(Tell(q, Main), Sender))
  BY <1>1, TellSame, Processes
<1>. QED BY <1>1, <1>2, SameTrans DEF ExitSender

(* A sending process ends: its event is queued, once. *)
LEMMA EndQueued ==
  ASSUME NEW q \in Seq(Event), ~Has(q, Main, "done")
  PROVE  LET r == ExitSender(Post(q, Main, "done"))
         IN  r \in Seq(Event) /\ Has(r, Main, "done") /\ Once(r)
<1>. DEFINE p == Post(q, Main, "done")
<1>1. p \in Seq(Event) /\ Has(p, Main, "done") /\ Once(p)
  BY PostDone
<1>. HIDE DEF p
<1>2. ExitSender(p) \in Seq(Event) /\ Same(p, ExitSender(p))
  BY <1>1, ExitSame
<1>3. Has(ExitSender(p), Main, "done") /\ Once(ExitSender(p))
  BY <1>1, <1>2 DEF Same
<1>. QED BY <1>2, <1>3 DEF p

-----------------------------------------------------------------------------
LEMMA InitNode ==
  ASSUME NEW changed \in BOOLEAN, NodeInit(changed)
  PROVE  NodeInv
<1>1. ContikiTypeOK
  BY NodeAssumption DEF NodeInit, ContikiTypeOK, AtBoot
<1>2. SenderOK
  <2>1. 0 \in 0..SeqMod - 1 /\ 0 \in 0..MaxAttempts /\ Server \in Addr
    BY MessengerAssumption, NodeAssumption
  <2>. QED BY <2>1 DEF NodeInit, MessengerInit, SenderOK, SenderTypeOK, Busy
<1>3. Places
  <2>1. 0 \in 0..MaxSeq /\ 0 \in 0..MaxChanges /\ 0 \in 0..MaxBoots
    BY NodeAssumption
  <2>2. {result, cal_rc, data_rc, calibration_changed} \subseteq BOOLEAN
    BY DEF NodeInit
  <2>. QED BY <2>1, <2>2 DEF NodeInit, Places
<1>4. Turn
  BY DEF NodeInit, Turn, Pending, Has, Once
<1>. QED BY <1>1, <1>2, <1>3, <1>4 DEF NodeInv

(* What the handlers of the sender do. *)
LEMMA SenderInv ==
  ASSUME NodeInv, SenderStep
  PROVE  NodeInv'
<1>. USE MessengerAssumption
<1>0. /\ SenderTypeOK /\ Busy
      /\ events \in Seq(Event) /\ timers \in [Procs -> Nat \cup {Off}]
  BY DEF NodeInv, SenderOK, ContikiTypeOK
<1>. DEFINE q == Tail(events)
<1>1. q \in Seq(Event) /\ Same(events, q)
  BY Taken, Processes DEF SenderStep, SenderStart, SenderFin, SenderOther, Kinds
<1>. HIDE DEF q
<1>2. send_started => /\ Post(q, requestor, "MSG") \in Seq(Event)
                      /\ Same(events, Post(q, requestor, "MSG"))
  <2>1. ASSUME send_started
        PROVE  /\ Post(q, requestor, "MSG") \in Seq(Event)
               /\ Same(q, Post(q, requestor, "MSG"))
    <3>1. requestor \in Procs /\ "MSG" \in Kinds
      BY <1>0, <2>1, Processes DEF Busy, Kinds
    <3>. QED BY <1>1, <3>1, PostOther
  <2>. QED BY <1>1, <2>1, SameTrans
<1>3. CASE SenderStart
  <2>1. OnStart(q) /\ conn' = conn
    BY <1>3 DEF SenderStart, q
  <2>2. SenderOK'
    BY <1>0, <2>1 DEF OnStart, Transmit, SenderOK, SenderTypeOK, Busy
  <2>3. events' = q /\ timers' \in [Procs -> Nat \cup {Off}]
    BY <1>0, <2>1, TimersType DEF OnStart
  <2>. QED BY <1>1, <2>2, <2>3, NodeKept DEF SenderStep
<1>4. CASE SenderFin
  <2>1. OnFin(q) /\ conn' = conn
    BY <1>4 DEF SenderFin, q
  <2>2. SenderOK'
    BY <1>0, <2>1 DEF OnFin, SenderOK, SenderTypeOK, Busy
  <2>3. events' \in Seq(Event) /\ Same(events, events')
    BY <1>1, <1>2, <2>1 DEF OnFin
  <2>4. timers' \in [Procs -> Nat \cup {Off}]
    BY <1>0, <2>1, TimersType DEF OnFin
  <2>. QED BY <2>2, <2>3, <2>4, NodeKept DEF SenderStep
<1>5. CASE SenderOther
  <2>1. OnOther(q) /\ conn' = conn
    BY <1>5 DEF SenderOther, q
  <2>2. CASE send_started /\ GiveUp(q)
    <3>1. current_attempt' \in 0..MaxAttempts
      BY <1>0, <2>2 DEF GiveUp, SenderTypeOK, Busy
    <3>2. SenderOK'
      BY <1>0, <2>1, <2>2, <3>1
      DEF OnOther, GiveUp, SenderOK, SenderTypeOK, Busy
    <3>3. events' \in Seq(Event) /\ Same(events, events')
      BY <1>2, <2>2 DEF GiveUp
    <3>4. timers' \in [Procs -> Nat \cup {Off}]
      BY <1>0, <2>2, TimersType DEF GiveUp
    <3>. QED BY <3>2, <3>3, <3>4, NodeKept DEF SenderStep
  <2>3. CASE send_started /\ current_attempt + 1 < MaxAttempts /\ Resend(q)
    <3>1. current_attempt' \in 0..MaxAttempts /\ current_attempt' < MaxAttempts
      BY <1>0, <2>3 DEF Resend, SenderTypeOK
    <3>2. tries' \in Nat
      BY <1>0, <2>3 DEF Resend, Transmit, SenderTypeOK
    <3>3. SenderOK'
      BY <1>0, <2>1, <2>3, <3>1, <3>2
      DEF OnOther, Resend, SenderOK, SenderTypeOK, Busy
    <3>4. events' = q /\ timers' \in [Procs -> Nat \cup {Off}]
      BY <1>0, <2>3, TimersType DEF Resend
    <3>. QED BY <1>1, <3>3, <3>4, NodeKept DEF SenderStep
  <2>4. CASE /\ events' = q
             /\ UNCHANGED <<current_attempt, last_ack_ok, send_started, sent,
                            tries, timers>>
    <3>1. UNCHANGED <<senderVars, conn, tries>>
      BY <2>1, <2>4 DEF OnOther, senderVars
    <3>2. SenderOK'
      BY <3>1, SenderKept DEF NodeInv
    <3>. QED BY <1>0, <1>1, <2>4, <3>2, NodeKept DEF SenderStep
  <2>. QED BY <1>0, <2>1, <2>2, <2>3, <2>4 DEF OnOther, SenderTypeOK
<1>. QED BY <1>3, <1>4, <1>5 DEF SenderStep

(* What the network and the kernel do. *)
LEMMA EnvironmentInv ==
  ASSUME NodeInv, AckStep \/ ServerStep \/ KernelStep
  PROVE  NodeInv'
<1>0. /\ SenderTypeOK /\ Busy
      /\ events \in Seq(Event) /\ timers \in [Procs -> Nat \cup {Off}]
  BY DEF NodeInv, SenderOK, ContikiTypeOK
<1>1. CASE AckStep
  <2>1. PICK a \in acks : AckArrives(a)
    BY <1>1 DEF AckStep
  <2>2. SenderOK'
    BY <1>0, <2>1 DEF AckArrives, SenderOK, SenderTypeOK, Busy
  <2>3. events' \in Seq(Event) /\ Same(events, events')
    BY <1>0, <2>1, PostOther, Processes DEF AckArrives, Kinds
  <2>4. timers' = timers
    BY <2>1 DEF AckArrives
  <2>. QED BY <1>0, <1>1, <2>2, <2>3, <2>4, NodeKept DEF AckStep
<1>2. CASE ServerStep
  <2>1. UNCHANGED <<senderVars, conn, tries>> /\ UNCHANGED kernelVars
    BY <1>2 DEF ServerStep, ServerReceives
  <2>2. SenderOK'
    BY <2>1, SenderKept DEF NodeInv
  <2>. QED BY <1>0, <1>2, <2>1, <2>2, NodeKept, SameRefl
       DEF ServerStep, kernelVars
<1>3. CASE KernelStep
  <2>1. SenderOK'
    BY <1>3, SenderKept DEF KernelStep, messengerVars, NodeInv
  <2>2. CASE Tick
    <3>1. events' = events /\ timers' \in [Procs -> Nat \cup {Off}]
      BY <1>0, <2>2 DEF Tick
    <3>. QED BY <1>0, <1>3, <2>1, <3>1, NodeKept, SameRefl DEF KernelStep
  <2>3. ASSUME NEW p \in Procs, TimerPoll(p)
        PROVE  NodeInv'
    <3>1. events' \in Seq(Event) /\ Same(events, events')
      BY <1>0, <2>3, PostOther DEF TimerPoll, Kinds
    <3>2. timers' \in [Procs -> Nat \cup {Off}]
      BY <1>0, <2>3, TimersType DEF TimerPoll
    <3>. QED BY <1>3, <2>1, <3>1, <3>2, NodeKept DEF KernelStep
  <2>. QED BY <1>3, <2>2, <2>3 DEF KernelStep
<1>. QED BY <1>1, <1>2, <1>3

-----------------------------------------------------------------------------
(* The messages a node builds. *)
LEMMA Built ==
  ASSUME Places
  PROVE  MessageOf(CalBody) \in Message /\ MessageOf(DataBody) \in Message
<1>1. Server \in Addr /\ sequence \in Nat
  BY NodeAssumption DEF Places
<1>2. CalBody \in Body /\ DataBody \in Body
  <2>1. CalBody \in [kind : {"cal"}, calibration : 0..MaxChanges,
                     boot : 0..MaxBoots]
    BY DEF Places, CalBody
  <2>2. DataBody \in [kind : {"data"}, boot : 0..MaxBoots]
    BY DEF Places, DataBody
  <2>. QED BY <2>1, <2>2, NodeAssumption
<1>. QED BY <1>1, <1>2 DEF MessageOf, Message

(* Handing a message over, accepted or refused. *)
LEMMA SendKept ==
  ASSUME SenderOK, NEW p \in {Cal, Data}, NEW m \in Message,
         NEW q \in Seq(Event), MessengerSend(p, m, q), conn' = conn
  PROVE  SenderOK' /\ events' \in Seq(Event) /\ Same(q, events')
<1>. USE MessengerAssumption
<1>1. CASE send_started
  <2>1. events' = q /\ UNCHANGED <<senderVars, tries>>
    BY <1>1 DEF MessengerSend
  <2>. QED BY <2>1, SenderKept, SameRefl
<1>2. CASE ~send_started
  <2>1. /\ send_started' = TRUE /\ last_ack_ok' = FALSE
        /\ requestor' = p /\ current_data' = m
        /\ current_sequence' = m.seq % SeqMod
        /\ current_attempt' = 0 /\ tries' = 0
        /\ events' = Post(q, Sender, "start")
    BY <1>2 DEF MessengerSend
  <2>2. m.seq % SeqMod \in 0..SeqMod - 1
    BY DEF Message
  <2>3. 0 \in 0..MaxAttempts /\ 0 < MaxAttempts /\ p \in Procs
    BY Processes
  <2>4. SenderOK'
    BY <2>1, <2>2, <2>3 DEF SenderOK, SenderTypeOK, Busy
  <2>. QED BY <2>1, <2>4, PostOther, Processes DEF Kinds
<1>. QED BY <1>1, <1>2

(* The main process starts one of the others. *)
LEMMA StartInv ==
  ASSUME NodeInv, main = "wait", sequence < MaxSeq, NEW q \in Seq(Event),
         Same(events, q), StartCal(q) \/ StartData(q)
  PROVE  NodeInv'
<1>0. /\ Places /\ Turn /\ ~Pending(Main, "done")
      /\ timers \in [Procs -> Nat \cup {Off}]
  BY DEF NodeInv, ContikiTypeOK, Turn
<1>1. SenderOK'
  BY SenderKept DEF NodeInv, StartCal, StartData, messengerVars
<1>2. ContikiTypeOK'
  BY <1>0, TimersType, Processes, NodeAssumption
  DEF StartCal, StartData, ContikiTypeOK
<1>3. Places'
  <2>1. CASE StartCal(q)
    BY <1>0, <2>1
    DEF StartCal, Places, dataVars, configVars, boundVars
  <2>2. CASE StartData(q)
    <3>1. data_msg' \in Message
      BY <1>0, <2>2, Built DEF StartData
    <3>2. sequence' \in 0..MaxSeq
      BY <1>0, <2>2, NodeAssumption DEF StartData, Places
    <3>3. cal = "idle"
      BY <1>0 DEF Turn
    <3>. QED BY <1>0, <2>2, <3>1, <3>2, <3>3
         DEF StartData, Places, calVars, configVars, boundVars
  <2>. QED BY <2>1, <2>2
<1>4. Turn'
  <2>1. ~Pending(Main, "done")' /\ Once(events)'
    BY <1>0 DEF StartCal, StartData, Pending, Same, Turn
  <2>2. cal = "idle" /\ data = "idle"
    BY <1>0 DEF Turn
  <2>3. \/ main' = "cal" /\ cal' = "settle" /\ data' = data
        \/ main' = "data" /\ data' = "settle" /\ cal' = cal
    BY DEF StartCal, StartData, calVars, dataVars
  <2>. QED BY <2>1, <2>2, <2>3 DEF Turn
<1>. QED BY <1>1, <1>2, <1>3, <1>4 DEF NodeInv

(* A sending process ends, which leaves the main process its event. *)
LEMMA EndInv ==
  ASSUME NodeInv, NEW q \in Seq(Event), Same(events, q),
         cal # "idle" \/ data # "idle", cal' = "idle", data' = "idle",
         main' = main, events' = ExitSender(Post(q, Main, "done"))
  PROVE  Turn' /\ events' \in Seq(Event)
<1>1. ~Has(q, Main, "done")
  BY DEF NodeInv, Turn, Pending, Same
<1>2. /\ events' \in Seq(Event)
      /\ Has(events', Main, "done")
      /\ Once(events')
  BY <1>1, EndQueued
<1>3. main # "wait"
  BY DEF NodeInv, Turn
<1>. QED BY <1>2, <1>3 DEF Turn, Pending

LEMMA CalFinishInv ==
  ASSUME NodeInv, NEW q \in Seq(Event), Same(events, q), cal # "idle",
         NEW ok \in BOOLEAN, CalFinish(ok, q)
  PROVE  NodeInv'
<1>0. Places /\ Turn /\ timers \in [Procs -> Nat \cup {Off}]
  BY DEF NodeInv, ContikiTypeOK
<1>1. SenderOK'
  BY SenderKept DEF NodeInv, CalFinish, messengerVars
<1>2. data = "idle"
  BY <1>0 DEF Turn, Places
<1>3. Turn' /\ events' \in Seq(Event)
  BY <1>2, EndInv DEF CalFinish, dataVars
<1>4. ContikiTypeOK'
  BY <1>0, <1>3, TimersType, Processes DEF CalFinish, ContikiTypeOK
<1>5. Places'
  <2>1. failure_counter' \in Nat
    BY <1>0 DEF CalFinish, Places
  <2>2. {result', cal_rc', data_rc', calibration_changed'} \subseteq BOOLEAN
    BY <1>0 DEF CalFinish, Places, dataVars
  <2>. QED BY <1>0, <2>1, <2>2 DEF CalFinish, Places, dataVars, boundVars
<1>. QED BY <1>1, <1>3, <1>4, <1>5 DEF NodeInv

LEMMA DataFinishInv ==
  ASSUME NodeInv, NEW q \in Seq(Event), Same(events, q), data # "idle",
         NEW ok \in BOOLEAN, DataFinish(ok, q)
  PROVE  NodeInv'
<1>0. Places /\ Turn /\ timers \in [Procs -> Nat \cup {Off}]
  BY DEF NodeInv, ContikiTypeOK
<1>1. SenderOK'
  BY SenderKept DEF NodeInv, DataFinish, messengerVars
<1>2. cal = "idle"
  BY <1>0 DEF Turn, Places
<1>3. Turn' /\ events' \in Seq(Event)
  BY <1>2, EndInv DEF DataFinish, calVars
<1>4. ContikiTypeOK'
  BY <1>0, <1>3, TimersType, Processes DEF DataFinish, ContikiTypeOK
<1>5. Places'
  <2>1. failure_counter' \in Nat
    BY <1>0 DEF DataFinish, Places
  <2>2. {result', cal_rc', data_rc', calibration_changed'} \subseteq BOOLEAN
    BY <1>0 DEF DataFinish, Places, calVars
  <2>. QED BY <1>0, <2>1, <2>2 DEF DataFinish, Places, calVars, boundVars
<1>. QED BY <1>1, <1>3, <1>4, <1>5 DEF NodeInv

LEMMA CalInv ==
  ASSUME NodeInv, CalStep
  PROVE  NodeInv'
<1>0. /\ Places /\ Turn /\ SenderOK
      /\ timers \in [Procs -> Nat \cup {Off}]
  BY DEF NodeInv, ContikiTypeOK
<1>. DEFINE q == Tail(events)
<1>1. q \in Seq(Event) /\ Same(events, q)
  BY Taken, Processes
  DEF CalStep, CalSettled, CalAnswered, CalOther, Kinds
<1>. HIDE DEF q
<1>2. CASE CalSettled /\ CalSubmit(q)
  <2>. DEFINE m == MessageOf(CalBody)
  <2>1. m \in Message
    BY <1>0, Built
  <2>2. MessengerSend(Cal, m, q) /\ cal_msg' = m
    BY <1>2 DEF CalSubmit
  <2>3. /\ sequence' = sequence + 1 /\ sequence < MaxSeq
        /\ timers' = Set(Cal, RetryInterval) /\ cal' = "await"
        /\ UNCHANGED <<conn, networkVars, main, result, cal_rc, dataVars,
                       configVars, failure_counter, boundVars>>
        /\ cal = "settle"
    BY <1>0, <1>2 DEF CalSubmit, CalSettled, Places
  <2>. HIDE DEF m
  <2>4. SenderOK' /\ events' \in Seq(Event) /\ Same(q, events')
    BY <1>0, <1>1, <2>1, <2>2, <2>3, SendKept
  <2>5. Same(events, events')
    BY <1>1, <2>4, SameTrans
  <2>6. Turn'
    BY <1>0, <2>3, <2>5, TurnKept DEF dataVars
  <2>7. timers' \in [Procs -> Nat \cup {Off}]
    BY <1>0, <2>3, TimersType, Processes, NodeAssumption
  <2>8. sequence' \in 0..MaxSeq
    BY <1>0, <2>3, NodeAssumption DEF Places
  <2>9. Places'
    BY <1>0, <2>1, <2>2, <2>3, <2>8
    DEF Places, dataVars, configVars, boundVars
  <2>. QED BY <2>4, <2>6, <2>7, <2>9 DEF NodeInv, ContikiTypeOK
<1>3. CASE NodeIgnores(q)
  BY <1>1, <1>3, IgnoresKept
<1>4. CASE cal = "await" /\ \E ok \in BOOLEAN : CalFinish(ok, q)
  BY <1>1, <1>4, CalFinishInv
<1>5. last_ack_ok \in BOOLEAN
  BY <1>0 DEF SenderOK, SenderTypeOK
<1>. QED BY <1>2, <1>3, <1>4, <1>5
     DEF CalStep, CalSettled, CalAnswered, CalOther, q

-----------------------------------------------------------------------------
(* The data process goes from one of its places to another. *)
LEMMA DataKept ==
  ASSUME NodeInv, data # "idle",
         data' \in {"settle", "reading", "pause", "color", "await"},
         running' \subseteq Sensors,
         UNCHANGED <<main, result, calVars, data_msg, data_rc, configVars,
                     sequence, failure_counter, boundVars>>,
         SenderOK', events' \in Seq(Event), Same(events, events'),
         timers' \in [Procs -> Nat \cup {Off}]
  PROVE  NodeInv'
<1>1. Turn'
  BY TurnKept DEF NodeInv, calVars
<1>2. Places'
  BY DEF NodeInv, Places, calVars, configVars, boundVars
<1>. QED BY <1>1, <1>2 DEF NodeInv, ContikiTypeOK

LEMMA DataGoesInv ==
  ASSUME NodeInv, data # "idle", NEW q \in Seq(Event), Same(events, q),
         NEW where \in {"settle", "reading", "pause", "color", "await"},
         NEW t \in Nat, NEW r \in SUBSET Sensors, DataGoes(where, t, r, q)
  PROVE  NodeInv'
<1>1. SenderOK'
  BY SenderKept DEF NodeInv, DataGoes, messengerVars
<1>2. timers' \in [Procs -> Nat \cup {Off}]
  BY TimersType, Processes DEF NodeInv, ContikiTypeOK, DataGoes
<1>. QED BY <1>1, <1>2, DataKept DEF DataGoes

(* The data process hands its message over. *)
LEMMA DataSendInv ==
  ASSUME NodeInv, data # "idle", NEW q \in Seq(Event), Same(events, q),
         MessengerSend(Data, data_msg, q), data' = "await",
         running' \subseteq Sensors, timers' \in [Procs -> Nat \cup {Off}],
         UNCHANGED <<conn, main, result, calVars, data_msg, data_rc,
                     configVars, sequence, failure_counter, boundVars>>
  PROVE  NodeInv'
<1>1. data_msg \in Message /\ SenderOK
  BY DEF NodeInv, Places
<1>2. SenderOK' /\ events' \in Seq(Event) /\ Same(q, events')
  BY <1>1, SendKept
<1>3. Same(events, events')
  BY <1>2, SameTrans
<1>. QED BY <1>2, <1>3, DataKept

LEMMA DataInv ==
  ASSUME NodeInv, DataSettled \/ DataAnswered \/ DataOther
  PROVE  NodeInv'
<1>. DEFINE q == Tail(events)
<1>1. q \in Seq(Event) /\ Same(events, q)
  BY Taken, Processes DEF DataSettled, DataAnswered, DataOther, Kinds
<1>. HIDE DEF q
<1>2. CASE NodeIgnores(q)
  BY <1>1, <1>2, IgnoresKept
<1>3. CASE data = "await" /\ \E ok \in BOOLEAN : DataFinish(ok, q)
  BY <1>1, <1>3, DataFinishInv
<1>4. CASE /\ data = "settle"
           /\ \E r \in SUBSET Sensors :
                DataGoes("reading", Watch, r,
                         IF r = Sensors THEN q ELSE ExitSender(q))
  <2>1. PICK r \in SUBSET Sensors :
          DataGoes("reading", Watch, r,
                   IF r = Sensors THEN q ELSE ExitSender(q))
    BY <1>4
  <2>2. PICK s : s = IF r = Sensors THEN q ELSE ExitSender(q)
    OBVIOUS
  <2>3. s \in Seq(Event) /\ Same(events, s)
    BY <1>1, <2>2, ExitSame, SameTrans
  <2>4. DataGoes("reading", Watch, r, s)
    BY <2>1, <2>2
  <2>5. Watch \in Nat
    BY NodeAssumption
  <2>. QED BY <1>4, <2>3, <2>4, <2>5, DataGoesInv
<1>5. last_ack_ok \in BOOLEAN
  BY DEF NodeInv, SenderOK, SenderTypeOK
<1>. QED BY <1>2, <1>3, <1>4, <1>5 DEF DataSettled, DataAnswered, DataOther, q

(* A sensor process ends. *)
LEMMA SensorInv ==
  ASSUME NodeInv, NEW s \in Sensors, SensorEnds(s)
  PROVE  NodeInv'
<1>1. events \in Seq(Event) /\ timers \in [Procs -> Nat \cup {Off}]
  BY DEF NodeInv, ContikiTypeOK
<1>2. ExitSender(events) \in Seq(Event) /\ Same(events, ExitSender(events))
  BY <1>1, ExitSame
<1>3. events' \in Seq(Event) /\ Same(ExitSender(events), events')
  BY <1>2, TellSame, Processes DEF SensorEnds
<1>4. Same(events, events')
  BY <1>2, <1>3, SameTrans
<1>5. SenderOK'
  BY SenderKept DEF NodeInv, SensorEnds, messengerVars
<1>6. Turn'
  BY <1>4, TurnKept DEF NodeInv, SensorEnds, calVars
<1>7. Places'
  BY DEF NodeInv, Places, SensorEnds, calVars, configVars, boundVars
<1>. QED BY <1>1, <1>3, <1>5, <1>6, <1>7
     DEF NodeInv, ContikiTypeOK, SensorEnds

-----------------------------------------------------------------------------
LEMMA ReceivedPending ==
  ASSUME NodeInv, NEW p, NEW e, Receives(p, e)
  PROVE  Pending(p, e)
<1>1. events # <<>> /\ Head(events) = [to |-> p, ev |-> e]
  BY DEF Receives
<1>2. 1 \in 1..Len(events) /\ events[1] = [to |-> p, ev |-> e]
  BY <1>1, TailProperties DEF NodeInv, ContikiTypeOK
<1>. QED BY <1>2 DEF Pending, Has

(* The main process takes over a result. *)
LEMMA TakeResultInv ==
  ASSUME NodeInv, main # "wait", Receives(Main, "done"),
         NEW rc \in BOOLEAN, TakeResult(rc), calibration_changed' \in BOOLEAN,
         UNCHANGED <<messengerVars, calVars, dataVars, calibration, sequence,
                     failure_counter, boundVars>>
  PROVE  NodeInv'
<1>0. /\ Places /\ Turn
      /\ events \in Seq(Event) /\ timers \in [Procs -> Nat \cup {Off}]
  BY DEF NodeInv, ContikiTypeOK
<1>1. SenderOK'
  BY SenderKept DEF NodeInv, messengerVars
<1>2. /\ Tail(events) \in Seq(Event)
      /\ Once(Tail(events))
      /\ ~Has(Tail(events), Main, "done")
  BY <1>0, TailDone DEF Turn
<1>3. Pending(Main, "done")
  BY ReceivedPending
<1>4. cal = "idle" /\ data = "idle"
  BY <1>0, <1>3 DEF Turn
<1>5. Turn'
  BY <1>2, <1>4 DEF Turn, TakeResult, Pending, calVars, dataVars
<1>6. ContikiTypeOK'
  <2>1. SensorInterval \in Nat /\ RetryInterval \in Nat
    BY NodeAssumption
  <2>2. PICK t \in Nat : t = IF rc THEN SensorInterval ELSE RetryInterval
    BY <2>1
  <2>3. timers' = Set(Main, t) /\ events' = Tail(events)
    BY <2>2 DEF TakeResult
  <2>. QED BY <1>0, <1>2, <2>3, TimersType, Processes DEF ContikiTypeOK
<1>7. Places'
  BY <1>0 DEF Places, TakeResult, calVars, dataVars, boundVars
<1>. QED BY <1>1, <1>5, <1>6, <1>7 DEF NodeInv

LEMMA MainIgnoresInv ==
  ASSUME NodeInv, MainBusy \/ Gone
  PROVE  NodeInv'
<1>. DEFINE q == Tail(events)
<1>1. NodeIgnores(q)
  BY DEF MainBusy, Gone
<1>2. q \in Seq(Event) /\ Same(events, q)
  <2>1. CASE MainBusy
    BY <2>1, Taken DEF MainBusy
  <2>2. CASE Gone
    <3>1. \E p \in {Cal, Data} : \E e \in Kinds : Receives(p, e)
      BY <2>2 DEF Gone
    <3>. QED BY <3>1, Taken, Processes
  <2>. QED BY <2>1, <2>2
<1>. HIDE DEF q
<1>. QED BY <1>1, <1>2, IgnoresKept

(* Commands and the console. *)
LEMMA CommandInv ==
  ASSUME NodeInv, CommandStep
  PROVE  NodeInv'
<1>0. /\ Places /\ events \in Seq(Event)
      /\ timers \in [Procs -> Nat \cup {Off}]
  BY DEF NodeInv, ContikiTypeOK
<1>1. SenderOK' /\ timers' = timers
  <2>1. UNCHANGED messengerVars /\ UNCHANGED timers
    BY DEF CommandStep, SetCalibration, SkipCal, RequestRun, SerialLine, kernelVars
  <2>. QED BY <2>1, SenderKept DEF NodeInv, messengerVars
<1>2. UNCHANGED <<main, result, calVars, dataVars, sequence, failure_counter,
                  boots>>
  BY DEF CommandStep, SetCalibration, SkipCal, RequestRun, SerialLine, boundVars
<1>3. events' \in Seq(Event) /\ Same(events, events')
  <2>. USE DEF Kinds
  <2>1. CASE SetCalibration \/ SkipCal
    BY <1>0, <2>1, SameRefl DEF SetCalibration, SkipCal, kernelVars
  <2>2. CASE RequestRun
    BY <1>0, <2>2, PostOther, Processes DEF RequestRun
  <2>3. CASE SerialLine
    <3>1. PICK q : /\ \/ q = Post(events, Cal, "line")
                      \/ q = Post(events, Data, "line")
                      \/ q = events
                   /\ events' = Post(Post(q, Sender, "line"), Main, "line")
      BY <2>3 DEF SerialLine
    <3>2. q \in Seq(Event) /\ Same(events, q)
      BY <1>0, <3>1, PostOther, SameRefl, Processes
    <3>3. /\ Post(q, Sender, "line") \in Seq(Event)
          /\ Same(q, Post(q, Sender, "line"))
      BY <3>2, PostOther, Processes
    <3>4. events' \in Seq(Event) /\ Same(Post(q, Sender, "line"), events')
      BY <3>1, <3>3, PostOther, Processes
    <3>. QED BY <3>2, <3>3, <3>4, SameTrans
  <2>. QED BY <2>1, <2>2, <2>3 DEF CommandStep
<1>4. Turn'
  BY <1>2, <1>3, TurnKept DEF NodeInv, calVars, dataVars
<1>5. Places'
  <2>1. calibration' \in 0..MaxChanges /\ calibration_changed' \in BOOLEAN
    <3>0. MaxChanges \in Nat /\ calibration \in 0..MaxChanges
          /\ calibration_changed \in BOOLEAN
      BY <1>0, NodeAssumption DEF Places
    <3>1. CASE SetCalibration
      BY <3>0, <3>1 DEF SetCalibration
    <3>2. CASE UNCHANGED configVars
      BY <3>0, <3>2 DEF configVars
    <3>3. CASE SkipCal
      BY <3>0, <3>3 DEF SkipCal
    <3>. QED BY <3>1, <3>2, <3>3 DEF CommandStep, RequestRun, SerialLine
  <2>. QED BY <1>0, <1>2, <2>1 DEF Places, calVars, dataVars
<1>. QED BY <1>0, <1>1, <1>3, <1>4, <1>5 DEF NodeInv, ContikiTypeOK

(* sysmon reboots the node. *)
LEMMA RebootInv ==
  ASSUME NodeInv, NEW changed \in BOOLEAN, Reboot(changed)
  PROVE  NodeInv'
<1>1. ContikiTypeOK'
  BY NodeAssumption DEF Reboot, ContikiTypeOK, AtBoot
<1>2. SenderOK'
  <2>1. 0 \in 0..SeqMod - 1 /\ 0 \in 0..MaxAttempts
    BY MessengerAssumption
  <2>. QED BY <2>1 DEF Reboot, NodeInv, SenderOK, SenderTypeOK, Busy
<1>3. Places'
  <2>1. 0 \in 0..MaxSeq /\ 0 \in 0..MaxChanges
    BY NodeAssumption
  <2>2. {result', cal_rc', data_rc', calibration_changed'} \subseteq BOOLEAN
    BY DEF Reboot
  <2>3. boots' \in 0..MaxBoots
    BY NodeAssumption DEF Reboot, NodeInv, Places
  <2>. QED BY <2>1, <2>2, <2>3 DEF Reboot, Places
<1>4. Turn'
  BY DEF Reboot, Turn, Pending, Has, Once
<1>. QED BY <1>1, <1>2, <1>3, <1>4 DEF NodeInv

-----------------------------------------------------------------------------
(* The data process holds a message that it has not handed over. *)
Ahead == data \in {"settle", "reading", "pause", "color"}

(* What is on the network before the first reboot: one message carries one  *)
(* sequence number, the one the data process holds is not there yet,        *)
(* servers have only what was sent and acknowledge only what they have.     *)
(* After a reboot the numbers begin again, and nothing of this is left.     *)
Bookkeeping ==
  /\ sent \subseteq (Addr \X Message)
  /\ current_data = NoMsg => sent = {}
  /\ current_data \in Message =>
       /\ current_data.seq < sequence
       /\ current_sequence = current_data.seq % SeqMod
  /\ \A pkt \in sent :
       /\ pkt[2].seq < sequence
       /\ pkt[2].seq = current_data.seq => pkt[2] = current_data
  /\ Ahead =>
       /\ data_msg.seq < sequence
       /\ current_data \in Message => current_data.seq # data_msg.seq
       /\ \A pkt \in sent : pkt[2].seq # data_msg.seq
  /\ \A m \in received : \E pkt \in sent : pkt[2] = m
  /\ \A a \in acks : \E m \in received : m.seq = a

FirstBoot == boots = 0 => Bookkeeping /\ AckHonest

LEMMA FirstKept ==
  ASSUME FirstBoot, boots' = boots, sequence' = sequence,
         UNCHANGED <<sent, received, acks, current_data, current_sequence>>,
         last_ack_ok' => last_ack_ok, Ahead' => Ahead /\ data_msg' = data_msg
  PROVE  FirstBoot'
<1>. DEFINE A == Ahead
            B == Ahead'
<1>1. B => A /\ data_msg' = data_msg
  OBVIOUS
<1>. QED BY <1>1 DEF FirstBoot, Bookkeeping, AckHonest

LEMMA FirstKeptAll ==
  ASSUME FirstBoot, UNCHANGED <<messengerVars, boots, sequence>>,
         Ahead' => Ahead /\ data_msg' = data_msg
  PROVE  FirstBoot'
BY FirstKept DEF messengerVars, senderVars, networkVars

(* What the network and the sender do. *)
LEMMA FirstTransmit ==
  ASSUME NodeInv, FirstBoot, send_started, Transmit, UNCHANGED nodeVars,
         UNCHANGED <<received, acks, current_data, current_sequence>>,
         last_ack_ok' => last_ack_ok
  PROVE  FirstBoot'
<1>. SUFFICES ASSUME boots = 0 PROVE Bookkeeping' /\ AckHonest'
  BY DEF FirstBoot, nodeVars, boundVars
<1>1. current_data \in Message /\ current_data # NoMsg /\ conn \in Addr
  BY MessengerAssumption DEF NodeInv, SenderOK, SenderTypeOK, Busy
<1>2. /\ sent' \subseteq (Addr \X Message)
      /\ \A pkt \in sent' : pkt \in sent \/ pkt[2] = current_data
      /\ sent \subseteq sent'
  BY <1>1 DEF Transmit, FirstBoot, Bookkeeping
<1>3. sequence' = sequence /\ data_msg' = data_msg /\ data' = data
  BY DEF nodeVars, dataVars
<1>4. Bookkeeping /\ AckHonest
  BY DEF FirstBoot
<1>5. Ahead' <=> Ahead
  BY <1>3 DEF Ahead
<1>6. (Ahead => \A pkt \in sent : pkt[2].seq # data_msg.seq)'
  BY <1>1, <1>2, <1>3, <1>4, <1>5 DEF Bookkeeping
<1>7. Bookkeeping'
  BY <1>1, <1>2, <1>3, <1>4, <1>5, <1>6 DEF Bookkeeping
<1>. QED BY <1>4, <1>7 DEF AckHonest

LEMMA FirstSender ==
  ASSUME NodeInv, FirstBoot, SenderStep
  PROVE  FirstBoot'
<1>1. UNCHANGED nodeVars
      /\ UNCHANGED <<received, acks, current_data, current_sequence>>
  BY DEF SenderStep, SenderStart, SenderFin, SenderOther, OnStart, OnFin,
         OnOther
<1>2. last_ack_ok' => last_ack_ok
  BY DEF SenderStep, SenderStart, SenderFin, SenderOther, OnStart,
         OnFin, OnOther, GiveUp, Resend
<1>3. (send_started /\ Transmit) \/ UNCHANGED sent
  BY DEF SenderStep, SenderStart, SenderFin, SenderOther, OnStart,
         OnFin, OnOther, GiveUp, Resend
<1>4. CASE UNCHANGED sent
  BY <1>1, <1>2, <1>4, FirstKept DEF nodeVars, boundVars, dataVars, Ahead
<1>. QED BY <1>1, <1>2, <1>3, <1>4, FirstTransmit

(* Below the width of current_sequence an acknowledgement that passes the   *)
(* comparison is one of the current message.                                *)
LEMMA FirstAck ==
  ASSUME MaxSeq <= SeqMod, NodeInv, FirstBoot, AckStep
  PROVE  FirstBoot'
<1>. SUFFICES ASSUME boots = 0 PROVE Bookkeeping' /\ AckHonest'
  BY DEF FirstBoot, AckStep, nodeVars, boundVars
<1>0. Bookkeeping /\ AckHonest
  BY DEF FirstBoot
<1>1. PICK a \in acks : AckArrives(a)
  BY DEF AckStep
<1>2. PICK m \in received : m.seq = a
  BY <1>0 DEF Bookkeeping
<1>3. PICK pkt \in sent : pkt[2] = m
  BY <1>0 DEF Bookkeeping
<1>4. current_data \in Message
  BY <1>0, <1>3 DEF Bookkeeping, NodeInv, SenderOK, SenderTypeOK
<1>5. current_data.seq \in Nat /\ current_data.seq < sequence
      /\ sequence \in Nat /\ sequence <= MaxSeq
      /\ MaxSeq \in Nat /\ SeqMod \in Nat \ {0}
  BY <1>0, <1>4, NodeAssumption, MessengerAssumption
  DEF Bookkeeping, NodeInv, Places, Message
<1>6. current_data.seq % SeqMod = current_data.seq
  <2>1. current_data.seq \in 0..SeqMod - 1
    BY <1>5
  <2>. QED BY <1>5, <2>1
<1>7. current_data = m
  BY <1>0, <1>1, <1>2, <1>3, <1>4, <1>6 DEF AckArrives, Bookkeeping
<1>8. UNCHANGED <<sent, received, acks, current_data, current_sequence>>
      /\ UNCHANGED <<data, data_msg, sequence>>
  BY <1>1 DEF AckStep, AckArrives, networkVars, nodeVars, dataVars
<1>. QED BY <1>0, <1>7, <1>8 DEF Bookkeeping, AckHonest, Ahead

LEMMA FirstServer ==
  ASSUME FirstBoot, ServerStep
  PROVE  FirstBoot'
<1>. SUFFICES ASSUME boots = 0 PROVE Bookkeeping' /\ AckHonest'
  BY DEF FirstBoot, ServerStep, nodeVars, boundVars
<1>0. Bookkeeping /\ AckHonest
  BY DEF FirstBoot
<1>1. PICK pkt \in sent : ServerReceives(pkt[1], pkt[2])
  BY DEF ServerStep
<1>2. /\ received' = received \cup {pkt[2]}
      /\ acks' = acks \cup {pkt[2].seq}
      /\ UNCHANGED <<sent, current_data, current_sequence, last_ack_ok>>
      /\ UNCHANGED <<data, data_msg, sequence>>
  BY <1>1 DEF ServerStep, ServerReceives, senderVars, nodeVars, dataVars
<1>. QED BY <1>0, <1>1, <1>2 DEF Bookkeeping, AckHonest, Ahead

(* A message is handed over that has a number no earlier message has. *)
LEMMA FirstSend ==
  ASSUME NodeInv, FirstBoot, NEW p, NEW m \in Message, NEW q,
         MessengerSend(p, m, q), UNCHANGED networkVars, boots' = boots,
         sequence' \in Nat, sequence <= sequence', m.seq < sequence', ~Ahead',
         boots = 0 => \A pkt \in sent : pkt[2].seq # m.seq
  PROVE  FirstBoot'
<1>. SUFFICES ASSUME boots = 0 PROVE Bookkeeping' /\ AckHonest'
  BY DEF FirstBoot
<1>0. Bookkeeping /\ AckHonest
  BY DEF FirstBoot
<1>1. UNCHANGED <<sent, received, acks>>
  BY DEF networkVars
<1>2. /\ sequence \in Nat
      /\ \A pkt \in sent : pkt[2] \in Message /\ pkt[2].seq \in Nat
      /\ current_data \in Message => current_data.seq \in Nat
  BY <1>0, NodeAssumption DEF NodeInv, Places, Bookkeeping, Message
<1>3. CASE send_started
  <2>1. UNCHANGED <<current_data, current_sequence, last_ack_ok>>
    BY <1>3 DEF MessengerSend, senderVars
  <2>2. \A pkt \in sent : pkt[2].seq < sequence'
    BY <1>0, <1>2 DEF Bookkeeping
  <2>3. current_data \in Message => current_data.seq < sequence'
    BY <1>0, <1>2 DEF Bookkeeping
  <2>. QED BY <1>0, <1>1, <2>1, <2>2, <2>3 DEF Bookkeeping, AckHonest
<1>4. CASE ~send_started
  <2>1. /\ current_data' = m /\ last_ack_ok' = FALSE
        /\ current_sequence' = m.seq % SeqMod
    BY <1>4 DEF MessengerSend
  <2>2. m # NoMsg
    BY MessengerAssumption
  <2>3. \A pkt \in sent : pkt[2].seq < sequence'
    BY <1>0, <1>2 DEF Bookkeeping
  <2>. QED BY <1>0, <1>1, <2>1, <2>2, <2>3 DEF Bookkeeping, AckHonest
<1>. QED BY <1>3, <1>4

(* The data process takes a number that is new. *)
LEMMA FirstStart ==
  ASSUME NodeInv, FirstBoot, NEW q, StartCal(q) \/ StartData(q)
  PROVE  FirstBoot'
<1>1. CASE StartCal(q)
  BY <1>1, FirstKeptAll DEF StartCal, boundVars, dataVars, Ahead
<1>2. CASE StartData(q)
  <2>. SUFFICES ASSUME boots = 0 PROVE Bookkeeping' /\ AckHonest'
    BY <1>2 DEF FirstBoot, StartData, boundVars
  <2>0. Bookkeeping /\ AckHonest
    BY DEF FirstBoot
  <2>1. /\ UNCHANGED <<sent, received, acks, current_data, current_sequence,
                       last_ack_ok>>
        /\ sequence' = sequence + 1 /\ data_msg'.seq = sequence
    BY <1>2 DEF StartData, messengerVars, senderVars, networkVars, MessageOf
  <2>2. /\ sequence \in Nat
        /\ \A pkt \in sent : pkt[2] \in Message /\ pkt[2].seq \in Nat
        /\ current_data \in Message => current_data.seq \in Nat
    BY <2>0, NodeAssumption DEF NodeInv, Places, Bookkeeping, Message
  <2>3. /\ sequence < sequence'
        /\ \A pkt \in sent : pkt[2].seq < sequence'
                             /\ pkt[2].seq # data_msg'.seq
        /\ current_data \in Message => /\ current_data.seq < sequence'
                                       /\ current_data.seq # data_msg'.seq
    BY <2>0, <2>1, <2>2 DEF Bookkeeping
  <2>. QED BY <2>0, <2>1, <2>3 DEF Bookkeeping, AckHonest
<1>. QED BY <1>1, <1>2

LEMMA FirstCal ==
  ASSUME NodeInv, FirstBoot, CalStep
  PROVE  FirstBoot'
<1>. DEFINE q == Tail(events)
<1>1. CASE CalSettled /\ CalSubmit(q)
  <2>. DEFINE m == MessageOf(CalBody)
  <2>1. m \in Message /\ m.seq = sequence
    BY Built DEF NodeInv, MessageOf
  <2>2. /\ MessengerSend(Cal, m, q) /\ UNCHANGED networkVars
        /\ boots' = boots /\ data' = data /\ sequence' = sequence + 1
    BY <1>1 DEF CalSubmit, dataVars, boundVars
  <2>3. data = "idle"
    BY <1>1 DEF CalSettled, NodeInv, Turn, Places
  <2>4. ~Ahead'
    BY <2>2, <2>3 DEF Ahead
  <2>5. sequence \in Nat
    BY NodeAssumption DEF NodeInv, Places
  <2>. HIDE DEF m, q
  <2>6. /\ sequence' \in Nat /\ sequence <= sequence' /\ m.seq < sequence'
    BY <2>1, <2>2, <2>5
  <2>7. boots = 0 => \A pkt \in sent : pkt[2].seq # m.seq
    BY <2>1, <2>5 DEF FirstBoot, Bookkeeping, Message
  <2>. QED BY <2>1, <2>2, <2>4, <2>6, <2>7, FirstSend
<1>2. CASE NodeIgnores(q)
  BY <1>2, FirstKeptAll DEF NodeIgnores, nodeVars, boundVars, dataVars, Ahead
<1>3. ASSUME NEW ok, CalFinish(ok, q)
      PROVE  FirstBoot'
  BY <1>3, FirstKeptAll DEF CalFinish, boundVars, dataVars, Ahead
<1>. QED BY <1>1, <1>2, <1>3
     DEF CalStep, CalSettled, CalAnswered, CalOther

LEMMA FirstDataSend ==
  ASSUME NodeInv, FirstBoot, Ahead, NEW q, MessengerSend(Data, data_msg, q),
         data' = "await", UNCHANGED <<networkVars, sequence, boots>>
  PROVE  FirstBoot'
<1>1. data_msg \in Message /\ sequence \in Nat
  BY NodeAssumption DEF NodeInv, Places, Ahead
<1>2. ~Ahead'
  BY DEF Ahead
<1>3. CASE boots = 0
  <2>1. data_msg.seq < sequence /\ \A pkt \in sent : pkt[2].seq # data_msg.seq
    BY <1>3 DEF FirstBoot, Bookkeeping
  <2>. QED BY <1>1, <1>2, <2>1, FirstSend
<1>4. CASE boots # 0
  BY <1>4 DEF FirstBoot
<1>. QED BY <1>3, <1>4

(* The other steps both kinds of nodes have. *)
LEMMA FirstOther ==
  ASSUME NodeInv, FirstBoot,
         \/ KernelStep \/ CommandStep \/ DataSettled \/ DataAnswered
         \/ DataOther \/ MainBusy \/ Gone
         \/ \E s \in Sensors : SensorEnds(s)
  PROVE  FirstBoot'
<1>1. CASE KernelStep \/ CommandStep \/ MainBusy \/ Gone
           \/ \E s \in Sensors : SensorEnds(s)
  <2>1. UNCHANGED <<messengerVars, boots, sequence, data, data_msg>>
    BY <1>1 DEF KernelStep, CommandStep, SetCalibration, SkipCal, RequestRun,
                SerialLine, MainBusy, Gone, NodeIgnores, SensorEnds,
                nodeVars, boundVars, dataVars
  <2>. QED BY <2>1, FirstKeptAll DEF Ahead
<1>2. ASSUME NEW q, NodeIgnores(q)
      PROVE  FirstBoot'
  BY <1>2, FirstKeptAll DEF NodeIgnores, nodeVars, boundVars, dataVars, Ahead
<1>3. ASSUME NEW q, NEW ok, DataFinish(ok, q)
      PROVE  FirstBoot'
  BY <1>3, FirstKeptAll DEF DataFinish, boundVars, Ahead
<1>4. ASSUME Ahead, NEW where, NEW t, NEW r, NEW q, DataGoes(where, t, r, q)
      PROVE  FirstBoot'
  BY <1>4, FirstKeptAll DEF DataGoes, boundVars
<1>. QED BY <1>1, <1>2, <1>3, <1>4
     DEF DataSettled, DataAnswered, DataOther, Ahead

LEMMA FirstReboot ==
  ASSUME NodeInv, NEW changed, Reboot(changed)
  PROVE  FirstBoot'
<1>1. boots' # 0
  BY NodeAssumption DEF Reboot, NodeInv, Places
<1>. QED BY <1>1 DEF FirstBoot

LEMMA FirstInit ==
  ASSUME NEW changed, NodeInit(changed)
  PROVE  FirstBoot
BY MessengerAssumption
DEF NodeInit, MessengerInit, FirstBoot, Bookkeeping, AckHonest, Ahead

(* The counter of failures goes back only when the message sent last has    *)
(* arrived.                                                                 *)
LEMMA FailuresFall ==
  ASSUME NodeInv, FirstBoot, boots = 0,
         CalStep \/ DataSettled \/ DataAnswered \/ DataOther
  PROVE  failure_counter' < failure_counter => current_data \in received
<1>1. failure_counter \in Nat
  BY DEF NodeInv, Places
<1>2. failure_counter' < failure_counter =>
        \E q : CalFinish(last_ack_ok, q) \/ DataFinish(last_ack_ok, q)
  BY <1>1
  DEF CalStep, CalSettled, CalAnswered, CalOther, CalSubmit, CalFinish,
      DataSettled, DataAnswered, DataOther, DataFinish, DataGoes,
      NodeIgnores, nodeVars
<1>3. ASSUME NEW q, CalFinish(last_ack_ok, q) \/ DataFinish(last_ack_ok, q),
             failure_counter' < failure_counter
      PROVE  last_ack_ok
  BY <1>1, <1>3 DEF CalFinish, DataFinish
<1>. QED BY <1>2, <1>3 DEF FirstBoot, AckHonest

-----------------------------------------------------------------------------
(* The airborne node. *)

LEMMA AirborneMainInv ==
  ASSUME NodeInv, AirborneMainStep
  PROVE  NodeInv'
<1>1. CASE AirborneWait
  <2>1. PICK e \in Kinds :
          /\ Receives(Main, e)
          /\ \/ sequence < MaxSeq /\ StartCal(Tail(events))
             \/ sequence < MaxSeq /\ StartData(Tail(events))
             \/ NodeIgnores(Tail(events))
    BY <1>1 DEF AirborneWait
  <2>2. e # "done"
    BY <1>1, <2>1, ReceivedPending DEF AirborneWait, NodeInv, Turn
  <2>3. Tail(events) \in Seq(Event) /\ Same(events, Tail(events))
    BY <2>1, <2>2, TailSame DEF NodeInv, ContikiTypeOK
  <2>. QED BY <1>1, <2>1, <2>3, StartInv, IgnoresKept DEF AirborneWait
<1>2. CASE AirborneCalDone \/ AirborneDataDone
  BY <1>2, TakeResultInv
  DEF AirborneCalDone, AirborneDataDone, NodeInv, Places, configVars
<1>3. CASE MainBusy \/ Gone
  BY <1>3, MainIgnoresInv
<1>. QED BY <1>1, <1>2, <1>3 DEF AirborneMainStep

(* The data process of the airborne node looks at its sensors. *)
LEMMA AirborneReadingInv ==
  ASSUME NodeInv, AirborneReading
  PROVE  NodeInv'
<1>. DEFINE q == Tail(events)
<1>0. /\ Places
      /\ timers \in [Procs -> Nat \cup {Off}]
      /\ Watch \in Nat
  BY NodeAssumption DEF NodeInv, ContikiTypeOK
<1>1. q \in Seq(Event) /\ Same(events, q)
  BY Taken, Processes DEF AirborneReading
<1>. HIDE DEF q
<1>2. data # "idle" /\ running \in SUBSET Sensors
  BY <1>0 DEF AirborneReading, Places
<1>3. CASE AirborneSubmit(q)
  <2>1. timers' \in [Procs -> Nat \cup {Off}]
    BY <1>0, <1>3, TimersType, Processes DEF AirborneSubmit
  <2>. QED BY <1>1, <1>2, <1>3, <2>1, DataSendInv DEF AirborneSubmit
<1>. QED BY <1>0, <1>1, <1>2, <1>3, IgnoresKept, DataGoesInv
     DEF AirborneReading, q

LEMMA AirborneInductive ==
  ASSUME NodeInv, [AirborneNext]_airborneVars
  PROVE  NodeInv'
<1>1. CASE UNCHANGED airborneVars
  <2>1. SenderOK'
    BY <1>1, SenderKept DEF NodeInv, airborneVars, messengerVars
  <2>. QED BY <1>1, <2>1, NodeKept, SameRefl
       DEF airborneVars, NodeInv, ContikiTypeOK, kernelVars
<1>2. CASE AirborneNext
  <2>1. CASE SenderStep \/ AckStep \/ ServerStep \/ KernelStep
    BY <2>1, SenderInv, EnvironmentInv
  <2>2. CASE AirborneMainStep \/ CalStep \/ CommandStep
    BY <2>2, AirborneMainInv, CalInv, CommandInv
  <2>3. CASE AirborneDataStep
    BY <2>3, DataInv, AirborneReadingInv DEF AirborneDataStep
  <2>4. CASE NodeReboot \/ \E s \in Sensors : SensorEnds(s)
    BY <2>4, RebootInv, SensorInv DEF NodeReboot
  <2>. QED BY <1>2, <2>1, <2>2, <2>3, <2>4
       DEF AirborneNext, ProcessStep, ClockStep, SensorStep, OutsideStep
<1>. QED BY <1>1, <1>2

LEMMA AirborneAlways == AirborneSpec => []NodeInv
<1>1. AirborneInit => NodeInv
  BY InitNode DEF AirborneInit
<1>2. NodeInv /\ [AirborneNext]_airborneVars => NodeInv'
  BY AirborneInductive
<1>. QED BY <1>1, <1>2, PTL DEF AirborneSpec

(* The variables of the airborne node keep their types. *)
THEOREM AirborneTypesHold == AirborneSpec => []NodeTypeOK
<1>1. NodeInv => NodeTypeOK
  BY NodeInvImplies
<1>. QED BY <1>1, AirborneAlways, PTL

(* The main process of the airborne node is never left waiting for an event *)
(* that does not come, and never finds one that was left behind.            *)
THEOREM AirborneNeverLeftWaiting == AirborneSpec => []DoneComes
<1>1. NodeInv => DoneComes
  BY NodeInvImplies
<1>. QED BY <1>1, AirborneAlways, PTL

-----------------------------------------------------------------------------
LEMMA AirborneFirstInductive ==
  ASSUME MaxSeq <= SeqMod, NodeInv, FirstBoot, [AirborneNext]_airborneVars
  PROVE  FirstBoot'
<1>1. CASE UNCHANGED airborneVars
  BY <1>1, FirstKeptAll DEF airborneVars, nodeVars, boundVars, dataVars, Ahead
<1>2. CASE SenderStep \/ AckStep \/ ServerStep \/ CalStep \/ NodeReboot
  BY <1>2, FirstSender, FirstAck, FirstServer, FirstCal, FirstReboot
  DEF NodeReboot
<1>3. CASE AirborneMainStep
  <2>1. ASSUME NEW q, NodeIgnores(q)
        PROVE  FirstBoot'
    BY <2>1, FirstKeptAll DEF NodeIgnores, nodeVars, boundVars, dataVars, Ahead
  <2>2. CASE AirborneWait
    BY <2>1, <2>2, FirstStart DEF AirborneWait
  <2>3. CASE AirborneCalDone \/ AirborneDataDone
    BY <2>3, FirstKeptAll
    DEF AirborneCalDone, AirborneDataDone, boundVars, dataVars, Ahead
  <2>. QED BY <1>3, <2>2, <2>3, FirstOther DEF AirborneMainStep
<1>4. CASE AirborneReading
  <2>. DEFINE q == Tail(events)
  <2>1. CASE AirborneSubmit(q)
    BY <1>4, <2>1, FirstDataSend DEF AirborneReading, AirborneSubmit, boundVars, Ahead
  <2>2. CASE Ahead /\ UNCHANGED <<messengerVars, boots, sequence, data_msg>>
    BY <2>2, FirstKeptAll
  <2>. QED BY <1>4, <2>1, <2>2
       DEF AirborneReading, DataGoes, NodeIgnores, nodeVars, boundVars, dataVars,
           Ahead
<1>5. CASE KernelStep \/ CommandStep \/ \E s \in Sensors : SensorEnds(s)
  BY <1>5, FirstOther
<1>6. CASE DataSettled \/ DataAnswered \/ DataOther
  BY <1>6, FirstOther
<1>. QED BY <1>1, <1>2, <1>3, <1>4, <1>5, <1>6
     DEF AirborneNext, ProcessStep, ClockStep, SensorStep, OutsideStep, AirborneDataStep

(* A calibration of the first boot. *)
IsCal(m) == m.body.kind = "cal" /\ m.body.boot = 0

CalArrived == \E m \in received : IsCal(m)

(* Until a calibration has arrived, nothing but calibrations was sent, and  *)
(* no data process runs.                                                    *)
CalFirst ==
  /\ state = "SEND_CAL" =>
       /\ main # "data" /\ data = "idle"
       /\ current_data \in Message => IsCal(current_data)
  /\ cal_rc \/ state # "SEND_CAL" => CalArrived

CalFirstInv == boots = 0 => CalFirst

LEMMA CalFirstKept ==
  ASSUME NodeInv, CalFirst, received \subseteq received',
         UNCHANGED <<state, cal_rc, main, data, current_data>>
  PROVE  CalFirst'
BY DEF CalFirst, CalArrived, IsCal

LEMMA CalFirstInductive ==
  ASSUME NodeInv, FirstBoot, CalFirstInv, [AirborneNext]_airborneVars
  PROVE  CalFirstInv'
<1>. SUFFICES ASSUME boots = 0, ~NodeReboot PROVE CalFirst'
  <2>1. ASSUME NodeReboot PROVE boots' # 0
    BY <2>1, NodeAssumption DEF NodeReboot, Reboot, NodeInv, Places
  <2>2. ASSUME boots' = 0, ~NodeReboot PROVE boots = 0
    BY <2>2
    DEF AirborneNext, airborneVars, ProcessStep, ClockStep, SensorStep, OutsideStep, AirborneMainStep,
        AirborneDataStep, SenderStep, AckStep, ServerStep, KernelStep, CalStep,
        CommandStep, AirborneWait, AirborneCalDone, AirborneDataDone, MainBusy, Gone,
        StartCal, StartData, NodeIgnores, CalSettled, CalAnswered, CalOther,
        CalSubmit, CalFinish, DataSettled, AirborneReading, DataAnswered,
        DataOther, DataGoes, AirborneSubmit, DataFinish, SensorEnds,
        SetCalibration, SkipCal, RequestRun, SerialLine, nodeVars, boundVars
  <2>. QED BY <2>1, <2>2 DEF CalFirstInv
<1>0. CalFirst /\ AckHonest /\ Places /\ Turn
  BY DEF CalFirstInv, FirstBoot, NodeInv
<1>1. CASE \/ UNCHANGED airborneVars
           \/ /\ SenderStep \/ AckStep \/ ServerStep \/ KernelStep
                 \/ CommandStep \/ MainBusy \/ Gone
                 \/ \E s \in Sensors : SensorEnds(s)
              /\ UNCHANGED state
  <2>1. UNCHANGED <<state, cal_rc, main, data>>
    BY <1>1
    DEF airborneVars, SenderStep, AckStep, ServerStep, KernelStep, CommandStep,
        SetCalibration, SkipCal, RequestRun, SerialLine, MainBusy, Gone, NodeIgnores,
        SensorEnds, nodeVars, calVars, dataVars
  <2>2. current_data' = current_data
    BY <1>1
    DEF airborneVars, SenderStep, SenderStart, SenderFin, SenderOther, OnStart, OnFin,
        OnOther, AckStep, AckArrives, ServerStep, ServerReceives, KernelStep,
        CommandStep, SetCalibration, SkipCal, RequestRun, SerialLine, MainBusy, Gone,
        NodeIgnores, SensorEnds, messengerVars, senderVars
  <2>3. received \subseteq received'
    BY <1>1
    DEF airborneVars, SenderStep, SenderStart, SenderFin, SenderOther, AckStep,
        AckArrives, ServerStep, ServerReceives, KernelStep, CommandStep,
        SetCalibration, SkipCal, RequestRun, SerialLine, MainBusy, Gone, NodeIgnores,
        SensorEnds, messengerVars, networkVars
  <2>. QED BY <1>0, <2>1, <2>2, <2>3, CalFirstKept
<1>2. ASSUME NEW q, NodeIgnores(q), UNCHANGED state
      PROVE  CalFirst'
  BY <1>0, <1>2, CalFirstKept
  DEF NodeIgnores, nodeVars, calVars, dataVars, messengerVars, senderVars,
      networkVars
<1>3. CASE AirborneWait
  <2>1. ASSUME NEW q, StartCal(q), UNCHANGED state
        PROVE  CalFirst'
    BY <1>0, <2>1
    DEF StartCal, CalFirst, CalArrived, IsCal, dataVars, messengerVars,
        senderVars, networkVars
  <2>2. ASSUME NEW q, StartData(q), state # "SEND_CAL", UNCHANGED state
        PROVE  CalFirst'
    BY <1>0, <2>2
    DEF StartData, CalFirst, CalArrived, IsCal, calVars, messengerVars,
        senderVars, networkVars
  <2>. QED BY <1>2, <1>3, <2>1, <2>2 DEF AirborneWait
<1>4. CASE AirborneCalDone \/ AirborneDataDone
  <2>1. /\ UNCHANGED <<received, current_data, data, cal_rc>>
        /\ main' = "wait"
        /\ state' = state \/ (cal_rc /\ state' # "SEND_CAL")
           \/ (main = "data" /\ state' # "SEND_CAL")
    BY <1>4
    DEF AirborneCalDone, AirborneDataDone, TakeResult, messengerVars, senderVars,
        networkVars, calVars, dataVars
  <2>. QED BY <1>0, <2>1 DEF CalFirst, CalArrived, IsCal
<1>5. CASE CalStep /\ UNCHANGED state
  <2>. DEFINE q == Tail(events)
  <2>1. CASE CalSubmit(q)
    <3>1. /\ UNCHANGED <<received, main, data, cal_rc, state>>
          /\ current_data' = current_data
             \/ current_data' = MessageOf(CalBody)
      BY <1>5, <2>1
      DEF CalSubmit, MessengerSend, senderVars, networkVars, dataVars
    <3>2. IsCal(MessageOf(CalBody))
      BY DEF IsCal, MessageOf, CalBody
    <3>. QED BY <1>0, <3>1, <3>2 DEF CalFirst, CalArrived
  <2>2. ASSUME NEW ok \in {last_ack_ok, FALSE}, CalFinish(ok, q)
        PROVE  CalFirst'
    <3>0. UNCHANGED <<received, main, data, current_data, state>>
      BY <1>5, <2>2
      DEF CalFinish, messengerVars, senderVars, networkVars, dataVars
    <3>1. cal_rc' => cal_rc \/ last_ack_ok
      <4>1. cal_rc' = (cal_rc \/ ok)
        BY <2>2 DEF CalFinish
      <4>2. CASE ok = FALSE
        BY <4>1, <4>2
      <4>3. CASE ok = last_ack_ok
        BY <4>1, <4>3
      <4>. QED BY <4>2, <4>3
    <3>2. last_ack_ok => CalArrived
      <4>1. ASSUME last_ack_ok PROVE current_data \in received
        BY <1>0, <4>1 DEF AckHonest
      <4>2. received \subseteq Message
        BY DEF FirstBoot, Bookkeeping
      <4>. QED BY <1>0, <4>1, <4>2 DEF CalFirst, CalArrived
    <3>. QED BY <1>0, <3>0, <3>1, <3>2 DEF CalFirst, CalArrived, IsCal
  <2>3. \/ CalSubmit(q) \/ NodeIgnores(q)
        \/ CalFinish(last_ack_ok, q) \/ CalFinish(FALSE, q)
    BY <1>5 DEF CalStep, CalSettled, CalAnswered, CalOther
  <2>4. CalFinish(last_ack_ok, q) \/ CalFinish(FALSE, q) => CalFirst'
    BY <2>2
  <2>. QED BY <1>2, <1>5, <2>1, <2>3, <2>4
<1>6. CASE AirborneDataStep /\ UNCHANGED state
  <2>1. data # "idle"
    BY <1>6 DEF AirborneDataStep, DataSettled, AirborneReading, DataAnswered, DataOther
  <2>2. UNCHANGED <<received, cal_rc>>
    BY <1>6
    DEF AirborneDataStep, DataSettled, AirborneReading, DataAnswered, DataOther, DataGoes,
        AirborneSubmit, DataFinish, NodeIgnores, messengerVars, networkVars,
        calVars, nodeVars
  <2>. QED BY <1>0, <1>6, <2>1, <2>2 DEF CalFirst, CalArrived, IsCal
<1>. QED BY <1>1, <1>3, <1>4, <1>5, <1>6
     DEF AirborneNext, ProcessStep, ClockStep, SensorStep, OutsideStep, AirborneMainStep

(* As long as no sequence number of the boot comes twice: no data is handed *)
(* over in the first boot before a calibration of this boot has arrived,    *)
(* whatever is lost or late and however soon the processes give up.         *)
THEOREM CalibrationComesFirst ==
  ASSUME MaxSeq <= SeqMod
  PROVE  AirborneSpec => DataAfterCal
<1>. DEFINE Inv == NodeInv /\ FirstBoot /\ CalFirstInv
<1>1. AirborneInit => Inv
  <2>1. AirborneInit => CalFirstInv
    BY MessengerAssumption
    DEF AirborneInit, NodeInit, MessengerInit, CalFirstInv, CalFirst
  <2>. QED BY <2>1, InitNode, FirstInit DEF AirborneInit
<1>2. Inv /\ [AirborneNext]_airborneVars => Inv'
  BY AirborneInductive, AirborneFirstInductive, CalFirstInductive
<1>3. Inv /\ [AirborneNext]_airborneVars =>
        [data # "await" /\ data' = "await" /\ boots = 0 =>
           \E m \in received : m.body.kind = "cal" /\ m.body.boot = boots]_airborneVars
  <2>. SUFFICES ASSUME Inv, AirborneNext, data # "await", data' = "await", boots = 0
                PROVE  CalArrived
    BY DEF CalArrived, IsCal
  <2>1. data # "idle"
    BY DEF AirborneNext, ProcessStep, ClockStep, SensorStep, OutsideStep, AirborneMainStep,
        NodeReboot, Reboot,
        AirborneDataStep, SenderStep, AckStep, ServerStep, KernelStep, CalStep,
        CommandStep, AirborneWait, AirborneCalDone, AirborneDataDone, MainBusy, Gone,
        StartCal, StartData, NodeIgnores, CalSettled, CalAnswered, CalOther,
        CalSubmit, CalFinish, DataSettled, AirborneReading, DataAnswered,
        DataOther, SensorEnds,
        SetCalibration, SkipCal, RequestRun, SerialLine, nodeVars, dataVars
  <2>. QED BY <2>1 DEF CalFirstInv, CalFirst
<1>. QED BY <1>1, <1>2, <1>3, PTL DEF AirborneSpec, DataAfterCal

=============================================================================
