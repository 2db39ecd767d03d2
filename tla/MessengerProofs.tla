-------------------------- MODULE MessengerProofs --------------------------
(***************************************************************************)
(* Theorems about MessengerSystem, for every number of clients, every      *)
(* MaxAttempts, every RetryDelay and every patience of the clients.        *)
(***************************************************************************)
EXTENDS MessengerSystem, SequenceTheorems, NaturalsInduction,
        WellFoundedInduction, TLAPS

USE DEF Off

(* A message that is being sent has an owner and an attempt left: GiveUp    *)
(* is reached before current_attempt passes MaxAttempts.                    *)
Busy ==
  send_started =>
    /\ requestor \in Clients
    /\ current_data \in Message
    /\ current_attempt < MaxAttempts

(* At most one client runs, and the one that settles has a number left. *)
OneClient ==
  /\ \A c, d \in Clients : pc[c] # "idle" /\ pc[d] # "idle" => c = d
  /\ \A c \in Clients : pc[c] = "settle" => sequence < MaxSeq

TypeInv == TypeOK /\ Busy

-----------------------------------------------------------------------------
(* The queue operations keep the queue a sequence of events. *)
LEMMA PostType ==
  ASSUME NEW q \in Seq(Event), NEW p \in Procs, NEW e \in Kinds
  PROVE  Post(q, p, e) \in Seq(Event)
BY DEF Post, Event

LEMMA TellType ==
  ASSUME NEW q \in Seq(Event), NEW p \in Procs
  PROVE  Tell(q, p) \in Seq(Event)
BY DEF Tell, Event, Kinds

LEMMA ReceivesType ==
  ASSUME events \in Seq(Event), NEW p, NEW e, Receives(p, e)
  PROVE  Tail(events) \in Seq(Event)
BY DEF Receives

LEMMA TimersType ==
  ASSUME timers \in [Procs -> Nat \cup {Off}], NEW p \in Procs, NEW t \in Nat
  PROVE  /\ Set(p, t) \in [Procs -> Nat \cup {Off}]
         /\ Stop(p) \in [Procs -> Nat \cup {Off}]
BY DEF Set, Stop

-----------------------------------------------------------------------------
LEMMA InitType == Init => TypeInv
<1>. SUFFICES ASSUME Init PROVE TypeInv
  OBVIOUS
<1>. USE MessengerAssumption, SystemAssumption DEF Init
<1>1. ContikiTypeOK
  BY DEF ContikiTypeOK, ContikiInit
<1>2. SenderTypeOK
  <2>1. 0 \in 0..SeqMod - 1 /\ 0 \in 0..MaxAttempts
    OBVIOUS
  <2>. QED BY <2>1 DEF SenderTypeOK, MessengerInit
<1>4. NetworkTypeOK /\ Busy
  BY DEF NetworkTypeOK, Busy, MessengerInit
<1>3. ClientTypeOK
  BY DEF ClientTypeOK
<1>. QED BY <1>1, <1>2, <1>3, <1>4 DEF TypeInv, TypeOK

(* What the handlers of the sender do. *)
LEMMA SenderType ==
  ASSUME TypeInv, SenderStep
  PROVE  TypeInv'
<1>. USE MessengerAssumption, SystemAssumption
<1>0. /\ ContikiTypeOK /\ SenderTypeOK /\ NetworkTypeOK
      /\ ClientTypeOK /\ Busy
  BY DEF TypeInv, TypeOK
<1>1. ClientTypeOK'
  BY <1>0 DEF SenderStep, clientVars, ClientTypeOK
<1>2. CASE SenderStart
  <2>1. ContikiTypeOK'
    <3>1. Tail(events) \in Seq(Event)
      BY <1>0, <1>2, ReceivesType DEF SenderStart, ContikiTypeOK
    <3>. QED
      BY <1>0, <1>2, <3>1, TimersType DEF SenderStart, OnStart, ContikiTypeOK
  <2>2. SenderTypeOK' /\ NetworkTypeOK' /\ Busy'
    BY <1>0, <1>2
    DEF SenderStart, OnStart, Transmit, SenderTypeOK, NetworkTypeOK, Busy
  <2>. QED BY <1>1, <2>1, <2>2 DEF TypeInv, TypeOK
<1>3. CASE SenderFin
  <2>1. ContikiTypeOK'
    <3>1. Tail(events) \in Seq(Event)
      BY <1>0, <1>3, ReceivesType DEF SenderFin, ContikiTypeOK
    <3>2. send_started => Post(Tail(events), requestor, "MSG") \in Seq(Event)
      BY <1>0, <3>1, PostType DEF Busy, Kinds
    <3>. QED
      BY <1>0, <1>3, <3>1, <3>2, TimersType DEF SenderFin, OnFin, ContikiTypeOK
  <2>2. SenderTypeOK' /\ NetworkTypeOK' /\ Busy'
    BY <1>0, <1>3
    DEF SenderFin, OnFin, SenderTypeOK, NetworkTypeOK, Busy
  <2>. QED BY <1>1, <2>1, <2>2 DEF TypeInv, TypeOK
<1>4. CASE SenderOther
  <2> DEFINE q == Tail(events)
  <2>1. q \in Seq(Event)
    BY <1>0, <1>4, ReceivesType DEF SenderOther, ContikiTypeOK
  <2>2. /\ OnOther(q)
        /\ UNCHANGED <<conn, received, acks>>
    BY <1>4 DEF SenderOther
  <2>3. CASE send_started /\ GiveUp(q)
    <3>1. Post(q, requestor, "MSG") \in Seq(Event)
      BY <1>0, <2>1, <2>3, PostType, SystemAssumption DEF Busy, Kinds
    <3>2. ContikiTypeOK'
      BY <1>0, <2>3, <3>1, TimersType DEF GiveUp, ContikiTypeOK
    <3>3. current_attempt' \in 0..MaxAttempts
      BY <1>0, <2>3 DEF GiveUp, SenderTypeOK, Busy
    <3>4. SenderTypeOK' /\ NetworkTypeOK' /\ Busy'
      BY <1>0, <2>2, <2>3, <3>3
      DEF OnOther, GiveUp, SenderTypeOK, NetworkTypeOK, Busy
    <3>. QED BY <1>1, <3>2, <3>4 DEF TypeInv, TypeOK
  <2>4. CASE send_started /\ current_attempt + 1 < MaxAttempts /\ Resend(q)
    <3>1. ContikiTypeOK'
      BY <1>0, <2>1, <2>4, TimersType DEF Resend, ContikiTypeOK
    <3>2. /\ current_attempt' \in 0..MaxAttempts
          /\ current_attempt' < MaxAttempts
      BY <1>0, <2>4 DEF Resend, SenderTypeOK
    <3>3. sent' \subseteq (Addr \X Message) /\ tries' \in Nat
      BY <1>0, <2>4 DEF Resend, Transmit, SenderTypeOK, NetworkTypeOK, Busy
    <3>4. SenderTypeOK' /\ NetworkTypeOK' /\ Busy'
      BY <1>0, <2>2, <2>4, <3>2, <3>3
      DEF OnOther, Resend, SenderTypeOK, NetworkTypeOK, Busy
    <3>. QED BY <1>1, <3>1, <3>4 DEF TypeInv, TypeOK
  <2>5. CASE /\ events' = q
             /\ UNCHANGED <<current_attempt, last_ack_ok, send_started, sent,
                            tries, timers>>
    <3>1. ContikiTypeOK' /\ SenderTypeOK' /\ NetworkTypeOK' /\ Busy'
      BY <1>0, <2>1, <2>2, <2>5
      DEF OnOther, ContikiTypeOK, SenderTypeOK, NetworkTypeOK, Busy
    <3>. QED BY <1>1, <3>1 DEF TypeInv, TypeOK
  <2>6. \/ send_started /\ GiveUp(q)
        \/ send_started /\ current_attempt + 1 < MaxAttempts /\ Resend(q)
        \/ /\ events' = q
           /\ UNCHANGED <<current_attempt, last_ack_ok, send_started, sent,
                          tries, timers>>
    BY <1>0, <2>2 DEF OnOther, SenderTypeOK
  <2>. QED BY <2>3, <2>4, <2>5, <2>6
<1>. QED BY <1>2, <1>3, <1>4 DEF SenderStep

(* What the network and the kernel do. *)
LEMMA EnvironmentType ==
  ASSUME TypeInv, AckStep \/ ServerStep \/ KernelStep
  PROVE  TypeInv'
<1>. USE MessengerAssumption, SystemAssumption
<1>0. /\ ContikiTypeOK /\ SenderTypeOK /\ NetworkTypeOK
      /\ ClientTypeOK /\ Busy
  BY DEF TypeInv, TypeOK
<1>1. ClientTypeOK'
  BY <1>0 DEF AckStep, ServerStep, KernelStep, clientVars, ClientTypeOK
<1>2. CASE AckStep
  <2>1. PICK a \in acks : AckArrives(a)
    BY <1>2 DEF AckStep
  <2>2. ContikiTypeOK'
    BY <1>0, <2>1, PostType DEF AckArrives, ContikiTypeOK, Kinds
  <2>3. SenderTypeOK' /\ NetworkTypeOK' /\ Busy'
    BY <1>0, <2>1
    DEF AckArrives, networkVars, SenderTypeOK, NetworkTypeOK, Busy
  <2>. QED BY <1>1, <2>2, <2>3 DEF TypeInv, TypeOK
<1>3. CASE ServerStep
  <2>1. PICK pkt \in sent : ServerReceives(pkt[1], pkt[2])
    BY <1>3 DEF ServerStep
  <2>2. pkt[2] \in Message /\ pkt[2].seq \in Nat
    BY <1>0, <2>1 DEF NetworkTypeOK, Message
  <2>3. NetworkTypeOK'
    BY <1>0, <2>1, <2>2 DEF ServerReceives, NetworkTypeOK
  <2>4. ContikiTypeOK' /\ SenderTypeOK' /\ Busy'
    BY <1>0, <2>1 DEF ServerReceives, kernelVars, senderVars, ContikiTypeOK,
                      SenderTypeOK, Busy
  <2>. QED BY <1>1, <2>3, <2>4 DEF TypeInv, TypeOK
<1>4. CASE KernelStep
  <2>1. SenderTypeOK' /\ NetworkTypeOK' /\ Busy'
    BY <1>0, <1>4 DEF KernelStep, messengerVars, senderVars, networkVars,
                      SenderTypeOK, NetworkTypeOK, Busy
  <2>2. CASE Tick
    BY <1>0, <1>1, <2>1, <2>2 DEF Tick, ContikiTypeOK, TypeInv, TypeOK
  <2>3. ASSUME NEW p \in Procs, TimerPoll(p)
        PROVE  TypeInv'
    <3>1. Post(events, p, "TIMER") \in Seq(Event)
      BY <1>0, PostType DEF ContikiTypeOK, Kinds
    <3>2. ContikiTypeOK'
      BY <1>0, <2>3, <3>1, TimersType DEF TimerPoll, ContikiTypeOK
    <3>. QED BY <1>1, <2>1, <3>2 DEF TypeInv, TypeOK
  <2>. QED BY <1>4, <2>2, <2>3 DEF KernelStep
<1>. QED BY <1>2, <1>3, <1>4

(* Handing over a message. *)
LEMMA SubmitType ==
  ASSUME TypeInv, NEW c \in Clients, NEW q \in Seq(Event), sequence < MaxSeq,
         Submit(c, q)
  PROVE  TypeInv'
<1>. USE MessengerAssumption, SystemAssumption
<1>0. /\ ContikiTypeOK /\ SenderTypeOK /\ NetworkTypeOK
      /\ ClientTypeOK /\ Busy
  BY DEF TypeInv, TypeOK
<1>1. PICK m \in Message : MessengerSend(c, m, q)
                         /\ msg' = [msg EXCEPT ![c] = m]
  <2>1. PICK b \in Body :
          LET m == [dst |-> receiver, seq |-> sequence, body |-> b]
          IN  MessengerSend(c, m, q) /\ msg' = [msg EXCEPT ![c] = m]
    BY DEF Submit
  <2> DEFINE m == [dst |-> receiver, seq |-> sequence, body |-> b]
  <2>2. m \in Message
    BY <1>0 DEF ClientTypeOK, Message
  <2>3. MessengerSend(c, m, q) /\ msg' = [msg EXCEPT ![c] = m]
    BY <2>1
  <2>. HIDE DEF m
  <2>. QED BY <2>2, <2>3
<1>2. m.seq % SeqMod \in 0..SeqMod - 1
  BY <1>1 DEF Message
<1>3. ClientTypeOK'
  BY <1>0, <1>1 DEF Submit, ClientTypeOK
<1>4. ContikiTypeOK'
  <2>1. Post(q, Sender, "start") \in Seq(Event)
    BY PostType DEF Kinds
  <2>2. timers' \in [Procs -> Nat \cup {Off}]
    BY <1>0, TimersType DEF Submit, ContikiTypeOK
  <2>. QED BY <1>1, <2>1, <2>2 DEF MessengerSend, ContikiTypeOK
<1>5. NetworkTypeOK'
  BY <1>0 DEF Submit, networkVars, NetworkTypeOK
<1>6. SenderTypeOK' /\ Busy'
  <2>1. CASE send_started
    BY <1>0, <1>1, <2>1
    DEF Submit, MessengerSend, senderVars, SenderTypeOK, Busy
  <2>2. CASE ~send_started
    <3>1. 0 \in 0..MaxAttempts /\ 0 < MaxAttempts
      OBVIOUS
    <3>2. SenderTypeOK'
      <4>1. conn' \in Addr
        BY <1>0 DEF Submit, SenderTypeOK
      <4>2. /\ send_started' = TRUE /\ last_ack_ok' = FALSE
            /\ requestor' = c /\ current_data' = m
            /\ current_sequence' = m.seq % SeqMod
            /\ current_attempt' = 0 /\ tries' = 0
        BY <1>1, <2>2 DEF MessengerSend
      <4>. QED BY <1>1, <1>2, <3>1, <4>1, <4>2 DEF SenderTypeOK
    <3>3. Busy'
      BY <1>1, <2>2, <3>1 DEF MessengerSend, Busy
    <3>. QED BY <3>2, <3>3
  <2>. QED BY <2>1, <2>2
<1>. QED BY <1>3, <1>4, <1>5, <1>6 DEF TypeInv, TypeOK

(* The other steps of the clients, of the console and of the configuration. *)
LEMMA ClientType ==
  ASSUME TypeInv, OneClient, NEW c \in Clients, Begin(c) \/ ClientStep(c)
  PROVE  TypeInv'
<1>. USE MessengerAssumption, SystemAssumption
<1>0. /\ ContikiTypeOK /\ SenderTypeOK /\ NetworkTypeOK
      /\ ClientTypeOK /\ Busy
  BY DEF TypeInv, TypeOK
<1>. DEFINE q == Tail(events)
<1>1. CASE Begin(c)
  <2>1. ContikiTypeOK'
    BY <1>0, <1>1, TimersType DEF Begin, ContikiTypeOK
  <2>2. SenderTypeOK' /\ NetworkTypeOK' /\ Busy'
    BY <1>0, <1>1 DEF Begin, messengerVars, senderVars, networkVars,
                      SenderTypeOK, NetworkTypeOK, Busy
  <2>3. ClientTypeOK'
    BY <1>0, <1>1 DEF Begin, ClientTypeOK
  <2>. QED BY <2>1, <2>2, <2>3 DEF TypeInv, TypeOK
<1>2. ASSUME q \in Seq(Event), Ignore(c, q)
      PROVE  TypeInv'
  BY <1>0, <1>2
  DEF Ignore, messengerVars, senderVars, networkVars, clientVars, TypeInv,
      TypeOK, ContikiTypeOK, SenderTypeOK, NetworkTypeOK, ClientTypeOK, Busy
<1>3. ASSUME q \in Seq(Event), NEW ok \in BOOLEAN, Finish(c, ok, q)
      PROVE  TypeInv'
  <2>1. ContikiTypeOK'
    BY <1>0, <1>3, TellType, TimersType DEF Finish, ContikiTypeOK
  <2>2. SenderTypeOK' /\ NetworkTypeOK' /\ Busy'
    BY <1>0, <1>3 DEF Finish, messengerVars, senderVars, networkVars,
                      SenderTypeOK, NetworkTypeOK, Busy
  <2>3. ClientTypeOK'
    BY <1>0, <1>3 DEF Finish, ClientTypeOK
  <2>. QED BY <2>1, <2>2, <2>3 DEF TypeInv, TypeOK
<1>4. CASE ClientStep(c)
  <2>1. q \in Seq(Event)
    BY <1>0, <1>4, ReceivesType
    DEF ClientStep, ClientSettled, ClientAnswered, ClientOther, ClientGone,
        ContikiTypeOK
  <2>2. CASE ClientSettled(c)
    BY <1>2, <2>1, <2>2, SubmitType DEF ClientSettled, OneClient
  <2>3. CASE ClientAnswered(c)
    BY <1>0, <1>3, <2>1, <2>3 DEF ClientAnswered, SenderTypeOK
  <2>4. CASE ClientOther(c)
    BY <1>2, <1>3, <2>1, <2>4 DEF ClientOther
  <2>5. CASE ClientGone(c)
    BY <1>2, <2>1, <2>5 DEF ClientGone
  <2>. QED BY <1>4, <2>2, <2>3, <2>4, <2>5 DEF ClientStep
<1>. QED BY <1>1, <1>4

LEMMA OutsideType ==
  ASSUME TypeInv, SerialLine \/ \E a \in Addr : SetReceiver(a)
  PROVE  TypeInv'
<1>. USE MessengerAssumption, SystemAssumption
<1>0. /\ ContikiTypeOK /\ SenderTypeOK /\ NetworkTypeOK
      /\ ClientTypeOK /\ Busy
  BY DEF TypeInv, TypeOK
<1>1. SenderTypeOK' /\ NetworkTypeOK' /\ Busy'
  <2>1. UNCHANGED messengerVars
    BY DEF SerialLine, SetReceiver
  <2>. QED BY <1>0, <2>1 DEF messengerVars, senderVars, networkVars,
                             SenderTypeOK, NetworkTypeOK, Busy
<1>2. CASE SerialLine
  <2>1. \A p \in Procs : Post(events, p, "line") \in Seq(Event)
    BY <1>0, PostType DEF ContikiTypeOK, Kinds
  <2>2. \A p \in Procs :
          Post(Post(events, p, "line"), Sender, "line") \in Seq(Event)
    BY <2>1, PostType DEF Kinds
  <2>3. ContikiTypeOK'
    BY <1>0, <1>2, <2>1, <2>2 DEF SerialLine, ContikiTypeOK
  <2>4. ClientTypeOK'
    BY <1>0, <1>2 DEF SerialLine, ClientTypeOK
  <2>. QED BY <1>1, <2>3, <2>4 DEF TypeInv, TypeOK
<1>3. CASE \E a \in Addr : SetReceiver(a)
  <2>1. ContikiTypeOK' /\ ClientTypeOK'
    BY <1>0, <1>3 DEF SetReceiver, kernelVars, ContikiTypeOK, ClientTypeOK
  <2>. QED BY <1>1, <2>1 DEF TypeInv, TypeOK
<1>. QED BY <1>2, <1>3

(* Starting and ending keep to one client at a time. *)
LEMMA OneClientStep ==
  ASSUME TypeInv, OneClient, [Next]_vars
  PROVE  OneClient'
<1>. USE DEF TypeInv, TypeOK, ClientTypeOK, OneClient
<1>1. CASE UNCHANGED <<pc, sequence>>
  BY <1>1
<1>2. ASSUME NEW c \in Clients, Begin(c)
      PROVE  OneClient'
  BY <1>2 DEF Begin
<1>3. ASSUME NEW c \in Clients, NEW q, pc[c] = "settle", Submit(c, q)
      PROVE  OneClient'
  BY <1>3 DEF Submit
<1>4. ASSUME NEW c \in Clients, NEW ok, NEW q, Finish(c, ok, q)
      PROVE  OneClient'
  BY <1>4 DEF Finish
<1>5. ASSUME NEW c \in Clients, ClientStep(c)
      PROVE  OneClient'
  BY <1>1, <1>3, <1>4, <1>5
  DEF ClientStep, ClientSettled, ClientAnswered, ClientOther, ClientGone,
      Ignore, clientVars
<1>. QED
  BY <1>1, <1>2, <1>5
  DEF Next, vars, clientVars, SenderStep, AckStep, ServerStep, KernelStep,
      SerialLine, SetReceiver

LEMMA InvInit == Init => TypeInv /\ OneClient
BY InitType, SystemAssumption DEF Init, OneClient

LEMMA InvStep == TypeInv /\ OneClient /\ [Next]_vars => TypeInv' /\ OneClient'
<1>. SUFFICES ASSUME TypeInv, OneClient, [Next]_vars PROVE TypeInv'
  BY OneClientStep
<1>1. CASE UNCHANGED vars
  BY <1>1
  DEF vars, kernelVars, messengerVars, senderVars, networkVars, clientVars,
      TypeInv, TypeOK, ContikiTypeOK, SenderTypeOK, NetworkTypeOK,
      ClientTypeOK, Busy
<1>. QED
  BY <1>1, SenderType, EnvironmentType, ClientType, OutsideType DEF Next

(* TypeOK of MessengerSystem holds in every reachable state. *)
THEOREM TypeCorrect == Spec => []TypeOK
<1>1. TypeInv /\ OneClient => TypeOK
  BY DEF TypeInv
<1>. QED BY <1>1, InvInit, InvStep, PTL DEF Spec

-----------------------------------------------------------------------------
(* An event in a queue stays there until it is the head that is taken. *)
LEMMA HasPost ==
  ASSUME NEW q \in Seq(Event), NEW p \in Procs, NEW e \in Kinds,
         NEW r, NEW f, Has(q, r, f) \/ (r = p /\ f = e)
  PROVE  Has(Post(q, p, e), r, f)
<1>1. CASE Has(q, r, f)
  <2>1. PICK i \in 1..Len(q) : q[i] = [to |-> r, ev |-> f]
    BY <1>1 DEF Has
  <2>2. i \in 1..Len(Post(q, p, e)) /\ Post(q, p, e)[i] = q[i]
    BY <2>1 DEF Post
  <2>. QED BY <2>1, <2>2 DEF Has
<1>2. CASE r = p /\ f = e
  <2>1. /\ Len(q) + 1 \in 1..Len(Post(q, p, e))
        /\ Post(q, p, e)[Len(q) + 1] = [to |-> p, ev |-> e]
    BY DEF Post
  <2>. QED BY <1>2, <2>1 DEF Has
<1>. QED BY <1>1, <1>2

LEMMA HasTell ==
  ASSUME NEW q \in Seq(Event), NEW p \in Procs, NEW r, NEW f, Has(q, r, f)
  PROVE  Has(Tell(q, p), r, f)
<1>1. PICK i \in 1..Len(q) : q[i] = [to |-> r, ev |-> f]
  BY DEF Has
<1>2. i + 1 \in 1..Len(Tell(q, p)) /\ Tell(q, p)[i + 1] = q[i]
  BY <1>1 DEF Tell
<1>. QED BY <1>1, <1>2 DEF Has

LEMMA HasTail ==
  ASSUME NEW p, NEW e, NEW r, NEW f, events \in Seq(Event), Receives(p, e),
         r # p \/ f # e, Pending(r, f)
  PROVE  Has(Tail(events), r, f)
<1>1. PICK i \in 1..Len(events) : events[i] = [to |-> r, ev |-> f]
  BY DEF Pending, Has
<1>2. i # 1
  BY <1>1 DEF Receives
<1>3. i - 1 \in 1..Len(Tail(events)) /\ Tail(events)[i - 1] = events[i]
  BY <1>1, <1>2
<1>. QED BY <1>1, <1>3 DEF Has

(* A step that leaves the etimer and the queued events of the sender alone. *)
LEMMA NoStallKept ==
  ASSUME NoStall, send_started' => send_started,
         timers'[Sender] = timers[Sender],
         Pending(Sender, "start") => Pending(Sender, "start")',
         Pending(Sender, "TIMER") => Pending(Sender, "TIMER")'
  PROVE  NoStall'
BY DEF NoStall

LEMMA NoStallStep ==
  ASSUME TypeInv, OneClient, NoStall, [Next]_vars
  PROVE  NoStall'
<1>. USE MessengerAssumption, SystemAssumption
<1>0. /\ events \in Seq(Event)
      /\ timers \in [Procs -> Nat \cup {Off}]
  BY DEF TypeInv, TypeOK, ContikiTypeOK
<1>. DEFINE q == Tail(events)
<1>1. CASE SenderStep
  <2>1. CASE SenderStart
    BY <1>0, <2>1 DEF SenderStart, OnStart, Set, NoStall
  <2>2. CASE SenderFin
    BY <2>2 DEF SenderFin, OnFin, NoStall
  <2>3. CASE SenderOther
    <3>1. OnOther(q)
      BY <2>3 DEF SenderOther
    <3>2. CASE Expired(Sender) /\ send_started
      BY <1>0, <3>1, <3>2 DEF OnOther, GiveUp, Resend, Set, NoStall
    <3>3. CASE ~(Expired(Sender) /\ send_started)
      <4>1. timers' = timers /\ send_started' = send_started
        BY <3>1, <3>3 DEF OnOther
      <4>. QED BY <3>3, <4>1 DEF Expired, NoStall
    <3>. QED BY <3>2, <3>3
  <2>. QED BY <1>1, <2>1, <2>2, <2>3 DEF SenderStep
<1>2. CASE AckStep
  <2>1. PICK a \in acks : AckArrives(a)
    BY <1>2 DEF AckStep
  <2>. QED
    BY <1>0, <2>1, HasPost, NoStallKept DEF AckArrives, Pending, Kinds
<1>3. CASE KernelStep
  <2>1. CASE Tick
    BY <1>0, <1>3, <2>1
    DEF KernelStep, messengerVars, senderVars, Tick, NoStall, Pending, Has
  <2>2. ASSUME NEW p \in Procs, TimerPoll(p)
        PROVE  NoStall'
    <3>1. CASE p = Sender
      BY <1>0, <2>2, <3>1, HasPost DEF TimerPoll, NoStall, Pending, Kinds
    <3>2. CASE p # Sender
      <4>1. timers'[Sender] = timers[Sender]
        BY <1>0, <2>2, <3>2 DEF TimerPoll, Stop
      <4>2. send_started' = send_started
        BY <1>3 DEF KernelStep, messengerVars, senderVars
      <4>. QED
        BY <1>0, <2>2, <4>1, <4>2, HasPost, NoStallKept
        DEF TimerPoll, Pending, Kinds
    <3>. QED BY <3>1, <3>2
  <2>. QED BY <1>3, <2>1, <2>2 DEF KernelStep
<1>4. ASSUME NEW c \in Clients, Begin(c)
      PROVE  NoStall'
  BY <1>0, <1>4, NoStallKept
  DEF Begin, messengerVars, senderVars, Pending, Set
<1>5. ASSUME NEW c \in Clients, ClientStep(c)
      PROVE  NoStall'
  <2>1. c \in Procs /\ c # Sender
    OBVIOUS
  <2>2. /\ q \in Seq(Event)
        /\ \A e : Pending(Sender, e) => Has(q, Sender, e)
    BY <1>0, <1>5, <2>1, ReceivesType, HasTail
    DEF ClientStep, ClientSettled, ClientAnswered, ClientOther, ClientGone
  <2>3. CASE Submit(c, q)
    <3>1. timers'[Sender] = timers[Sender]
      BY <1>0, <2>1, <2>3 DEF Submit, Set
    <3>2. PICK m : MessengerSend(c, m, q)
      BY <2>3 DEF Submit
    <3>3. CASE send_started
      BY <2>2, <3>1, <3>2, <3>3, NoStallKept
      DEF MessengerSend, senderVars, Pending
    <3>4. CASE ~send_started
      <4>1. events' = Post(q, Sender, "start")
        BY <3>2, <3>4 DEF MessengerSend
      <4>2. Has(Post(q, Sender, "start"), Sender, "start")
        BY <2>2, HasPost DEF Kinds
      <4>. QED BY <4>1, <4>2 DEF NoStall, Pending
    <3>. QED BY <3>3, <3>4
  <2>4. ASSUME NEW ok, Finish(c, ok, q)
        PROVE  NoStall'
    <3>1. timers'[Sender] = timers[Sender] /\ send_started' = send_started
      BY <1>0, <2>1, <2>4 DEF Finish, Stop, messengerVars, senderVars
    <3>. QED BY <2>2, <2>4, <3>1, HasTell, NoStallKept DEF Finish, Pending
  <2>5. CASE Ignore(c, q)
    BY <2>2, <2>5, NoStallKept DEF Ignore, messengerVars, senderVars, Pending
  <2>. QED
    BY <1>5, <2>3, <2>4, <2>5
    DEF ClientStep, ClientSettled, ClientAnswered, ClientOther, ClientGone
<1>6. CASE SerialLine
  <2>1. \A p \in Procs : Post(events, p, "line") \in Seq(Event)
    BY <1>0, PostType DEF Kinds
  <2>2. \A e : Pending(Sender, e) => Pending(Sender, e)'
    BY <1>0, <1>6, <2>1, HasPost DEF SerialLine, Pending, Kinds
  <2>3. timers' = timers /\ send_started' = send_started
    BY <1>6 DEF SerialLine, messengerVars, senderVars
  <2>. QED BY <2>2, <2>3, NoStallKept
<1>7. CASE UNCHANGED <<events, timers, send_started>>
  BY <1>7 DEF NoStall, Pending
<1>8. ServerStep \/ (\E a \in Addr : SetReceiver(a)) \/ UNCHANGED vars
      => UNCHANGED <<events, timers, send_started>>
  BY DEF ServerStep, ServerReceives, SetReceiver, vars, kernelVars,
         messengerVars, senderVars
<1>. QED BY <1>1, <1>2, <1>3, <1>4, <1>5, <1>6, <1>7, <1>8 DEF Next

(* NoStall holds in every reachable state: no order of starts, fins,        *)
(* expiries and stray events leaves the sender busy with nothing to wake it.*)
THEOREM NeverStalls == Spec => []NoStall
<1>. DEFINE Inv == TypeInv /\ OneClient /\ NoStall
<1>1. Init => Inv
  BY InvInit DEF Init, MessengerInit, NoStall
<1>2. Inv /\ [Next]_vars => Inv'
  BY InvStep, NoStallStep
<1>3. Inv => NoStall
  OBVIOUS
<1>. QED BY <1>1, <1>2, <1>3, PTL DEF Spec

-----------------------------------------------------------------------------
(* What is on the network: nothing is sent that was not handed over, one    *)
(* message carries one sequence number, servers have only what was sent and *)
(* acknowledge only what they have.                                         *)
Bookkeeping ==
  /\ current_data = NoMsg => sent = {}
  /\ current_data \in Message =>
       /\ current_data.seq < sequence
       /\ current_sequence = current_data.seq % SeqMod
  /\ \A pkt \in sent :
       /\ pkt[2].seq < sequence
       /\ pkt[2].seq = current_data.seq => pkt[2] = current_data
  /\ \A m \in received : \E pkt \in sent : pkt[2] = m
  /\ \A a \in acks : \E m \in received : m.seq = a

AckInv == Bookkeeping /\ AckHonest

LEMMA AckInvUnchanged ==
  ASSUME AckInv,
         UNCHANGED <<sent, received, acks, current_data, current_sequence,
                     sequence>>,
         last_ack_ok' => last_ack_ok
  PROVE  AckInv'
BY DEF AckInv, Bookkeeping, AckHonest

(* A packet that is sent carries the current message. *)
LEMMA TransmitAck ==
  ASSUME TypeInv, AckInv, send_started, Transmit,
         UNCHANGED <<received, acks, current_data, current_sequence, sequence>>,
         last_ack_ok' => last_ack_ok
  PROVE  AckInv'
<1>1. current_data \in Message /\ current_data # NoMsg
  BY MessengerAssumption DEF TypeInv, Busy
<1>2. \A pkt \in sent' : pkt \in sent \/ pkt[2] = current_data
  BY DEF Transmit
<1>3. sent \subseteq sent'
  BY DEF Transmit
<1>. QED BY <1>1, <1>2, <1>3 DEF AckInv, Bookkeeping, AckHonest

(* Below the width of current_sequence an acknowledgement that passes the   *)
(* comparison is one of the current message.                                *)
LEMMA AckArrivesAck ==
  ASSUME MaxSeq <= SeqMod, TypeInv, AckInv, AckStep
  PROVE  AckInv'
<1>. USE MessengerAssumption, SystemAssumption
<1>1. PICK a \in acks : AckArrives(a)
  BY DEF AckStep
<1>2. PICK m \in received : m.seq = a
  BY DEF AckInv, Bookkeeping
<1>3. PICK pkt \in sent : pkt[2] = m
  BY DEF AckInv, Bookkeeping
<1>4. current_data \in Message
  BY <1>3 DEF AckInv, Bookkeeping, TypeInv, TypeOK, SenderTypeOK
<1>5. current_data.seq \in 0..SeqMod - 1
  BY <1>4 DEF AckInv, Bookkeeping, TypeInv, TypeOK, ClientTypeOK, Message
<1>6. current_data.seq % SeqMod = current_data.seq
  BY <1>5
<1>7. current_data = m
  BY <1>1, <1>2, <1>3, <1>4, <1>6 DEF AckArrives, AckInv, Bookkeeping
<1>8. UNCHANGED <<sent, received, acks, current_data, current_sequence,
                  sequence>>
  BY <1>1 DEF AckStep, AckArrives, networkVars, clientVars
<1>. QED BY <1>7, <1>8 DEF AckInv, Bookkeeping, AckHonest

LEMMA ServerAck ==
  ASSUME AckInv, ServerStep
  PROVE  AckInv'
<1>1. PICK pkt \in sent : ServerReceives(pkt[1], pkt[2])
  BY DEF ServerStep
<1>2. /\ received' = received \cup {pkt[2]}
      /\ acks' = acks \cup {pkt[2].seq}
      /\ UNCHANGED <<sent, current_data, current_sequence, last_ack_ok, sequence>>
  BY <1>1 DEF ServerStep, ServerReceives, senderVars, clientVars
<1>. QED BY <1>1, <1>2 DEF AckInv, Bookkeeping, AckHonest

(* A new message has a number that no earlier message has. *)
LEMMA SubmitAck ==
  ASSUME TypeInv, AckInv, NEW c \in Clients, NEW q, Submit(c, q)
  PROVE  AckInv'
<1>1. PICK b \in Body :
        LET m == [dst |-> receiver, seq |-> sequence, body |-> b]
        IN  MessengerSend(c, m, q)
  BY DEF Submit
<1>. DEFINE m == [dst |-> receiver, seq |-> sequence, body |-> b]
<1>2. /\ sequence' = sequence + 1 /\ sequence \in Nat
      /\ UNCHANGED <<sent, received, acks>>
      /\ \A pkt \in sent : pkt[2] \in Message
  BY SystemAssumption
  DEF Submit, networkVars, TypeInv, TypeOK, ClientTypeOK, NetworkTypeOK
<1>3. CASE send_started
  <2>1. UNCHANGED <<current_data, current_sequence, last_ack_ok>>
    BY <1>1, <1>3 DEF MessengerSend, senderVars
  <2>. QED BY <1>2, <2>1 DEF AckInv, Bookkeeping, AckHonest, Message
<1>4. CASE ~send_started
  <2>1. /\ current_data' = m /\ last_ack_ok' = FALSE
        /\ current_sequence' = m.seq % SeqMod
    BY <1>1, <1>4 DEF MessengerSend
  <2>2. m \in Message /\ m # NoMsg /\ m.seq = sequence
    BY <1>2, MessengerAssumption DEF TypeInv, TypeOK, ClientTypeOK, Message
  <2>. HIDE DEF m
  <2>3. \A pkt \in sent : pkt[2].seq < sequence /\ pkt[2].seq \in Nat
    BY <1>2 DEF AckInv, Bookkeeping, Message
  <2>. QED BY <1>2, <2>1, <2>2, <2>3 DEF AckInv, Bookkeeping, AckHonest
<1>. QED BY <1>3, <1>4

LEMMA AckStepInv ==
  ASSUME MaxSeq <= SeqMod, TypeInv, OneClient, AckInv, [Next]_vars
  PROVE  AckInv'
<1>1. CASE SenderStep
  <2>1. UNCHANGED <<received, acks, current_data, current_sequence, sequence>>
    BY <1>1 DEF SenderStep, SenderStart, SenderFin, SenderOther, OnStart,
                OnFin, OnOther, clientVars
  <2>2. last_ack_ok' => last_ack_ok
    BY <1>1 DEF SenderStep, SenderStart, SenderFin, SenderOther, OnStart,
                OnFin, OnOther, GiveUp, Resend
  <2>3. (send_started /\ Transmit) \/ UNCHANGED sent
    BY <1>1 DEF SenderStep, SenderStart, SenderFin, SenderOther, OnStart,
                OnFin, OnOther, GiveUp, Resend
  <2>. QED BY <2>1, <2>2, <2>3, TransmitAck, AckInvUnchanged
<1>2. ASSUME NEW c \in Clients, ClientStep(c)
      PROVE  AckInv'
  <2>1. ASSUME NEW q, Submit(c, q) PROVE AckInv'
    BY <2>1, SubmitAck
  <2>2. ASSUME NEW q, NEW ok, Finish(c, ok, q) \/ Ignore(c, q) PROVE AckInv'
    BY <2>2, AckInvUnchanged
    DEF Finish, Ignore, messengerVars, senderVars, networkVars, clientVars
  <2>. QED
    BY <1>2, <2>1, <2>2
    DEF ClientStep, ClientSettled, ClientAnswered, ClientOther, ClientGone
<1>3. CASE \/ KernelStep \/ SerialLine \/ UNCHANGED vars
           \/ \E c \in Clients : Begin(c)
           \/ \E a \in Addr : SetReceiver(a)
  <2>1. UNCHANGED <<messengerVars, sequence>>
    BY <1>3 DEF KernelStep, SerialLine, Begin, SetReceiver, clientVars, vars
  <2>. QED
    BY <2>1, AckInvUnchanged DEF messengerVars, senderVars, networkVars
<1>. QED BY <1>1, <1>2, <1>3, AckArrivesAck, ServerAck DEF Next

(* AckHonest holds in every reachable state of the first SeqMod messages:   *)
(* whatever is lost, doubled, delayed or overtaken, and however impatient   *)
(* the clients are, a positive result is one of the message it is read for. *)
THEOREM AcksAreHonest ==
  ASSUME MaxSeq <= SeqMod
  PROVE  Spec => []AckHonest
<1>. DEFINE Inv == TypeInv /\ OneClient /\ AckInv
<1>1. Init => Inv
  <2>. SUFFICES ASSUME Init PROVE AckInv
    BY InvInit
  <2>. QED
    BY MessengerAssumption
    DEF Init, MessengerInit, AckInv, Bookkeeping, AckHonest
<1>2. Inv /\ [Next]_vars => Inv'
  BY InvStep, AckStepInv
<1>3. Inv => AckHonest
  BY DEF AckInv
<1>. QED BY <1>1, <1>2, <1>3, PTL DEF Spec

-----------------------------------------------------------------------------
(* No event comes into a queue but the one that is put there. *)
LEMMA HasPostOnly ==
  ASSUME NEW q \in Seq(Event), NEW p \in Procs, NEW e \in Kinds,
         NEW r, NEW f, Has(Post(q, p, e), r, f)
  PROVE  Has(q, r, f) \/ (r = p /\ f = e)
<1>1. PICK i \in 1..Len(q) + 1 : Append(q, [to |-> p, ev |-> e])[i] = [to |-> r, ev |-> f]
  BY DEF Has, Post
<1>2. CASE i = Len(q) + 1
  BY <1>1, <1>2
<1>3. CASE i # Len(q) + 1
  BY <1>1, <1>3 DEF Has
<1>. QED BY <1>2, <1>3

LEMMA HasTellOnly ==
  ASSUME NEW q \in Seq(Event), NEW p \in Procs,
         NEW r, NEW f, Has(Tell(q, p), r, f)
  PROVE  Has(q, r, f) \/ (r = p /\ f = "EXITED")
<1>. DEFINE t == Tell(q, p)
<1>1. /\ Len(t) = Len(q) + 1
      /\ \A i \in 1..Len(t) : t[i] = IF i = 1 THEN [to |-> p, ev |-> "EXITED"] ELSE q[i - 1]
  BY DEF Tell
<1>2. PICK i \in 1..Len(t) : t[i] = [to |-> r, ev |-> f]
  BY DEF Has
<1>3. CASE i = 1
  BY <1>1, <1>2, <1>3
<1>4. CASE i # 1
  <2>1. i - 1 \in 1..Len(q) /\ q[i - 1] = [to |-> r, ev |-> f]
    BY <1>1, <1>2, <1>4
  <2>. QED BY <2>1 DEF Has
<1>. QED BY <1>3, <1>4

LEMMA HasTailOnly ==
  ASSUME events \in Seq(Event), events # <<>>, NEW r, NEW f,
         Has(Tail(events), r, f)
  PROVE  Pending(r, f)
<1>1. PICK i \in 1..Len(events) - 1 : Tail(events)[i] = [to |-> r, ev |-> f]
  BY DEF Has
<1>2. i + 1 \in 1..Len(events) /\ events[i + 1] = [to |-> r, ev |-> f]
  BY <1>1
<1>. QED BY <1>2 DEF Pending, Has

(* Event e for p is in the queue q at most once. *)
Once(q, p, e) ==
  \A i, j \in 1..Len(q) :
    q[i] = [to |-> p, ev |-> e] /\ q[j] = [to |-> p, ev |-> e] => i = j

LEMMA OncePost ==
  ASSUME NEW q \in Seq(Event), NEW p \in Procs, NEW e \in Kinds,
         NEW r, NEW f, Once(q, r, f), (r = p /\ f = e) => ~Has(q, r, f)
  PROVE  Once(Post(q, p, e), r, f)
<1>. DEFINE t == Post(q, p, e)
<1>1. /\ Len(t) = Len(q) + 1
      /\ \A i \in 1..Len(t) : t[i] = IF i = Len(t) THEN [to |-> p, ev |-> e] ELSE q[i]
  BY DEF Post
<1>. HIDE DEF t
<1>. SUFFICES ASSUME NEW i \in 1..Len(t), NEW j \in 1..Len(t),
                     t[i] = [to |-> r, ev |-> f], t[j] = [to |-> r, ev |-> f]
              PROVE  i = j
  BY DEF Once, t
<1>2. CASE i = Len(t) \/ j = Len(t)
  BY <1>1, <1>2 DEF Has
<1>3. CASE i # Len(t) /\ j # Len(t)
  BY <1>1, <1>3 DEF Once
<1>. QED BY <1>2, <1>3

LEMMA OnceTell ==
  ASSUME NEW q \in Seq(Event), NEW p \in Procs, NEW r, NEW f,
         Once(q, r, f), f # "EXITED"
  PROVE  Once(Tell(q, p), r, f)
<1>. DEFINE t == Tell(q, p)
<1>1. /\ Len(t) = Len(q) + 1
      /\ \A i \in 1..Len(t) : t[i] = IF i = 1 THEN [to |-> p, ev |-> "EXITED"] ELSE q[i - 1]
  BY DEF Tell
<1>. HIDE DEF t
<1>. SUFFICES ASSUME NEW i \in 1..Len(t), NEW j \in 1..Len(t),
                     t[i] = [to |-> r, ev |-> f], t[j] = [to |-> r, ev |-> f]
              PROVE  i = j
  BY DEF Once, t
<1>2. i # 1 /\ j # 1
  BY <1>1
<1>3. i - 1 \in 1..Len(q) /\ j - 1 \in 1..Len(q)
  BY <1>1, <1>2
<1>. QED BY <1>1, <1>2, <1>3 DEF Once

(* The head is taken: there was no other if it was this event. *)
LEMMA OnceTail ==
  ASSUME events \in Seq(Event), events # <<>>, NEW r, NEW f, Once(events, r, f)
  PROVE  /\ Once(Tail(events), r, f)
         /\ Receives(r, f) => ~Has(Tail(events), r, f)
<1>1. /\ Len(Tail(events)) = Len(events) - 1
      /\ \A i \in 1..Len(Tail(events)) :
           i + 1 \in 1..Len(events) /\ Tail(events)[i] = events[i + 1]
  OBVIOUS
<1>2. Once(Tail(events), r, f)
  BY <1>1 DEF Once
<1>3. ASSUME Receives(r, f), NEW i \in 1..Len(Tail(events)),
             Tail(events)[i] = [to |-> r, ev |-> f]
      PROVE  FALSE
  <2>1. 1 \in 1..Len(events) /\ events[1] = [to |-> r, ev |-> f]
    BY <1>3 DEF Receives
  <2>2. i + 1 = 1
    BY <1>1, <1>3, <2>1 DEF Once
  <2>. QED BY <2>2
<1>. QED BY <1>2, <1>3 DEF Has

(* The head of the queue is in the queue. *)
LEMMA ReceivesPending ==
  ASSUME events \in Seq(Event), NEW p, NEW e, Receives(p, e)
  PROVE  Pending(p, e) /\ events # <<>>
<1>1. 1 \in 1..Len(events) /\ events[1] = [to |-> p, ev |-> e]
  BY DEF Receives
<1>. QED BY <1>1 DEF Pending, Has, Receives

-----------------------------------------------------------------------------
(* A set of numbers has a least one: an induction on the length of a queue is *)
(* an argument about the least length at which a claim fails.               *)
LEMMA Least ==
  ASSUME NEW T, T \subseteq Nat, T # {}
  PROVE  \E x \in T : \A y \in T : ~(y < x)
<1>1. \E x \in T : \A y \in T : <<y, x>> \notin OpToRel(<, Nat)
  BY WFMin, NatLessThanWellFounded
<1>. QED BY <1>1 DEF OpToRel

(* The answers up to position n of a queue, as the recursion computes them. *)
IsFilter(q, n, f) ==
  f = [i \in 0..n |-> IF i = 0 THEN <<>>
                      ELSE IF q[i].ev = "MSG" THEN Append(f[i - 1], q[i].to) ELSE f[i - 1]]

LEMMA FilterExists ==
  ASSUME NEW q, NEW n \in Nat
  PROVE  \E f : IsFilter(q, n, f)
<1>. DEFINE T == {m \in Nat : ~ \E f : IsFilter(q, m, f)}
<1>1. SUFFICES ASSUME T # {} PROVE FALSE
  OBVIOUS
<1>2. PICK m \in T : \A k \in T : ~(k < m)
  BY <1>1, Least
<1>3. m # 0
  <2>1. IsFilter(q, 0, [i \in 0..0 |-> <<>>])
    BY DEF IsFilter
  <2>. QED BY <2>1
<1>4. PICK f : IsFilter(q, m - 1, f)
  BY <1>2, <1>3
<1>. DEFINE g == [i \in 0..m |-> IF i < m THEN f[i]
                    ELSE IF q[i].ev = "MSG" THEN Append(f[i - 1], q[i].to) ELSE f[i - 1]]
<1>5. \A i \in 0..m : g[i] = IF i = 0 THEN <<>>
                      ELSE IF q[i].ev = "MSG" THEN Append(g[i - 1], q[i].to) ELSE g[i - 1]
  <2>1. ASSUME NEW i \in 0..m - 1
        PROVE  f[i] = IF i = 0 THEN <<>>
                      ELSE IF q[i].ev = "MSG" THEN Append(f[i - 1], q[i].to)
                      ELSE f[i - 1]
    BY <1>4, <2>1 DEF IsFilter
  <2>. QED BY <2>1, <1>3
<1>6. IsFilter(q, m, g)
  BY <1>5 DEF IsFilter
<1>. QED BY <1>6

(* f[i] is what the first i events of q hold of answers. *)
Filters(q, f) ==
  /\ f[0] = <<>>
  /\ \A i \in 1..Len(q) :
       f[i] = IF q[i].ev = "MSG" THEN Append(f[i - 1], q[i].to) ELSE f[i - 1]

LEMMA AnswersFilter ==
  ASSUME NEW q \in Seq(Event)
  PROVE  \E f : Filters(q, f) /\ AnswersIn(q) = f[Len(q)]
<1>1. \E f : f = [i \in 0..Len(q) |-> IF i = 0 THEN <<>>
                      ELSE IF q[i].ev = "MSG" THEN Append(f[i - 1], q[i].to) ELSE f[i - 1]]
  <2>1. \E f : IsFilter(q, Len(q), f)
    BY FilterExists
  <2>. QED BY <2>1 DEF IsFilter
<1> DEFINE upTo == CHOOSE h : h = [i \in 0..Len(q) |-> IF i = 0 THEN <<>>
                      ELSE IF q[i].ev = "MSG" THEN Append(h[i - 1], q[i].to) ELSE h[i - 1]]
<1>2. upTo = [i \in 0..Len(q) |-> IF i = 0 THEN <<>>
                      ELSE IF q[i].ev = "MSG" THEN Append(upTo[i - 1], q[i].to) ELSE upTo[i - 1]]
  BY <1>1
<1>3. AnswersIn(q) = upTo[Len(q)]
  BY DEF AnswersIn
<1>. HIDE DEF upTo
<1>4. \A i \in 0..Len(q) :
        upTo[i] = IF i = 0 THEN <<>>
                  ELSE IF q[i].ev = "MSG" THEN Append(upTo[i - 1], q[i].to) ELSE upTo[i - 1]
  BY <1>2
<1>5. Filters(q, upTo)
  <2>1. 0 \in 0..Len(q)
    OBVIOUS
  <2>2. upTo[0] = <<>>
    BY <1>4, <2>1
  <2>3. ASSUME NEW i \in 1..Len(q)
        PROVE  upTo[i] = IF q[i].ev = "MSG" THEN Append(upTo[i - 1], q[i].to) ELSE upTo[i - 1]
    <3>1. i \in 0..Len(q) /\ i # 0
      OBVIOUS
    <3>. QED BY <1>4, <3>1
  <2>. QED BY <2>2, <2>3 DEF Filters
<1>. QED BY <1>3, <1>5

(* The answers are processes, in every part of the queue. *)
LEMMA FilterType ==
  ASSUME NEW q \in Seq(Event), NEW f, Filters(q, f),
         NEW i \in 0..Len(q)
  PROVE  f[i] \in Seq(Procs)
<1>. DEFINE T == {j \in 0..Len(q) : f[j] \notin Seq(Procs)}
<1>1. SUFFICES ASSUME T # {} PROVE FALSE
  OBVIOUS
<1>2. PICK m \in T : \A k \in T : ~(k < m)
  <2>1. T \subseteq Nat
    OBVIOUS
  <2>. HIDE DEF T
  <2>. QED BY <1>1, <2>1, Least
<1>3. f[m] = IF m = 0 THEN <<>> ELSE
             IF q[m].ev = "MSG" THEN Append(f[m - 1], q[m].to) ELSE f[m - 1]
  BY DEF Filters
<1>4. m # 0
  <2>1. <<>> \in Seq(Procs)
    OBVIOUS
  <2>. QED BY <1>3, <2>1
<1>5. f[m - 1] \in Seq(Procs) /\ q[m] \in Event
  BY <1>2, <1>4
<1>6. Append(f[m - 1], q[m].to) \in Seq(Procs)
  BY <1>5 DEF Event
<1>. QED BY <1>3, <1>4, <1>5, <1>6

LEMMA AnswersType ==
  ASSUME NEW q \in Seq(Event)
  PROVE  AnswersIn(q) \in Seq(Procs)
BY AnswersFilter, FilterType

(* An event put at the end, or at the head. *)
LEMMA AnswersPost ==
  ASSUME NEW q \in Seq(Event), NEW x \in Event
  PROVE  AnswersIn(Append(q, x)) = IF x.ev = "MSG" THEN Append(AnswersIn(q), x.to)
                                   ELSE AnswersIn(q)
<1>. DEFINE r == Append(q, x)
<1>0. /\ r \in Seq(Event) /\ Len(r) = Len(q) + 1 /\ r[Len(r)] = x
      /\ \A i \in 1..Len(q) : r[i] = q[i]
  OBVIOUS
<1>. HIDE DEF r
<1>1. PICK f : Filters(q, f) /\ AnswersIn(q) = f[Len(q)]
  BY AnswersFilter
<1>2. PICK g : Filters(r, g) /\ AnswersIn(r) = g[Len(r)]
  BY <1>0, AnswersFilter
<1>3. \A i \in 0..Len(q) : f[i] = g[i]
  <2>. DEFINE T == {i \in 0..Len(q) : f[i] # g[i]}
  <2>1. SUFFICES ASSUME T # {} PROVE FALSE
    OBVIOUS
  <2>2. PICK m \in T : \A k \in T : ~(k < m)
    <3>1. T \subseteq Nat
      OBVIOUS
    <3>. HIDE DEF T
    <3>. QED BY <2>1, <3>1, Least
  <2>3. /\ f[m] = IF m = 0 THEN <<>>
                  ELSE IF q[m].ev = "MSG" THEN Append(f[m - 1], q[m].to) ELSE f[m - 1]
        /\ g[m] = IF m = 0 THEN <<>>
                  ELSE IF r[m].ev = "MSG" THEN Append(g[m - 1], r[m].to) ELSE g[m - 1]
    BY <1>0, <1>1, <1>2 DEF Filters
  <2>4. m # 0 => f[m - 1] = g[m - 1] /\ r[m] = q[m]
    BY <1>0, <2>2
  <2>. QED BY <2>3, <2>4
<1>4. g[Len(r)] = IF x.ev = "MSG" THEN Append(g[Len(q)], x.to) ELSE g[Len(q)]
  BY <1>0, <1>2 DEF Filters
<1>. QED BY <1>1, <1>2, <1>3, <1>4 DEF r

LEMMA AppendConcat ==
  ASSUME NEW S, NEW s \in Seq(S), NEW t \in Seq(S), NEW x \in S
  PROVE  Append(s \o t, x) = s \o Append(t, x)
<1>1. s \o t \in Seq(S) /\ <<x>> \in Seq(S)
  OBVIOUS
<1>2. Append(s \o t, x) = (s \o t) \o <<x>> /\ Append(t, x) = t \o <<x>>
  BY <1>1, AppendIsConcat
<1>. QED BY <1>1, <1>2, ConcatAssociative

LEMMA AnswersPush ==
  ASSUME NEW q \in Seq(Event), NEW x \in Event
  PROVE  AnswersIn(<<x>> \o q) = (IF x.ev = "MSG" THEN <<x.to>> ELSE <<>>) \o AnswersIn(q)
<1>. DEFINE r == <<x>> \o q
            s == IF x.ev = "MSG" THEN <<x.to>> ELSE <<>>
<1>0. /\ r \in Seq(Event) /\ Len(r) = Len(q) + 1 /\ r[1] = x
      /\ \A i \in 1..Len(q) : r[i + 1] = q[i]
  OBVIOUS
<1>s. s \in Seq(Procs) /\ s = IF x.ev = "MSG" THEN Append(<<>>, x.to) ELSE <<>>
  BY DEF Event
<1>. HIDE DEF r, s
<1>a. \A t \in Seq(Procs), y \in Procs : Append(s \o t, y) = s \o Append(t, y)
  BY <1>s, AppendConcat
<1>1. PICK f : Filters(q, f) /\ AnswersIn(q) = f[Len(q)]
  BY AnswersFilter
<1>2. PICK g : Filters(r, g) /\ AnswersIn(r) = g[Len(r)]
  BY <1>0, AnswersFilter
<1>3. \A i \in 0..Len(q) : g[i + 1] = s \o f[i]
  <2>. DEFINE T == {i \in 0..Len(q) : g[i + 1] # s \o f[i]}
  <2>1. SUFFICES ASSUME T # {} PROVE FALSE
    OBVIOUS
  <2>2. PICK m \in T : \A k \in T : ~(k < m)
    <3>1. T \subseteq Nat
      OBVIOUS
    <3>. HIDE DEF T
    <3>. QED BY <2>1, <3>1, Least
  <2>3. /\ f[m] = IF m = 0 THEN <<>>
                  ELSE IF q[m].ev = "MSG" THEN Append(f[m - 1], q[m].to) ELSE f[m - 1]
        /\ g[m + 1] = IF r[m + 1].ev = "MSG" THEN Append(g[m], r[m + 1].to) ELSE g[m]
        /\ g[0] = <<>>
    BY <1>0, <1>1, <1>2 DEF Filters
  <2>4. CASE m = 0
    <3>1. s \o f[0] = s
      BY <1>s, <1>1, ConcatEmptySeq DEF Filters
    <3>2. 1 \in 1..Len(r)
      BY <1>0
    <3>3. g[1] = s
      <4>1. r[1] = x /\ g[0] = <<>> /\ 1 - 1 = 0
        BY <1>0, <2>3
      <4>2. g[1] = IF x.ev = "MSG" THEN Append(g[0], x.to) ELSE g[0]
        BY <1>2, <3>2, <4>1 DEF Filters
      <4>. QED BY <1>s, <4>1, <4>2
    <3>. QED BY <2>4, <3>1, <3>3
  <2>5. CASE m # 0
    <3>1. m - 1 \in 0..Len(q) /\ m - 1 \notin T
      BY <2>2, <2>5
    <3>2. g[m] = s \o f[m - 1] /\ r[m + 1] = q[m] /\ q[m] \in Event
      <4>1. g[(m - 1) + 1] = s \o f[m - 1] /\ (m - 1) + 1 = m
        BY <3>1
      <4>2. m \in 1..Len(q)
        BY <2>5
      <4>. QED BY <1>0, <4>1, <4>2
    <3>3. f[m - 1] \in Seq(Procs)
      BY <1>1, <3>1, FilterType
    <3>4. Append(s \o f[m - 1], q[m].to) = s \o Append(f[m - 1], q[m].to)
      <4>1. q[m].to \in Procs
        BY <3>2 DEF Event
      <4>. QED BY <1>a, <3>3, <4>1
    <3>. QED BY <2>3, <2>5, <3>2, <3>4
  <2>. QED BY <2>4, <2>5
<1>4. AnswersIn(r) = s \o AnswersIn(q)
  <2>1. Len(q) \in 0..Len(q)
    OBVIOUS
  <2>. QED BY <1>0, <1>1, <1>2, <1>3, <2>1
<1>. QED BY <1>4 DEF r, s

(* Taking the head of the queue takes the answer it is, or none. *)
LEMMA AnswersTail ==
  ASSUME NEW q \in Seq(Event), q # <<>>
  PROVE  IF Head(q).ev = "MSG"
         THEN /\ AnswersIn(q) # <<>> /\ Head(AnswersIn(q)) = Head(q).to
              /\ AnswersIn(Tail(q)) = Tail(AnswersIn(q))
         ELSE AnswersIn(q) = AnswersIn(Tail(q))
<1>1. /\ Head(q) \in Event /\ Tail(q) \in Seq(Event)
      /\ q = <<Head(q)>> \o Tail(q)
  OBVIOUS
<1>2. AnswersIn(q) = (IF Head(q).ev = "MSG" THEN <<Head(q).to>> ELSE <<>>)
                     \o AnswersIn(Tail(q))
  BY <1>1, AnswersPush
<1>3. AnswersIn(Tail(q)) \in Seq(Procs) /\ Head(q).to \in Procs
  BY <1>1, AnswersType DEF Event
<1>. HIDE DEF AnswersIn
<1>. QED BY <1>2, <1>3

-----------------------------------------------------------------------------
(* What is posted apart from PROCESS_EVENT_MSG changes no answers. *)
LEMMA AnswersKept ==
  ASSUME NEW q \in Seq(Event), NEW p \in Procs
  PROVE  /\ \A e \in Kinds : AnswersIn(Post(q, p, e)) =
              IF e = "MSG" THEN Append(AnswersIn(q), p) ELSE AnswersIn(q)
         /\ AnswersIn(Tell(q, p)) = AnswersIn(q)
<1>1. \A e \in Kinds : [to |-> p, ev |-> e] \in Event
  BY DEF Event
<1>2. AnswersIn(Tell(q, p)) = <<>> \o AnswersIn(q)
  <2>1. [to |-> p, ev |-> "EXITED"] \in Event /\ [to |-> p, ev |-> "EXITED"].ev # "MSG"
    BY <1>1 DEF Kinds
  <2>. QED BY <2>1, AnswersPush DEF Tell
<1>. QED BY <1>1, <1>2, AnswersPost, AnswersType, ConcatEmptySeq DEF Post

LEMMA AnswersEmpty == AnswersIn(<<>>) = <<>>
<1>1. <<>> \in Seq(Event) /\ Len(<<>>) = 0
  OBVIOUS
<1>2. PICK f : Filters(<<>>, f) /\ AnswersIn(<<>>) = f[Len(<<>>)]
  BY <1>1, AnswersFilter
<1>. QED BY <1>1, <1>2 DEF Filters

LEMMA PromiseInit == Init => Promise!Init
<1>. SUFFICES ASSUME Init PROVE Promise!Init
  OBVIOUS
<1>. QED BY AnswersEmpty DEF Init, ContikiInit, MessengerInit, Promise!Init

(* The part of the state that Delivery sees, but for the answers. *)
seen == <<send_started, requestor, current_data, last_ack_ok, sent, received>>

(* A step that touches none of it takes an answer or does nothing. *)
LEMMA PromiseQuiet ==
  ASSUME UNCHANGED seen,
         \/ AnswersIn(events)' = AnswersIn(events)
         \/ AnswersIn(events) # <<>> /\ AnswersIn(events)' = Tail(AnswersIn(events))
  PROVE  [Promise!Next]_(Promise!vars)
BY DEF seen, Promise!Next, Promise!vars, Promise!Answer

LEMMA PromiseTransmit ==
  ASSUME TypeInv, send_started, Transmit,
         UNCHANGED <<send_started, requestor, current_data, last_ack_ok, received>>,
         AnswersIn(events)' = AnswersIn(events)
  PROVE  Promise!Transmit
<1>1. requestor # NoProc
  <2>1. requestor \in Procs
    BY SystemAssumption DEF TypeInv, Busy
  <2>. QED BY <2>1, MessengerAssumption
<1>2. {pkt[2] : pkt \in sent'} = {pkt[2] : pkt \in sent} \cup {current_data}
  <2>1. sent' = sent \cup {<<conn, current_data>>}
    BY DEF Transmit
  <2>2. <<conn, current_data>>[2] = current_data
    OBVIOUS
  <2>3. \A x : x \in {pkt[2] : pkt \in sent'}
               <=> x \in {pkt[2] : pkt \in sent} \cup {current_data}
    <3>1. ASSUME NEW x, NEW pkt \in sent', x = pkt[2]
          PROVE  x \in {p[2] : p \in sent} \cup {current_data}
      BY <2>1, <2>2, <3>1
    <3>2. \A pkt \in sent \cup {<<conn, current_data>>} : pkt[2] \in {p[2] : p \in sent'}
      BY <2>1
    <3>. QED BY <2>2, <3>1, <3>2
  <2>. QED BY <2>3
<1>. QED BY <1>1, <1>2 DEF Promise!Transmit

LEMMA PromiseFinish ==
  ASSUME TypeInv, send_started, ~send_started', last_ack_ok' \in {last_ack_ok, FALSE},
         UNCHANGED <<requestor, current_data, sent, received>>,
         AnswersIn(events)' = Append(AnswersIn(events), requestor)
  PROVE  Promise!Finish
<1>1. requestor # NoProc
  BY MessengerAssumption, SystemAssumption DEF TypeInv, Busy
<1>. QED BY <1>1 DEF Promise!Finish

LEMMA PromiseSender ==
  ASSUME TypeInv, SenderStep
  PROVE  [Promise!Next]_(Promise!vars)
<1>. DEFINE q == Tail(events)
<1>1. /\ q \in Seq(Event) /\ Sender \in Procs /\ AnswersIn(events) = AnswersIn(q)
      /\ send_started => requestor \in Procs
      /\ UNCHANGED <<requestor, current_data, received>>
  <2>1. events \in Seq(Event) /\ events # <<>> /\ Head(events).ev # "MSG"
    BY
    DEF SenderStep, SenderStart, SenderFin, SenderOther, Receives, TypeInv,
        TypeOK, ContikiTypeOK
  <2>. QED
    BY <2>1, AnswersTail, MessengerAssumption, SystemAssumption
    DEF SenderStep, SenderStart, SenderFin, SenderOther, OnStart, OnFin,
        OnOther, TypeInv, Busy
<1>2. AnswersIn(Post(q, requestor, "MSG")) = Append(AnswersIn(q), requestor) \/ ~send_started
  BY <1>1, AnswersKept DEF Kinds
<1>. HIDE DEF q
<1>3. CASE SenderStart
  <2>1. CASE send_started
    <3>1. Promise!Transmit
      BY <1>1, <1>3, <2>1, PromiseTransmit DEF SenderStart, OnStart, q
    <3>. QED BY <3>1 DEF Promise!Next
  <2>2. CASE ~send_started
    BY <1>1, <1>3, <2>2, PromiseQuiet DEF SenderStart, OnStart, seen, q
  <2>. QED BY <2>1, <2>2
<1>4. CASE SenderFin
  <2>1. CASE send_started
    <3>1. Promise!Finish
      BY <1>1, <1>2, <1>4, <2>1, PromiseFinish DEF SenderFin, OnFin, q
    <3>. QED BY <3>1 DEF Promise!Next
  <2>2. CASE ~send_started
    BY <1>1, <1>4, <2>2, PromiseQuiet
    DEF SenderFin, OnFin, seen, q, TypeInv, TypeOK, SenderTypeOK
  <2>. QED BY <2>1, <2>2
<1>5. CASE SenderOther
  <2>0. OnOther(q)
    BY <1>5 DEF SenderOther, q
  <2>1. CASE send_started /\ GiveUp(q)
    <3>1. Promise!Finish
      BY <1>1, <1>2, <2>1, PromiseFinish DEF GiveUp
    <3>. QED BY <3>1 DEF Promise!Next
  <2>2. CASE send_started /\ Resend(q)
    <3>1. Promise!Transmit
      BY <1>1, <2>2, PromiseTransmit DEF Resend
    <3>. QED BY <3>1 DEF Promise!Next
  <2>3. CASE events' = q /\ UNCHANGED <<last_ack_ok, send_started, sent>>
    BY <1>1, <2>3, PromiseQuiet DEF seen
  <2>. QED BY <2>0, <2>1, <2>2, <2>3 DEF OnOther
<1>. QED BY <1>3, <1>4, <1>5 DEF SenderStep

LEMMA PromiseEnvironment ==
  ASSUME MaxSeq <= SeqMod, TypeInv, AckInv, AckStep \/ ServerStep \/ KernelStep
  PROVE  [Promise!Next]_(Promise!vars)
<1>0. events \in Seq(Event) /\ Sender \in Procs
  BY MessengerAssumption DEF TypeInv, TypeOK, ContikiTypeOK
<1>1. CASE AckStep
  <2>1. AckInv'
    BY <1>1, AckArrivesAck
  <2>2. PICK a \in acks : AckArrives(a)
    BY <1>1 DEF AckStep
  <2>3. AnswersIn(events)' = AnswersIn(events)
    BY <1>0, <2>2, AnswersKept DEF AckArrives, Kinds
  <2>4. /\ current_data \in received /\ last_ack_ok' = TRUE
        /\ UNCHANGED <<send_started, requestor, current_data, sent, received>>
    BY <2>1, <2>2 DEF AckArrives, networkVars, AckInv, AckHonest
  <2>5. Promise!Confirm
    BY <2>3, <2>4 DEF Promise!Confirm
  <2>. QED BY <2>5 DEF Promise!Next
<1>2. CASE ServerStep
  <2>1. PICK pkt \in sent : ServerReceives(pkt[1], pkt[2])
    BY <1>2 DEF ServerStep
  <2>2. /\ received' = received \cup {pkt[2]}
        /\ UNCHANGED <<send_started, requestor, current_data, last_ack_ok, sent, events>>
    BY <2>1 DEF ServerReceives, senderVars, kernelVars
  <2>3. pkt[2] \in [dst : Addr, seq : 0..MaxSeq - 1, body : Body]
    <3>1. pkt[2] \in Message /\ pkt[2].seq < sequence /\ sequence \in 0..MaxSeq
      BY <2>1
      DEF AckInv, Bookkeeping, TypeInv, TypeOK, NetworkTypeOK, ClientTypeOK
    <3>2. pkt[2].seq \in 0..MaxSeq - 1
      BY <3>1, SystemAssumption DEF Message
    <3>. QED BY <3>1, <3>2 DEF Message
  <2>4. Promise!Deliver(pkt[2])
    BY <2>2 DEF Promise!Deliver
  <2>. QED BY <2>3, <2>4 DEF Promise!Next
<1>3. CASE KernelStep
  <2>1. AnswersIn(events)' = AnswersIn(events)
    BY <1>0, <1>3, AnswersKept DEF KernelStep, Tick, TimerPoll, Kinds
  <2>2. UNCHANGED seen
    BY <1>3 DEF KernelStep, messengerVars, senderVars, networkVars, seen
  <2>. QED BY <2>1, <2>2, PromiseQuiet
<1>. QED BY <1>1, <1>2, <1>3

LEMMA PromiseSubmit ==
  ASSUME TypeInv, NEW c \in Clients, NEW q \in Seq(Event), sequence < MaxSeq, Submit(c, q),
         \/ AnswersIn(q) = AnswersIn(events)
         \/ /\ AnswersIn(events) # <<>> /\ AnswersIn(q) = Tail(AnswersIn(events))
            /\ Head(AnswersIn(events)) = c
  PROVE  [Promise!Next]_(Promise!vars)
<1>1. PICK b \in Body :
        LET m == [dst |-> receiver, seq |-> sequence, body |-> b]
        IN  MessengerSend(c, m, q)
  BY DEF Submit
<1>. DEFINE m == [dst |-> receiver, seq |-> sequence, body |-> b]
<1>2. m \in [dst : Addr, seq : 0..MaxSeq - 1, body : Body]
  BY SystemAssumption DEF TypeInv, TypeOK, ClientTypeOK
<1>3. MessengerSend(c, m, q) /\ UNCHANGED <<sent, received>>
  BY <1>1 DEF Submit, networkVars
<1>. HIDE DEF m
<1>4. CASE send_started
  BY <1>3, <1>4, PromiseQuiet DEF MessengerSend, senderVars, seen
<1>5. CASE ~send_started
  <2>1. AnswersIn(events)' = AnswersIn(q)
    BY <1>3, <1>5, AnswersKept, MessengerAssumption DEF MessengerSend, Kinds
  <2>2. Promise!Accept(c, m)
    BY <1>3, <1>5, <2>1 DEF MessengerSend, Promise!Accept
  <2>. QED BY <1>2, <2>2 DEF Promise!Next
<1>. QED BY <1>4, <1>5

LEMMA PromiseClient ==
  ASSUME TypeInv, OneClient, NEW c \in Clients, ClientStep(c)
  PROVE  [Promise!Next]_(Promise!vars)
<1>. DEFINE q == Tail(events)
<1>1. /\ events \in Seq(Event) /\ events # <<>> /\ Head(events).to = c /\ q \in Seq(Event)
      /\ Sender \in Procs
  <2>1. events \in Seq(Event) /\ Sender \in Procs
    BY MessengerAssumption DEF TypeInv, TypeOK, ContikiTypeOK
  <2>2. \E e : Receives(c, e)
    BY DEF ClientStep, ClientSettled, ClientAnswered, ClientOther, ClientGone
  <2>. QED BY <2>1, <2>2 DEF Receives
<1>2. \/ AnswersIn(q) = AnswersIn(events)
      \/ /\ AnswersIn(events) # <<>> /\ AnswersIn(q) = Tail(AnswersIn(events))
         /\ Head(AnswersIn(events)) = c
  BY <1>1, AnswersTail
<1>. HIDE DEF q
<1>3. ASSUME pc[c] = "settle", Submit(c, q)
      PROVE  [Promise!Next]_(Promise!vars)
  BY <1>1, <1>2, <1>3, PromiseSubmit DEF OneClient
<1>4. ASSUME NEW ok, Finish(c, ok, q) \/ Ignore(c, q)
      PROVE  [Promise!Next]_(Promise!vars)
  <2>1. AnswersIn(events)' = AnswersIn(q)
    BY <1>1, <1>4, AnswersKept DEF Finish, Ignore
  <2>2. UNCHANGED seen
    BY <1>4 DEF Finish, Ignore, messengerVars, senderVars, networkVars, seen
  <2>. QED BY <1>2, <2>1, <2>2, PromiseQuiet
<1>. QED
  BY <1>3, <1>4
  DEF ClientStep, ClientSettled, ClientAnswered, ClientOther, ClientGone, q

LEMMA PromiseStep ==
  ASSUME MaxSeq <= SeqMod, TypeInv, OneClient, AckInv, [Next]_vars
  PROVE  [Promise!Next]_(Promise!vars)
<1>1. CASE \/ SerialLine \/ UNCHANGED vars
           \/ \E c \in Clients : Begin(c)
           \/ \E a \in Addr : SetReceiver(a)
  <2>1. UNCHANGED seen
    BY <1>1
    DEF SerialLine, Begin, SetReceiver, vars, messengerVars, senderVars,
        networkVars, seen
  <2>2. events \in Seq(Event) /\ Sender \in Procs /\ Clients \subseteq Procs
    BY MessengerAssumption, SystemAssumption DEF TypeInv, TypeOK, ContikiTypeOK
  <2>3. AnswersIn(events)' = AnswersIn(events)
    <3>1. \A p \in Procs : /\ Post(events, p, "line") \in Seq(Event)
                           /\ AnswersIn(Post(events, p, "line")) = AnswersIn(events)
      BY <2>2, PostType, AnswersKept DEF Kinds
    <3>2. \A p \in Procs :
            AnswersIn(Post(Post(events, p, "line"), Sender, "line"))
              = AnswersIn(events)
      BY <2>2, <3>1, AnswersKept DEF Kinds
    <3>. QED
      BY <1>1, <2>2, <3>1, <3>2
      DEF SerialLine, Begin, SetReceiver, vars, kernelVars
  <2>. QED BY <2>1, <2>3, PromiseQuiet
<1>. QED BY <1>1, PromiseSender, PromiseEnvironment, PromiseClient DEF Next

(* KeepsPromise: the sender, its queue and the network implement Delivery.  *)
THEOREM ImplementsDelivery ==
  ASSUME MaxSeq <= SeqMod
  PROVE  Spec => KeepsPromise
<1>. DEFINE Inv == TypeInv /\ OneClient /\ AckInv
<1>1. Init => Inv
  <2>. SUFFICES ASSUME Init PROVE AckInv
    BY InvInit
  <2>. QED
    BY MessengerAssumption
    DEF Init, MessengerInit, AckInv, Bookkeeping, AckHonest
<1>2. Inv /\ [Next]_vars => Inv'
  BY InvStep, AckStepInv
<1>3. Inv /\ [Next]_vars => [Promise!Next]_(Promise!vars)
  BY PromiseStep
<1>. QED
  BY <1>1, <1>2, <1>3, PromiseInit, PTL
  DEF Spec, KeepsPromise, Promise!Spec

-----------------------------------------------------------------------------
Owner(c) == send_started /\ requestor = c

(* The ticks after which the sender gives up at the latest. *)
Rounds(k) == (MaxAttempts - 1 - k) * RetryDelay

Remaining ==
  Rounds(current_attempt)
  + (IF timers[Sender] = Off THEN 0 ELSE timers[Sender])

(* A patient client that owns the send, or is owed the answer, waits for it *)
(* with the message it handed over and time left; the sender ends first.    *)
Outlasts(c) ==
  /\ Once(events, c, "MSG")
  /\ Owner(c) \/ Pending(c, "MSG") =>
       pc[c] = "await" /\ current_data = msg[c] /\ timers[c] > 0
  /\ Owner(c) =>
       /\ ~Pending(c, "MSG")
       /\ IF Pending(Sender, "start") THEN timers[c] = Patience[c]
                                      ELSE timers[c] > Remaining
  /\ Pending(c, "MSG") => ~send_started

PatientInv == \A c \in Clients : Patient(c) => Outlasts(c)

LEMMA RemainingArithmetic ==
  ASSUME NEW k \in 0..MaxAttempts - 1
  PROVE  /\ Rounds(k) \in Nat
         /\ k + 1 <= MaxAttempts - 1 => Rounds(k + 1) + RetryDelay = Rounds(k)
         /\ Rounds(0) + RetryDelay = MaxAttempts * RetryDelay
<1>. MaxAttempts \in Nat \ {0} /\ RetryDelay \in Nat \ {0}
  BY MessengerAssumption
<1>1. \A a \in Nat, r \in Nat : a * r \in Nat /\ (a + 1) * r = a * r + r
  OBVIOUS
<1>2. MaxAttempts - 1 - k \in Nat /\ MaxAttempts - 1 \in Nat
  OBVIOUS
<1>3. ASSUME k + 1 <= MaxAttempts - 1
      PROVE  (MaxAttempts - 1 - (k + 1)) * RetryDelay + RetryDelay
                = (MaxAttempts - 1 - k) * RetryDelay
  <2>1. MaxAttempts - 1 - (k + 1) \in Nat
    BY <1>3
  <2>2. (MaxAttempts - 1 - (k + 1)) + 1 = MaxAttempts - 1 - k
    OBVIOUS
  <2>. QED BY <1>1, <2>1, <2>2
<1>4. (MaxAttempts - 1 - 0) * RetryDelay + RetryDelay = MaxAttempts * RetryDelay
  <2>1. MaxAttempts - 1 - 0 = MaxAttempts - 1 /\ (MaxAttempts - 1) + 1 = MaxAttempts
    OBVIOUS
  <2>. QED BY <1>1, <1>2, <2>1
<1>. QED BY <1>1, <1>2, <1>3, <1>4 DEF Rounds

(* A client that neither owns the send nor is owed an answer. *)
LEMMA OutlastsFree ==
  ASSUME NEW c, ~Owner(c)', ~Pending(c, "MSG")'
  PROVE  Outlasts(c)'
BY DEF Outlasts, Once, Pending, Has

LEMMA OutlastsKept ==
  ASSUME NEW c, Outlasts(c),
         UNCHANGED <<send_started, requestor, current_data, current_attempt>>,
         msg'[c] = msg[c], pc'[c] = pc[c], timers'[c] = timers[c],
         timers'[Sender] = timers[Sender],
         Pending(c, "MSG")' => Pending(c, "MSG"),
         Once(events, c, "MSG")',
         Pending(Sender, "start")' <=> Pending(Sender, "start")
  PROVE  Outlasts(c)'
BY DEF Outlasts, Owner, Remaining

(* What posting anything but PROCESS_EVENT_MSG does to the queue. *)
LEMMA PostedOther ==
  ASSUME NEW q \in Seq(Event), NEW p \in Procs, NEW e \in Kinds \ {"MSG", "start"}, NEW c
  PROVE  /\ Has(Post(q, p, e), c, "MSG") <=> Has(q, c, "MSG")
         /\ Has(Post(q, p, e), Sender, "start") <=> Has(q, Sender, "start")
         /\ Once(q, c, "MSG") => Once(Post(q, p, e), c, "MSG")
         /\ Once(q, Sender, "start") => Once(Post(q, p, e), Sender, "start")
BY HasPost, HasPostOnly, OncePost

LEMMA ToldOther ==
  ASSUME NEW q \in Seq(Event), NEW p \in Procs, NEW c
  PROVE  /\ Has(Tell(q, p), c, "MSG") <=> Has(q, c, "MSG")
         /\ Has(Tell(q, p), Sender, "start") <=> Has(q, Sender, "start")
         /\ Once(q, c, "MSG") => Once(Tell(q, p), c, "MSG")
         /\ Once(q, Sender, "start") => Once(Tell(q, p), Sender, "start")
BY HasTell, HasTellOnly, OnceTell

(* The sender runs. *)
LEMMA SenderOutlasts ==
  ASSUME TypeInv, NEW c \in Clients, Patient(c), Outlasts(c), SenderStep
  PROVE  Outlasts(c)'
<1>. USE MessengerAssumption, SystemAssumption
<1>. DEFINE q == Tail(events)
<1>0. /\ events \in Seq(Event) /\ timers \in [Procs -> Nat \cup {Off}]
      /\ Sender \in Procs /\ c \in Procs /\ c # Sender
      /\ send_started => requestor \in Procs /\ current_attempt \in 0..MaxAttempts - 1
  BY DEF TypeInv, TypeOK, ContikiTypeOK, SenderTypeOK, Busy
<1>1. PICK e \in Kinds : Receives(Sender, e)
  BY DEF SenderStep, SenderStart, SenderFin, SenderOther, Kinds
<1>2. /\ q \in Seq(Event) /\ events # <<>>
      /\ Has(q, c, "MSG") <=> Pending(c, "MSG")
      /\ Once(q, c, "MSG")
      /\ Has(q, Sender, "start") => Pending(Sender, "start")
      /\ e # "start" => (Pending(Sender, "start") <=> Has(q, Sender, "start"))
  BY <1>0, <1>1, ReceivesType, HasTail, HasTailOnly, OnceTail, ReceivesPending
  DEF Outlasts
<1>3. /\ UNCHANGED <<requestor, current_data, msg, pc>>
      /\ timers'[c] = timers[c]
  BY <1>0 DEF SenderStep, SenderStart, SenderFin, SenderOther, OnStart, OnFin,
              OnOther, GiveUp, Resend, Set, Stop, clientVars
<1>. HIDE DEF q
<1>4. ASSUME send_started, ~send_started', events' = Post(q, requestor, "MSG")
      PROVE  Outlasts(c)'
  <2>1. CASE requestor = c
    <3>1. ~Has(q, c, "MSG")
      BY <1>2, <1>4, <2>1 DEF Outlasts, Owner
    <3>2. Once(events, c, "MSG")'
      BY <1>0, <1>2, <1>4, <2>1, <3>1, OncePost DEF Kinds
    <3>. QED BY <1>3, <1>4, <2>1, <3>2 DEF Outlasts, Owner
  <2>2. CASE requestor # c
    <3>1. ~Has(Post(q, requestor, "MSG"), c, "MSG")
      BY <1>0, <1>2, <1>4, <2>2, HasPostOnly DEF Kinds, Outlasts
    <3>. QED BY <1>4, <3>1, OutlastsFree DEF Pending, Owner
  <2>. QED BY <2>1, <2>2
<1>5. ASSUME ~send_started, ~send_started', events' = q
      PROVE  Outlasts(c)'
  BY <1>2, <1>3, <1>5 DEF Outlasts, Owner, Pending
<1>6. CASE SenderStart
  <2>1. Pending(Sender, "start")
    BY <1>0, <1>6, ReceivesPending DEF SenderStart
  <2>2. CASE Owner(c)
    <3>1. /\ current_attempt' = 0 /\ timers'[Sender] = RetryDelay
          /\ events' = q /\ send_started'
      BY <1>0, <1>6, <2>2 DEF SenderStart, OnStart, Set, Owner, q
    <3>2. timers[c] = Patience[c] /\ Patience[c] > MaxAttempts * RetryDelay
      BY <2>1, <2>2 DEF Outlasts, Patient
    <3>3. Remaining' = MaxAttempts * RetryDelay
      <4>1. 0 \in 0..MaxAttempts - 1
        OBVIOUS
      <4>2. Rounds(0) + RetryDelay = MaxAttempts * RetryDelay
        BY <4>1, RemainingArithmetic
      <4>. QED BY <3>1, <4>2 DEF Remaining
    <3>. QED BY <1>2, <1>3, <2>2, <3>1, <3>2, <3>3 DEF Outlasts, Owner, Pending
  <2>3. CASE ~Owner(c)
    <3>1. events' = q /\ send_started' = send_started
      BY <1>6 DEF SenderStart, OnStart, q
    <3>. QED BY <1>2, <1>3, <2>3, <3>1 DEF Outlasts, Owner, Pending
  <2>. QED BY <2>2, <2>3
<1>7. CASE SenderFin
  BY <1>4, <1>5, <1>7 DEF SenderFin, OnFin, q
<1>8. CASE SenderOther
  <2>0. e # "start"
    BY <1>1, <1>8 DEF SenderOther, Receives
  <2>1. OnOther(q)
    BY <1>8 DEF SenderOther, q
  <2>2. CASE send_started /\ GiveUp(q)
    BY <1>4, <2>2 DEF GiveUp
  <2>3. CASE /\ send_started /\ Expired(Sender)
             /\ current_attempt + 1 < MaxAttempts /\ Resend(q)
    <3>1. /\ timers[Sender] = Off /\ timers'[Sender] = RetryDelay
          /\ current_attempt' = current_attempt + 1
          /\ events' = q /\ send_started' = send_started
      BY <1>0, <2>3 DEF Resend, Expired, Set
    <3>2. current_attempt + 1 <= MaxAttempts - 1 /\ current_attempt \in 0..MaxAttempts - 1
      BY <1>0, <2>3
    <3>3. Remaining' = Remaining
      <4>1. /\ Rounds(current_attempt + 1) + RetryDelay = Rounds(current_attempt)
            /\ Rounds(current_attempt) \in Nat
        BY <3>2, RemainingArithmetic
      <4>2. Remaining' = Rounds(current_attempt + 1) + RetryDelay
        BY <3>1 DEF Remaining
      <4>3. Remaining = Rounds(current_attempt)
        BY <3>1, <4>1 DEF Remaining
      <4>. QED BY <4>1, <4>2, <4>3
    <3>. QED BY <1>2, <1>3, <2>0, <3>1, <3>3 DEF Outlasts, Owner, Pending
  <2>4. CASE events' = q /\ UNCHANGED <<current_attempt, send_started, timers>>
    BY <1>2, <1>3, <2>0, <2>4, OutlastsKept DEF Pending
  <2>. QED BY <1>0, <2>1, <2>2, <2>3, <2>4 DEF OnOther
<1>. QED BY <1>6, <1>7, <1>8 DEF SenderStep

(* The kernel, the network, the console and the configuration. *)
LEMMA OutsideOutlasts ==
  ASSUME TypeInv, NoStall, NEW c \in Clients, Patient(c), Outlasts(c),
         \/ AckStep \/ ServerStep \/ KernelStep \/ SerialLine \/ UNCHANGED vars
         \/ \E a \in Addr : SetReceiver(a)
  PROVE  Outlasts(c)'
<1>. USE MessengerAssumption, SystemAssumption
<1>0. /\ events \in Seq(Event) /\ timers \in [Procs -> Nat \cup {Off}]
      /\ Sender \in Procs /\ c \in Procs /\ c # Sender
      /\ send_started => current_attempt \in 0..MaxAttempts - 1
  BY DEF TypeInv, TypeOK, ContikiTypeOK, SenderTypeOK, Busy
<1>1. UNCHANGED <<send_started, requestor, current_data, current_attempt, msg, pc>>
  BY
  DEF AckStep, AckArrives, ServerStep, ServerReceives, KernelStep, SerialLine,
      SetReceiver,
         vars, messengerVars, senderVars, clientVars
<1>2. ASSUME timers' = timers, NEW q \in Seq(Event), events' = q,
             Has(q, c, "MSG") => Pending(c, "MSG"), Once(q, c, "MSG"),
             Has(q, Sender, "start") <=> Pending(Sender, "start")
      PROVE  Outlasts(c)'
  BY <1>1, <1>2, OutlastsKept DEF Pending
<1>3. Once(events, c, "MSG")
  BY DEF Outlasts
<1>4. CASE AckStep
  <2>1. timers' = timers /\ events' = Post(events, Sender, "fin")
    BY <1>4 DEF AckStep, AckArrives
  <2>2. Post(events, Sender, "fin") \in Seq(Event)
    BY <1>0, PostType DEF Kinds
  <2>. QED BY <1>0, <1>2, <1>3, <2>1, <2>2, PostedOther DEF Kinds, Pending
<1>5. CASE SerialLine
  <2>1. ASSUME NEW p \in Procs, NEW q \in Seq(Event),
               Has(q, c, "MSG") => Pending(c, "MSG"), Once(q, c, "MSG"),
               Has(q, Sender, "start") <=> Pending(Sender, "start")
        PROVE  /\ Post(q, p, "line") \in Seq(Event)
               /\ Has(Post(q, p, "line"), c, "MSG") => Pending(c, "MSG")
               /\ Once(Post(q, p, "line"), c, "MSG")
               /\ Has(Post(q, p, "line"), Sender, "start") <=> Pending(Sender, "start")
    BY <2>1, PostType, PostedOther DEF Kinds
  <2>2. timers' = timers
    BY <1>5 DEF SerialLine
  <2>3. CASE events' = Post(events, Sender, "line")
    BY <1>0, <1>2, <1>3, <2>1, <2>2, <2>3 DEF Pending
  <2>4. ASSUME NEW d \in Clients, events' = Post(Post(events, d, "line"), Sender, "line")
        PROVE  Outlasts(c)'
    <3>. DEFINE r == Post(events, d, "line")
    <3>1. /\ r \in Seq(Event)
          /\ Has(r, c, "MSG") => Pending(c, "MSG")
          /\ Once(r, c, "MSG")
          /\ Has(r, Sender, "start") <=> Pending(Sender, "start")
      BY <1>0, <1>3, <2>1 DEF Pending
    <3>2. events' = Post(r, Sender, "line")
      BY <2>4
    <3>. HIDE DEF r
    <3>. QED BY <1>0, <1>2, <2>1, <2>2, <3>1, <3>2
  <2>. QED BY <1>5, <2>3, <2>4 DEF SerialLine
<1>6. CASE UNCHANGED <<events, timers>>
  BY <1>0, <1>2, <1>3, <1>6 DEF Pending
<1>7. ASSUME NEW p \in Procs, TimerPoll(p)
      PROVE  Outlasts(c)'
  <2>0. /\ events' = Post(events, p, "TIMER")
        /\ timers[p] = 0 /\ timers' = [timers EXCEPT ![p] = Off]
    BY <1>7 DEF TimerPoll, Stop
  <2>1. /\ Has(events', c, "MSG") <=> Pending(c, "MSG")
        /\ Has(events', Sender, "start") <=> Pending(Sender, "start")
        /\ Once(events', c, "MSG")
    BY <1>0, <1>3, <2>0, PostedOther DEF Kinds, Pending
  <2>2. CASE Owner(c) \/ Pending(c, "MSG")
    <3>1. p # c /\ timers'[c] = timers[c]
      BY <1>0, <2>0, <2>2 DEF Outlasts
    <3>2. Remaining' = Remaining
      BY <1>0, <1>1, <2>0 DEF Remaining
    <3>. QED BY <1>1, <2>1, <3>1, <3>2 DEF Outlasts, Owner, Pending
  <2>3. CASE ~(Owner(c) \/ Pending(c, "MSG"))
    BY <1>1, <2>1, <2>3, OutlastsFree DEF Owner, Pending
  <2>. QED BY <2>2, <2>3
<1>8. CASE Tick
  <2>0. /\ events = <<>> /\ events' = events
        /\ timers[Sender] # 0
        /\ \A p \in Procs : timers'[p] = IF timers[p] = Off THEN Off ELSE timers[p] - 1
    BY <1>0, <1>8 DEF Tick
  <2>1. ~Pending(c, "MSG") /\ ~Pending(Sender, "start") /\ ~Pending(Sender, "TIMER")
        /\ ~Pending(c, "MSG")'
    BY <2>0 DEF Pending, Has
  <2>2. CASE Owner(c)
    <3>. DEFINE k == Rounds(current_attempt)
    <3>1. k \in Nat
      BY <1>0, <2>2, RemainingArithmetic DEF Owner
    <3>. HIDE DEF k
    <3>2. timers[Sender] \in Nat \ {0} /\ timers[c] \in Nat
      BY <1>0, <2>0, <2>1, <2>2 DEF NoStall, Owner, Outlasts
    <3>3. timers[c] > k + timers[Sender]
      BY <2>1, <2>2, <3>2 DEF Outlasts, Remaining, k
    <3>4. timers'[Sender] = timers[Sender] - 1 /\ timers'[c] = timers[c] - 1
      BY <1>0, <2>0, <3>2
    <3>5. timers'[c] > k + timers'[Sender] /\ timers'[c] > 0 /\ timers'[Sender] # Off
      BY <3>1, <3>2, <3>3, <3>4
    <3>6. timers'[c] > Remaining'
      BY <1>1, <3>5 DEF Remaining, k
    <3>. QED BY <1>1, <2>0, <2>1, <2>2, <3>5, <3>6 DEF Outlasts, Owner, Pending
  <2>3. CASE ~Owner(c)
    BY <1>1, <2>1, <2>3, OutlastsFree DEF Owner
  <2>. QED BY <2>2, <2>3
<1>9. ServerStep \/ UNCHANGED vars \/ (\E a \in Addr : SetReceiver(a))
      => UNCHANGED <<events, timers>>
  BY DEF ServerStep, ServerReceives, SetReceiver, vars, kernelVars
<1>. QED BY <1>4, <1>5, <1>6, <1>7, <1>8, <1>9 DEF KernelStep

-----------------------------------------------------------------------------
(* The clients run. *)
LEMMA ClientOutlasts ==
  ASSUME TypeInv, OneClient, NEW c \in Clients, Patient(c), Outlasts(c),
         NEW d \in Clients, Begin(d) \/ ClientStep(d)
  PROVE  Outlasts(c)'
<1>. USE MessengerAssumption, SystemAssumption
<1>. DEFINE q == Tail(events)
            free == ~Owner(c) /\ ~Pending(c, "MSG")
<1>0. /\ events \in Seq(Event) /\ timers \in [Procs -> Nat \cup {Off}]
      /\ Sender \in Procs /\ c \in Procs /\ c # Sender /\ d \in Procs /\ d # Sender
      /\ pc \in [Clients -> {"idle", "settle", "await"}]
      /\ msg \in [Clients -> Message \cup {NoMsg}]
  BY DEF TypeInv, TypeOK, ContikiTypeOK, ClientTypeOK
<1>1. pc[c] # "await" => free
  BY DEF Outlasts
<1>2. CASE Begin(d)
  <2>1. UNCHANGED <<events, send_started, requestor>> /\ free
    BY <1>1, <1>2 DEF Begin, messengerVars, senderVars
  <2>. QED BY <2>1, OutlastsFree DEF Owner, Pending
<1>3. CASE ClientStep(d)
  <2>1. PICK e \in Kinds : Receives(d, e)
    BY <1>3
    DEF ClientStep, ClientSettled, ClientAnswered, ClientOther, ClientGone,
        Kinds
  <2>2. /\ q \in Seq(Event) /\ events # <<>>
        /\ Has(q, c, "MSG") => Pending(c, "MSG")
        /\ Once(q, c, "MSG")
        /\ Receives(c, "MSG") => ~Has(q, c, "MSG")
        /\ Has(q, Sender, "start") <=> Pending(Sender, "start")
    BY <1>0, <2>1, ReceivesType, HasTail, HasTailOnly, OnceTail, ReceivesPending
    DEF Outlasts
  <2>. HIDE DEF q
  <2>3. CASE Ignore(d, q)
    BY <2>2, <2>3, OutlastsKept
    DEF Ignore, messengerVars, senderVars, clientVars, Pending
  <2>4. CASE pc[d] = "settle" /\ Submit(d, q)
    <3>1. free
      BY <1>0, <1>1, <2>4 DEF OneClient
    <3>2. PICK m : MessengerSend(d, m, q) /\ msg' = [msg EXCEPT ![d] = m]
      BY <2>4 DEF Submit
    <3>3. CASE send_started
      BY <2>2, <3>1, <3>2, <3>3, OutlastsFree
      DEF MessengerSend, senderVars, Owner, Pending
    <3>4. CASE ~send_started
      <4>1. /\ Has(events', Sender, "start") /\ ~Has(events', c, "MSG")
            /\ Once(events', c, "MSG")
        BY <1>0, <2>2, <3>1, <3>2, <3>4, HasPost, HasPostOnly, OncePost
        DEF MessengerSend, Kinds
      <4>2. CASE d # c
        BY <3>2, <3>4, <4>1, <4>2, OutlastsFree
        DEF MessengerSend, Owner, Pending
      <4>3. CASE d = c
        <5>1. /\ timers'[c] = Patience[c] /\ Patience[c] > 0
              /\ pc'[c] = "await" /\ msg'[c] = m /\ current_data' = m
          BY <1>0, <2>4, <3>2, <3>4, <4>3 DEF Submit, MessengerSend, Set
        <5>. QED BY <4>1, <5>1 DEF Outlasts, Pending
      <4>. QED BY <4>2, <4>3
    <3>. QED BY <3>3, <3>4
  <2>5. ASSUME NEW ok, pc[d] = "await", Finish(d, ok, q), Receives(d, "MSG") \/ Expired(d)
        PROVE  Outlasts(c)'
    <3>1. ~Owner(c)
      <4>1. CASE d # c
        BY <1>0, <1>1, <2>5, <4>1 DEF OneClient
      <4>2. CASE d = c
        BY <1>0, <2>2, <2>5, <4>2, ReceivesPending DEF Outlasts, Owner, Expired
      <4>. QED BY <4>1, <4>2
    <3>2. ~Has(q, c, "MSG")
      <4>1. CASE d # c
        BY <1>0, <1>1, <2>2, <2>5, <4>1 DEF OneClient
      <4>2. CASE d = c
        BY <1>0, <2>2, <2>5, <4>2 DEF Outlasts, Expired
      <4>. QED BY <4>1, <4>2
    <3>3. ~Has(events', c, "MSG") /\ UNCHANGED <<send_started, requestor>>
      BY <1>0, <2>2, <2>5, <3>2, ToldOther DEF Finish, messengerVars, senderVars
    <3>. QED BY <3>1, <3>3, OutlastsFree DEF Owner, Pending
  <2>. QED
    BY <1>3, <2>3, <2>4, <2>5
    DEF ClientStep, ClientSettled, ClientAnswered, ClientOther, ClientGone, q
<1>. QED BY <1>2, <1>3

LEMMA PatientStep ==
  ASSUME TypeInv, OneClient, NoStall, PatientInv, [Next]_vars
  PROVE  PatientInv'
<1>. SUFFICES ASSUME NEW c \in Clients, Patient(c)
              PROVE  Outlasts(c)'
  BY DEF PatientInv, Patient
<1>1. Outlasts(c)
  BY DEF PatientInv
<1>. QED
  BY <1>1, SenderOutlasts, OutsideOutlasts, ClientOutlasts DEF Next

(* A report is about the message whose result was read. *)
LEMMA ReportedStep ==
  ASSUME TypeInv, OneClient, AckInv, PatientInv, ReportedOk, [Next]_vars
  PROVE  ReportedOk'
<1>1. received \subseteq received'
  BY
  DEF Next, SenderStep, SenderStart, SenderFin, SenderOther, AckStep,
      AckArrives, ServerStep,
         ServerReceives, KernelStep, Begin, ClientStep, ClientSettled,
         ClientAnswered,
         ClientOther, ClientGone, Submit, Finish, Ignore, SerialLine,
         SetReceiver, vars,
         messengerVars, networkVars
<1>2. CASE reported' = reported
  BY <1>1, <1>2 DEF ReportedOk, Patient
<1>3. ASSUME NEW c \in Clients, NEW ok, Finish(c, ok, Tail(events)),
             Patient(c) /\ ok => msg[c] \in received
      PROVE  ReportedOk'
  <2>1. reported' = reported \cup {<<c, msg[c], ok>>}
    BY <1>3 DEF Finish
  <2>. QED BY <1>1, <1>3, <2>1 DEF ReportedOk, Patient
<1>4. ASSUME NEW c \in Clients, ClientAnswered(c)
      PROVE  ReportedOk'
  <2>1. events \in Seq(Event)
    BY DEF TypeInv, TypeOK, ContikiTypeOK
  <2>2. Pending(c, "MSG")
    BY <1>4, <2>1, ReceivesPending DEF ClientAnswered
  <2>3. Patient(c) /\ last_ack_ok => msg[c] \in received
    BY <2>2 DEF PatientInv, Outlasts, AckInv, AckHonest
  <2>. QED BY <1>3, <1>4, <2>3 DEF ClientAnswered
<1>5. ASSUME NEW c \in Clients, ClientOther(c)
      PROVE  ReportedOk'
  BY <1>2, <1>3, <1>5 DEF ClientOther, Ignore, clientVars
<1>. QED
  BY <1>2, <1>4, <1>5
  DEF Next, SenderStep, AckStep, ServerStep, KernelStep, Begin, ClientStep,
      ClientSettled,
      ClientGone, Submit, Ignore, SerialLine, SetReceiver, vars, clientVars

(* ReportedOk: a client that outlasts the sender is told the truth.         *)
THEOREM ReportsAreTrue ==
  ASSUME MaxSeq <= SeqMod
  PROVE  Spec => []ReportedOk
<1>. DEFINE Inv == TypeInv /\ OneClient /\ NoStall /\ AckInv /\ PatientInv /\ ReportedOk
<1>1. Init => Inv
  <2>. SUFFICES ASSUME Init PROVE NoStall /\ AckInv /\ PatientInv /\ ReportedOk
    BY InvInit
  <2>1. \A c : ~Pending(c, "MSG")
    BY DEF Init, ContikiInit, Pending, Has
  <2>2. PatientInv
    BY <2>1
    DEF PatientInv, Outlasts, Once, Owner, Pending, Has, Init, MessengerInit
  <2>. QED
    BY <2>2, MessengerAssumption
    DEF Init, MessengerInit, NoStall, AckInv, Bookkeeping, AckHonest, ReportedOk
<1>2. Inv /\ [Next]_vars => Inv'
  BY InvStep, NoStallStep, AckStepInv, PatientStep, ReportedStep
<1>3. Inv => ReportedOk
  OBVIOUS
<1>. QED BY <1>1, <1>2, <1>3, PTL DEF Spec

-----------------------------------------------------------------------------
(* Before its start is handled a message is transmitted once at most, by an *)
(* event that overtakes the start; after that once more than the attempts   *)
(* say, or twice.  No second start is ever queued: while one is, a client   *)
(* that settles waits for its etimer.                                       *)
TriesInv ==
  /\ Once(events, Sender, "start")
  /\ \A c \in Clients :
       pc[c] = "settle" /\ Pending(Sender, "start") => timers[c] = 1
  /\ tries <= MaxAttempts + 1
  /\ send_started =>
       IF Pending(Sender, "start")
       THEN tries = current_attempt /\ (tries = 0 \/ (tries = 1 /\ timers[Sender] > 0))
       ELSE tries <= current_attempt + 2

LEMMA TriesKept ==
  ASSUME TriesInv, UNCHANGED <<tries, send_started, current_attempt>>,
         timers'[Sender] = timers[Sender],
         Once(events, Sender, "start")',
         Pending(Sender, "start")' <=> Pending(Sender, "start"),
         \A c \in Clients : pc'[c] = "settle" /\ Pending(Sender, "start") => timers'[c] = 1
  PROVE  TriesInv'
BY DEF TriesInv

LEMMA SenderTries ==
  ASSUME TypeInv, TriesInv, SenderStep
  PROVE  TriesInv'
<1>. USE MessengerAssumption, SystemAssumption
<1>. DEFINE q == Tail(events)
<1>0. /\ events \in Seq(Event) /\ timers \in [Procs -> Nat \cup {Off}]
      /\ Sender \in Procs /\ tries \in Nat /\ current_attempt \in Nat
      /\ send_started => requestor \in Procs /\ requestor # Sender
  BY DEF TypeInv, TypeOK, ContikiTypeOK, SenderTypeOK, Busy
<1>1. PICK e \in Kinds : Receives(Sender, e)
  BY DEF SenderStep, SenderStart, SenderFin, SenderOther, Kinds
<1>2. /\ q \in Seq(Event) /\ events # <<>>
      /\ Once(q, Sender, "start")
      /\ Has(q, Sender, "start") => Pending(Sender, "start")
      /\ e # "start" => (Pending(Sender, "start") <=> Has(q, Sender, "start"))
      /\ e = "start" => Pending(Sender, "start") /\ ~Has(q, Sender, "start")
  BY <1>0, <1>1, ReceivesType, HasTail, HasTailOnly, OnceTail, ReceivesPending
  DEF TriesInv
<1>3. pc' = pc /\ \A c \in Clients : timers'[c] = timers[c]
  BY <1>0 DEF SenderStep, SenderStart, SenderFin, SenderOther, OnStart, OnFin,
              OnOther, GiveUp, Resend, Set, Stop, clientVars
<1>. HIDE DEF q
<1>4. ASSUME send_started
      PROVE  /\ Has(Post(q, requestor, "MSG"), Sender, "start") <=> Has(q, Sender, "start")
             /\ Once(Post(q, requestor, "MSG"), Sender, "start")
  <2>1. requestor \in Procs /\ "MSG" \in Kinds
    BY <1>0, <1>4 DEF Kinds
  <2>. QED BY <1>2, <2>1, HasPost, HasPostOnly, OncePost
<1>5. ASSUME Once(events', Sender, "start"),
             Has(events', Sender, "start") => Pending(Sender, "start"),
             tries' <= MaxAttempts + 1,
             send_started' =>
               IF Has(events', Sender, "start")
               THEN /\ tries' = current_attempt'
                    /\ tries' = 0 \/ (tries' = 1 /\ timers'[Sender] > 0)
               ELSE tries' <= current_attempt' + 2
      PROVE  TriesInv'
  BY <1>3, <1>5 DEF TriesInv, Pending
<1>6. CASE SenderStart
  <2>0. e = "start"
    BY <1>1, <1>6 DEF SenderStart, Receives
  <2>1. events' = q /\ send_started' = send_started
    BY <1>6 DEF SenderStart, OnStart, q
  <2>2. CASE send_started
    <3>1. tries' = tries + 1 /\ current_attempt' = 0 /\ tries <= 1
      BY <1>0, <1>2, <1>6, <2>0, <2>2
      DEF SenderStart, OnStart, Transmit, TriesInv
    <3>2. tries' <= 2 /\ tries' <= MaxAttempts + 1 /\ tries' <= current_attempt' + 2
      BY <1>0, <3>1
    <3>. QED BY <1>2, <1>5, <2>0, <2>1, <3>2
  <2>3. CASE ~send_started
    <3>1. tries' = tries
      BY <1>6, <2>3 DEF SenderStart, OnStart
    <3>. QED BY <1>2, <1>5, <2>1, <2>3, <3>1 DEF TriesInv
  <2>. QED BY <2>2, <2>3
<1>7. CASE SenderFin
  <2>1. ~send_started' /\ tries' = tries
    BY <1>7 DEF SenderFin, OnFin
  <2>2. events' = IF send_started THEN Post(q, requestor, "MSG") ELSE q
    BY <1>7 DEF SenderFin, OnFin, q
  <2>. QED BY <1>2, <1>4, <1>5, <2>1, <2>2 DEF TriesInv
<1>8. CASE SenderOther
  <2>0. e # "start"
    BY <1>1, <1>8 DEF SenderOther, Receives
  <2>1. OnOther(q)
    BY <1>8 DEF SenderOther, q
  <2>2. CASE send_started /\ GiveUp(q)
    BY <1>2, <1>4, <1>5, <2>2 DEF GiveUp, TriesInv
  <2>3. CASE /\ send_started /\ Expired(Sender)
             /\ current_attempt + 1 < MaxAttempts /\ Resend(q)
    <3>1. /\ timers[Sender] = Off /\ timers'[Sender] = RetryDelay
          /\ current_attempt' = current_attempt + 1 /\ tries' = tries + 1
          /\ events' = q /\ send_started' = send_started
      BY <1>0, <2>3 DEF Resend, Transmit, Expired, Set
    <3>2. CASE Pending(Sender, "start")
      <4>1. tries = 0 /\ current_attempt = 0
        BY <2>3, <3>1, <3>2 DEF TriesInv
      <4>. QED BY <1>2, <1>5, <2>0, <3>1, <3>2, <4>1
    <3>3. CASE ~Pending(Sender, "start")
      <4>1. tries <= current_attempt + 2
        BY <2>3, <3>3 DEF TriesInv
      <4>2. tries' <= current_attempt' + 2 /\ tries' <= MaxAttempts + 1
        BY <1>0, <2>3, <3>1, <4>1
      <4>. QED BY <1>2, <1>5, <2>0, <3>1, <3>3, <4>2
    <3>. QED BY <3>2, <3>3
  <2>4. CASE events' = q /\ UNCHANGED <<current_attempt, send_started, timers, tries>>
    BY <1>2, <1>3, <2>0, <2>4, TriesKept DEF Pending, TriesInv
  <2>. QED BY <1>0, <2>1, <2>2, <2>3, <2>4 DEF OnOther
<1>. QED BY <1>6, <1>7, <1>8 DEF SenderStep

LEMMA OutsideTries ==
  ASSUME TypeInv, TriesInv,
         \/ AckStep \/ ServerStep \/ KernelStep \/ SerialLine \/ UNCHANGED vars
         \/ \E a \in Addr : SetReceiver(a)
  PROVE  TriesInv'
<1>. USE MessengerAssumption, SystemAssumption
<1>0. /\ events \in Seq(Event) /\ timers \in [Procs -> Nat \cup {Off}] /\ Sender \in Procs
      /\ Once(events, Sender, "start")
  BY DEF TypeInv, TypeOK, ContikiTypeOK, TriesInv
<1>1. UNCHANGED <<send_started, current_attempt, tries, pc>>
  BY
  DEF AckStep, AckArrives, ServerStep, ServerReceives, KernelStep, SerialLine,
      SetReceiver,
         vars, messengerVars, senderVars, clientVars
<1>2. ASSUME timers' = timers, Once(events', Sender, "start"),
             Has(events', Sender, "start") <=> Pending(Sender, "start")
      PROVE  TriesInv'
  BY <1>1, <1>2, TriesKept DEF Pending, TriesInv
<1>3. \A p \in Procs, e \in {"fin", "line", "TIMER"} :
        /\ Post(events, p, e) \in Seq(Event)
        /\ Has(Post(events, p, e), Sender, "start") <=> Pending(Sender, "start")
        /\ Once(Post(events, p, e), Sender, "start")
  BY <1>0, PostType, PostedOther DEF Kinds, Pending
<1>4. CASE AckStep
  BY <1>0, <1>2, <1>3, <1>4 DEF AckStep, AckArrives
<1>5. CASE SerialLine
  <2>1. \A p \in Procs :
          /\ Has(Post(Post(events, p, "line"), Sender, "line"), Sender, "start")
               <=> Pending(Sender, "start")
          /\ Once(Post(Post(events, p, "line"), Sender, "line"), Sender, "start")
    BY <1>0, <1>3, PostedOther DEF Kinds
  <2>. QED BY <1>0, <1>2, <1>3, <1>5, <2>1 DEF SerialLine
<1>6. CASE UNCHANGED <<events, timers>>
  BY <1>0, <1>2, <1>6 DEF Pending
<1>7. ASSUME NEW p \in Procs, TimerPoll(p)
      PROVE  TriesInv'
  <2>0. /\ events' = Post(events, p, "TIMER")
        /\ timers[p] = 0 /\ timers' = [timers EXCEPT ![p] = Off]
    BY <1>7 DEF TimerPoll, Stop
  <2>1. /\ Has(events', Sender, "start") <=> Pending(Sender, "start")
        /\ Once(events', Sender, "start")
    BY <1>3, <2>0
  <2>2. \A c \in Clients : pc[c] = "settle" /\ Pending(Sender, "start") => timers'[c] = 1
    BY <1>0, <2>0 DEF TriesInv
  <2>3. CASE send_started /\ Pending(Sender, "start") /\ tries = 1
    <3>1. timers'[Sender] = timers[Sender]
      BY <1>0, <2>0, <2>3 DEF TriesInv
    <3>. QED BY <1>1, <2>1, <2>2, <3>1, TriesKept DEF Pending
  <2>4. CASE ~(send_started /\ Pending(Sender, "start") /\ tries = 1)
    BY <1>1, <2>1, <2>2, <2>4 DEF TriesInv, Pending
  <2>. QED BY <2>3, <2>4
<1>8. CASE Tick
  <2>1. events = <<>> /\ events' = events
    BY <1>8 DEF Tick
  <2>2. ~Pending(Sender, "start") /\ ~Pending(Sender, "start")'
    BY <2>1 DEF Pending, Has
  <2>. QED BY <1>0, <1>1, <2>1, <2>2 DEF TriesInv
<1>9. ServerStep \/ UNCHANGED vars \/ (\E a \in Addr : SetReceiver(a))
      => UNCHANGED <<events, timers>>
  BY DEF ServerStep, ServerReceives, SetReceiver, vars, kernelVars
<1>. QED BY <1>4, <1>5, <1>6, <1>7, <1>8, <1>9 DEF KernelStep

LEMMA ClientTries ==
  ASSUME TypeInv, OneClient, TriesInv, NEW d \in Clients, Begin(d) \/ ClientStep(d)
  PROVE  TriesInv'
<1>. USE MessengerAssumption, SystemAssumption
<1>. DEFINE q == Tail(events)
<1>0. /\ events \in Seq(Event) /\ timers \in [Procs -> Nat \cup {Off}]
      /\ Sender \in Procs /\ d \in Procs /\ d # Sender
      /\ pc \in [Clients -> {"idle", "settle", "await"}]
      /\ Once(events, Sender, "start")
  BY DEF TypeInv, TypeOK, ContikiTypeOK, ClientTypeOK, TriesInv
<1>1. CASE Begin(d)
  <2>1. /\ UNCHANGED <<events, tries, send_started, current_attempt>>
        /\ timers'[Sender] = timers[Sender] /\ timers'[d] = 1
        /\ \A c \in Clients : pc[c] = "idle"
        /\ pc' = [pc EXCEPT ![d] = "settle"]
    BY <1>0, <1>1 DEF Begin, Set, messengerVars, senderVars
  <2>2. \A c \in Clients : pc'[c] = "settle" => timers'[c] = 1
    BY <1>0, <2>1
  <2>3. /\ Once(events, Sender, "start")'
        /\ Pending(Sender, "start")' <=> Pending(Sender, "start")
    BY <1>0, <2>1 DEF Pending
  <2>. QED BY <2>1, <2>2, <2>3, TriesKept
<1>2. CASE ClientStep(d)
  <2>1. PICK e \in Kinds : Receives(d, e)
    BY <1>2
    DEF ClientStep, ClientSettled, ClientAnswered, ClientOther, ClientGone,
        Kinds
  <2>2. /\ q \in Seq(Event) /\ events # <<>>
        /\ Once(q, Sender, "start")
        /\ Has(q, Sender, "start") <=> Pending(Sender, "start")
    BY <1>0, <2>1, ReceivesType, HasTail, HasTailOnly, OnceTail
  <2>. HIDE DEF q
  <2>3. CASE Ignore(d, q)
    BY <2>2, <2>3, TriesKept
    DEF Ignore, messengerVars, senderVars, clientVars, Pending, TriesInv
  <2>4. CASE pc[d] = "settle" /\ Expired(d) /\ Submit(d, q)
    <3>1. ~Pending(Sender, "start")
      BY <2>4 DEF TriesInv, Expired
    <3>2. PICK m : MessengerSend(d, m, q)
      BY <2>4 DEF Submit
    <3>3. timers'[Sender] = timers[Sender]
      BY <1>0, <2>4 DEF Submit, Set
    <3>4. \A c \in Clients : pc'[c] # "settle"
      BY <1>0, <2>4 DEF Submit, OneClient
    <3>5. CASE send_started
      BY <2>2, <3>1, <3>2, <3>3, <3>4, <3>5, TriesKept
      DEF MessengerSend, senderVars, Pending
    <3>6. CASE ~send_started
      <4>1. /\ Has(events', Sender, "start") /\ Once(events', Sender, "start")
            /\ tries' = 0 /\ current_attempt' = 0
        BY <1>0, <2>2, <3>1, <3>2, <3>6, HasPost, OncePost
        DEF MessengerSend, Kinds
      <4>. QED BY <3>4, <4>1 DEF TriesInv, Pending
    <3>. QED BY <3>5, <3>6
  <2>5. ASSUME NEW ok, Finish(d, ok, q)
        PROVE  TriesInv'
    <3>1. /\ Has(events', Sender, "start") <=> Pending(Sender, "start")
          /\ Once(events', Sender, "start")
      BY <1>0, <2>2, <2>5, ToldOther DEF Finish
    <3>2. /\ timers'[Sender] = timers[Sender]
          /\ \A c \in Clients :
               pc'[c] = "settle" => pc[c] = "settle" /\ timers'[c] = timers[c]
          /\ UNCHANGED <<tries, send_started, current_attempt>>
      BY <1>0, <2>5 DEF Finish, Stop, messengerVars, senderVars
    <3>. QED BY <3>1, <3>2, TriesKept DEF Pending, TriesInv
  <2>. QED
    BY <1>2, <2>3, <2>4, <2>5
    DEF ClientStep, ClientSettled, ClientAnswered, ClientOther, ClientGone, q
<1>. QED BY <1>1, <1>2

(* TransmissionBound: no message is transmitted more than MAX_ATTEMPTS + 1  *)
(* times, whatever events reach the sender and in whatever order.           *)
THEOREM TransmissionsBounded == Spec => []TransmissionBound
<1>. DEFINE Inv == TypeInv /\ OneClient /\ TriesInv
<1>1. Init => Inv
  <2>. SUFFICES ASSUME Init PROVE TriesInv
    BY InvInit
  <2>. QED
    BY MessengerAssumption, SystemAssumption
    DEF Init, ContikiInit, MessengerInit, TriesInv, Once, Pending, Has
<1>2. Inv /\ [Next]_vars => Inv'
  BY InvStep, SenderTries, OutsideTries, ClientTries DEF Next
<1>3. Inv => TransmissionBound
  BY DEF TriesInv, TransmissionBound
<1>. QED BY <1>1, <1>2, <1>3, PTL DEF Spec

=============================================================================
