-------------------------- MODULE MessengerSystem --------------------------
(***************************************************************************)
(* The message sender together with the processes that use it, in the way  *)
(* send_cal_proc uses it on both nodes: a process is started, waits a      *)
(* moment, hands one message to messenger_send, and then waits for         *)
(* PROCESS_EVENT_MSG with a patience of its own, after which it ends.  A   *)
(* node runs one such process at a time, and may start the next one while  *)
(* the sender is still busy with the message of the one before.            *)
(***************************************************************************)
EXTENDS Messenger

CONSTANTS
  Clients,               \* the processes that send messages
  Patience,              \* Patience[c]: how long c waits, in ticks
  MaxSeq,                \* bound: messages built
  MaxFin,                \* bound: fin events in the queue at one time
  MaxLines               \* bound: lines typed at the console

ASSUME SystemAssumption ==
  /\ Clients \subseteq Procs \ {Sender}
  /\ Patience \in [Clients -> Nat \ {0}]
  /\ MaxSeq \in Nat /\ MaxFin \in Nat /\ MaxLines \in Nat

VARIABLES
  receiver,              \* config: the address messages are to go to
  sequence,              \* the node's message counter
  pc,                    \* pc[c]: "idle", "settle" or "await"
  msg,                   \* msg[c]: the message c has handed over
  reported,              \* history: <<client, message, ok>> as c saw it
  lines                  \* lines typed so far

clientVars == <<receiver, sequence, pc, msg, reported, lines>>
vars == <<kernelVars, messengerVars, clientVars>>

ClientTypeOK ==
  /\ receiver \in Addr
  /\ sequence \in 0..MaxSeq
  /\ pc \in [Clients -> {"idle", "settle", "await"}]
  /\ msg \in [Clients -> Message \cup {NoMsg}]
  /\ reported \subseteq (Clients \X (Message \cup {NoMsg}) \X BOOLEAN)
  /\ lines \in 0..MaxLines

TypeOK == ContikiTypeOK /\ SenderTypeOK /\ NetworkTypeOK /\ ClientTypeOK

Init ==
  /\ ContikiInit
  /\ receiver \in Addr
  /\ MessengerInit(receiver)
  /\ sequence = 0
  /\ pc = [c \in Clients |-> "idle"]
  /\ msg = [c \in Clients |-> NoMsg]
  /\ reported = {}
  /\ lines = 0

-----------------------------------------------------------------------------
(* process_start(c): the node has no other sending process.  Bound: MaxSeq. *)
Begin(c) ==
  /\ Between
  /\ \A d \in Clients : pc[d] = "idle"
  /\ sequence < MaxSeq
  /\ pc' = [pc EXCEPT ![c] = "settle"]
  /\ timers' = Set(c, 1)
  /\ UNCHANGED <<events, messengerVars, receiver, sequence, msg, reported,
                 lines>>

(* Variant: the etimer is not set. *)
SubmitUntimed(c, q) ==
  /\ \E b \in Body :
       LET m == [dst |-> receiver, seq |-> sequence, body |-> b]
       IN  /\ MessengerSend(c, m, q)
           /\ msg' = [msg EXCEPT ![c] = m]
  /\ sequence' = sequence + 1
  /\ pc' = [pc EXCEPT ![c] = "await"]
  /\ UNCHANGED <<timers, conn, networkVars, receiver, reported, lines>>

(* c builds its message, hands it over and sets its etimer. *)
Submit(c, q) ==
  /\ \E b \in Body :
       LET m == [dst |-> receiver, seq |-> sequence, body |-> b]
       IN  /\ MessengerSend(c, m, q)
           /\ msg' = [msg EXCEPT ![c] = m]
  /\ sequence' = sequence + 1
  /\ timers' = Set(c, Patience[c])
  /\ pc' = [pc EXCEPT ![c] = "await"]
  /\ UNCHANGED <<conn, networkVars, receiver, reported, lines>>

(* c sees how its send went and ends; messenger_sender hears of the end.    *)
Finish(c, ok, q) ==
  /\ reported' = reported \cup {<<c, msg[c], ok>>}
  /\ pc' = [pc EXCEPT ![c] = "idle"]
  /\ timers' = Stop(c)
  /\ events' = Tell(q, Sender)
  /\ UNCHANGED <<messengerVars, receiver, sequence, msg, lines>>

(* c is not concerned by the event, or does not run any more. *)
Ignore(c, q) ==
  /\ events' = q
  /\ UNCHANGED <<timers, messengerVars, clientVars>>

(* The event at the head of the queue is c's. *)
ClientSettled(c) ==
  /\ pc[c] = "settle"
  /\ \E e \in Kinds : Receives(c, e)
  /\ IF Expired(c) THEN Submit(c, Tail(events)) ELSE Ignore(c, Tail(events))

ClientAnswered(c) ==
  /\ pc[c] = "await"
  /\ Receives(c, "MSG")
  /\ Finish(c, last_ack_ok, Tail(events))

ClientOther(c) ==
  /\ pc[c] = "await"
  /\ \E e \in Kinds \ {"MSG"} : Receives(c, e)
  /\ IF Expired(c) THEN Finish(c, FALSE, Tail(events))
                   ELSE Ignore(c, Tail(events))

(* An event for a process that has ended is dropped by the kernel. *)
ClientGone(c) ==
  /\ pc[c] = "idle"
  /\ \E e \in Kinds : Receives(c, e)
  /\ Ignore(c, Tail(events))

(* A line at the console goes to the running processes, the one that was   *)
(* started last first.  Bound: MaxLines.                                   *)
SerialLine ==
  /\ lines < MaxLines
  /\ Between
  /\ lines' = lines + 1
  /\ \/ \E c \in Clients :
           /\ pc[c] # "idle"
           /\ events' = Post(Post(events, c, "line"), Sender, "line")
     \/ /\ \A c \in Clients : pc[c] = "idle"
        /\ events' = Post(events, Sender, "line")
  /\ UNCHANGED <<timers, messengerVars, receiver, sequence, pc, msg, reported>>

(* The command service: config_set_receiver. *)
SetReceiver(a) ==
  /\ Between
  /\ receiver # a
  /\ receiver' = a
  /\ UNCHANGED <<kernelVars, messengerVars, sequence, pc, msg, reported, lines>>

(* The answers a queue holds, in their order: whom each is for. *)
AnswersIn(q) ==
  LET upTo[i \in 0..Len(q)] ==
        IF i = 0 THEN <<>>
        ELSE IF q[i].ev = "MSG" THEN Append(upTo[i - 1], q[i].to)
        ELSE upTo[i - 1]
  IN  upTo[Len(q)]

(* Fins in the queue, for the bound on duplicate acknowledgements. *)
Fins == Cardinality({i \in 1..Len(events) : events[i].ev = "fin"})

-----------------------------------------------------------------------------
SenderStep ==
  /\ SenderStart \/ SenderFin \/ SenderOther
  /\ UNCHANGED clientVars

(* Bound: MaxFin. *)
AckStep ==
  /\ Fins < MaxFin
  /\ \E a \in acks : AckArrives(a)
  /\ UNCHANGED clientVars

ServerStep ==
  /\ \E pkt \in sent : ServerReceives(pkt[1], pkt[2])
  /\ UNCHANGED clientVars

KernelStep ==
  /\ Tick \/ \E p \in Procs : TimerPoll(p)
  /\ UNCHANGED <<messengerVars, clientVars>>

ClientStep(c) ==
  ClientSettled(c) \/ ClientAnswered(c) \/ ClientOther(c) \/ ClientGone(c)

Next ==
  \/ SenderStep \/ AckStep \/ ServerStep \/ KernelStep
  \/ \E c \in Clients : Begin(c) \/ ClientStep(c)
  \/ SerialLine
  \/ \E a \in Addr : SetReceiver(a)

Spec == Init /\ [][Next]_vars

(* The scheduler runs as long as there is an event, and the clock runs,    *)
(* however often the queue fills again before it can advance.  The queue   *)
(* drains now and then: acknowledgements come at the pace of the radio.    *)
(* Nothing else is assumed of the network, the server or the console.      *)
Fairness ==
  /\ []<>(events = <<>>)
  /\ WF_vars(SenderStep)
  /\ SF_vars(KernelStep)
  /\ \A c \in Clients : WF_vars(ClientStep(c))

FairSpec == Spec /\ Fairness

-----------------------------------------------------------------------------
(* A client that outlasts the sender's own attempts. *)
Patient(c) == Patience[c] > MaxAttempts * RetryDelay

(* A patient client that is told its message arrived was told the truth,    *)
(* whatever was lost, late or doubled on the way and whatever an impatient  *)
(* client before it has left behind in the sender.                          *)
ReportedOk ==
  \A r \in reported : Patient(r[1]) /\ r[3] => r[2] \in received

(* No message is transmitted more often than MAX_ATTEMPTS and once more:    *)
(* the attempts count time-outs, and an event that overtakes the start      *)
(* makes the sender transmit before line 88 resets the count.               *)
TransmissionBound == tries <= MaxAttempts + 1

(* Whatever the network does, each send comes to an end and the sender can  *)
(* be used again.                                                           *)
SendEnds == send_started ~> ~send_started

(* Every client that starts ends.                                           *)
ClientEnds == \A c \in Clients : pc[c] # "idle" ~> pc[c] = "idle"

-----------------------------------------------------------------------------
(* The sender, its queue and the network as an implementation of Delivery. *)
Promise == INSTANCE Delivery WITH
  Owners <- Clients,
  Messages <- [dst : Addr, seq : 0..MaxSeq - 1, body : Body],
  NoTask <- <<NoProc, NoMsg>>,
  NoMessage <- NoMsg,
  task <- IF send_started THEN <<requestor, current_data>> ELSE <<NoProc, NoMsg>>,
  last <- current_data,
  verdict <- last_ack_ok,
  answers <- AnswersIn(events),
  inflight <- {pkt[2] : pkt \in sent},
  delivered <- received

(* Every step of the system is a step of Delivery or none of its business:  *)
(* one message at a time, one answer to each request and to nobody else,    *)
(* and no verdict that the network does not bear out.                       *)
KeepsPromise == Promise!Spec

-----------------------------------------------------------------------------
(* message-sender-udp.c line 95, "a valid response to this packet was       *)
(* receved from server": when the sender ends a send because of a fin, the  *)
(* server did answer this message.                                          *)
FinIsForCurrent ==
  [][SenderFin /\ send_started => current_data \in received]_vars

=============================================================================
