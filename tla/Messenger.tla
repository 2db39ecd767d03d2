----------------------------- MODULE Messenger -----------------------------
(***************************************************************************)
(* The UDP message sender (src/modules/messenger/message-sender-udp.c):    *)
(* one message at a time is sent to the configured server and sent again   *)
(* every RetryDelay until the server acknowledges its sequence number or   *)
(* MaxAttempts is reached; the process that asked for the send then gets   *)
(* PROCESS_EVENT_MSG and reads messenger_last_result_okack().              *)
(*                                                                         *)
(* The module is open: it defines what each operation and each handler     *)
(* does.  MessengerSystem, WaterNode and AirborneNode compose them with    *)
(* the processes that call them.                                           *)
(***************************************************************************)
EXTENDS Contiki, FiniteSets

CONSTANTS
  Sender,                \* the process messenger_sender
  MaxAttempts,           \* MAX_ATTEMPTS
  RetryDelay,            \* RETRY_DELAY, in ticks
  SeqMod,                \* current_sequence is a uint16_t: 2^16 in the firmware
  Addr,                  \* addresses of servers
  Body,                  \* what a message says
  NoProc,                \* the initial value of requestor: NULL
  NoMsg                  \* the initial content of current_data

(* What the caller hands to messenger_send: the address, the sequence      *)
(* number it put into the message, and the rest of the message.            *)
Message == [dst : Addr, seq : Nat, body : Body]

ASSUME MessengerAssumption ==
  /\ Sender \in Procs
  /\ NoProc \notin Procs
  /\ NoMsg \notin Message
  /\ MaxAttempts \in Nat \ {0}
  /\ RetryDelay \in Nat \ {0}
  /\ SeqMod \in Nat \ {0}

VARIABLES
  send_started,          \* a message is being sent
  requestor,             \* the process that will be told
  current_data,          \* the message being sent or sent last
  current_sequence,      \* its sequence number, as the sender keeps it
  current_attempt,       \* attempts that timed out
  last_ack_ok,           \* result of the last transaction
  conn,                  \* the remote address of the UDP connection
  sent,                  \* the packets <<address, message>> ever sent
  received,              \* the messages the servers have received
  acks,                  \* sequence numbers acknowledged by the servers
  tries                  \* history: transmissions of current_data

senderVars == <<send_started, requestor, current_data, current_sequence,
                current_attempt, last_ack_ok>>
networkVars == <<sent, received, acks>>
messengerVars == <<senderVars, conn, networkVars, tries>>

SenderTypeOK ==
  /\ send_started \in BOOLEAN
  /\ requestor \in Procs \cup {NoProc}
  /\ current_data \in Message \cup {NoMsg}
  /\ current_sequence \in 0..SeqMod - 1
  /\ current_attempt \in 0..MaxAttempts
  /\ last_ack_ok \in BOOLEAN
  /\ conn \in Addr
  /\ tries \in Nat

NetworkTypeOK ==
  /\ sent \subseteq (Addr \X Message)
  /\ received \subseteq Message
  /\ acks \subseteq Nat

(* messenger_sender_init: the connection is opened towards the address     *)
(* that is configured at this moment.                                      *)
MessengerInit(addr) ==
  /\ send_started = FALSE
  /\ requestor = NoProc
  /\ current_data = NoMsg
  /\ current_sequence = 0
  /\ current_attempt = 0
  /\ last_ack_ok = FALSE
  /\ conn = addr
  /\ sent = {} /\ received = {} /\ acks = {}
  /\ tries = 0

-----------------------------------------------------------------------------
(* simple_udp_send: the packet is on its way to the connection's address.  *)
Transmit ==
  /\ sent' = sent \cup {<<conn, current_data>>}
  /\ tries' = tries + 1

(* Variant: the result of the last transaction is kept. *)
MessengerSendKeeps(p, m, q) ==
  IF send_started
  THEN events' = q /\ UNCHANGED <<senderVars, tries>>
  ELSE /\ send_started' = TRUE
       /\ current_sequence' = m.seq % SeqMod
       /\ requestor' = p
       /\ current_attempt' = 0
       /\ current_data' = m
       /\ tries' = 0
       /\ events' = Post(q, Sender, "start")
       /\ UNCHANGED last_ack_ok

(* messenger_send called by process p with message m.  q is the event      *)
(* queue as the caller has left it.  A send in progress makes the call     *)
(* return without a trace.                                                 *)
MessengerSend(p, m, q) ==
  IF send_started
  THEN /\ events' = q
       /\ UNCHANGED <<senderVars, tries>>
  ELSE /\ last_ack_ok' = FALSE
       /\ send_started' = TRUE
       /\ current_sequence' = m.seq % SeqMod
       /\ requestor' = p
       /\ current_attempt' = 0
       /\ current_data' = m
       /\ tries' = 0
       /\ events' = Post(q, Sender, "start")

(* Variant: the etimer is not set. *)
OnStartUnarmed(q) ==
  /\ IF send_started
     THEN current_attempt' = 0 /\ Transmit
     ELSE UNCHANGED <<current_attempt, sent, tries>>
  /\ events' = q
  /\ UNCHANGED <<send_started, requestor, current_data, current_sequence,
                 last_ack_ok, timers>>

(* messenger_sender on sender_start_event. *)
OnStart(q) ==
  /\ IF send_started
     THEN /\ current_attempt' = 0
          /\ Transmit
          /\ timers' = Set(Sender, RetryDelay)
     ELSE UNCHANGED <<current_attempt, sent, tries, timers>>
  /\ events' = q
  /\ UNCHANGED <<send_started, requestor, current_data, current_sequence,
                 last_ack_ok>>

(* Variant: a duplicate fin answers the requestor once more. *)
OnFinAgain(q) ==
  /\ events' = IF requestor \in Procs THEN Post(q, requestor, "MSG") ELSE q
  /\ send_started' = FALSE
  /\ timers' = Stop(Sender)
  /\ UNCHANGED <<requestor, current_data, current_sequence, current_attempt,
                 last_ack_ok, sent, tries>>

(* messenger_sender on sender_fin_event. *)
OnFin(q) ==
  /\ IF send_started
     THEN events' = Post(q, requestor, "MSG")
     ELSE events' = q
  /\ send_started' = FALSE
  /\ timers' = Stop(Sender)
  /\ UNCHANGED <<requestor, current_data, current_sequence, current_attempt,
                 last_ack_ok, sent, tries>>

(* Variants: the send stays started; the requestor is not told. *)
GiveUpStarted(q) ==
  /\ current_attempt' = current_attempt + 1
  /\ last_ack_ok' = FALSE
  /\ events' = Post(q, requestor, "MSG")
  /\ timers' = Stop(Sender)
  /\ UNCHANGED <<send_started, sent, tries>>

GiveUpSilent(q) ==
  /\ current_attempt' = current_attempt + 1
  /\ last_ack_ok' = FALSE
  /\ send_started' = FALSE
  /\ events' = q
  /\ timers' = Stop(Sender)
  /\ UNCHANGED <<sent, tries>>

(* messenger_sender gives the message up. *)
GiveUp(q) ==
  /\ current_attempt' = current_attempt + 1
  /\ last_ack_ok' = FALSE
  /\ send_started' = FALSE
  /\ events' = Post(q, requestor, "MSG")
  /\ timers' = Stop(Sender)
  /\ UNCHANGED <<sent, tries>>

(* messenger_sender sends the message once more. *)
Resend(q) ==
  /\ current_attempt' = current_attempt + 1
  /\ Transmit
  /\ timers' = Set(Sender, RetryDelay)
  /\ events' = q
  /\ UNCHANGED <<last_ack_ok, send_started>>

(* Variant: one attempt too many. *)
OnOtherLate(q) ==
  /\ IF Expired(Sender) /\ send_started
     THEN IF current_attempt + 1 > MaxAttempts THEN GiveUp(q) ELSE Resend(q)
     ELSE /\ events' = q
          /\ UNCHANGED <<current_attempt, last_ack_ok, send_started, sent,
                         tries, timers>>
  /\ UNCHANGED <<requestor, current_data, current_sequence>>

(* messenger_sender on every other event, whatever it is: the etimer is    *)
(* looked at, the event is not.                                            *)
OnOther(q) ==
  /\ IF Expired(Sender) /\ send_started
     THEN IF current_attempt + 1 >= MaxAttempts THEN GiveUp(q) ELSE Resend(q)
     ELSE /\ events' = q
          /\ UNCHANGED <<current_attempt, last_ack_ok, send_started, sent,
                         tries, timers>>
  /\ UNCHANGED <<requestor, current_data, current_sequence>>

-----------------------------------------------------------------------------
SenderStart ==
  /\ Receives(Sender, "start")
  /\ OnStart(Tail(events))
  /\ UNCHANGED <<conn, received, acks>>

SenderFin ==
  /\ Receives(Sender, "fin")
  /\ OnFin(Tail(events))
  /\ UNCHANGED <<conn, received, acks>>

(* Its etimer, a line on the console, or the end of another process. *)
SenderOther ==
  /\ \E e \in {"TIMER", "line", "EXITED"} : Receives(Sender, e)
  /\ OnOther(Tail(events))
  /\ UNCHANGED <<conn, received, acks>>

(* Variant: the sequence number is not compared. *)
AckArrivesAny(a) ==
  /\ Between
  /\ last_ack_ok' = TRUE
  /\ events' = Post(events, Sender, "fin")
  /\ UNCHANGED <<send_started, requestor, current_data, current_sequence,
                 current_attempt, conn, networkVars, tries, timers>>

(* messenger_callback with an acknowledgement for sequence number a that   *)
(* passes the checks of length, header and value.                          *)
AckArrives(a) ==
  /\ Between
  /\ a = current_sequence
  /\ last_ack_ok' = TRUE
  /\ events' = Post(events, Sender, "fin")
  /\ UNCHANGED <<send_started, requestor, current_data, current_sequence,
                 current_attempt, conn, networkVars, tries, timers>>

(* A server (external): it receives a packet sent to its address and       *)
(* acknowledges the sequence number it finds in the message.  Packets and  *)
(* acknowledgements stay in the sets: each may be lost, delayed,           *)
(* duplicated and overtaken.                                               *)
ServerReceives(addr, m) ==
  /\ <<addr, m>> \in sent
  /\ received' = received \cup {m}
  /\ acks' = acks \cup {m.seq}
  /\ UNCHANGED <<senderVars, conn, sent, tries, kernelVars>>

-----------------------------------------------------------------------------
(* A send that has begun is never forgotten: its start is queued, or its    *)
(* etimer is armed, or the expiry of the etimer is queued.  The sender sets *)
(* and stops one etimer on four paths (lines 79, 90, 101-108, 122-129); a   *)
(* path that left it stopped would keep send_started set and refuse every   *)
(* later message.                                                           *)
NoStall ==
  send_started =>
    \/ timers[Sender] # Off
    \/ Pending(Sender, "start")
    \/ Pending(Sender, "TIMER")

(* messenger_last_result_okack() is true only of a message the server has:  *)
(* no acknowledgement of an earlier message and no leftover of an earlier   *)
(* result is taken for the current one.                                     *)
AckHonest == last_ack_ok => current_data \in received

=============================================================================
