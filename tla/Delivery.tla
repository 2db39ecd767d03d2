------------------------------ MODULE Delivery ------------------------------
(***************************************************************************)
(* What the message sender promises to the rest of a node: it takes one    *)
(* message at a time, puts it on the network for as long as it sees fit,   *)
(* ends every task it has taken with exactly one answer to the process     *)
(* that gave it, and says "acknowledged" only of a message that arrived.   *)
(* No timers, attempts, sequence numbers or acknowledgements.              *)
(***************************************************************************)
EXTENDS Sequences

CONSTANTS Owners, Messages, NoTask, NoMessage

VARIABLES
  task,          \* <<owner, message>>, or NoTask
  last,          \* the message taken last
  verdict,       \* last is known to have arrived
  answers,       \* owners to be told that their task ended, in order
  inflight,      \* messages on the network
  delivered      \* messages that arrived

vars == <<task, last, verdict, answers, inflight, delivered>>

Init ==
  /\ task = NoTask
  /\ last = NoMessage
  /\ verdict = FALSE
  /\ answers = <<>>
  /\ inflight = {} /\ delivered = {}

(* The owner may be taking an answer that is owed to it at the same time. *)
Accept(p, m) ==
  /\ task = NoTask
  /\ \/ UNCHANGED answers
     \/ answers # <<>> /\ Head(answers) = p /\ answers' = Tail(answers)
  /\ task' = <<p, m>>
  /\ last' = m
  /\ verdict' = FALSE
  /\ UNCHANGED <<inflight, delivered>>

Transmit ==
  /\ task # NoTask
  /\ inflight' = inflight \cup {last}
  /\ UNCHANGED <<task, last, verdict, answers, delivered>>

Deliver(m) ==
  /\ m \in inflight
  /\ delivered' = delivered \cup {m}
  /\ UNCHANGED <<task, last, verdict, answers, inflight>>

Confirm ==
  /\ last \in delivered
  /\ verdict' = TRUE
  /\ UNCHANGED <<task, last, answers, inflight, delivered>>

(* The task ends; an unconfirmed or hesitant end takes the verdict back. *)
Finish ==
  /\ task # NoTask
  /\ task' = NoTask
  /\ answers' = Append(answers, task[1])
  /\ verdict' \in {verdict, FALSE}
  /\ UNCHANGED <<last, inflight, delivered>>

Answer ==
  /\ answers # <<>>
  /\ answers' = Tail(answers)
  /\ UNCHANGED <<task, last, verdict, inflight, delivered>>

Next ==
  \/ \E p \in Owners, m \in Messages : Accept(p, m)
  \/ Transmit
  \/ \E m \in Messages : Deliver(m)
  \/ Confirm \/ Finish \/ Answer

Spec == Init /\ [][Next]_vars

(* A task that was taken ends. *)
TaskEnds == task # NoTask ~> task = NoTask

=============================================================================
