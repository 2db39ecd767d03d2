------------------------------ MODULE Contiki ------------------------------
(***************************************************************************)
(* The part of the Contiki-NG kernel the firmware is written against.  It  *)
(* is not in this repository: everything here is external, modelled from   *)
(* how the processes under src/ use it.                                    *)
(*                                                                         *)
(*   - process_post appends an event to one FIFO queue; the scheduler      *)
(*     takes the head and runs the addressed process to its next wait.     *)
(*     Nothing preempts a process: a handler is one atomic step.           *)
(*   - every process of the firmware owns one struct etimer.  A due etimer *)
(*     is disarmed by the kernel's poll, which posts PROCESS_EVENT_TIMER   *)
(*     to its owner.  etimer_expired() is true of every etimer that is not *)
(*     armed: of one that fired, of one that was stopped and of one that   *)
(*     was never set.                                                      *)
(*   - packets arrive, and their callbacks run, between two events.        *)
(*                                                                         *)
(* The CONTINUE events messenger_receiver posts to itself in its loop of    *)
(* PROCESS_PAUSE are left out: they concern no other process.              *)
(*                                                                         *)
(* A tick of the clock is long against the time a handler takes: time      *)
(* passes only when the queue is empty and no etimer is due.               *)
(***************************************************************************)
EXTENDS Integers, Sequences

CONSTANT Procs                  \* the processes (struct process)

VARIABLES
  events,                       \* the kernel's queue of posted events
  timers                        \* timers[p]: ticks left on p's etimer, or Off

kernelVars == <<events, timers>>

Off == -1

(* "line" is a line typed at the serial console, posted to every process. *)
Kinds == {"start", "fin", "MSG", "TIMER", "done", "run", "EXITED", "line"}

Event == [to : Procs, ev : Kinds]

ContikiTypeOK ==
  /\ events \in Seq(Event)
  /\ timers \in [Procs -> Nat \cup {Off}]

ContikiInit ==
  /\ events = <<>>
  /\ timers = [p \in Procs |-> Off]

(* process_post(p, e, data) on the queue q. *)
Post(q, p, e) == Append(q, [to |-> p, ev |-> e])

(* exit_process: process p is told now that another one has ended. *)
Tell(q, p) == <<[to |-> p, ev |-> "EXITED"]>> \o q

(* No such call is under way: the kernel polls timers and the radio. *)
Between == events # <<>> => Head(events).ev # "EXITED"

(* Event e for p is in the queue q. *)
Has(q, p, e) == \E i \in 1..Len(q) : q[i] = [to |-> p, ev |-> e]

Pending(p, e) == Has(events, p, e)

(* etimer_expired() of p's timer, in the state of the timers ts. *)
Expired(p) == timers[p] = Off

(* etimer_set and etimer_stop of p's timer. *)
Set(p, t) == [timers EXCEPT ![p] = t]
Stop(p) == [timers EXCEPT ![p] = Off]

(* The scheduler delivers event e at the head of the queue to p.           *)
Receives(p, e) ==
  /\ events # <<>>
  /\ Head(events) = [to |-> p, ev |-> e]

(* etimer_process: a due timer is disarmed and its owner is told. *)
TimerPoll(p) ==
  /\ Between
  /\ timers[p] = 0
  /\ timers' = Stop(p)
  /\ events' = Post(events, p, "TIMER")

(* The clock advances. *)
Tick ==
  /\ events = <<>>
  /\ \A p \in Procs : timers[p] # 0
  /\ \E p \in Procs : timers[p] # Off
  /\ timers' = [p \in Procs |-> IF timers[p] = Off THEN Off ELSE timers[p] - 1]
  /\ UNCHANGED events

=============================================================================
