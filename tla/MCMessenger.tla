---------------------------- MODULE MCMessenger ----------------------------
(* Instances of MessengerSystem for TLC: the clients in Steady outlast the *)
(* sender, the others give up after three ticks.                           *)
EXTENDS MessengerSystem

CONSTANT Steady

MCPatience ==
  [c \in Clients |-> IF c \in Steady THEN MaxAttempts * RetryDelay + 1 ELSE 3]

=============================================================================
