------------------------------ MODULE MCSpinet ------------------------------
(* An instance of Spinet for TLC. *)
EXTENDS Spinet
=============================================================================
