------------------------------ MODULE MCAirborne ------------------------------
(* Instances of AirborneNode for TLC. *)
EXTENDS AirborneNode

MCBody ==
  [kind : {"cal"}, calibration : 0..MaxChanges, boot : 0..MaxBoots]
  \cup [kind : {"data"}, boot : 0..MaxBoots]

=============================================================================
