------------------------------ MODULE MCWater ------------------------------
(* Instances of WaterNode for TLC. *)
EXTENDS WaterNode

MCBody ==
  [kind : {"cal"}, calibration : 0..MaxChanges, boot : 0..MaxBoots]
  \cup [kind : {"data"}, boot : 0..MaxBoots]

=============================================================================
