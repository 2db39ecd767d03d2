------------------------------ MODULE MCCommand ------------------------------
(* An instance of Command for TLC. *)
EXTENDS Command, TLC

MCRequests ==
  [header : {"command"}, type : {"set"}, token : Tokens, value : Values]
  \cup [header : {"command"}, type : {"set"}, token : {ROUTER, CTIME, 0}, value : {15}]
  \cup [header : {"command"}, type : {"get"}, token : {SENSOR_INTERVAL, 13}, value : {15}]
  \cup [header : {"echo", "command", "other"}, type : {"other"}, token : {0}, value : {0}]

MCValues == {-1, 9000}
DevSymmetry == Permutations(DevTypes)
MCTokens == {SENSOR_INTERVAL, CAL1}

=============================================================================
