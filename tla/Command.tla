------------------------------- MODULE Command -------------------------------
(***************************************************************************)
(* The services of a node: message-service.c hands what arrives on the TCP *)
(* port to the handler registered for its header; command.c reads and      *)
(* changes the configuration; echo.c answers with what it was sent.  They  *)
(* run beside the console commands of Config.                              *)
(*                                                                         *)
(* A segment of the stream overwrites the beginning of inputbuf only.  Its *)
(* length is counted in the fields of a command: header, type, token,      *)
(* value; 0 is less than a header, 5 more than a command, 6 more than any  *)
(* handler accepts.                                                        *)
(***************************************************************************)
EXTENDS Config, Sequences

CONSTANTS
  Requests,    \* the messages the server sends
  Lengths,     \* the lengths of a segment, in fields
  Readings,    \* of clock_seconds and of the meters of energy
  Nothing,     \* no reply
  MaxSegments  \* bound: segments received
ASSUME CommandAssumption ==
  /\ Lengths \subseteq 0..6 /\ MaxSegments \in Nat /\ Readings \subseteq Nat
  /\ Requests \subseteq [header : {"echo", "command", "other"}, type : {"set", "get", "other"},
                  token : Int, value : Int]

VARIABLES
  segments,
  inputbuf,    \* the fields of the last segments
  reply        \* what the handler made of outputbuf, and what of it is sent
serviceVars == <<inputbuf, reply, segments>>
vars == <<configVars, serviceVars>>

(* messenger_add_handler, by echo_init and command_init *)
Handlers == <<[header |-> "echo",    min_len |-> 1, max_len |-> 5],
              [header |-> "command", min_len |-> 1, max_len |-> 4]>>

Fields == <<"header", "type", "token", "value">>
Received(m, len) ==
  [f \in {Fields[i] : i \in 1..4} |->
     IF \E i \in 1..4 : Fields[i] = f /\ i <= len THEN m[f] ELSE inputbuf[f]]

Matches(header, len) ==
  \E i \in DOMAIN Handlers :
    /\ Handlers[i].header = header
    /\ Handlers[i].min_len <= len /\ len <= Handlers[i].max_len
-----------------------------------------------------------------------------
Reply(valid, value, sent) == [valid |-> valid, value |-> value, sent |-> sent]

(* command_handle_set.  The reply of a setting compares what was asked for  *)
(* with the setting read back, that of a calibration with the retry         *)
(* interval; of either, no more than the length of the value is sent.       *)
ReadBack(c, token) ==
  IF token \in CalTokens THEN c.retry ELSE Setting(c, token)

SetReplyBlind(token, v) ==         \* bug: the setting is not read back
  Reply(TRUE, AsUnsigned(v), "header")

SetReply(token, v) ==
  Reply(ReadBack(config', token) = AsUnsigned(v), ReadBack(config', token), "header")

HandleSet(req) ==
  \/ /\ req.token \in Settable
     /\ Set(req.token, req.value)
     /\ reply' = SetReply(req.token, req.value)
  \/ /\ req.token = ROUTER
     /\ SetReceiver(req.value)
     /\ reply' = Reply(TRUE, req.value, "header and value")
  \/ /\ req.token = CTIME
     /\ reply' = Reply(AsUnsigned(req.value) = 0, 0, "header")
     /\ UNCHANGED configVars
  \/ /\ req.token \notin Settable \cup {ROUTER, CTIME}
     /\ reply' = Reply(FALSE, Nothing, "header and value")
     /\ UNCHANGED configVars

(* command_handle_get.  The time since the boot and the shares of energy    *)
(* are whatever is read at that moment.                                     *)
Meters == 13..18          \* CONFIG_UPTIME, CONFIG_ENERGEST_CPU to _DEEP_LPM

HandleGet(req) ==
  /\ \/ /\ req.token \in Meters
        /\ \E n \in Readings : reply' = Reply(TRUE, n, "all")
     \/ /\ req.token \notin Meters
        /\ reply' =
             CASE req.token \in Settable -> Reply(TRUE, Setting(config, req.token), "all")
               [] req.token = ROUTER  -> Reply(config.server = req.value, config.server, "all")
               [] req.token = CTIME   -> Reply(TRUE, 0, "all")
               [] req.token = DEVTYPE -> Reply(TRUE, dev, "all")
               [] OTHER               -> Reply(FALSE, Nothing, "all")
  /\ UNCHANGED configVars

(* command_handler *)
HandleCommand(req) ==
  \/ req.type = "set" /\ HandleSet(req)
  \/ req.type = "get" /\ HandleGet(req)
  \/ req.type = "other" /\ reply' = Nothing /\ UNCHANGED configVars

(* echo_handler *)
HandleEcho ==
  reply' = Reply(TRUE, Nothing, "all") /\ UNCHANGED configVars

(* message_recv_bytes: the first handler that accepts the segment has it,   *)
(* and the connection is closed.                                            *)
Receive(m, len) ==
  LET req == Received(m, len) IN
  /\ phase = "up" /\ segments < MaxSegments /\ segments' = segments + 1
  /\ inputbuf' = req
  /\ \/ Matches(req.header, len) /\ req.header = "command" /\ HandleCommand(req)
     \/ Matches(req.header, len) /\ req.header = "echo" /\ HandleEcho
     \/ ~Matches(req.header, len) /\ reply' = Nothing /\ UNCHANGED configVars

BlankBuffer == [header |-> "other", type |-> "set", token |-> 0, value |-> 0]

ResetServices ==
  inputbuf' = BlankBuffer /\ reply' = Nothing /\ UNCHANGED segments

Init ==
  /\ ConfigStart
  /\ inputbuf = BlankBuffer /\ reply = Nothing /\ segments = 0

Quiet == UNCHANGED <<inputbuf, segments>> /\ reply' = Nothing
Next ==
  \/ NvsInit /\ Quiet
  \/ ConfigInit /\ Quiet
  \/ \E t \in Tokens, v \in Values : Set(t, v) /\ Quiet
  \/ CmdSave /\ Quiet
  \/ CmdRemove /\ Quiet
  \/ CmdFormat /\ Quiet
  \/ ClearCalibrationChanged /\ Quiet
  \/ \E d \in DevTypes : Reset(d) /\ ResetServices
  \/ \E m \in Requests, len \in Lengths : Receive(m, len)

Spec == Init /\ [][Next]_vars
-----------------------------------------------------------------------------
(* Every variable has its type. *)
TypeOK ==
  /\ ConfigTypeOK /\ segments \in 0..MaxSegments
  /\ inputbuf \in [header : {"echo", "command", "other"}, type : {"set", "get", "other"},
                   token : Int, value : Int]
  /\ reply = Nothing \/ (reply.valid \in BOOLEAN /\ reply.sent \in {"header", "header and value", "all"})

(* A command that is answered as valid has set what it asks for to the      *)
(* value it asks for: through the limits of each setting and the widths of  *)
(* the numbers, and although the reply to a calibration compares it with    *)
(* the retry interval (command.c:55-56, 67, 76, 95-96).                     *)
ReplyTrue ==
  [][/\ inputbuf'.header = "command" /\ inputbuf'.type = "set"
     /\ inputbuf'.token \in Settable /\ reply' # Nothing /\ reply'.valid
     => Setting(config', inputbuf'.token) = AsUnsigned(inputbuf'.value)]_vars
=============================================================================
