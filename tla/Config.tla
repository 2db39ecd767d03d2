------------------------------- MODULE Config -------------------------------
(***************************************************************************)
(* The configuration of a node: config.c (the settings in effect and the   *)
(* limits of each) and config_nvs.c (their copy in a file of the flash, and *)
(* the console commands).  What the file system does is ConfigFile's        *)
(* matter; here an operation of it succeeds or fails as a whole, or power   *)
(* fails in the middle of it.  Once one has failed or was cut short, pages  *)
(* of it may be left behind, and any later operation may fail for that.     *)
(***************************************************************************)
EXTENDS Integers

CONSTANTS
  DevTypes,    \* the device types a firmware is built for
  DefaultServer, \* fd00::1, as a number
  Tokens,      \* the settings a user changes
  Values,      \* the integers typed at the console or sent by the server
  Word,        \* 2^32: the node's unsigned int
  Short,       \* 2^16: uint16_t
  MaxFds,      \* descriptors in spiffsFileDescriptorCache
  NoDevice, NoFile, Empty, Broken, \* what may be found in place of contents
  MaxErrors,   \* bound: flash operations that fail or are cut short
  MaxChanges,  \* bound: settings changed by a user
  MaxBoots     \* bound: power cycles

(* The tokens of config.h. *)
CTIME == 10
ROUTER == 11
DEVTYPE == 12
SENSOR_INTERVAL == 32
MAX_FAILURES == 33
RETRY_INTERVAL == 34
CAL1 == 64
Cals == 0..7
CalTokens == CAL1..(CAL1 + 7)
LongestInterval == 7200           \* of SENSOR_INTERVAL, in seconds
Settable == {SENSOR_INTERVAL, MAX_FAILURES, RETRY_INTERVAL} \cup CalTokens

ASSUME ConfigAssumption ==
  /\ DefaultServer \in Int /\ NoDevice \notin DevTypes
  /\ Tokens \subseteq Settable
  /\ Values \subseteq Int
  /\ Word \in Nat /\ Short \in Nat /\ 2 * LongestInterval < Word /\ 64 < Short
  /\ Word % Short = 0
  /\ MaxFds \in Nat /\ MaxFds > 1
  /\ MaxErrors \in Nat /\ MaxChanges \in Nat /\ MaxBoots \in Nat

VARIABLES
  config,               \* the settings in effect
  calibration_changed,
  dev,                  \* config_dev_type: what the running firmware is
  phase,                \* "nvs", "config": next step of the boot; "up"
  formatted, mounted,   \* the flash, the file system
  file,                 \* config.dat
  before,               \* older contents a failure left beside it
  fds,                  \* descriptors open after each operation: never closed
  kept,                 \* history: what the user saved and may rely on
  errors, changes, boots
userVars  == <<kept, errors, changes, boots>>
flashVars == <<formatted, mounted, file, before, fds>>
configVars == <<config, calibration_changed, dev, phase, flashVars, userVars>>
-----------------------------------------------------------------------------
(* The settings and their limits. *)

AsUnsigned(v) == v % Word
AsSigned(v)   == LET u == v % Word IN IF 2 * u >= Word THEN u - Word ELSE u

Within(v, low, high) == IF v < low THEN low ELSE IF v > high THEN high ELSE v

SensorIntervalAny(v) ==            \* bug: it has no lower limit
  IF AsSigned(v) > LongestInterval THEN LongestInterval ELSE AsSigned(v)

SensorInterval(v) == Within(AsSigned(v), 5, LongestInterval)
RetryInterval(v)  == Within(AsUnsigned(v), 5, 30)
MaxFailures(v)    == IF AsUnsigned(v) < 10 THEN 10 ELSE AsUnsigned(v)

(* config_set: the effect of one setting on the configuration. *)
WithSetting(c, token, v) ==
  CASE token = SENSOR_INTERVAL -> [c EXCEPT !.interval = SensorInterval(v)]
    [] token = MAX_FAILURES -> [c EXCEPT !.failures = MaxFailures(v)]
    [] token = RETRY_INTERVAL -> [c EXCEPT !.retry = RetryInterval(v)]
    [] OTHER -> [c EXCEPT !.cal[token - CAL1] = v % Short]

(* config_get *)
Setting(c, token) ==
  CASE token = SENSOR_INTERVAL -> c.interval
    [] token = MAX_FAILURES -> c.failures
    [] token = RETRY_INTERVAL -> c.retry
    [] OTHER -> c.cal[token - CAL1]

(* The memory of a node that has just been reset. *)
Blank == [device |-> NoDevice, interval |-> 0, failures |-> 0, retry |-> 0,
          server |-> DefaultServer, cal |-> [i \in Cals |-> 0]]

(* What config_init makes of a configuration that is not its own: only the  *)
(* first three calibration values are set.                                  *)
FirstCal == <<2, 0, 64>>
Defaults(c, d) ==
  [device |-> d, interval |-> 10, failures |-> 100, retry |-> 15,
   server |-> DefaultServer,
   cal |-> [i \in Cals |-> IF i < 3 THEN FirstCal[i + 1] ELSE c.cal[i]]]
-----------------------------------------------------------------------------
(* The file system. *)

Stored == file \notin {NoFile, Empty, Broken}
Older == IF Stored THEN file ELSE before

ConfigWriteLeaks(c, lost, bad) ==  \* bug: it returns before SPIFFS_close
  \/ /\ mounted /\ lost < MaxFds
     /\ errors' = bad /\ file' = c /\ before' = before /\ fds' = lost + 1
  \/ /\ ~mounted \/ lost = MaxFds
     /\ errors' = bad /\ file' = file /\ before' = before /\ fds' = lost

(* config_write of c, with lost descriptors open and bad failures so far:   *)
(* c is stored; or SPIFFS_open, SPIFFS_write or SPIFFS_close, which writes  *)
(* the cached page, fails, now or for what an earlier failure has left, and *)
(* its descriptor may stay open; or no descriptor is free.  The caller      *)
(* cannot tell one from the other.                                          *)
Created == IF file = NoFile THEN Empty ELSE file
ConfigWrite(c, lost, bad) ==
  \/ /\ mounted /\ lost < MaxFds
     /\ errors' = bad /\ bad <= MaxErrors /\ file' = c /\ before' = before /\ fds' = lost
  \/ /\ mounted /\ lost < MaxFds
     /\ errors' \in {bad, bad + 1} \ {0} /\ errors' <= MaxErrors
     /\ file' \in {file, Created, c, before, Broken} /\ before' = Older
     /\ fds' \in {lost, lost + 1}
  \/ /\ ~mounted \/ lost = MaxFds
     /\ errors' = bad /\ file' = file /\ before' = before /\ fds' = lost

(* SPIFFS_unmount, SPIFFS_format and SPIFFS_mount, in that order: all is    *)
(* well, or the mount fails, or the format.                                 *)
Format(bad) ==
  /\ fds' = 0 /\ file' = NoFile /\ before' = NoFile
  /\ \/ errors' = bad     /\ formatted' = TRUE  /\ mounted' = TRUE
     \/ errors' = bad + 1 /\ formatted' = TRUE  /\ mounted' = FALSE
     \/ errors' = bad + 1 /\ formatted' = FALSE /\ mounted' = FALSE
  /\ errors' <= MaxErrors
-----------------------------------------------------------------------------
(* The boot of a node. *)

NvsInitFormats ==                  \* bug: the status of the mount is negated
  /\ phase = "nvs" /\ phase' = "config"
  /\ Format(errors)
  /\ UNCHANGED <<config, calibration_changed, dev, kept, changes, boots>>

(* nvs_init: a flash that cannot be mounted, for whatever reason, is        *)
(* formatted.                                                               *)
NvsInit ==
  /\ phase = "nvs" /\ phase' = "config"
  /\ \/ /\ formatted /\ mounted' = TRUE
        /\ UNCHANGED <<formatted, file, before, fds, errors>>
     \/ Format(IF formatted THEN errors + 1 ELSE errors)
  /\ UNCHANGED <<config, calibration_changed, dev, kept, changes, boots>>

(* config_init.  A file that is not stored whole cannot be read, and may    *)
(* leave its descriptor open; the configuration of another device type is   *)
(* in memory when the defaults are set.                                     *)
UsesDefaults(c, lost, bad) ==
  /\ config' = Defaults(c, dev)
  /\ calibration_changed' = TRUE
  /\ kept' = IF kept # NoFile /\ kept.device = dev THEN kept ELSE NoFile
  /\ ConfigWrite(Defaults(c, dev), lost, bad)

ConfigInitAnyDevice ==             \* bug: the device type is not compared
  /\ phase = "config" /\ phase' = "up"
  /\ \/ /\ mounted /\ Stored
        /\ config' = file
        /\ UNCHANGED <<calibration_changed, kept, file, before, fds, errors>>
     \/ /\ ~(mounted /\ Stored)
        /\ UsesDefaults(config, 0, errors)
  /\ UNCHANGED <<dev, formatted, mounted, changes, boots>>
ConfigInit ==
  /\ phase = "config" /\ phase' = "up"
  /\ \/ /\ mounted /\ Stored /\ file.device = dev
        /\ config' = file
        /\ UNCHANGED <<calibration_changed, kept, file, before, fds, errors>>
     \/ /\ mounted /\ Stored /\ file.device # dev
        /\ UsesDefaults(file, 0, errors)
     \/ /\ ~mounted \/ file \in {NoFile, Empty}
        /\ UsesDefaults(config, 0, errors)
     \/ /\ mounted /\ file # NoFile
        /\ \E lost \in {0, 1}, bad \in {errors, errors + 1} \ {0} : UsesDefaults(config, lost, bad)
  /\ UNCHANGED <<dev, formatted, mounted, changes, boots>>

-----------------------------------------------------------------------------
(* The console commands. *)

(* config_set, for cmd_set and for the command service *)
Set(token, v) ==
  /\ phase = "up" /\ changes < MaxChanges /\ changes' = changes + 1
  /\ config' = WithSetting(config, token, v)
  /\ calibration_changed' = (calibration_changed \/ token \in CalTokens)
  /\ UNCHANGED <<dev, phase, flashVars, kept, errors, boots>>

SetReceiver(a) ==
  /\ phase = "up" /\ changes < MaxChanges /\ changes' = changes + 1
  /\ config' = [config EXCEPT !.server = a]
  /\ UNCHANGED <<calibration_changed, dev, phase, flashVars, kept, errors, boots>>

CmdSave ==
  /\ phase = "up"
  /\ ConfigWrite(config, fds, errors)
  /\ kept' = IF file' = config THEN config ELSE kept
  /\ UNCHANGED <<config, calibration_changed, dev, phase, formatted, mounted, changes, boots>>

CmdRemove ==
  /\ phase = "up" /\ mounted /\ file # NoFile /\ fds < MaxFds
  /\ \/ file' = NoFile /\ kept' = NoFile /\ before' = NoFile /\ UNCHANGED <<errors, fds>>
     \/ /\ errors' \in {errors, errors + 1} \ {0} /\ errors' <= MaxErrors
        /\ file' \in {file, before, NoFile, Broken} /\ before' = Older
        /\ fds' \in 0..(fds + 1) /\ kept' = NoFile
  /\ UNCHANGED <<config, calibration_changed, dev, phase, formatted, mounted, changes, boots>>

CmdFormat ==
  /\ phase = "up" /\ Format(errors) /\ kept' = NoFile
  /\ UNCHANGED <<config, calibration_changed, dev, phase, changes, boots>>

(* cmd_skipcal, and the node's processes when a calibration was sent *)
ClearCalibrationChanged ==
  /\ phase = "up" /\ calibration_changed' = FALSE
  /\ UNCHANGED <<config, dev, phase, flashVars, userVars>>
-----------------------------------------------------------------------------
(* What a power failure leaves: what there was; the entry of a new file     *)
(* without contents; a flash whose format was cut short; or a file system   *)
(* in the middle of an operation, which may be found to hold anything.      *)
CutShort ==
  \/ UNCHANGED <<formatted, file, before, kept, errors>>
  \/ /\ phase # "nvs" /\ mounted /\ fds < MaxFds /\ file = NoFile
     /\ file' = Empty /\ UNCHANGED <<formatted, before, kept, errors>>
  \/ /\ phase = "up" \/ (phase = "nvs" /\ ~formatted)
     /\ formatted' = FALSE /\ file' = NoFile /\ before' = NoFile /\ kept' = NoFile
     /\ UNCHANGED errors
  \/ /\ phase = "up" /\ mounted
     /\ errors < MaxErrors /\ errors' = errors + 1
     /\ file' \in {file, before, config, NoFile, Empty, Broken} /\ before' = Older
     /\ kept' = NoFile /\ UNCHANGED formatted

(* Power fails, or sysmon reboots the node, in any state; the firmware may  *)
(* be replaced meanwhile.                                                   *)
Reset(d) ==
  /\ boots < MaxBoots /\ boots' = boots + 1
  /\ config' = Blank /\ calibration_changed' = FALSE
  /\ phase' = "nvs" /\ dev' = d /\ mounted' = FALSE /\ fds' = 0
  /\ CutShort
  /\ UNCHANGED changes

ConfigStart ==                     \* a new node, its flash blank
  /\ config = Blank /\ calibration_changed = FALSE
  /\ dev \in DevTypes /\ phase = "nvs"
  /\ formatted = FALSE /\ mounted = FALSE /\ file = NoFile /\ before = NoFile /\ fds = 0
  /\ kept = NoFile /\ errors = 0 /\ changes = 0 /\ boots = 0

-----------------------------------------------------------------------------
(* What must hold. *)

Configuration(d) ==
  [device : {d}, interval : 5..LongestInterval, failures : {n \in Nat : n >= 10},
   retry : 5..30, server : Int, cal : [Cals -> 0..(Short - 1)]]

(* Every variable has its type; a node that has started has a configuration *)
(* of its own device type and within the limits, whatever was in the flash. *)
ConfigTypeOK ==
  /\ dev \in DevTypes /\ phase \in {"nvs", "config", "up"}
  /\ IF phase = "up" THEN config \in Configuration(dev) ELSE config = Blank
  /\ calibration_changed \in BOOLEAN
  /\ formatted \in BOOLEAN /\ mounted \in BOOLEAN /\ fds \in 0..MaxFds
  /\ errors \in 0..MaxErrors /\ changes \in 0..MaxChanges /\ boots \in 0..MaxBoots

(* Whatever saves, crashes, removals and changes of firmware came before:   *)
(* what is in the flash is a configuration within its limits, or cannot be  *)
(* read.                                                                    *)
InLimits(f) == f \in {NoFile, Empty, Broken} \/ \E d \in DevTypes : f \in Configuration(d)
FileInLimits ==
  /\ InLimits(file) /\ InLimits(before)
  /\ ~formatted => file = NoFile

(* A descriptor that is never closed was lost to a failure: so a node whose *)
(* flash never failed, and was never cut short, can always save             *)
(* (config_nvs.c:357-370).                                                  *)
NoneLost == errors = 0 => fds = 0 /\ (phase = "up" => mounted)

(* What the user saved is what a later boot of this device type uses, when  *)
(* the flash never failed and nobody removed it: through power failures,    *)
(* formats that are cut short, and boots of a firmware of another type that *)
(* did not take the flash over.  (What a power failure in the middle of a   *)
(* save leaves is ConfigFile's NoRevival.)                                  *)
SavedSurvives ==
  [][phase = "config" /\ phase' = "up" /\ errors' = 0 /\ kept' # NoFile
       => config' = kept']_configVars
=============================================================================
