---------------------------- MODULE CommandProofs ----------------------------
(***************************************************************************)
(* Proofs about Command and Config: whatever the server sends, the user    *)
(* types, the flash does and the power interrupts, settings and their copy *)
(* in the flash stay within their limits, and descriptors are lost only to *)
(* errors of the flash.                                                    *)
(***************************************************************************)
EXTENDS Command, TLAPS

(* What the limits rest on: only a formatted flash is mounted, and unless   *)
(* an operation failed it is mounted once nvs_init has run.                 *)
Flash ==
  /\ mounted => formatted
  /\ errors = 0 /\ phase # "nvs" => mounted

(* The parts of ConfigTypeOK; no descriptor is lost without an error. *)
Settings ==
  /\ dev \in DevTypes /\ phase \in {"nvs", "config", "up"}
  /\ IF phase = "up" THEN config \in Configuration(dev) ELSE config = Blank
Flags ==
  calibration_changed \in BOOLEAN /\ formatted \in BOOLEAN /\ mounted \in BOOLEAN
Numbers ==
  /\ fds \in 0..MaxFds /\ (errors = 0 => fds = 0)
  /\ errors \in 0..MaxErrors /\ changes \in 0..MaxChanges /\ boots \in 0..MaxBoots

ConfigInv == Settings /\ Flags /\ Numbers /\ FileInLimits /\ Flash

LEMMA ConfigInvImplies == ConfigInv => ConfigTypeOK /\ FileInLimits /\ NoneLost
<1>. SUFFICES ASSUME ConfigInv PROVE ConfigTypeOK /\ NoneLost
  BY DEF ConfigInv
<1>1. ConfigTypeOK
  BY DEF ConfigInv, ConfigTypeOK, Settings, Flags, Numbers
<1>2. NoneLost
  BY DEF ConfigInv, Numbers, Flash, NoneLost
<1>. QED BY <1>1, <1>2

LEMMA NumbersKept ==
  ASSUME Numbers, UNCHANGED <<changes, boots>>,
         fds' \in 0..MaxFds, errors' = 0 => fds' = 0,
         NEW bad \in Nat, errors' \in bad..MaxErrors
  PROVE  Numbers'
<1>1. errors' \in 0..MaxErrors
  OBVIOUS
<1>. QED BY <1>1 DEF Numbers

LEMMA ModRange ==
  ASSUME NEW v \in Int, NEW w \in Nat, w > 0
  PROVE  v % w \in 0..(w - 1)
OBVIOUS

LEMMA WithinRange ==
  ASSUME NEW v \in Int, NEW low \in Int, NEW high \in Int, low <= high
  PROVE  Within(v, low, high) \in low..high
BY DEF Within

LEMMA CalType ==
  ASSUME NEW d, NEW c \in Configuration(d), NEW f \in [Cals -> 0..(Short - 1)]
  PROVE  [c EXCEPT !.cal = f] \in Configuration(d)
BY DEF Configuration

LEMMA IntervalType ==
  ASSUME NEW d, NEW c \in Configuration(d), NEW n \in 5..LongestInterval
  PROVE  [c EXCEPT !.interval = n] \in Configuration(d)
BY SMTT(40) DEF Configuration

LEMMA FailuresType ==
  ASSUME NEW d, NEW c \in Configuration(d), NEW n \in Nat, n >= 10
  PROVE  [c EXCEPT !.failures = n] \in Configuration(d)
BY SMTT(40) DEF Configuration

LEMMA RetryType ==
  ASSUME NEW d, NEW c \in Configuration(d), NEW n \in 5..30
  PROVE  [c EXCEPT !.retry = n] \in Configuration(d)
BY SMTT(40) DEF Configuration

LEMMA ServerType ==
  ASSUME NEW d, NEW c \in Configuration(d), NEW a \in Int
  PROVE  [c EXCEPT !.server = a] \in Configuration(d)
BY SMTT(40) DEF Configuration

LEMMA SettingType ==
  ASSUME NEW d, NEW c \in Configuration(d), NEW t \in Settable, NEW v \in Int
  PROVE  WithSetting(c, t, v) \in Configuration(d)
<1>1. /\ v % Word \in 0..(Word - 1) /\ Word \in Nat
      /\ v % Short \in 0..(Short - 1)
  BY ModRange, ConfigAssumption DEF LongestInterval
<1>2. CASE t = SENSOR_INTERVAL
  <2>1. SensorInterval(v) \in 5..LongestInterval
    <3>1. /\ 5 \in Int /\ LongestInterval \in Int /\ 5 <= LongestInterval
          /\ AsSigned(v) \in Int
      BY <1>1 DEF AsSigned, LongestInterval
    <3>. QED BY <3>1, WithinRange, Zenon DEF SensorInterval
  <2>2. WithSetting(c, t, v) = [c EXCEPT !.interval = SensorInterval(v)]
    BY <1>2
    DEF WithSetting, SENSOR_INTERVAL, MAX_FAILURES, RETRY_INTERVAL
  <2>3. \A n \in 5..LongestInterval : [c EXCEPT !.interval = n] \in Configuration(d)
    BY IntervalType
  <2>. QED BY <2>1, <2>2, <2>3, Zenon
<1>3. CASE t = MAX_FAILURES
  <2>1. MaxFailures(v) \in Nat /\ MaxFailures(v) >= 10
    BY <1>1 DEF MaxFailures, AsUnsigned
  <2>2. WithSetting(c, t, v) = [c EXCEPT !.failures = MaxFailures(v)]
    BY <1>3
    DEF WithSetting, SENSOR_INTERVAL, MAX_FAILURES, RETRY_INTERVAL
  <2>3. \A n \in Nat : n >= 10 => [c EXCEPT !.failures = n] \in Configuration(d)
    BY FailuresType
  <2>. QED BY <2>1, <2>2, <2>3, Zenon
<1>4. CASE t = RETRY_INTERVAL
  <2>1. RetryInterval(v) \in 5..30
    <3>1. 5 \in Int /\ 30 \in Int /\ 5 <= 30 /\ AsUnsigned(v) \in Int
      BY <1>1 DEF AsUnsigned
    <3>. QED BY <3>1, WithinRange, Zenon DEF RetryInterval
  <2>2. WithSetting(c, t, v) = [c EXCEPT !.retry = RetryInterval(v)]
    BY <1>4
    DEF WithSetting, SENSOR_INTERVAL, MAX_FAILURES, RETRY_INTERVAL
  <2>3. \A n \in 5..30 : [c EXCEPT !.retry = n] \in Configuration(d)
    BY RetryType
  <2>. QED BY <2>1, <2>2, <2>3, Zenon
<1>5. CASE t \in CalTokens
  <2>1. WithSetting(c, t, v) = [c EXCEPT !.cal[t - CAL1] = v % Short]
    BY <1>5
    DEF WithSetting, SENSOR_INTERVAL, MAX_FAILURES, RETRY_INTERVAL,
        CalTokens, CAL1
  <2>2. /\ c.cal \in [Cals -> 0..(Short - 1)]
        /\ t - CAL1 \in Cals
    BY <1>5 DEF Configuration, CalTokens, CAL1, Cals
  <2>. DEFINE f == [c.cal EXCEPT ![t - CAL1] = v % Short]
  <2>3. f \in [Cals -> 0..(Short - 1)]
    BY <1>1, <2>2
  <2>4. WithSetting(c, t, v) = [c EXCEPT !.cal = f]
    BY <2>1
  <2>. HIDE DEF f
  <2>. QED BY <2>3, <2>4, CalType
<1>. QED BY <1>2, <1>3, <1>4, <1>5 DEF Settable

LEMMA DefaultsType ==
  ASSUME NEW d, NEW c, c.cal \in [Cals -> 0..(Short - 1)]
  PROVE  Defaults(c, d) \in Configuration(d)
<1>1. \A i \in Cals : i < 3 => FirstCal[i + 1] \in 0..(Short - 1)
  BY ConfigAssumption DEF Cals, FirstCal
<1>. QED BY <1>1, ConfigAssumption DEF Defaults, Configuration, LongestInterval

(* A write of a configuration within its limits leaves such a file, or one  *)
(* that was there, or none that can be read, and costs a descriptor only    *)
(* with an error.                                                           *)
LEMMA WriteKeeps ==
  ASSUME NEW d \in DevTypes, NEW c \in Configuration(d),
         NEW lost \in 0..MaxFds, NEW bad \in 0..MaxErrors,
         FileInLimits, Flash, UNCHANGED <<formatted, mounted>>,
         bad = 0 => errors = 0 /\ mounted /\ lost = 0,
         ConfigWrite(c, lost, bad)
  PROVE  /\ FileInLimits'
         /\ fds' \in 0..MaxFds /\ errors' \in bad..MaxErrors
         /\ errors' = 0 => fds' = 0 /\ mounted
<1>. USE ConfigAssumption
<1>1. CASE /\ mounted /\ lost < MaxFds
           /\ errors' = bad /\ bad <= MaxErrors /\ file' = c /\ before' = before /\ fds' = lost
  <2>1. formatted'
    BY <1>1 DEF Flash
  <2>2. FileInLimits'
    BY <1>1, <2>1 DEF FileInLimits, InLimits
  <2>. QED BY <1>1, <2>2
<1>2. CASE /\ mounted /\ lost < MaxFds
           /\ errors' \in {bad, bad + 1} \ {0} /\ errors' <= MaxErrors
           /\ file' \in {file, Created, c, before, Broken} /\ before' = Older
           /\ fds' \in {lost, lost + 1}
  <2>1. formatted'
    BY <1>2 DEF Flash
  <2>2. InLimits(file)' /\ InLimits(before)'
    BY <1>2 DEF FileInLimits, InLimits, Created, Older
  <2>3. FileInLimits'
    BY <2>1, <2>2 DEF FileInLimits
  <2>4. fds' \in 0..MaxFds /\ errors' \in bad..MaxErrors /\ errors' # 0
    BY <1>2
  <2>. QED BY <2>3, <2>4
<1>3. CASE /\ ~mounted \/ lost = MaxFds
           /\ errors' = bad /\ file' = file /\ before' = before /\ fds' = lost
  <2>1. FileInLimits'
    BY <1>3 DEF FileInLimits, InLimits
  <2>2. bad # 0
    BY <1>3
  <2>. QED BY <1>3, <2>1, <2>2
<1>. QED BY <1>1, <1>2, <1>3 DEF ConfigWrite

LEMMA FormatKeeps ==
  ASSUME NEW bad \in Nat, Format(bad)
  PROVE  /\ FileInLimits'
         /\ fds' = 0 /\ errors' \in bad..MaxErrors
         /\ mounted' \in BOOLEAN /\ formatted' \in BOOLEAN
         /\ mounted' => formatted'
         /\ errors' = 0 => mounted'
<1>1. errors' \in {bad, bad + 1} /\ errors' <= MaxErrors
  BY DEF Format
<1>2. /\ fds' = 0 /\ file' = NoFile /\ before' = NoFile
      /\ mounted' \in BOOLEAN /\ formatted' \in BOOLEAN
      /\ mounted' => formatted'
  BY DEF Format
<1>0. errors' = 0 => mounted'
  BY DEF Format
<1>3. FileInLimits'
  BY <1>2 DEF FileInLimits, InLimits
<1>4. errors' \in bad..MaxErrors
  BY <1>1, ConfigAssumption
<1>. QED BY <1>0, <1>2, <1>3, <1>4

-----------------------------------------------------------------------------
LEMMA ConfigInvInit == ConfigStart => ConfigInv
<1>. SUFFICES ASSUME ConfigStart PROVE ConfigInv
  OBVIOUS
<1>. USE DEF ConfigStart
<1>1. Settings
  BY DEF Settings
<1>2. Flags
  BY DEF Flags
<1>3. Numbers
  BY ConfigAssumption DEF Numbers
<1>4. FileInLimits /\ Flash
  BY DEF FileInLimits, InLimits, Flash
<1>. QED BY <1>1, <1>2, <1>3, <1>4 DEF ConfigInv

LEMMA NvsInitKeeps ==
  ASSUME ConfigInv, NvsInit
  PROVE  ConfigInv'
<1>1. Settings' /\ calibration_changed' \in BOOLEAN
  BY DEF ConfigInv, Settings, Flags, NvsInit
<1>2. CASE formatted /\ mounted' /\ UNCHANGED <<formatted, file, before, fds, errors>>
  <2>1. Numbers' /\ FileInLimits'
    BY <1>2 DEF ConfigInv, Numbers, FileInLimits, InLimits, NvsInit
  <2>2. mounted' = TRUE
    BY <1>2 DEF NvsInit, Format
  <2>3. Flags' /\ Flash'
    BY <1>1, <1>2, <2>2 DEF ConfigInv, Flags, Flash
  <2>. QED BY <1>1, <2>1, <2>3 DEF ConfigInv
<1>3. ASSUME NEW bad \in {errors, errors + 1}, Format(bad)
      PROVE  ConfigInv'
  <2>1. bad \in Nat /\ errors \in Nat
    BY <1>3, ConfigAssumption DEF ConfigInv, Numbers
  <2>0. FileInLimits' /\ fds' = 0 /\ errors' \in bad..MaxErrors
    BY <1>3, <2>1, FormatKeeps
  <2>2. /\ mounted' \in BOOLEAN /\ formatted' \in BOOLEAN
        /\ mounted' => formatted'
        /\ errors' = 0 => mounted'
    BY <1>3, <2>1, FormatKeeps
  <2>3. Flags' /\ Flash'
    BY <1>1, <2>2 DEF Flags, Flash
  <2>4. Numbers'
    <3>1. fds' \in 0..MaxFds /\ (errors' = 0 => fds' = 0)
      BY <2>0, ConfigAssumption
    <3>. QED BY <2>0, <2>1, <3>1, NumbersKept DEF ConfigInv, NvsInit
  <2>. QED BY <1>1, <2>0, <2>3, <2>4 DEF ConfigInv
<1>. QED BY <1>2, <1>3 DEF NvsInit

(* The first configuration of a boot is within its limits: that of the file *)
(* is, and the defaults are whatever calibration is in memory.              *)
LEMMA UsesDefaultsKeeps ==
  ASSUME ConfigInv, NEW c, c.cal \in [Cals -> 0..(Short - 1)],
         NEW lost \in {0, 1}, NEW bad \in {errors, errors + 1}, bad <= MaxErrors,
         bad = 0 => errors = 0 /\ mounted /\ lost = 0, UsesDefaults(c, lost, bad),
         phase' = "up", UNCHANGED <<dev, formatted, mounted, changes, boots>>
  PROVE  ConfigInv'
<1>1. Settings'
  BY DefaultsType DEF ConfigInv, Settings, UsesDefaults
<1>2. Flags'
  BY DEF ConfigInv, Flags, UsesDefaults
<1>3. /\ bad \in Nat /\ bad \in 0..MaxErrors /\ lost \in 0..MaxFds
      /\ dev \in DevTypes
  BY ConfigAssumption DEF ConfigInv, Settings, Numbers
<1>4. /\ FileInLimits'
      /\ fds' \in 0..MaxFds /\ errors' \in bad..MaxErrors
      /\ errors' = 0 => fds' = 0 /\ mounted
  BY <1>3, DefaultsType, WriteKeeps DEF ConfigInv, UsesDefaults
<1>5. Numbers'
  BY <1>3, <1>4, NumbersKept DEF ConfigInv
<1>6. Flash'
  BY <1>4 DEF ConfigInv, Flash
<1>. QED BY <1>1, <1>2, <1>4, <1>5, <1>6 DEF ConfigInv

LEMMA ConfigInitKeeps ==
  ASSUME ConfigInv, ConfigInit
  PROVE  ConfigInv'
<1>1. CASE /\ mounted /\ Stored /\ file.device = dev
           /\ config' = file
           /\ UNCHANGED <<calibration_changed, kept, file, before, fds, errors>>
  <2>0. file.device = dev /\ file \notin {NoFile, Empty, Broken} /\ InLimits(file)
    BY <1>1 DEF ConfigInv, FileInLimits, Stored
  <2>1. file \in Configuration(dev)
    <3>1. PICK d \in DevTypes : file \in Configuration(d)
      BY <2>0 DEF InLimits
    <3>2. file.device = d
      BY <3>1 DEF Configuration
    <3>. QED BY <2>0, <3>1, <3>2
  <2>2. Settings'
    BY <1>1, <2>1 DEF ConfigInit, ConfigInv, Settings
  <2>3. Flags' /\ Flash'
    BY <1>1 DEF ConfigInit, ConfigInv, Flags, Flash
  <2>4. Numbers'
    BY <1>1 DEF ConfigInit, ConfigInv, Numbers
  <2>5. FileInLimits'
    BY <1>1 DEF ConfigInit, ConfigInv, FileInLimits, InLimits
  <2>. QED BY <2>2, <2>3, <2>4, <2>5 DEF ConfigInv
<1>2. ASSUME NEW c, c = config \/ (c = file /\ Stored),
             NEW lost \in {0, 1}, NEW bad \in {errors, errors + 1},
             bad # 0 \/ lost = 0, bad = errors \/ mounted,
             UsesDefaults(c, lost, bad)
      PROVE  ConfigInv'
  <2>1. c.cal \in [Cals -> 0..(Short - 1)]
    <3>1. CASE c = file /\ Stored
      BY <3>1 DEF ConfigInv, FileInLimits, InLimits, Stored, Configuration
    <3>2. CASE c = config
      BY <3>2, ConfigAssumption
      DEF ConfigInit, ConfigInv, Settings, Blank, Cals
    <3>. QED BY <1>2, <3>1, <3>2
  <2>2. errors \in 0..MaxErrors /\ fds \in 0..MaxFds
    BY DEF ConfigInv, Numbers
  <2>3. bad = 0 => errors = 0 /\ lost = 0
    BY <1>2, <2>2, ConfigAssumption
  <2>4. errors = 0 => mounted
    BY DEF ConfigInit, ConfigInv, Flash
  <2>5. bad <= MaxErrors
    <3>1. CASE bad = errors
      BY <2>2, <3>1, ConfigAssumption
    <3>2. CASE mounted
      <4>1. ~(~mounted \/ lost = MaxFds)
        BY <1>2, <3>2, ConfigAssumption
      <4>2. (errors' = bad /\ bad <= MaxErrors) \/ (errors' \in {bad, bad + 1} /\ errors' <= MaxErrors)
        BY <1>2, <4>1 DEF UsesDefaults, ConfigWrite
      <4>. QED BY <1>2, <2>2, <4>2, ConfigAssumption
    <3>. QED BY <1>2, <3>1, <3>2
  <2>. QED BY <1>2, <2>1, <2>3, <2>4, <2>5, UsesDefaultsKeeps DEF ConfigInit
<1>3. errors \in {errors, errors + 1} /\ 0 \in {0, 1}
  OBVIOUS
<1>. QED BY <1>1, <1>2, <1>3 DEF ConfigInit

LEMMA SetKeeps ==
  ASSUME ConfigInv, NEW t \in Settable, NEW v \in Int, Set(t, v)
  PROVE  ConfigInv'
<1>1. Settings'
  BY SettingType DEF Set, ConfigInv, Settings
<1>2. Flags' /\ Flash'
  BY DEF Set, ConfigInv, Flags, Flash, flashVars
<1>3. FileInLimits'
  BY DEF Set, ConfigInv, FileInLimits, InLimits, flashVars
<1>4. /\ changes < MaxChanges /\ changes' = changes + 1
      /\ UNCHANGED <<fds, errors, boots>>
  BY DEF Set, flashVars
<1>5. Numbers'
  BY <1>4, ConfigAssumption DEF ConfigInv, Numbers
<1>. QED BY <1>1, <1>2, <1>3, <1>5 DEF ConfigInv

LEMMA SetReceiverKeeps ==
  ASSUME ConfigInv, NEW a \in Int, SetReceiver(a)
  PROVE  ConfigInv'
<1>1. Settings'
  <2>1. /\ dev' = dev /\ phase' = phase /\ phase = "up" /\ Settings
        /\ config' = [config EXCEPT !.server = a]
    BY DEF SetReceiver, ConfigInv
  <2>2. config' \in Configuration(dev)
    BY <2>1, ServerType DEF Settings
  <2>. QED BY <2>1, <2>2 DEF Settings
<1>2. Flags' /\ Flash'
  BY DEF SetReceiver, ConfigInv, Flags, Flash, flashVars
<1>3. FileInLimits'
  BY DEF SetReceiver, ConfigInv, FileInLimits, InLimits, flashVars
<1>4. /\ changes < MaxChanges /\ changes' = changes + 1
      /\ UNCHANGED <<fds, errors, boots>>
  BY DEF SetReceiver, flashVars
<1>5. Numbers'
  BY <1>4, ConfigAssumption DEF ConfigInv, Numbers
<1>. QED BY <1>1, <1>2, <1>3, <1>5 DEF ConfigInv

LEMMA CmdSaveKeeps ==
  ASSUME ConfigInv, CmdSave
  PROVE  ConfigInv'
<1>1. /\ config \in Configuration(dev) /\ dev \in DevTypes
      /\ fds \in 0..MaxFds /\ errors \in 0..MaxErrors /\ errors \in Nat
      /\ errors = 0 => mounted /\ fds = 0
  BY ConfigAssumption DEF CmdSave, ConfigInv, Settings, Numbers, Flash
<1>2. UNCHANGED <<formatted, mounted>> /\ ConfigWrite(config, fds, errors)
  BY DEF CmdSave
<1>3. /\ FileInLimits'
      /\ fds' \in 0..MaxFds /\ errors' \in errors..MaxErrors
      /\ errors' = 0 => fds' = 0 /\ mounted
  BY <1>1, <1>2, WriteKeeps DEF ConfigInv
<1>4. Settings'
  BY DEF CmdSave, ConfigInv, Settings
<1>5. Flags' /\ Flash'
  BY <1>3 DEF CmdSave, ConfigInv, Flags, Flash
<1>6. Numbers'
  BY <1>1, <1>3, NumbersKept DEF CmdSave, ConfigInv
<1>. QED BY <1>3, <1>4, <1>5, <1>6 DEF ConfigInv

LEMMA CmdRemoveKeeps ==
  ASSUME ConfigInv, CmdRemove
  PROVE  ConfigInv'
<1>1. Settings'
  BY DEF CmdRemove, ConfigInv, Settings
<1>2. /\ mounted /\ fds < MaxFds
      /\ \/ file' = NoFile /\ before' = NoFile /\ UNCHANGED <<errors, fds>>
         \/ /\ errors' \in {errors, errors + 1} \ {0} /\ errors' <= MaxErrors
            /\ file' \in {file, before, NoFile, Broken} /\ before' = Older
            /\ fds' \in 0..(fds + 1)
  BY DEF CmdRemove
<1>3. errors \in 0..MaxErrors /\ fds \in 0..MaxFds /\ (errors = 0 => fds = 0)
  BY DEF ConfigInv, Numbers
<1>4. /\ errors' \in errors..MaxErrors /\ fds' \in 0..MaxFds
      /\ errors' = 0 => errors = 0 /\ fds' = 0
  BY <1>2, <1>3, ConfigAssumption
<1>5. Flags' /\ Flash'
  BY <1>4 DEF CmdRemove, ConfigInv, Flags, Flash
<1>6. InLimits(file)' /\ InLimits(before)'
  BY <1>2 DEF ConfigInv, FileInLimits, InLimits, Older
<1>7. FileInLimits'
  BY <1>2, <1>6 DEF CmdRemove, ConfigInv, FileInLimits, Flash
<1>8. Numbers'
  BY <1>3, <1>4, NumbersKept, ConfigAssumption DEF CmdRemove, ConfigInv
<1>. QED BY <1>1, <1>5, <1>7, <1>8 DEF ConfigInv

LEMMA CmdFormatKeeps ==
  ASSUME ConfigInv, CmdFormat
  PROVE  ConfigInv'
<1>1. errors \in 0..MaxErrors /\ errors \in Nat
  BY ConfigAssumption DEF ConfigInv, Numbers
<1>0. FileInLimits' /\ fds' = 0 /\ errors' \in errors..MaxErrors
  BY <1>1, FormatKeeps DEF CmdFormat
<1>2. /\ mounted' \in BOOLEAN /\ formatted' \in BOOLEAN
      /\ mounted' => formatted'
      /\ errors' = 0 => mounted'
  BY <1>1, FormatKeeps DEF CmdFormat
<1>3. Settings'
  BY DEF CmdFormat, ConfigInv, Settings
<1>4. Flags' /\ Flash'
  BY <1>2 DEF CmdFormat, ConfigInv, Flags, Flash
<1>5. Numbers'
  <2>1. fds' \in 0..MaxFds /\ (errors' = 0 => fds' = 0)
    BY <1>0, ConfigAssumption
  <2>. QED BY <1>0, <1>1, <2>1, NumbersKept DEF CmdFormat, ConfigInv
<1>. QED BY <1>0, <1>3, <1>4, <1>5 DEF ConfigInv

(* A reset leaves what it finds, or an empty flash or file, or, in the      *)
(* middle of an operation, anything that was in the flash or on its way.    *)
LEMMA ResetKeeps ==
  ASSUME ConfigInv, NEW d \in DevTypes, Reset(d)
  PROVE  ConfigInv'
<1>1. /\ formatted' \in {formatted, FALSE} /\ FileInLimits'
      /\ errors' = errors \/ (errors < MaxErrors /\ errors' = errors + 1)
  <2>1. CASE UNCHANGED <<formatted, file, before, kept, errors>>
    BY <2>1 DEF ConfigInv, FileInLimits, InLimits
  <2>2. CASE mounted /\ file' = Empty /\ UNCHANGED <<formatted, before, kept, errors>>
    BY <2>2 DEF ConfigInv, FileInLimits, InLimits, Flash
  <2>3. CASE formatted' = FALSE /\ file' = NoFile /\ before' = NoFile /\ UNCHANGED errors
    BY <2>3 DEF FileInLimits, InLimits
  <2>4. CASE /\ phase = "up" /\ mounted /\ errors < MaxErrors /\ errors' = errors + 1
             /\ file' \in {file, before, config, NoFile, Empty, Broken} /\ before' = Older
             /\ UNCHANGED formatted
    <3>1. config \in Configuration(dev) /\ dev \in DevTypes
      BY <2>4 DEF ConfigInv, Settings
    <3>2. InLimits(file)' /\ InLimits(before)'
      BY <2>4, <3>1 DEF ConfigInv, FileInLimits, InLimits, Older
    <3>. QED BY <2>4, <3>2 DEF ConfigInv, FileInLimits, Flash
  <2>5. \/ UNCHANGED <<formatted, file, before, kept, errors>>
        \/ mounted /\ file' = Empty /\ UNCHANGED <<formatted, before, kept, errors>>
        \/ formatted' = FALSE /\ file' = NoFile /\ before' = NoFile /\ UNCHANGED errors
        \/ /\ phase = "up" /\ mounted /\ errors < MaxErrors /\ errors' = errors + 1
           /\ file' \in {file, before, config, NoFile, Empty, Broken} /\ before' = Older
           /\ UNCHANGED formatted
    BY Zenon DEF Reset, CutShort
  <2>. QED BY <2>1, <2>2, <2>3, <2>4, <2>5
<1>2. Settings'
  BY DEF Reset, Settings
<1>3. Flags' /\ Flash'
  BY <1>1 DEF Reset, ConfigInv, Flags, Flash
<1>4. Numbers'
  <2>1. /\ fds' = 0 /\ boots < MaxBoots /\ boots' = boots + 1 /\ UNCHANGED changes
    BY DEF Reset
  <2>. QED BY <1>1, <2>1, ConfigAssumption DEF ConfigInv, Numbers
<1>. QED BY <1>1, <1>2, <1>3, <1>4 DEF ConfigInv

-----------------------------------------------------------------------------
(* The buffer of the services and their reply. *)
ReplyOK(r) ==
  \/ r = Nothing
  \/ /\ r.valid \in BOOLEAN
     /\ r.sent \in {"header", "header and value", "all"}
ServicesOK ==
  /\ segments \in 0..MaxSegments
  /\ inputbuf \in [header : {"echo", "command", "other"},
                   type : {"set", "get", "other"}, token : Int, value : Int]
  /\ ReplyOK(reply)

Inv == ConfigInv /\ ServicesOK

LEMMA ReplyType ==
  ASSUME NEW valid, valid \in BOOLEAN, NEW value,
         NEW sent \in {"header", "header and value", "all"}
  PROVE  ReplyOK(Reply(valid, value, sent))
BY DEF ReplyOK, Reply

LEMMA ReceivedType ==
  ASSUME ServicesOK, NEW m \in Requests, NEW len \in Lengths
  PROVE  Received(m, len) \in [header : {"echo", "command", "other"},
                               type : {"set", "get", "other"},
                               token : Int, value : Int]
<1>1. {Fields[i] : i \in 1..4} = {"header", "type", "token", "value"}
  BY DEF Fields
<1>. QED BY <1>1, CommandAssumption DEF Received, ServicesOK

(* What a handler does to the configuration, and the reply it leaves. *)
LEMMA HandleCommandKeeps ==
  ASSUME ConfigInv, NEW req, req.token \in Int, req.value \in Int,
         HandleCommand(req)
  PROVE  /\ ConfigInv'
         /\ ReplyOK(reply')
<1>1. UNCHANGED configVars => ConfigInv'
  BY DEF configVars, flashVars, userVars, ConfigInv, Settings, Flags, Numbers,
         FileInLimits, InLimits, Flash
<1>2. CASE HandleSet(req)
  <2>1. ConfigInv'
    BY <1>1, <1>2, SetKeeps, SetReceiverKeeps DEF HandleSet
  <2>2. ReplyOK(reply')
    BY <1>2, ReplyType DEF HandleSet, SetReply
  <2>. QED BY <2>1, <2>2
<1>3. CASE HandleGet(req)
  <2>1. ConfigInv'
    BY <1>1, <1>3 DEF HandleGet
  <2>2. ReplyOK(reply')
    BY <1>3, ReplyType DEF HandleGet
  <2>. QED BY <2>1, <2>2
<1>4. CASE reply' = Nothing /\ UNCHANGED configVars
  BY <1>1, <1>4 DEF ReplyOK
<1>. QED BY <1>2, <1>3, <1>4 DEF HandleCommand

LEMMA ReceiveKeeps ==
  ASSUME Inv, NEW m \in Requests, NEW len \in Lengths, Receive(m, len)
  PROVE  Inv'
<1>. DEFINE req == Received(m, len)
<1>1. req \in [header : {"echo", "command", "other"},
               type : {"set", "get", "other"}, token : Int, value : Int]
  BY ReceivedType DEF Inv
<1>. HIDE DEF req
<1>2. segments' \in 0..MaxSegments /\ inputbuf' = req
  <2>1. segments < MaxSegments /\ segments' = segments + 1 /\ inputbuf' = req
    BY DEF Receive, req
  <2>. QED BY <2>1, CommandAssumption DEF Inv, ServicesOK
<1>3. HandleCommand(req) \/ HandleEcho \/ (reply' = Nothing /\ UNCHANGED configVars)
  BY DEF Receive, req
<1>4. UNCHANGED configVars => ConfigInv'
  BY DEF configVars, flashVars, userVars, Inv, ConfigInv, Settings, Flags,
         Numbers, FileInLimits, InLimits, Flash
<1>5. ConfigInv' /\ ReplyOK(reply')
  <2>1. CASE HandleCommand(req)
    BY <1>1, <2>1, HandleCommandKeeps DEF Inv
  <2>2. CASE HandleEcho
    BY <1>4, <2>2, ReplyType DEF HandleEcho
  <2>. QED BY <1>3, <1>4, <2>1, <2>2 DEF ReplyOK
<1>. QED BY <1>1, <1>2, <1>5 DEF Inv, ServicesOK

LEMMA InvInit == Init => Inv
<1>1. Init => ServicesOK
  BY CommandAssumption DEF Init, ServicesOK, ReplyOK, BlankBuffer
<1>. QED BY <1>1, ConfigInvInit DEF Init, Inv

LEMMA BlankType ==
  BlankBuffer \in [header : {"echo", "command", "other"},
                   type : {"set", "get", "other"}, token : Int, value : Int]
BY DEF BlankBuffer

LEMMA InvStep == Inv /\ [Next]_vars => Inv'
<1>. SUFFICES ASSUME Inv, [Next]_vars PROVE Inv'
  OBVIOUS
<1>1. Quiet => ServicesOK'
  BY DEF Quiet, Inv, ServicesOK, ReplyOK
<1>2. CASE NvsInit /\ Quiet
  BY <1>1, <1>2, NvsInitKeeps DEF Inv
<1>3. CASE ConfigInit /\ Quiet
  BY <1>1, <1>3, ConfigInitKeeps DEF Inv
<1>4. CASE \E t \in Tokens, v \in Values : Set(t, v) /\ Quiet
  BY <1>1, <1>4, SetKeeps, ConfigAssumption DEF Inv
<1>5. CASE CmdSave /\ Quiet
  BY <1>1, <1>5, CmdSaveKeeps DEF Inv
<1>6. CASE CmdRemove /\ Quiet
  BY <1>1, <1>6, CmdRemoveKeeps DEF Inv
<1>7. CASE CmdFormat /\ Quiet
  BY <1>1, <1>7, CmdFormatKeeps DEF Inv
<1>8. CASE ClearCalibrationChanged /\ Quiet
  <2>1. ConfigInv'
    BY <1>8
    DEF ClearCalibrationChanged, flashVars, userVars, Inv, ConfigInv, Settings,
        Flags, Numbers, FileInLimits, InLimits, Flash
  <2>. QED BY <1>1, <1>8, <2>1 DEF Inv
<1>9. CASE \E d \in DevTypes : Reset(d) /\ ResetServices
  <2>1. ServicesOK'
    <3>1. /\ inputbuf' = BlankBuffer /\ reply' = Nothing
          /\ segments' = segments
      BY <1>9 DEF ResetServices
    <3>. QED BY <3>1, BlankType DEF Inv, ServicesOK, ReplyOK
  <2>. QED BY <1>9, <2>1, ResetKeeps DEF Inv
<1>10. CASE \E m \in Requests, len \in Lengths : Receive(m, len)
  BY <1>10, ReceiveKeeps
<1>11. CASE UNCHANGED vars
  BY <1>11
  DEF vars, configVars, serviceVars, flashVars, userVars, Inv, ServicesOK,
      ConfigInv, Settings, Flags, Numbers, FileInLimits, InLimits, Flash
<1>. QED
  BY <1>2, <1>3, <1>4, <1>5, <1>6, <1>7, <1>8, <1>9, <1>10, <1>11 DEF Next

(* TypeOK of Command: in particular a node that is up has, whatever was in  *)
(* its flash, a configuration of its own device type within the limits.     *)
THEOREM ConfigurationTyped == Spec => []TypeOK
<1>1. Inv => TypeOK
  BY ConfigInvImplies DEF Inv, TypeOK, ServicesOK, ReplyOK
<1>. QED BY <1>1, InvInit, InvStep, PTL DEF Spec

(* FileInLimits: what is in the flash is within the limits, through power   *)
(* failures, failing operations and changes of firmware.                    *)
THEOREM FlashInLimits == Spec => []FileInLimits
<1>1. Inv => FileInLimits
  BY DEF Inv, ConfigInv
<1>. QED BY <1>1, InvInit, InvStep, PTL DEF Spec

(* NoneLost: a node whose flash never failed can always save.               *)
THEOREM DescriptorsKept == Spec => []NoneLost
<1>1. Inv => NoneLost
  BY ConfigInvImplies DEF Inv
<1>. QED BY <1>1, InvInit, InvStep, PTL DEF Spec

-----------------------------------------------------------------------------
(* As long as the flash has not failed, what the user may rely on is what   *)
(* the file holds.                                                          *)
Kept == errors = 0 => kept = NoFile \/ (Stored /\ kept = file)

EmptyIsNone == \A d \in DevTypes : {Empty, Broken} \cap Configuration(d) = {}

LEMMA ConfigInitKept ==
  ASSUME ConfigInv, Kept, ConfigInit, errors' = 0
  PROVE  Kept' /\ (kept' # NoFile => config' = kept')
<1>0. errors \in Nat
  BY ConfigAssumption DEF ConfigInv, Numbers
<1>1. CASE /\ mounted /\ Stored /\ file.device = dev
           /\ config' = file
           /\ UNCHANGED <<calibration_changed, kept, file, before, fds, errors>>
  BY <1>1 DEF Kept, Stored
<1>2. ASSUME NEW c, UsesDefaults(c, 0, errors),
             mounted /\ Stored => file.device # dev
      PROVE  kept' = NoFile
  <2>1. errors = 0
    BY <1>0, <1>2 DEF UsesDefaults, ConfigWrite
  <2>2. mounted
    BY <2>1 DEF ConfigInit, ConfigInv, Flash
  <2>. QED BY <1>2, <2>1, <2>2 DEF Kept, UsesDefaults
<1>3. ASSUME NEW c, NEW lost, NEW bad \in {errors, errors + 1} \ {0},
             UsesDefaults(c, lost, bad)
      PROVE  FALSE
  <2>1. errors' = bad \/ errors' \in {bad, bad + 1} \ {0}
    BY <1>3 DEF UsesDefaults, ConfigWrite
  <2>. QED BY <1>0, <1>3, <2>1
<1>4. file \in {NoFile, Empty} => ~Stored
  BY DEF Stored
<1>. QED BY <1>1, <1>2, <1>3, <1>4, Zenon DEF ConfigInit, Kept

LEMMA CmdSaveKept ==
  ASSUME EmptyIsNone, ConfigInv, Kept, CmdSave
  PROVE  Kept'
<1>. SUFFICES ASSUME errors' = 0, kept' # NoFile
              PROVE  Stored' /\ kept' = file'
  BY DEF Kept, Stored
<1>1. errors = 0 /\ file' \in {config, file}
  BY ConfigAssumption DEF CmdSave, ConfigWrite, ConfigInv, Numbers
<1>2. config # Empty /\ config # Broken
  BY DEF EmptyIsNone, CmdSave, ConfigInv, Settings
<1>3. CASE file' = config
  BY <1>2, <1>3 DEF CmdSave, Stored
<1>4. CASE file' # config
  BY <1>1, <1>4 DEF CmdSave, Kept, Stored
<1>. QED BY <1>3, <1>4

LEMMA ResetKept ==
  ASSUME ConfigInv, Kept, NEW d, Reset(d)
  PROVE  Kept'
<1>1. CASE UNCHANGED <<formatted, file, before, kept, errors>>
  BY <1>1 DEF Kept, Stored
<1>2. CASE file = NoFile /\ UNCHANGED <<kept, errors>>
  BY <1>2 DEF Kept, Stored
<1>3. CASE kept' = NoFile
  BY <1>3 DEF Kept
<1>4. \/ UNCHANGED <<formatted, file, before, kept, errors>>
      \/ file = NoFile /\ UNCHANGED <<kept, errors>>
      \/ kept' = NoFile
  BY Zenon DEF Reset, CutShort
<1>. QED BY <1>1, <1>2, <1>3, <1>4

LEMMA KeptStep ==
  ASSUME EmptyIsNone, Inv, Kept, [Next]_vars
  PROVE  Kept'
<1>1. UNCHANGED <<errors, kept, file>> => Kept'
  BY DEF Kept, Stored
<1>2. CASE NvsInit
  <2>. SUFFICES ASSUME errors' = 0 PROVE kept = NoFile \/ (Stored' /\ kept = file')
    BY <1>2 DEF NvsInit, Kept
  <2>1. CASE formatted /\ UNCHANGED <<formatted, file, before, fds, errors>>
    BY <2>1 DEF Kept, Stored
  <2>2. CASE Format(errors) /\ ~formatted
    <3>1. errors = 0
      BY <2>2, ConfigAssumption DEF Format, Inv, ConfigInv, Numbers
    <3>2. file = NoFile
      BY <2>2 DEF Inv, ConfigInv, FileInLimits
    <3>. QED BY <3>1, <3>2 DEF Kept, Stored
  <2>3. CASE Format(errors + 1)
    BY <2>3, ConfigAssumption DEF Format, Inv, ConfigInv, Numbers
  <2>. QED BY <1>2, <2>1, <2>2, <2>3 DEF NvsInit
<1>3. CASE ConfigInit
  <2>1. errors' = 0 => Kept'
    BY <1>3, ConfigInitKept DEF Inv
  <2>. QED BY <2>1 DEF Kept
<1>4. CASE CmdSave
  BY <1>4, CmdSaveKept DEF Inv
<1>5. CASE CmdRemove
  BY <1>5, ConfigAssumption
  DEF CmdRemove, Kept, Stored, Inv, ConfigInv, Numbers
<1>6. CASE CmdFormat
  BY <1>6 DEF CmdFormat, Kept
<1>7. ASSUME NEW d, Reset(d)
      PROVE  Kept'
  BY <1>7, ResetKept DEF Inv
<1>8. ASSUME NEW t, NEW v, Set(t, v)
      PROVE  Kept'
  BY <1>1, <1>8 DEF Set, flashVars
<1>9. CASE ClearCalibrationChanged \/ UNCHANGED vars
  BY <1>1, <1>9
  DEF ClearCalibrationChanged, vars, configVars, flashVars, userVars
<1>10. ASSUME NEW m, NEW len, Receive(m, len)
       PROVE  Kept'
  <2>1. UNCHANGED configVars => Kept'
    BY <1>1 DEF configVars, flashVars, userVars
  <2>2. ASSUME NEW a, SetReceiver(a) PROVE Kept'
    BY <1>1, <2>2 DEF SetReceiver, flashVars
  <2>. QED
    BY <1>8, <1>10, <2>1, <2>2, Zenon
    DEF Receive, HandleCommand, HandleSet, HandleGet, HandleEcho
<1>. QED
  BY <1>2, <1>3, <1>4, <1>5, <1>6, <1>7, <1>8, <1>9, <1>10 DEF Next

(* Only config_init ends a boot. *)
LEMMA BootEnds ==
  ASSUME [Next]_vars, phase = "config", phase' = "up"
  PROVE  ConfigInit
<1>1. \A d : Reset(d) => phase' = "nvs"
  BY DEF Reset
<1>2. phase # "up" /\ phase # "nvs" /\ phase' # phase /\ phase' # "nvs"
  OBVIOUS
<1>3. ASSUME NEW m, NEW len, Receive(m, len) PROVE FALSE
  BY <1>2, <1>3 DEF Receive
<1>. QED
  BY <1>1, <1>2, <1>3, Zenon
  DEF Next, NvsInit, Set, CmdSave, CmdRemove, CmdFormat,
      ClearCalibrationChanged, vars, configVars

(* SavedSurvives: what the user saved is what a later boot uses, for any    *)
(* number of power failures, firmwares, settings and messages.              *)
THEOREM SavedConfigurationSurvives ==
  ASSUME EmptyIsNone
  PROVE  Spec => SavedSurvives
<1>. DEFINE Safe == Inv /\ Kept
<1>1. Init => Safe
  BY InvInit DEF Init, ConfigStart, Kept
<1>2. Safe /\ [Next]_vars => Safe'
  BY InvStep, KeptStep
<1>3. Safe /\ [Next]_vars
        => [phase = "config" /\ phase' = "up" /\ errors' = 0 /\ kept' # NoFile
              => config' = kept']_configVars
  BY BootEnds, ConfigInitKept DEF Inv
<1>. QED BY <1>1, <1>2, <1>3, PTL DEF Spec, SavedSurvives

-----------------------------------------------------------------------------
(* The quotient and the remainder of a division are unique. *)
LEMMA Remainder ==
  ASSUME NEW n \in Nat \ {0}, NEW a \in Int, NEW q \in Int, NEW r \in 0..(n - 1),
         a = q * n + r
  PROVE  a % n = r
<1>. DEFINE p == a \div n
            s == a % n
<1>1. p \in Int /\ s \in 0..(n - 1) /\ a = n * p + s
  OBVIOUS
<1>. HIDE DEF p, s
<1>2. n * (p - q) = r - s
  BY <1>1
<1>3. CASE p > q
  <2>1. n * (p - q) >= n
    BY <1>1, <1>3
  <2>. QED BY <1>1, <1>2, <2>1
<1>4. CASE p < q
  <2>1. n * (p - q) <= -n
    BY <1>1, <1>4
  <2>. QED BY <1>1, <1>2, <2>1
<1>5. CASE p = q
  BY <1>1, <1>5 DEF s
<1>. QED BY <1>1, <1>3, <1>4, <1>5

(* A number that an unsigned int holds without loss, and that is short, is  *)
(* the same in a uint16_t: 2^16 divides 2^32.                               *)
LEMMA ShortOfWord ==
  ASSUME NEW v \in Int, v % Word < Short
  PROVE  v % Short = v % Word
<1>. DEFINE k == Word \div Short
            q == v \div Word
            r == v % Word
<1>1. Word \in Nat \ {0} /\ Short \in Nat \ {0} /\ Word % Short = 0
  BY ConfigAssumption DEF LongestInterval
<1>2. k \in Int /\ Word = Short * k
  <2>1. Word = Short * (Word \div Short) + (Word % Short)
    BY <1>1
  <2>. QED BY <1>1, <2>1
<1>3. q \in Int /\ r \in 0..(Word - 1) /\ v = Word * q + r
  BY <1>1
<1>4. r \in 0..(Short - 1)
  BY <1>1, <1>3
<1>. HIDE DEF k, q, r
<1>5. v = (k * q) * Short + r
  <2>1. (Short * k) * q = (k * q) * Short
    BY <1>1, <1>2, <1>3
  <2>. QED BY <1>2, <1>3, <2>1
<1>6. k * q \in Int
  BY <1>2, <1>3
<1>7. v % Short = r
  BY <1>1, <1>4, <1>5, <1>6, Remainder
<1>. QED BY <1>7 DEF r

(* The reply to a calibration compares it with the retry interval, which is *)
(* at most 30: a value that passes has lost nothing in a uint16_t.          *)
LEMMA CalibrationReply ==
  ASSUME ConfigInv, NEW t \in CalTokens, NEW v \in Int, Set(t, v),
         config'.retry = AsUnsigned(v)
  PROVE  Setting(config', t) = AsUnsigned(v)
<1>1. config \in Configuration(dev)
  BY DEF Set, ConfigInv, Settings
<1>2. /\ config' = [config EXCEPT !.cal[t - CAL1] = v % Short]
      /\ Setting(config', t) = config'.cal[t - CAL1]
  BY DEF Set, WithSetting, Setting, SENSOR_INTERVAL, MAX_FAILURES, RETRY_INTERVAL,
         CalTokens, CAL1
<1>3. t - CAL1 \in Cals
  BY DEF CalTokens, CAL1, Cals
<1>4. config'.cal[t - CAL1] = v % Short /\ config'.retry = config.retry
  BY <1>1, <1>2, <1>3 DEF Configuration
<1>5. config.retry \in 5..30
  BY <1>1 DEF Configuration
<1>6. v % Word < Short
  BY <1>4, <1>5, ConfigAssumption DEF AsUnsigned
<1>. QED BY <1>2, <1>4, <1>6, ShortOfWord DEF AsUnsigned

(* ReplyTrue: a command that is answered as valid has had its effect, for   *)
(* every value of every setting and whatever was in the buffer before.      *)
THEOREM RepliesAreTrue == Spec => ReplyTrue
<1>. DEFINE Said == /\ inputbuf'.header = "command" /\ inputbuf'.type = "set"
                    /\ inputbuf'.token \in Settable /\ reply' # Nothing /\ reply'.valid
            Done == Setting(config', inputbuf'.token) = AsUnsigned(inputbuf'.value)
<1>1. ASSUME Inv, NEW m \in Requests, NEW len \in Lengths, Receive(m, len), Said
      PROVE  Done
  <2>. DEFINE req == Received(m, len)
  <2>1. req.token \in Settable /\ req.value \in Int /\ inputbuf' = req
    BY <1>1, ReceivedType DEF Inv, Receive
  <2>2. HandleCommand(req)
    BY <1>1, <2>1 DEF Receive
  <2>. HIDE DEF req
  <2>3. Set(req.token, req.value) /\ reply' = SetReply(req.token, req.value)
    <3>1. ROUTER \notin Settable /\ CTIME \notin Settable
      BY DEF Settable, ROUTER, CTIME, SENSOR_INTERVAL, MAX_FAILURES,
             RETRY_INTERVAL, CalTokens, CAL1
    <3>2. HandleSet(req)
      BY <1>1, <2>1, <2>2 DEF HandleCommand
    <3>. QED BY <2>1, <3>1, <3>2 DEF HandleSet
  <2>4. ReadBack(config', req.token) = AsUnsigned(req.value)
    BY <1>1, <2>3 DEF SetReply, Reply
  <2>5. CASE req.token \in CalTokens
    BY <1>1, <2>1, <2>3, <2>4, <2>5, CalibrationReply DEF ReadBack, Inv
  <2>6. CASE req.token \notin CalTokens
    BY <2>1, <2>4, <2>6 DEF ReadBack
  <2>. QED BY <2>5, <2>6
<1>2. ASSUME Next, Said
      PROVE  \E m \in Requests, len \in Lengths : Receive(m, len)
  BY <1>2, Zenon DEF Next, Quiet, ResetServices
<1>3. Inv /\ [Next]_vars => [Said => Done]_vars
  BY <1>1, <1>2
<1>. QED BY <1>3, InvInit, InvStep, PTL DEF Spec, ReplyTrue
=============================================================================
