# Verification of the sensor firmware

This directory holds TLA+ models of the firmware under `src/`, the TLC
configurations that check them on small instances, and proofs that the TLA+
proof system checks for every value of the constants.

The firmware runs on battery-powered nodes (CC26xx, Contiki-NG) that measure
water (turbidity, colour, temperature) or the air, and send calibrations and
readings over 6LoWPAN to a server. A border router carries their packets over
SPI to a Linux host.

- `tlc -workers 2 -config <cfg> <module>` runs a configuration.
- `tlapm <module>.tla` checks the proofs of a module.
- `PROJECT.json` maps every definition to the lines it models, and lists the
  runs, the mutants, the hazards, the findings and the theorems.

## 1. The system

### Components

| Component | Source | State it keeps | Operations | What is hard |
|---|---|---|---|---|
| Message sender (UDP) | `modules/messenger/message-sender-udp.c` | `send_started`, `requestor`, `current_data`, `current_sequence` (16 bits), `current_attempt`, `last_ack_ok`, one etimer, one connection | `messenger_send`, the process `messenger_sender` (start, fin, anything else), the callback of an acknowledgement | lost, late, doubled and reordered acknowledgements against the time-out; a refused send is silent |
| Water node | `waterNode/waterNode.c` | the place of `sensor_process`, `send_cal_proc`, `send_data_proc`; `sequence`, `failure_counter`, static `rc` | the three processes, `sysmon` | processes that wait for each other without a time-out; static variables that outlive a process; reboot |
| Airborne node | `airborneNode/airborneNode.c` | as the water node, and `state` | the same, waiting differently | gives up after 1 s while the sender tries for 16 s |
| Kernel | Contiki-NG (not in `src/`) | event queue, etimers | post, run, expire, exit | any event wakes a process, and `etimer_expired` is true of an etimer that was never set |
| Configuration | `modules/config/config.c` | the settings and their limits, `calibration_changed`, the device type | `config_init`, `config_set`, `config_get` | widths and signs, a stored configuration of another device |
| Configuration storage, console | `modules/config/config_nvs.c` | `config.dat` in the flash, file descriptors | `nvs_init`, save, rm, format, set, skipcal, run | power failures, failing flash operations, descriptors that are not closed |
| Message service, command, echo | `modules/messenger/message-service.c`, `modules/command/command.c`, `modules/echo/echo.c` | `inputbuf`, `outputbuf`, the handlers | a segment arrives, set, get, echo | a short segment leaves the rest of the buffer as it was; the reply is built from a different variable |
| SPI bridge | `spinet/spi-iface.c`, `spi-regs.c`, `rpl-iface.c` | five processes, the callback of the interrupt, one transfer, three buffers, registers | command loop, register read and write, a packet either way | an interrupt polls whatever process a variable names; buffers are overwritten during a transfer |
| Border router start-up | `spinet/spinet.c` | - | - | a linear start |
| File system | `modules/spiffs/spiffs_nucleus.c`, `spiffs_gc.c`, `spiffs_hydrogen.c`, `spiffs_cache.c`, the mount in `config_nvs.c` | in the flash: an object lookup and pages; in memory: counters, cursors, descriptors, a cache page per open file | format, mount, open, read, write, close, remove; the garbage collection they start | power that fails between any two writes, blocks erased while pages of the file are in them, counters and descriptors that must follow what moves |
| Sensors on the I2C bus | `modules/sensors/tcs3472.c`, `ms5637.c`, `si7210.c`, `si7020.c`, `pic32drvr.c` | `mutexi2c`; a process, an etimer and a buffer each | start, convert or poll, read, end | loops bounded by counters, transfers that fail, a semaphore given back twice, five processes that end in any order |
| Others | see `PROJECT.json` | | | analog sensors (straight-line reads), TCP sender and flash stub (in no build), `SPIFFS_check` (never called), test programs |

### How they interact

`sensor_process` starts `send_cal_proc` or `send_data_proc` and waits for
`sensor_done_evt`. That process reads its sensors (which are processes of their
own), hands one message to `messenger_send`, and waits for
`PROCESS_EVENT_MSG`, or until its own etimer has expired. `messenger_send` only
posts `sender_start_event`; the process `messenger_sender` transmits, waits for
an acknowledgement (a callback from the UDP stack that posts
`sender_fin_event`) or for its etimer, and tells the requestor in the end. The
result is left in `last_ack_ok`, which the requestor reads when it gets the
event. `sysmon` looks at `failure_counter` and reboots the node. The server and
the console change the configuration at any time through `config_set`; that
marks `calibration_changed`, or wakes `sensor_process` with
`config_timeout_change`. `config_read` and `config_write` are calls of the file
system: open, one read or write of a `config_t`, close; at a boot the node
mounts it, and formats and mounts it again if that fails. `send_data_proc`
starts up to five sensor processes, looks around for those that have ended, and
copies their buffers into the message. On the border router, `spi_rdcmd` starts one handler
process per command and waits for the event it posts; the end of an SPI
transfer is an interrupt that polls the process in `spi_process_callback`.

### What makes each of them correct

- *Sender*: a send in progress always has something that will wake the sender;
  every accepted send ends with one answer, to its requestor; a positive result
  is one of a message that arrived; the number of transmissions is bounded.
- *Nodes*: whoever waits is woken; every cycle ends; the result of a cycle is
  that of its own message; a calibration precedes data; a change of the
  calibration reaches the server; a node without a server reboots.
- *Configuration*: settings stay within limits in memory and in flash; a save
  survives; a reply that says *valid* is true; descriptors are not lost.
- *File system*: the file holds what was written last, or, when power fails,
  what was written before; nothing is leaked, pages or descriptors; a flash that
  can be mounted stays so; a boot ends.
- *Sensors*: a measurement ends; a message holds what the sensors it waited for
  left, each of them ended; a sensor that says it succeeded has read everything.
- *Bridge*: no lost wake-up; host and node agree on the transfer; packets
  arrive whole, once, in order.

`PROJECT.json`, under `hazards`, lists at its line each thing that is hard to
test here, with the properties that would catch it.

## 2. Modules

| Module | Models | Its state and actions |
|---|---|---|
| `Contiki` | the kernel, as used (external) | `events`, `timers`; `Post`, `Tell` (exit of a process), `TimerPoll`, `Tick` |
| `Messenger` | `message-sender-udp.c` whole | the static variables under their names; `MessengerSend`, `SenderStart`, `SenderFin`, `SenderOther`, `AckArrives` (the callback), `ServerReceives` (external) |
| `Delivery` | nothing in `src/`: the abstract promise of the sender | `Accept`, `Transmit`, `Deliver`, `Confirm`, `Finish`, `Answer` |
| `MessengerSystem` | the sender with any number of processes that use it as `send_cal_proc` does | `Begin`, `ClientSettled`, `ClientAnswered`, `ClientOther`, `ClientGone`; the refinement `Promise` of `Delivery` |
| `Node` | what both nodes share | `send_cal_proc` (`Cal...`), `send_data_proc` (`Data...`), sensor ends, `SetCalibration`, the commands `RequestRun`, `SkipCal` and `SerialLine`, `Reboot` |
| `WaterNode`, `AirborneNode` | each node's `sensor_process` and the waits of its `send_data_proc` | `MainWait`, `MainCalDone`, `MainDataDone`, `DataReading`, `DataPaused`, `DataColor`, `DataSubmit`; `AirborneWait`, `AirborneCalDone`, `AirborneDataDone`, `AirborneReading`, `AirborneSubmit` |
| `Config` | `config.c`, `config_nvs.c` | `NvsInit`, `ConfigInit`, `Set`, `SetReceiver`, `CmdSave`, `CmdRemove`, `CmdFormat`, `ClearCalibrationChanged`, `Reset` with `CutShort` |
| `Command` | `message-service.c`, `command.c`, `echo.c`, composed with `Config` | `Receive`, `HandleSet`, `HandleGet`, `HandleEcho` |
| `Spinet` | `spi-iface.c`, `spi-regs.c`, `rpl-iface.c`, with the host (external) | `RdCmd`, `RdCmdResumes`, `RegisterRead`, `RegisterWrite`, `PacketTaken`, `PacketInjected`, `FromRadio`; `PiReceives`, `PiSends`, `PiRegister`, `PiClocks` |
| `Flash` | the flash as SPIFFS lays it out (external where it is the chip) | `lu`, `page`, `magic`, `count`; `WritePage`, `WriteFlags`, `WriteEntry` only clear bits, `EraseBlock` sets them |
| `Spiffs` | `spiffs_nucleus.c` | `fs`, `fds`, `work`; one action per write: `Erase`, `WriteCount`, `WriteMagic`, `TakeFree`, `WriteLu`, `WriteImage`, `Finalize`, `Unlink`, `Scrap`, `Refer` |
| `SpiffsGc` | `spiffs_gc.c` | `GcCheck`, `GcRun`, `GcQuick`, `GcFind`, `GcMoveData`, `GcMoveIndex`, `GcErase`: the choice of a block, the pages moved out of it, its erasure |
| `SpiffsCalls` | `spiffs_hydrogen.c`, `spiffs_cache.c` and the calls' parts of the nucleus | `FormatBlock`, `Scan`, `Tally`, `Open`, `Read`, `Flush`, `Modify`, `AppendTo`, `CloseFd`, `Remove`, `Truncate` |
| `ConfigFile` | `config_nvs.c` over SPIFFS, call by call | `Boot`, `Mounted`, `Opened`, `ReadIn`, `Written`, `CmdSave`, `CmdRemove`, `CmdFormat`; `Reset` between calls, `Cut` anywhere in one |
| `Sensors` | the five drivers | `cpu` (who runs, and who is still to be told), `at`, `sem`, `count`, `ok`, `got`; an action per hold of the bus |
| `Measurement` | `send_data_proc` of both nodes up to its message, composed with `Sensors` | `Begin`, `StartSensor`, `StartWatch`, `LookAround`, `StartAmbient`, `AwaitAmbient` |
| `FileStates` | the situations of each call of the file system, for the proofs | nothing of its own: formulas over the state of `ConfigFile`, `Sound` their disjunction |
| `MessengerProofs`, `CommandProofs`, `SpinetProofs`, `WaterProofs`, `MeasurementProofs` | theorems and their proofs | |
| `SpiffsProofs`, `FileProofs` | the file system: types and the order of writes; what the file holds, on top of these | |
| `NodeProofs` | the lemmas about `Node` that the proofs of both nodes rest on, and the theorems about the airborne node | |
| `MCMessenger`, `MCWater`, `MCAirborne`, `MCCommand`, `MCSpinet`, `MCConfigFile`, `MCMeasurement` | instances for TLC | |

### Conventions of the models

- *One action is one run of a process to its next wait.* Contiki never preempts
  a process, so a handler is atomic, with everything it calls. What may come
  between two handlers - a packet, an expiry, a console line - comes between
  two actions. `exit_process` tells the other processes synchronously; here
  these calls are put at the head of the queue and `Between` keeps everything
  from the outside away until they are done.
- *Any event wakes.* The code writes `PROCESS_WAIT_EVENT()` or
  `PROCESS_WAIT_EVENT_UNTIL(etimer_expired(&et) || ev == ...)`. Each wait has
  an action for every event the process can get, and `Expired` is true of an
  etimer that is not armed. Several findings depend on exactly that.
- *Time* advances only when the event queue is empty and no etimer is due: a
  handler takes microseconds, a tick stands for seconds.
- *The network* is a set of packets from which nothing is ever removed. So each
  may be lost, delayed, doubled and overtaken.
- *Data* is reduced to what the properties tell apart. A message is its
  destination, its sequence number and a body that says which boot and which
  calibration it is from. A configuration keeps its settings as numbers, with
  `%` at the widths of the code's types. An SPI word is tagged with the packet
  it belongs to.
- *The flash, twice.* `Config` and `Command` take SPIFFS as external: each call
  succeeds or fails, and a power failure leaves the old file, the new one, an
  entry without contents, or a flash without format. `ConfigFile` models the
  calls write by write. There a call is a list of steps, `todo`; an action takes
  the first and may put others in its place, as the function it stands for calls
  others, and no action writes the flash twice. So `Cut`, which may come between
  any two actions, is a power failure between any two writes.
- *Nested calls.* A sensor process that ends tells all others before
  `process_exit` returns, and one of them may run, and start or end another, in
  the meantime. `Sensors` keeps these calls in `cpu`, innermost first.
- *Variants.* A definition whose comment starts with "Variant" or "bug" is a
  mutated form of the one below it. It belongs to no specification; the
  mutation runs substitute it to see that the property notices.

## 3. Runs

A run that passes has finished its whole state space.

| Run | Instance | Shows |
|---|---|---|
| `messenger` | 2 clients (one patient, one not), 3 attempts, 3 messages, 2 fins queued at once, 1 console line | `NoStall`: a busy sender is always woken. `AckHonest`, `ReportedOk`: a positive answer is true. `TransmissionBound`. `KeepsPromise`: every step is one `Delivery` allows |
| `messenger_live` | 2 attempts, 2 messages, 2 receivers | each send and each client ends, whatever the network does |
| `water` | retry interval longer than the sender tries, 3 messages a boot, 1 reboot, nobody at the console | `DataResultTrue`: a reported success is that of this cycle's message. `CycleEnds` |
| `water_console` | a console line, a calibration set or skipped, a run request at any moment | `DoneComes`: `sensor_process` is woken, once per cycle. `FailuresInARow`: the counter goes back only for a message that arrived |
| `airborne` | every process gives up before the sender; console line, reboot | `DataAfterCal`: no data before a calibration of this boot arrived. `AirborneCycleEnds`. `SilenceReboots`: silence of the server ends in a reboot |
| `sensors` | both nodes, 2 measurements, 2 faults (a failed transfer, a sensor not ready) anywhere | `RangesHonest`, `Collected`: what a message holds. `StartsClean`: no event of a sensor's last run is left for the next. `MeasurementEnds` |
| `config` | 2 device types, 1 failing flash operation, 2 power cycles, 1 change, 2 segments (whole and one field short), 2 values beyond the limits | `TypeOK`: the settings in use are within limits. `FileInLimits`, `NoneLost`, `SavedSurvives`. `ReplyTrue`: *valid* is true |
| `spiffs` | 5 blocks of 3 pages, 2 contents, 4 commands or resets, 1 power failure between any two writes | `NothingLost`, `NoneLeaked`, `Accounted`: until power fails in a call the file is what was written last and nothing is lost of pages, descriptors and counters, whatever the garbage collection moved. `HasRoom`: until then no call fails for want of space, whichever block the collection chose. `NoRevival`: after a power failure a boot reads what was stored last or what was being stored. `StaysMountable`. `BootEnds` |
| `spinet` | packets of 1, 2 and 3 words, buffers of 3, 3 packets from the radio, 4 jobs of the host | `NoLostWakeup`, `InStep`, `InOrder`, `FetchedWhole`, `JobEnds` |

Three runs end in a violation, each of a sentence of the repository itself
(quoted under `findings`):

| Run | What happens |
|---|---|
| `stale_fin` | An acknowledgement that arrives twice leaves a `sender_fin_event` behind. It ends the *next* send before that message was transmitted or answered. |
| `water_periodic` | The sender tries for 16 s (8 × 2 s). `send_cal_proc` gives up after the retry interval and `sensor_process` waits for as long again; with a short one (5 s is legal) both are over before the sender is done. The data message that follows is refused without a trace; `send_data_proc` has no etimer armed, so it and `sensor_process` wait for ever. No failure is counted, so `sysmon` does not help. With the default of 15 s the sender is done in time (15 < 16 < 30) and this takes a *run* typed in the last second besides. |
| `sensor_attempts` | `tcs3472.c:151` reports "1000 attempts". The count starts at 100, and a status read that fails (line 137) goes round without looking at it: one that fails at the count of zero lets the unsigned count wrap, and 65536 more attempts follow. |

The modules state more sentences of the code that do not hold. Put alone into
the configuration named, each gives a counterexample in seconds:

| Property | Configuration | What happens |
|---|---|---|
| `WaterNode!ChangeIsSent` (`waterNode.c:130-131`) | `MCWaterConsole` | A calibration changed while the previous one is under way is marked as sent by the answer to the older message; or the attempt fails and the mark is cleared all the same. |
| `AirborneNode!AirborneResultTrue` (`airborneNode.c:285-286`) | `MCAirborne` | `send_data_proc` gives up after 1 s; the next one has its message refused and takes the status of the older message for its own. |
| `Spinet!LengthCleared` (`spi-iface.c:431`) | `MCSpinet` | The host's last step, writing zero to register 17, sets `uip_len`; reading register 17 still gives the length of the packet that was fetched. |
| `Measurement!ReportsItsReading` (`waterNode.c:271`) | `MCMeasurement` | Nobody looks at the sensors' `rc`; a reading that failed leaves the value of an earlier measurement in its static buffer, and the message reports it. |
| `ConfigFile!SaveIsStored`, `RemovedIsGone` (`config_nvs.c`, "Configuration saved.", "removed config.dat") | `MCConfigFile` | After a power failure in a save the file may stay unreadable: a later save fails, and prints the same. A header left over by the failure survives the removal of the other. |
| `ConfigFile!FreeBlocksCounted` (`spiffs.h`) | `MCConfigFile`, 8 commands, no cut | The collection may choose a block that is free already, because of its age; `spiffs_erase_block` counts it as one free block more all the same. |

### Bounds, and why they are enough

Every bound is a constant with a comment and stands in a guard.

- *Messages* (`MaxSeq`): three let a left-over event of the first meet the
  second, and the result of both meet the third. Two suffice for liveness, where
  each message repeats the cycle. `SeqMod` is above `MaxSeq`, as 2^16 is above
  what a boot sends in months; `AcksAreHonest` has that as its assumption.
- *Attempts* (`MaxAttempts` 2 or 3 for 8): the code tells the first
  transmission, a further one and giving up apart. `RetryDelay` 2 leaves a tick
  inside the interval for something to happen.
- *Times*: only their order matters. `RetryInterval` is 5 > 2·2 (a
  legal 17 to 30 s > 16 s) or 1 with 2·1 < 2·2 (a legal 5 s: 2·5 < 16);
  both orders are run. The default of 15 s lies between (15 < 16 < 30): the
  calibration process gives up first, the wait after it outlasts the sender.
  `MCWaterPeriodic` and `MCWater` with `RetryInterval` 3 (3 < 4 < 6) have that
  order and satisfy `Periodic`, `DataResultTrue` and `CycleEnds`. `Watch` (1 s) is below the sender's interval.
- *Fins* (`MaxFin`): two at once is what it takes for one to be left over. In
  the compositions one is enough, since the run of the sender alone has two.
- *Console, commands, reboots, errors, power cycles*: one or two, at any
  moment; each of the races needs one.
- *Sensors*: loops of 2 (5, 32, 100 or 256 in the code) have a first, a middle
  and a last turn; 2 faults are a failure and another one while it is handled; a
  counter that wraps at 4, above the loop's bound, wraps as one of 16 bits.
  Two registers stand for six and four: a failure before, between, after. The
  second measurement finds what the first left behind.
- *Configuration*: `Word` and `Short` are small powers of two (65536 for 2^32,
  256 for 2^16), so that the values -1 and 9000 are beyond the limits, in sign
  and in width. Two descriptors stand for the four of
  `spiffsFileDescriptorCache`, so that one loss leaves one.
- *File system*: five blocks are the fewest with which the garbage collection
  has a choice, since it keeps two free; three pages a block let the two pages
  of the file be in one block or in two. Four commands are enough for the first
  collection, which comes when three blocks are in use. By hand, with the same
  result: 6 commands and a power failure (a million states), 5 with 4 blocks, 8
  without a power failure. A second power failure is another matter, see below.
  `HasRoom`, the one the proofs lean on, also without a power failure: 11 commands;
  10 with 4 blocks; 8 with 6 blocks, with 5 of 2 pages, with 4 and with 3 of 4 pages; and
  random runs of up to 100 commands, for four minutes each, with 4 and 5 blocks of 3 pages and 6 of 4.
- *Bridge*: with three words a packet of two fits exactly with its header and
  one of three does not. Three packets and four jobs let a packet overtake a
  fetch and its clearing.

`CHECK_DEADLOCK FALSE` is set everywhere. The bounds end every run, and a node
whose processes all wait and whose network is silent does stop; that nobody
waits in vain is what `NoStall`, `DoneComes`, `NoLostWakeup` and the liveness
properties say.

### Fairness

- `WF` of the processes' steps: the scheduler runs the process of the event at
  the head of its queue.
- `[]<>(events = <<>>)` and `SF` of the kernel's steps: the queue drains now
  and then and the clock advances, however often an acknowledgement refills the
  queue. A handler takes microseconds; packets come at the pace of the radio.
- `WF` of `SensorEnds` (nodes): sensor processes end. `MeasurementEnds` shows
  it, but for the time-out of `si7210_field_strength`, whose `return false` in a
  protothread means *waiting*: the process waits for an event nobody posts, and
  the water node then measures no more.
- `WF` of `Step` (sensors): processes run, etimers expire. Nothing is assumed of
  the sensors: they may fail or be not ready as often as the bound allows.
- `WF` of `Working \/ Continue` (file system): a call that has begun goes on.
  Nothing is assumed of the console or of power, but that it fails finitely often.
- `SF` of `Reboot`: `sysmon` wakes every half second, whatever else goes on.
- `WF` of `PiClocks` (bridge): the host finishes a job it has begun. Nothing is
  assumed of when it begins one.

Nothing is assumed of the network, the server, the console or the radio.

## 4. Proofs

All theorems hold for every value of the constants that satisfies the
assumptions named in the modules. TLC evaluates these assumptions in the runs.

| Theorem | Says |
|---|---|
| `MessengerProofs!TypeCorrect` | `Spec => []TypeOK` |
| `MessengerProofs!NeverStalls` | `Spec => []NoStall` |
| `MessengerProofs!AcksAreHonest` | `Spec => []AckHonest` if `MaxSeq <= SeqMod` |
| `MessengerProofs!ReportsAreTrue` | `Spec => []ReportedOk` if `MaxSeq <= SeqMod` |
| `MessengerProofs!TransmissionsBounded` | `Spec => []TransmissionBound` |
| `MessengerProofs!ImplementsDelivery` | `Spec => KeepsPromise`, the refinement of `Delivery`, if `MaxSeq <= SeqMod` |
| `WaterProofs!TypesHold`, `NodeProofs!AirborneTypesHold` | `Spec => []TypeOK`; `Spec => []NodeTypeOK` |
| `WaterProofs!NeverLeftWaiting`, `NodeProofs!AirborneNeverLeftWaiting` | `Spec => []DoneComes` (for the airborne node only proved: it is no property of the run `airborne`) |
| `WaterProofs!CountsFailuresInARow` | `Spec => FailuresInARow`, an action property, if `MaxSeq <= SeqMod` |
| `WaterProofs!DataIsReportedTruly` | `Spec => DataResultTrue`, an action property, if `MaxSeq <= SeqMod`, the retry interval is longer than `MaxAttempts * RetryDelay` and `MaxRuns = 0` |
| `NodeProofs!CalibrationComesFirst` | `AirborneSpec => DataAfterCal`, an action property, if `MaxSeq <= SeqMod` |
| `MeasurementProofs!TypesHold` | `Spec => []TypeOK` |
| `MeasurementProofs!RangesAreHonest` | `Spec => []RangesHonest` |
| `MeasurementProofs!MessageIsCollected` | `Spec => []Collected` |
| `MeasurementProofs!SensorsStartClean` | `Spec => StartsClean`, an action property |
| `CommandProofs!ConfigurationTyped` | `Spec => []TypeOK`, the limits of the settings in it |
| `CommandProofs!FlashInLimits` | `Spec => []FileInLimits` |
| `CommandProofs!DescriptorsKept` | `Spec => []NoneLost` |
| `CommandProofs!SavedConfigurationSurvives` | `Spec => SavedSurvives`, an action property, if an empty file is not a configuration |
| `CommandProofs!RepliesAreTrue` | `Spec => ReplyTrue`, an action property |
| `SpinetProofs!NeverWaitsInVain` | `Spec => []NoLostWakeup` |
| `SpinetProofs!TypesHold` | `Spec => []TypeOK` |
| `SpinetProofs!StaysInStep` | `Spec => []InStep` |
| `SpinetProofs!InjectedInOrder` | `Spec => []InOrder` |
| `SpinetProofs!FetchesWhole` | `Spec => FetchedWhole`, an action property |
| `SpiffsProofs!MountableForEver` | `Spec => StaysMountable`, an action property |
| `SpiffsProofs!FilesTyped` | `Spec => []TypeOK`: `free_blocks` never goes below zero |
| `FileProofs!NothingIsLost` | `Spec /\ []HasRoom => []NothingLost`: what was saved last is what a boot would find |
| `FileProofs!NoneIsLeaked` | `Spec /\ []HasRoom => []NoneLeaked` |
| `FileProofs!PagesAreAccounted` | `Spec /\ []HasRoom => []Accounted` |

**Sender.** `TypeOK` is not inductive: that `current_data` is a message
whenever the sender transmits needs "a send that is started has a requestor and
a message" (`Busy`, in `TypeInv`), and that the clients take their turns needs
`OneClient`. `NoStall` is inductive with these. A step of the sender arms its
etimer or ends the send; any other step keeps what is in the queue (`HasPost`,
`HasTell`, `HasTail`) and the etimer, except for the kernel's poll, which
replaces the etimer by a queued event. `AckHonest` needs `Bookkeeping`: what was
sent has a number below `sequence`, two packets with the same number are the
same message, servers have only what was sent, acknowledgements are of what
servers have. Then an acknowledgement with the number of the current message is
one of that message - as long as 16 bits tell the numbers apart, hence the
assumption.

`ImplementsDelivery` shows one lemma per action that the step is a step of
`Delivery` or changes nothing of it. `Delivery` keeps the sequence of the answers
still to be given; the mapping reads it off the event queue with the recursive
function `AnswersIn`. What that function returns when an event is appended or
taken off is an induction, for which there is no usable theorem; instead each
lemma looks at the least prefix for which its claim fails (`Least`), and the prefix
one shorter gives the contradiction. `ReportedOk` needs that a patient client is
still waiting when its answer comes (`PatientInv`): while it owns the send, its
etimer has more ticks left than the sender needs to give up (`Remaining`, which
falls by one with each tick and never rises). `TransmissionBound`
needs to tell apart a message whose start is still queued, which was
transmitted at most once, from one whose attempts are counted (`TriesInv`).

**Nodes.** `DoneComes` is not inductive, since nothing in it keeps a process
from ending while the event of the one before is still queued. `NodeInv` adds
`Turn` (one of the two sending processes at most, and only the one the main
process waits for; `sensor_done_evt` is queued exactly when neither runs and the
main process has not taken it; it is queued once), `Places` (a process about to
hand over a message has one, or a number for it) and `SenderOK`. `NodeProofs`
shows once for both nodes that the steps of `Node` keep it; the steps of the main
and the data process that each node has of its own are in `WaterProofs` and at
the end of `NodeProofs`.
`FailuresInARow` and `DataAfterCal` rest on `FirstBoot`, the bookkeeping of
`AckHonest` for the first boot: a positive result is of the message in
`current_data`. `CalFirst` says that as long as the state is `SEND_CAL` only
calibrations were handed over, so that even an answer to an earlier message, which
an impatient process may take for its own, is one to a calibration. These two
theorems assume `MaxSeq <= SeqMod` and are about the first boot, as the
properties are.

`DataResultTrue` is about time. A send that has begun is over after `Deadline`
ticks: all attempts while its start is queued, then the attempts left (`Rounds`)
and the rest of the current one. That number never rises within a send and falls with every
tick of the clock, since a busy sender whose etimer is off has its wake-up in the
queue (`NoStall`) and the clock advances only when the queue is empty. `Answers`
says who still waits for the answer to the send in progress: `send_cal_proc`,
with more ticks left than that, or `send_data_proc` with the message that is being
sent. The data process has no etimer of its own there, and any stray event
makes it leave (`DataOther`). Then the send counts as failed, `sensor_process` waits for
the retry interval, and that outlasts the sender (`Outlasts`); so the next
`messenger_send` of the data process is never refused, and the answer it gets is
its own. The theorem assumes of the retry interval what the run `water` does, that it
outlasts the 8 x 2 s of the sender, and that no *run* is typed. With a short
interval a send is refused (`water_periodic`); with the default of 15 s only if
a *run* ends the wait of `sensor_process` before the sender is done. A line on the
console and a calibration set at any moment are covered.

**Sensors.** A process that ends calls all others before it returns, so the
proof needs the calls under way in its invariant: `Stack` says that nobody is
called while being called and that whoever runs has not ended. Its companions
are `Stopped` (who has ended has no etimer) and `Alone` (the sensors that run are
those `send_data_proc` waits for, at its place). `Seen` says that the fields of
a sensor no longer waited for are in the message already, and `Ranged` that
`pic32_proc` has read all ranges below the one it is at in this measurement; with
these two `Collected` and `RangesHonest` follow. `TypeOK` needs the counters of
the loops that count before they look to be above zero there (`Counted`); each
driver's step is shown to change its own data only. `StartsClean` needs `Calm`:
when `send_data_proc` is about to start a sensor it was woken by its own etimer,
and any timer event of a sensor was ahead of that in the queue.

**Configuration.** The invariant `Inv` of `CommandProofs` has the parts of
`TypeOK`, `FileInLimits`, "a mounted flash is formatted", "unless an operation
failed the flash is mounted after `nvs_init`", and "while no
operation failed no descriptor is lost", from which `NoneLost` follows. The lemmas follow the code:
`SettingType` (`config_set` keeps each setting within its limits for *every*
integer), `DefaultsType`, `WriteKeeps` (`config_write`), `FormatKeeps`, then one
lemma per action. For `SavedSurvives` the invariant `Kept` says that without
errors what the user may rely on is what the file holds; `BootEnds` says that
only `config_init` ends a boot. `ReplyTrue` compares a value that went through 32
bits with one that went through 16: a calibration is acknowledged when the value
asked for equals the *retry interval*, which is small, so cutting it to 16 bits
loses nothing. That needs the remainder to be unique (`Remainder`) and 2^16 to
divide 2^32; the provers do not compute that, so `ConfigAssumption` names it
and TLC evaluates it.

**Bridge.** `NoLostWakeup` alone is not inductive: it does not exclude two
processes that wait, nor a transfer whose end polls the wrong one. `Turn` says
that it is always the turn of exactly one - `spi_rdcmd` for a command, a
handler, or `spi_rdcmd` for the event - and that exactly one of *polled* and
*armed* holds for it. This rests on the transfer never running past its length
(`XferOK`), hence on the length in a command being a number (`CmdOK`), hence on
the host sending words of its jobs (`PiOK`). The proof covers transfers of no
words, which poll at once.

`InStep` needs the host in the invariant as well (`Sync`): host and node either
agree on the stage (`Matched`), before or in the middle of a transfer, or the
node is between two transfers and has not pulsed the line (`Between`). That the
lengths agree rests on `DataOK`, where the host asks for no more than the buffer holds
(the host of the model does; the node does not look, see the hazards), and on
the command being in the buffer when the node decodes it. `SendOK` accounts for
each packet of the host: injected, in `spi_frompi`, or partly there; `FetchOK`
for the packet in `spi_topi`: as the radio left it, or partly with the host.
`InOrder` and `FetchedWhole` follow from these.

**File system.** A mount refuses a flash in which two or more blocks have no
magic, so `StaysMountable` needs an account of which blocks have none, at every
point of every call. The invariant `MountInv` of `SpiffsProofs` says four things.
`todo` is a list in which the erasure of a block is followed by the count and the
magic of that block (`InTurn`). Outside the first mount and format of a boot, no block misses its
magic but the one being erased (`Calm`): only `Erase` takes a magic
away, one block at a time, and all other steps are *ordinary*. In the first
mount of a boot (`MountSafe`) the flash is either such, or a format was cut
short. In the format (`FormatSafe`) the blocks are done in order; as long as one
before the last two is left, the last two are without magic, so that a cut there
makes the next mount refuse the flash, and format it again. The last two have to
be watched one write at a time. The theorem holds for any number of blocks,
entries, commands and power failures.

What `TypeOK` of the file system says is mostly not local. Which page a call writes
next depends on what stands on `todo`, the entry it writes on what was there
before, and that `free_blocks`, an unsigned number, never goes below zero on how
many blocks are really empty. The inductive invariant is `FileInv`:

- `Typed` is `TypeOK` with the types of what a step passes to the next. An entry
  of the lookup is free, deleted or an object id: a write only clears bits, and
  clearing bits of one of these never yields the one value that is none of them
  (`IX_FLAG - 1`, whose index would be the free entry).
- `Shape` is the grammar of `todo`: one of the lists a call begins with, or the
  header page an open goes on from, or a `Body` of steps that are typed
  (`StepTyped`), allowed where they are (`Allowed`: nothing but a format, a scan
  or a close without a mount, no write to a file without the page of its header)
  and in order (`Seated`: a page found is entered before another is looked for).
- `CreatedSafe`: the page of a header just created is entered; the open that
  goes on from it reads its id from there. `OpenSafe`: an open that succeeds
  leaves a header.
- `CountSafe`: `free_blocks` is at least the number of blocks whose first page is
  free, except for a page found and not yet entered (`Taken`). The count is only
  a bound, since each erase of a block raises it, empty or not; that it is equal
  is `FreeBlocksCounted`, which does not hold. But a search that ends on the
  first page of a block has found an empty block beside those `Taken`, so the
  count is at least one when it is lowered. `Seated` is needed here: at most one
  page is found and not entered.

There is one lemma per step of a call and one per action of the node, each on
one of the few that say how a step replaces the head of the list (`Progress`,
`AwayFromLookup`, `JustTodo`). TLC checked `FileInv` first, on the instance of
the run `spiffs`. The proof showed what the model lacked: with all ids in use the
open must fail (`SPIFFS_ERR_FULL`). It uses that a number of a page fits a word
(`PagesAreWords`).

`NothingLost`, `NoneLeaked` and `Accounted` speak of the moments between two
commands and of a node whose power never failed inside a call (`cuts = 0`). None
of the three is inductive by far: in the middle of a save there are two headers,
or a page of contents that no header refers to, or a descriptor that knows a
page the collector is about to move. So the invariant, `Sound` in the module
`FileStates`, says of every point of every call what the flash holds, which
descriptor knows it and which steps are left:

- `Flat` and `Found` are the two states of the flash as a whole: nothing half
  done, or one page found and not yet entered. Both say where free pages are
  (`Space`): they are erased, they end their block (`Suffix`), and the cursor is
  on the first one of its block or on the first page of a block (`OnFree`).
  Without this a move could be given a page that was written before and, since a
  write only clears bits, come out garbled.
- `Whole` and `Stable` say what a file is; `Holding`, `Header` and `Sheet` what
  its pages hold.
- `Shifting` follows one page through `spiffs_page_move`, from the search for
  its new place to the scrapping of the old one; the other pages in use are a
  parameter of it. The header and the page of contents moved by the collection,
  and the header stored again by it or by a save, are its three instances.
- `Busy` is a collection inside a call: it counts, looks for data pages in its
  block (`Looks`), moves them (`Gathers`), stores the header again (`Stores`),
  looks for index pages (`Indexes`), moves the header and tells the descriptors
  (`MovesIndex`), and erases the block (`Leaves`). At each point no page in use
  is left behind in the part of the block it has passed, and the cursor is in no
  block about to be erased (`Out`).
- `Makes`, `Adds`, `Alters` are the three ways a save goes on: the file is
  created, written for the first time, or its contents replaced. `MountOk`,
  `FormatOk`, `OpenOk`, `ReadOk`, `RemoveOk` are the other calls.

TLC checked a form of `Sound` with bounded quantifiers first, for several
geometries and weights. The proof has one lemma for each call, that a step leads
from one of its situations to another (`EngagedStep` for the calls that write,
`MountStep`, `FormatStep`, `OpenOkStep`, `ReadStep`, `RemoveOkStep`), and under
it one for each situation; the collection is proved once, for whatever call it
is part of. `ContinueSound`, `CommandSound` and `ResetSound` put the calls
together. The proof made the assumption on the contents stronger: they must
differ from the results of a call, since `rc` holds one or the other.

These three theorems take `HasRoom` as a hypothesis: until power fails in a
call, no call fails for want of space (`Full`). Whether that holds is a question
of arithmetic over histories. `spiffs_gc_find_candidate` scores the blocks by
age and contents and may choose one in which nothing is deleted; that the
collection then still ends with room, within `SPIFFS_GC_MAX_RUNS` blocks,
depends on the number of blocks, the pages in each and all erases before. The
run `spiffs` checks it for one geometry, and section 3 names the others it was
tried on; no counterexample is known. The theorems say that this is all that can
go wrong: whatever the collection chooses, as long as it ends with room, no
page, descriptor or count is lost.

**Only model-checked**:

- everything about liveness: it needs fairness and `ENABLED`, which the prover
  does not handle;
- of the file system `HasRoom`, for the reason above, and `NoRevival`: after a
  power failure inside a call the situations of `FileStates` no longer describe
  the flash, and what a boot, a save and the collection make of each of the
  states in between would have to be told as well.

## 5. What is not modelled

- The boot of the nodes before the loop of `sensor_process`, LEDs, readings and
  their conversion, RSSI, log output: no state that a property sees. The uptime
  and the energest percentages that a *get* answers, and the number of packets
  queued in register 18, are any of a set (`Readings`, `Queued`).
- *Hazards no property catches.* PROJECT.json lists them with the reason: the 65536th
  message of a boot, an acknowledgement of the boot before, a packet that
  overtakes the one being fetched, a host that stops, a segment of four bytes
  taken for the command before, and sensors that never come to an end
  (`si7210.c:156` and 322). They are faults of the code or of its
  surroundings that the properties except by name or assumption.
- *Sensors*: a bus that cannot be opened (`si7210.c:161`, `pic32drvr.c:87`), the
  calibration reads, the arithmetic on readings, and `range5`, which nobody
  reads. `SENSOR_AQ` to `SENSOR_REL` never yields, so no process ever finds the
  semaphore taken, and the second signal of `tcs3472.c:116` does no harm: this
  is why there is no property about it beyond `TypeOK`. What the drivers do with
  failures is in the model, odd as it is: the second half of `ms5637` and `si7020`
  overwrites the status of the first, a store that fails in `si7210` is forgotten
  unless it is the last, and a failed low byte goes unnoticed (`si7210.c:338`
  compares a pointer).
- *SPIFFS*: one file of a header and one data page (a `config_t` is shorter than
  a page), words of five bits for sixteen, a page written as a whole (the code
  copies one in pieces of 64 bytes), bytes counted in halves of a page. The read
  cache is transparent and the score of a cached descriptor is left to the name.
  Directories, seek, rename, stat and longer files are not called by the node,
  `SPIFFS_check` neither.
- *Two power failures.* After one, the file may be unreadable until a save heals
  it, or for good; each save that fails then loses a descriptor, and a collection
  may finish what the failure began. With a second one `NoRevival` fails: the
  collection takes the orphan data page of the first for the file's. The node
  calls nothing that would repair it, and promises nothing about it.
- A full event queue: `process_post` may fail and its result is ignored. The
  queue of the models is unbounded, what fills it is bounded.
- `sysmon`'s period: its check may come between any two events.
- Sequence numbers that wrap within a boot (excluded by assumption), and
  acknowledgements of an earlier boot taken for one of this boot. The second
  does occur in the model, which is why `DataResultTrue`, `FailuresInARow` and
  `DataAfterCal` speak of the first boot.
- A host that does not follow the comments of `spi-iface.c`.
- The TCP sender and the cc26xx configuration stub are in no build. `testNode` and the test programs have no protocol of their own.

## 6. Plan

Done, most important behaviour first: the sender and its abstract
specification; both nodes on top of it; configuration and commands; the bridge;
the proofs above; the sensors and a measurement composed of them; the file
system under the configuration, write by write. Left:

1. **Abstract node.** A specification of a measuring cycle (start, one attempt,
   a result, the next start) and both nodes as implementations of it.
2. **Reboots.** A run of the water node over two boots about acknowledgements
   that outlive a boot, and one with a bounded event queue.
3. **Configuration over the file system.** That `ConfigFile` implements the
   external flash of `Config`: every outcome of a save, cut short or not, is one
   `ConfigWrite` allows.
4. **Proofs.** `NoRevival`: `Sound` for a flash on which one call was cut short.
   `HasRoom`, for the geometries in which it holds.
