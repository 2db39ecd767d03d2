----------------------------- MODULE ConfigFile -----------------------------
(***************************************************************************)
(* The node and its file config.dat: what config_nvs.c and config_init ask *)
(* of the file system at a boot and for the console commands save, rm and  *)
(* format, with power that fails between any two writes to the flash.      *)
(***************************************************************************)
EXTENDS SpiffsCalls

CONSTANTS
  Default,     \* the configuration config_init makes
  NoFile, Empty, Broken,  \* what may be found in place of contents
  MaxOps,      \* bound: commands, and resets between them
  MaxCuts      \* bound: power failures in the middle of a call

ASSUME ConfigFileAssumption ==
  /\ Default \in Contents
  /\ Contents \cap {NoFile, Empty, Broken, "ok", "empty", "failed"} = {}
  /\ MaxOps \in Nat /\ MaxCuts \in Nat

VARIABLES
  phase,       \* where the node is in its boot or in a command
  config,      \* the configuration in effect
  stored,      \* history: what the last call that succeeded stored or found
  asked,       \* history: what was to be stored since
  ops, cuts
nodeVars == <<phase, config, stored, asked, ops, cuts>>
vars == <<flash, spiffsVars, nodeVars>>

Kept == UNCHANGED <<flash, fs, fds, work, dst>>
Opening(create) == <<[do |-> "open", create |-> create]>>
Calls(name, value, steps, next) ==
  Begins(name, value, steps) /\ phase' = next /\ Kept
Returns(p) == phase = p /\ Idle
NoCallNow == todo' = <<>> /\ UNCHANGED <<rc, call>> /\ Kept
Stored(what) ==
  IF rc = "ok" THEN stored' = what /\ asked' = {} ELSE UNCHANGED <<stored, asked>>

-----------------------------------------------------------------------------
(* nvs_init *)

Boot ==
  /\ Returns("off") /\ Calls("mount", Erased, Mounting, "mount")
  /\ UNCHANGED <<config, stored, asked, ops, cuts>>

(* A flash that cannot be mounted is formatted, and mounted.                *)
MountedAgain ==                      \* bug: the mount is tried again instead
  /\ Returns("mount")
  /\ IF rc = "ok" THEN Calls("open", Erased, Opening(FALSE), "open")
     ELSE Calls("mount", Erased, Mounting, "mount")
  /\ UNCHANGED <<config, stored, asked, ops, cuts>>
Mounted ==
  /\ Returns("mount")
  /\ IF rc = "ok" THEN Calls("open", Erased, Opening(FALSE), "open")
     ELSE Calls("format", Erased, Formatting, "format")
  /\ UNCHANGED <<config, stored, asked, ops, cuts>>
Formatted ==
  /\ Returns("format") /\ Calls("mount", Erased, Mounting, "remount")
  /\ Stored(NoFile) /\ UNCHANGED <<config, ops, cuts>>
Remounted ==
  /\ Returns("remount") /\ Calls("open", Erased, Opening(FALSE), "open")
  /\ UNCHANGED <<config, stored, asked, ops, cuts>>

(* config_init: whatever is read and is not a configuration, or cannot be   *)
(* read, gives way to the defaults, which are written.                      *)
Writes(value, next) ==
  config' = value /\ asked' = asked \cup {value} /\ Calls("open", value, Opening(TRUE), next)
Opened ==
  /\ Returns("open")
  /\ IF rc = "ok" THEN Calls("read", Erased, <<Do("read")>>, "read") /\ UNCHANGED <<config, asked>>
     ELSE Writes(Default, "defaults")
  /\ UNCHANGED <<stored, ops, cuts>>
ReadInAny ==                         \* bug: the result of config_read is ignored
  /\ Returns("read")
  /\ config' = rc /\ phase' = "up" /\ NoCallNow /\ stored' = rc /\ asked' = {}
  /\ UNCHANGED <<ops, cuts>>
ReadIn ==
  /\ Returns("read")
  /\ IF rc \in Contents \cup {Mixed}
     THEN config' = rc /\ phase' = "up" /\ NoCallNow /\ stored' = rc /\ asked' = {}
     ELSE Writes(Default, "defaults") /\ UNCHANGED stored
  /\ UNCHANGED <<ops, cuts>>

(* config_write: SPIFFS_open, then SPIFFS_write and SPIFFS_close, whose     *)
(* result it ignores; nvs_init and the command save ignore config_write's.  *)
Ended == phase' = "up" /\ Stored(config)
FileOpened ==
  /\ Returns("defaults") \/ Returns("save")
  /\ IF rc = "ok"
     THEN /\ Calls("flush", config, <<Do("flush")>>, IF phase = "save" THEN "saving" ELSE "writing")
          /\ UNCHANGED <<stored, asked>>
     ELSE Ended /\ NoCallNow
  /\ UNCHANGED <<config, ops, cuts>>
Written ==
  /\ Returns("writing") \/ Returns("saving")
  /\ Ended /\ NoCallNow
  /\ UNCHANGED <<config, ops, cuts>>

-----------------------------------------------------------------------------
(* The console commands *)

Commanded == Returns("up") /\ ops < MaxOps /\ ops' = ops + 1
CmdSave(value) ==
  /\ Commanded /\ Writes(value, "save")
  /\ UNCHANGED <<stored, cuts>>

CmdRemove ==
  /\ Commanded /\ Calls("remove", Erased, <<Do("remove")>>, "remove")
  /\ UNCHANGED <<config, stored, asked, cuts>>
Removed ==
  /\ Returns("remove") /\ phase' = "up" /\ NoCallNow
  /\ Stored(NoFile) /\ UNCHANGED <<config, ops, cuts>>

(* SPIFFS_unmount gives every descriptor back.                              *)
CmdFormat ==
  /\ Commanded
  /\ Begins("format", Erased, Formatting) /\ phase' = "cmd_format"
  /\ fs' = [fs EXCEPT !.mounted = FALSE]
  /\ fds' = [f \in Fds |-> [fds[f] EXCEPT !.open = FALSE]]
  /\ UNCHANGED <<flash, work, dst, config, stored, asked, cuts>>
CmdFormatted ==
  /\ Returns("cmd_format") /\ Calls("mount", Erased, Mounting, "cmd_mount")
  /\ Stored(NoFile) /\ UNCHANGED <<config, ops, cuts>>
CmdMounted ==
  /\ Returns("cmd_mount") /\ phase' = "up" /\ NoCallNow
  /\ UNCHANGED <<config, stored, asked, ops, cuts>>

-----------------------------------------------------------------------------
(* Resets: sysmon's, or power that fails. *)

Off ==
  /\ phase' = "off" /\ config' = Default
  /\ fs' = FreshFs /\ fds' = FreshFds /\ work' = ErasedPage /\ dst' = 1
  /\ todo' = <<>> /\ call' = NoCall /\ rc' = "ok"
  /\ UNCHANGED <<flash, stored, asked>>
Reset == Commanded /\ Off /\ UNCHANGED cuts
Cut ==
  /\ ~Returns("up") /\ phase # "off"
  /\ cuts < MaxCuts /\ cuts' = cuts + 1
  /\ Off /\ UNCHANGED ops

Init ==
  /\ FlashInit
  /\ fs = FreshFs /\ fds = FreshFds /\ work = ErasedPage /\ dst = 1
  /\ todo = <<>> /\ call = NoCall /\ rc = "ok"
  /\ phase = "off" /\ config = Default /\ stored = NoFile /\ asked = {} /\ ops = 0 /\ cuts = 0

Working == SpiffsStep /\ UNCHANGED nodeVars
Continue ==
  \/ Boot \/ Mounted \/ Formatted \/ Remounted \/ Opened \/ ReadIn \/ FileOpened \/ Written
  \/ Removed \/ CmdFormatted \/ CmdMounted
Command ==
  \/ \E value \in Contents : CmdSave(value)
  \/ CmdRemove \/ CmdFormat
Next == Working \/ Continue \/ Command \/ Reset \/ Cut
Spec == Init /\ [][Next]_vars /\ WF_vars(Working \/ Continue)

-----------------------------------------------------------------------------
(* What a boot would find in config.dat.                                    *)
FileNow ==
  IF Named = {} THEN NoFile
  ELSE LET p == FirstFrom(1, Named)
       IN  IF ~ValidHeader(page[p], lu[p]) THEN Broken
           ELSE IF ~Holds(page[p].size) THEN Empty
           ELSE IF DataCheck(page[p].ref) # "ok" THEN Broken
           ELSE Bytes(page[p].ref)
AtRest == Returns("up")
Live == {p \in Objects : InUse(p)}

(* Type invariant: pages, descriptors and cursors lie on the flash, and the *)
(* count of free blocks, from which the garbage collector decides, is never *)
(* negative (it is unsigned in the code).                                   *)
TypeOK ==
  /\ FlashTypeOK
  /\ config \in Contents \cup {Mixed} /\ stored \in Contents \cup {Mixed, NoFile}
  /\ fs.free_cursor \in 1..Pages /\ fs.free_blocks >= 0
  /\ \A f \in Fds : fds[f].hdr \in {0} \cup Objects

(* As long as power never failed in the middle of a call, no call fails for *)
(* want of space: the garbage collector, which takes the blocks in the      *)
(* order of their scores whatever they hold, is never asked to clean when   *)
(* nothing is deleted, never gives up, and leaves a page to move to         *)
(* (spiffs_gc_check, spiffs_obj_lu_find_free).                              *)
HasRoom == cuts = 0 => ~Full

(* As long as power never failed in the middle of a call, every write       *)
(* succeeds and the file holds what was written last, whatever the garbage  *)
(* collector moved and erased in between (spiffs_gc_clean, spiffs_page_move *)
(* and the descriptors that follow, spiffs_cb_object_event).                *)
NothingLost ==
  cuts = 0 /\ AtRest => FileNow = stored /\ (call.name # "remove" => rc # "failed")

(* As long as power never failed in the middle of a call, no descriptor is  *)
(* left open between two commands, whether the calls succeeded or not.      *)
NoneLeaked == cuts = 0 /\ AtRest => \A f \in Fds : ~fds[f].open

(* As long as power never failed in the middle of a call, the flash holds   *)
(* the two pages of the file and no others, and the counters of allocated   *)
(* and deleted pages, which every page written, deleted and erased adjusts, *)
(* agree with the lookup.                                                   *)
Accounted ==
  cuts = 0 /\ AtRest =>
    /\ Cardinality(Live) = IF stored = NoFile THEN 0 ELSE 2
    /\ fs.allocated = Cardinality(Live) /\ fs.deleted = Cardinality(WithId(DELETED))

(* What a boot reads is never torn and never older than what the last call  *)
(* to succeed stored: it is that, or what was on its way since when power   *)
(* failed.  (A file removed after a power failure is another matter:        *)
(* RemovedIsGone.)                                                          *)
NoRevival ==
  [][(phase = "read" /\ phase' = "up" /\ stored # NoFile) => config' \in asked \cup {stored}]_vars

(* A flash that can be mounted can be mounted ever after: wherever power    *)
(* fails, at most one block is left without its magic, and the next mount   *)
(* finishes that one before another block is erased (spiffs_obj_lu_scan).   *)
StaysMountable ==
  [][Cardinality(Bixes \ magic) <= 1 => Cardinality(Bixes \ magic') <= 1]_vars

(* A boot ends, on a flash never formatted and after a power failure at any *)
(* write: mounting, formatting and the garbage collection all end.          *)
BootEnds == (phase = "off") ~> (phase = "up")

(* config_nvs.c prints "Configuration saved." after every save: the file    *)
(* then holds the configuration.                                            *)
SaveIsStored ==
  [][(phase \in {"save", "saving"} /\ phase' = "up") => FileNow = config]_vars

(* config_nvs.c prints "removed config.dat" when SPIFFS_remove returns      *)
(* SPIFFS_OK: the file is then gone.                                        *)
RemovedIsGone ==
  [][(phase = "remove" /\ phase' = "up" /\ rc = "ok") => FileNow = NoFile]_vars

(* spiffs.h calls free_blocks the "current number of free blocks".          *)
FreeBlocksCounted == AtRest => fs.free_blocks = Cardinality(FreeBlocks)
=============================================================================
