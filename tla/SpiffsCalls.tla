----------------------------- MODULE SpiffsCalls -----------------------------
(***************************************************************************)
(* The calls of the file system the node makes, on its one file: format,   *)
(* mount, open, read, the write that closing flushes from the cache, and   *)
(* remove.  A write of config_t stays in the cache page until SPIFFS_close. *)
(***************************************************************************)
EXTENDS SpiffsGc

Unused == <<flash, fs, fds, work, dst, call, rc>>
Idle == todo = <<>>

(* A call begins.  What was in call is kept when the next call uses the     *)
(* descriptor it left.                                                      *)
Begins(name, value, steps) ==
  /\ Idle /\ todo' = steps /\ rc' = "ok"
  /\ call' = [call EXCEPT !.name = name, !.value = value]

-----------------------------------------------------------------------------
(* SPIFFS_format and SPIFFS_mount *)

Formatting == [i \in 1..Blocks |-> [do |-> "format", b |-> i - 1]]
FormatBlock ==
  /\ At("format") /\ Then(Erasing(Step.b))
  /\ fs' = [fs EXCEPT !.max_erase_count = 0]
  /\ UNCHANGED <<flash, fds, work, dst, call, rc>>

Mounting == <<Do("forget"), Do("scan"), Do("tally")>>
Forget ==
  /\ At("forget") /\ Then(<<>>)
  /\ fs' = FreshFs /\ fds' = FreshFds
  /\ UNCHANGED <<flash, work, dst, call, rc>>

(* spiffs_obj_lu_scan: one block without magic is taken for an erase that   *)
(* was cut short, and finished.                                             *)
NextEraseCount ==
  LET counts == {count[b] : b \in Bixes} \ {ONES}
      low == IF counts = {} THEN ONES ELSE Min(counts)
      high == IF counts = {} THEN 0 ELSE Max(counts)
  IN  IF high - low > ONES \div 2 THEN low + 1 ELSE high + 1
ScanLeaves ==                        \* bug: the block without magic is left so
  /\ At("scan")
  /\ IF Cardinality(Bixes \ magic) > 1 THEN Fails
     ELSE /\ fs' = [fs EXCEPT !.max_erase_count = NextEraseCount] /\ Then(<<>>)
          /\ UNCHANGED <<flash, fds, work, dst, call, rc>>
Scan ==
  /\ At("scan")
  /\ LET unerased == Bixes \ magic
     IN  IF Cardinality(unerased) > 1 THEN Fails
         ELSE /\ fs' = [fs EXCEPT !.max_erase_count = NextEraseCount]
              /\ Then(IF unerased = {} THEN <<>> ELSE Erasing(Min(unerased)))
              /\ UNCHANGED <<flash, fds, work, dst, call, rc>>

FreeBlocks == {b \in Bixes : lu[FirstPage(b)] = FREE}
Tally ==
  /\ At("tally") /\ Then(<<>>)
  /\ fs' = [fs EXCEPT !.mounted = TRUE, !.free_blocks = Cardinality(FreeBlocks),
              !.allocated = Cardinality({p \in Objects : InUse(p)}),
              !.deleted = Cardinality(WithId(DELETED))]
  /\ UNCHANGED <<flash, fds, work, dst, call, rc>>

-----------------------------------------------------------------------------
(* SPIFFS_open *)

Closed == {f \in Fds : ~fds[f].open}
NoDescriptor == todo' = <<>> /\ rc' = "failed" /\ UNCHANGED <<flash, fs, fds, work, dst, call>>

(* spiffs_fd_find_new: of a closed descriptor that knows the file, else the *)
(* first that was never used for a name.                                    *)
Known == {f \in Closed : fds[f].named}
ForName == IF Known # {} THEN Min(Known) ELSE Min(Closed)
Hint(f) == IF fds[f].named THEN Start(fds[f].hdr) ELSE fs.cursor

FreshHeader(id) ==
  [flags |-> {"used", "final", "index"}, id |-> id, data |-> Erased,
   size |-> ONES, ref |-> ONES, named |-> TRUE]
Creating(id) ==                      \* spiffs_object_create
  <<Checking(DATA_PAGE_SIZE), FindingFree, Linking(id), Putting(FreshHeader(id)), Do("created")>>

Open ==
  /\ At("open")
  /\ IF ~fs.mounted \/ Closed = {} THEN NoDescriptor
     ELSE LET f == ForName
          IN  /\ fds' = [fds EXCEPT ![f].open = TRUE, ![f].named = TRUE]
              /\ call' = [call EXCEPT !.fd = f]
              /\ fs' = [fs EXCEPT !.cursor = IF Named # {} THEN FirstFrom(Hint(f), Named) ELSE Hint(f)]
              /\ Then(IF Named # {} THEN <<[do |-> "by_page", p |-> FirstFrom(Hint(f), Named)]>>
                      ELSE IF Step.create /\ FreeIds # {} THEN Creating(Min(FreeIds) + IX_FLAG)
                      ELSE <<Do("fail")>>)
              /\ UNCHANGED <<flash, work, dst, rc>>

(* SPIFFS_EV_IX_NEW, then the page just written is the one opened.          *)
Created ==
  /\ At("created") /\ Then(<<[do |-> "by_page", p |-> dst]>>)
  /\ fds' = Followed(lu[dst], dst, ONES)
  /\ UNCHANGED <<flash, fs, work, dst, call, rc>>

(* spiffs_object_open_by_page *)
OpenByPage ==
  /\ At("by_page")
  /\ LET p == Step.p
         ds == [fds EXCEPT ![call.fd].hdr = p, ![call.fd].size = page[p].size, ![call.fd].obj = lu[p]]
     IN  IF ValidHeader(page[p], lu[p])
         THEN Then(<<>>) /\ fds' = ds /\ UNCHANGED <<flash, fs, work, dst, call, rc>>
         ELSE /\ todo' = <<>> /\ rc' = "failed" /\ fds' = Returned(ds)
              /\ UNCHANGED <<flash, fs, work, dst, call>>

-----------------------------------------------------------------------------
(* SPIFFS_read, and the close that follows when it succeeds *)

Fd == fds[call.fd]
Close == fds' = [fds EXCEPT ![call.fd].open = FALSE]
Holds(size) == size \notin {0, ONES}

Read ==
  /\ At("read")
  /\ IF ~Holds(Fd.size)
     THEN rc' = "empty" /\ Close /\ Then(<<>>) /\ UNCHANGED <<flash, fs, work, dst, call>>
     ELSE IF ~ValidHeader(page[Fd.hdr], Fd.obj) \/ DataCheck(page[Fd.hdr].ref) # "ok" THEN Fails
     ELSE rc' = Bytes(page[Fd.hdr].ref) /\ Close /\ Then(<<>>) /\ UNCHANGED <<flash, fs, work, dst, call>>

-----------------------------------------------------------------------------
(* SPIFFS_close of a file written to: spiffs_hydro_write of the cache page *)

DataPage(flags) ==
  [ErasedPage EXCEPT !.flags = flags, !.id = Fd.obj - IX_FLAG]
Writing(value) == Putting([ErasedPage EXCEPT !.data = value])

Flush ==
  /\ At("flush")
  /\ Then(<<Checking(LEN + DATA_PAGE_SIZE), Do(IF Holds(Fd.size) THEN "modify" ELSE "append")>>)
  /\ UNCHANGED Unused

(* spiffs_object_modify: a page takes the place of the one the header       *)
(* refers to, which is deleted before the header is stored.                 *)
Modify ==
  /\ At("modify")
  /\ LET hdr == page[Fd.hdr]
         id == Fd.obj - IX_FLAG
     IN  IF ~ValidHeader(hdr, Fd.obj) \/ DataCheck(hdr.ref) # "ok" THEN Fails
         ELSE /\ work' = hdr
              /\ Then(<<FindingFree, Linking(id), Putting(DataPage({"used"})), Writing(call.value), Do("final")>>
                      \o Deleting(hdr.ref)
                      \o <<Do("refer"), [do |-> "store", id |-> Fd.obj, p |-> Fd.hdr], Do("close")>>)
              /\ UNCHANGED <<flash, fs, fds, dst, call, rc>>

(* spiffs_object_append to an empty file.  When no page is found the header *)
(* is stored all the same, with size 0.                                     *)
Indexing(size) == [do |-> "index", size |-> size]
AppendTo ==
  /\ At("append")
  /\ LET hdr == page[Fd.hdr]
         id == Fd.obj - IX_FLAG
     IN  IF ~ValidHeader(hdr, Fd.obj) THEN Fails
         ELSE /\ work' = hdr
              /\ Then(<<FindingOr(<<Indexing(0)>>), Linking(id), Putting(DataPage({"used", "final"})),
                        Writing(call.value), Do("refer"), Indexing(LEN), Do("close")>>)
              /\ UNCHANGED <<flash, fs, fds, dst, call, rc>>

StoreIndex ==
  /\ At("index")
  /\ IF ~ValidHeader(page[Fd.hdr], Fd.obj) THEN Fails
     ELSE LET image == [work EXCEPT !.size = Step.size]
          IN  /\ work' = image /\ WritePage(Fd.hdr, image)
              /\ fds' = Followed(Fd.obj, Fd.hdr, Step.size)
              /\ Then(<<>>) /\ UNCHANGED <<lu, magic, count, fs, dst, call, rc>>

CloseFdNot == At("close") /\ Then(<<>>) /\ UNCHANGED Unused    \* bug: the descriptor stays open
CloseFd == At("close") /\ Close /\ Then(<<>>) /\ UNCHANGED <<flash, fs, work, dst, call, rc>>

-----------------------------------------------------------------------------
(* SPIFFS_remove *)

(* Of the closed descriptors one without a name is taken; which of those    *)
(* that know the file, depends on how often each was used.                  *)
Remove ==
  /\ At("remove")
  /\ IF ~fs.mounted \/ Closed = {} \/ Named = {} THEN NoDescriptor
     ELSE LET p == FirstFrom(fs.cursor, Named)
          IN  /\ fs' = [fs EXCEPT !.cursor = p]
              /\ \E f \in IF Closed = Known THEN Known ELSE {Min(Closed \ Known)} :
                   /\ fds' = [fds EXCEPT ![f].open = TRUE]
                   /\ call' = [call EXCEPT !.fd = f]
              /\ Then(<<[do |-> "by_page", p |-> p], Do("mark"), Do("truncate")>>)
              /\ UNCHANGED <<flash, work, dst, rc>>

Mark ==
  /\ At("mark") /\ Then(<<>>)
  /\ WriteFlags(Fd.hdr, {"used", "final", "index", "ixdele"})
  /\ UNCHANGED <<lu, magic, count, fs, fds, work, dst, call, rc>>

(* spiffs_object_truncate, of the whole file.  A page that is not what the  *)
(* header says ends the loop: the header is stored again, SPIFFS_OK is      *)
(* returned and the descriptor stays open.                                  *)
Truncate ==
  /\ At("truncate")
  /\ LET hdr == page[Fd.hdr]
         check == DataCheck(hdr.ref)
         gone == Deleting(Fd.hdr) \o <<Event("delete", Fd.obj)>>
     IN  IF ~ValidHeader(hdr, Fd.obj) THEN Fails
         ELSE /\ work' = IF Holds(Fd.size) THEN [hdr EXCEPT !.ref = ONES] ELSE work
              /\ Then(IF ~Holds(Fd.size) \/ check \in {"deleted", "ref_free"} THEN gone
                      ELSE IF check = "ok" THEN Deleting(hdr.ref) \o gone
                      ELSE <<[do |-> "store", id |-> Fd.obj, p |-> Fd.hdr]>>)
              /\ UNCHANGED <<flash, fs, fds, dst, call, rc>>

-----------------------------------------------------------------------------
CallStep ==
  \/ FormatBlock \/ Forget \/ Scan \/ Tally \/ Open \/ Created \/ OpenByPage
  \/ Read \/ Flush \/ Modify \/ AppendTo \/ StoreIndex \/ CloseFd \/ Remove \/ Mark \/ Truncate
PageStep ==
  \/ Erase \/ WriteCount \/ WriteMagic \/ GcQuick \/ TakeFree \/ Fail \/ WriteLu \/ WriteImage
  \/ Finalize \/ Unlink \/ Scrap \/ Refer \/ StoreHeader \/ HeaderMoved \/ HeaderDeleted
SpiffsStep == CallStep \/ PageStep \/ GcStep
=============================================================================
