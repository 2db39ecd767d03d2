----------------------------- MODULE FileStates -----------------------------
(***************************************************************************)
(* Every situation of a node whose power never fails inside a call: what   *)
(* the flash holds, which descriptor knows it, and which steps are left,   *)
(* at each point of a mount, a format, an open, a read, a write and a      *)
(* remove, whatever the garbage collector does in between.  Sound is the   *)
(* invariant that FileProofs proves.                                       *)
(***************************************************************************)
EXTENDS ConfigFile

Words == 0..ONES

-----------------------------------------------------------------------------
(* Lists of steps, named for the first of them; u, v and w are the rest. *)

Cons(x, t) == <<x>> \o t
Erasure(b, u) ==
  Cons([do |-> "erase", b |-> b], Cons([do |-> "count", b |-> b], Cons([do |-> "magic", b |-> b], u)))
Deletion(p, u) == Cons([do |-> "unlink", p |-> p], Cons([do |-> "scrap", p |-> p], u))
TakingOr(e) == [do |-> "take_free", full |-> e]
ByPage(p) == [do |-> "by_page", p |-> p]
Updating(n, u) == Cons(Event("update", n + IX_FLAG), u)
Shifts(img, id, w) == Cons(Putting(img), Cons(Linking(id), w))
Storing(n, h, u) == Cons([do |-> "store", id |-> n + IX_FLAG, p |-> h], u)

-----------------------------------------------------------------------------
(* The flash between two steps.  The pages of a block are used in order, so *)
(* the free pages of a block end it, and where the search for a free page   *)
(* starts, Top, is either the first page of a block or the first free page  *)
(* of its own.                                                              *)

Top == Start(fs.free_cursor)
IsFirst(p) == p = FirstPage(BlockOf(p))
SameBlock(p, q) == BlockOf(p) = BlockOf(q)
Clean(T) == \A p \in Objects \ T : lu[p] = FREE => page[p] = ErasedPage
Suffix == \A p, q \in Objects : SameBlock(p, q) /\ p < q /\ lu[p] = FREE => lu[q] = FREE
Lowest(T) == \A p \in Objects \ T : SameBlock(p, Top) /\ lu[p] = FREE => p >= Top
OnFree == Top \in Objects /\ (IsFirst(Top) \/ lu[Top] = FREE)
Space(T) == Clean(T) /\ Suffix /\ Lowest(T) /\ OnFree
Dry == Clean({}) /\ Suffix
InBlock(b) == BlockOf(Top) = b /\ ~IsFirst(Top)

(* Nothing is half done: the counters, but for the pages of X that          *)
(* spiffs_gc_erase_page_stats has taken off them, and the magic, but for    *)
(* the blocks of M that are being erased, are what the lookup says.         *)
Gone == WithId(DELETED)
Counting(X) == fs.allocated = Cardinality(Live \ X) /\ fs.deleted = Cardinality(Gone \ X)
Flat(X, M) == fs.mounted /\ Space({}) /\ Bixes \ M \subseteq magic /\ Counting(X)

(* A page, dst, is found, and not yet entered in the lookup.                *)
Fresh ==
  /\ dst \in Objects /\ lu[dst] = FREE /\ Top # dst
  /\ \A p \in Objects : SameBlock(p, dst) /\ lu[p] = FREE => p >= dst
Near == \A b \in Bixes : InBlock(b) => BlockOf(dst) = b
Found == fs.mounted /\ Space({dst}) /\ magic = Bixes /\ Counting({}) /\ Fresh /\ Near
Above(p) == SameBlock(dst, p) => dst > p

-----------------------------------------------------------------------------
(* The file: its header, with the one entry of its table, and its page of   *)
(* contents; the descriptor of the call, the only one open.                 *)

Header(n, s, r) ==
  [flags |-> {"used", "final", "index"}, id |-> n + IX_FLAG, data |-> Erased,
   size |-> s, ref |-> r, named |-> TRUE]
Draft(n, s, r) ==
  [flags |-> {"used", "index"}, id |-> n + IX_FLAG, data |-> Erased,
   size |-> s, ref |-> r, named |-> TRUE]
Sheet(f, n, c) ==
  [flags |-> f, id |-> n, data |-> c, size |-> ONES, ref |-> ONES, named |-> FALSE]
Final == {"used", "final"}
Text(c) == [ErasedPage EXCEPT !.data = c]

Holding(d, n, c) == lu[d] = n /\ page[d] = Sheet(Final, n, c)
Whole(h, d, n, c) ==
  /\ Live = {h, d} /\ h # d /\ lu[h] = n + IX_FLAG /\ page[h] = Header(n, LEN, d)
  /\ Holding(d, n, c)
Stable(v) ==
  \/ v = NoFile /\ Live = {}
  \/ v \in Contents /\ \E h, d \in Objects, n \in Ids : Whole(h, d, n, v)
Keeps(h, n, s) ==
  /\ lu[h] = n + IX_FLAG
  /\ \/ s = ONES /\ Live = {h} /\ page[h] = Header(n, ONES, ONES)
     \/ s = LEN /\ \E d \in Objects, c \in Contents : Whole(h, d, n, c)

Shut == \A f \in Fds : ~fds[f].open
Sole == \A f \in Fds : fds[f].open => f = call.fd
Knows(h, n, s) == Sole /\ Fd.hdr = h /\ Fd.obj = n + IX_FLAG /\ Fd.size = s
Using(h, n, size) ==
  Sole /\ Fd.named /\ Fd.hdr = h /\ Fd.obj = n + IX_FLAG /\ Fd.size = size

(* The calls that write.                                                    *)
Creates ==
  /\ call.name = "open" /\ phase \in {"defaults", "save"} /\ rc = "ok" /\ config \in Contents
  /\ Sole /\ Fd.named
Flushes ==
  /\ call.name = "flush" /\ phase \in {"writing", "saving"} /\ rc = "ok"
  /\ call.value = config /\ config \in Contents

-----------------------------------------------------------------------------
(* A page is sought, perhaps by erasing a block of deleted pages; found,    *)
(* written g and not entered; entered as id.  O are the other pages in use. *)

Clearing(b, u) ==
  \/ todo = Erasure(b, u) /\ Flat(Block(b), {}) /\ Live \cap Block(b) = {} /\ ~InBlock(b)
  \/ todo = Cons([do |-> "count", b |-> b], Cons([do |-> "magic", b |-> b], u)) /\ Flat({}, {b})
  \/ todo = Cons([do |-> "magic", b |-> b], u) /\ Flat({}, {b})
Seeking(t) == \E e :
  \/ todo \in {Cons(FindingOr(e), t), Cons(TakingOr(e), t)} /\ Flat({}, {})
  \/ \E b \in Bixes : Clearing(b, Cons(TakingOr(e), t))
Sought(O, t) == Seeking(t) /\ Live = O
Ready(O, g, t) == todo = t /\ Found /\ Live = O /\ page[dst] = g
Laid(O, id, g, t) ==
  /\ todo = t /\ Flat({}, {}) /\ Near
  /\ dst \in Objects \ O /\ Live = O \cup {dst} /\ lu[dst] = id /\ page[dst] = g

(* A page src is moved (spiffs_page_move): img is written, entered, made    *)
(* end, and src is deleted; then src is gone.                               *)
Shifting(src, O, img, end, id, w, u) ==
  \/ Sought({src} \cup O, Shifts(img, id, w))
  \/ Ready({src} \cup O, ErasedPage, Shifts(img, id, w))
  \/ Ready({src} \cup O, img, Cons(Linking(id), w))
  \/ Laid({src} \cup O, id, img, w) /\ Above(src)
  \/ Laid({src} \cup O, id, end, Deletion(src, u)) /\ Above(src)
  \/ Laid(O, id, end, Cons([do |-> "scrap", p |-> src], u)) /\ Above(src) /\ lu[src] = DELETED
Shifted(src, O, end, id, u) == Laid(O, id, end, u) /\ Above(src)

-----------------------------------------------------------------------------
(* Garbage collection.  The call that asked for it goes on with t: it       *)
(* creates the file, writes its first contents or replaces them.            *)

Creation(n) ==
  Cons(Linking(n + IX_FLAG), Cons(Putting(Header(n, ONES, ONES)), Cons(Do("created"), <<>>)))
Appending == Cons(Do("append"), <<>>)
Changing == Cons(Do("modify"), <<>>)
Carried(O, n, g, t) ==
  \/ O = {} /\ g = Header(n, ONES, ONES) /\ t = Appending
  \/ \E d \in Objects, c \in Contents : /\ O = {d} /\ Holding(d, n, c) /\ g = Header(n, LEN, d)
                                       /\ t = Changing
Filed(h, O, n, g, t) ==
  /\ Live = {h} \cup O /\ h \notin O /\ lu[h] = n + IX_FLAG /\ page[h] = g
  /\ Carried(O, n, g, t) /\ Using(h, n, g.size) /\ Flushes
Goal(t) ==
  \/ Live = {} /\ Creates /\ \E n \in Ids : t = Cons(FindingFree, Creation(n))
  \/ \E h \in Objects, n \in Ids : \E O, g : Filed(h, O, n, g, t)
Due(t) == Goal(t) /\ Flat({}, {}) /\ todo = t

(* A block b is cleaned: data pages from one on are looked for, then index  *)
(* pages, and then nothing is left in it and it is erased.  The cursor is   *)
(* in no block that is about to be erased.                                  *)
Plan(b, k, t) == Cons([do |-> "gc_erase", b |-> b], Erasure(b, Cons(k, t)))
Out(b) == InBlock(b) => Live \cap Block(b) # {}
Counts(t) == Flat({}, {}) /\ \E x : x.do \in {"gc_check", "gc_run", "gc_next"} /\ todo = Cons(x, t)
LooksFrom(b, from, k, t) ==
  /\ Flat({}, {}) /\ Out(b) /\ todo = Cons(Finding(b, from), Plan(b, k, t))
  /\ \A p \in Live \cap Block(b) : IsIndex(lu[p]) \/ p >= from
IndexesFrom(b, from, k, t) ==
  /\ Flat({}, {}) /\ Out(b) /\ todo = Cons(MovingIndex(b, from), Plan(b, k, t))
  /\ \A p \in Live \cap Block(b) : IsIndex(lu[p]) /\ p >= from
Looks(b, k, t) == \E from \in Int : LooksFrom(b, from, k, t)
Indexes(b, k, t) == \E from \in Int : IndexesFrom(b, from, k, t)
Leaves(b, k, t) ==
  Flat({}, {}) /\ Live \cap Block(b) = {} /\ ~InBlock(b) /\ todo = Plan(b, k, t)
Cleaned(b, k, t) == Looks(b, k, t) \/ Indexes(b, k, t) \/ Leaves(b, k, t) \/ Clearing(b, Cons(k, t))
Collects(t) == Counts(t) \/ \E b \in Bixes : \E k : k.do = "gc_next" /\ Cleaned(b, k, t)
Collecting(t) == Goal(t) /\ Collects(t)

(* The header is moved out of b, and the descriptors are told.              *)
Telling(b, h, n, k, t) ==
  Cons(Event("move", n + IX_FLAG), Cons(MovingIndex(b, h + 1), Plan(b, k, t)))
MovesIndex(b, k, t) ==
  \E h \in Objects, n \in Ids : \E O, g :
    /\ BlockOf(h) = b /\ h \notin O /\ O \cap Block(b) = {} /\ g \in Page /\ g.size \in {ONES, LEN}
    /\ Carried(O, n, g, t) /\ Using(h, n, g.size) /\ Flushes
    /\ LET v == Telling(b, h, n, k, t)
       IN  \/ Shifting(h, O, g, g, n + IX_FLAG, Deletion(h, v), v)
           \/ Shifted(h, O, g, n + IX_FLAG, v)
Moved(t) == \E b \in Bixes : \E k : k.do = "gc_next" /\ MovesIndex(b, k, t)

(* The page of contents is moved out of b, while work holds the header.     *)
Gathering(h, n, b, d, back, k) == Cons(MovingData(b, d, n, h, back), Plan(b, k, Changing))
AtData(h, n, d, c, b, from, back, k) ==
  /\ Flat({}, {}) /\ Out(b) /\ Live = {h, d} /\ h # d
  /\ Holding(d, n, c) /\ work = Header(n, LEN, d) /\ (d \in Block(b) => d >= from)
  /\ todo = Gathering(h, n, b, from, back, k)
Referring(h, n, b, d, back, k) == Cons(Do("refer"), Gathering(h, n, b, d + 1, back, k))
OnData(h, n, d, c, b, r, back, k) ==
  /\ BlockOf(d) = b /\ d # h /\ work = Header(n, LEN, r)
  /\ LET v == Referring(h, n, b, d, back, k)
         g == Sheet(Final, n, c)
     IN  \/ Shifting(d, {h}, g, g, n, Deletion(d, v), v)
         \/ Shifted(d, {h}, g, n, v)
Gathers(b, k) ==
  \E h \in Objects, n \in Ids, d \in Objects, c \in Contents, back \in Int :
    /\ Using(h, n, LEN) /\ Flushes /\ lu[h] = n + IX_FLAG
    /\ \/ \E from \in Int : AtData(h, n, d, c, b, from, back, k)
       \/ \E r \in Words : OnData(h, n, d, c, b, r, back, k)
Gathered == \E b \in Bixes : \E k : k.do = "gc_next" /\ Gathers(b, k)

(* The header is stored again, after the page of contents was moved or      *)
(* replaced; the collection of b resumes, or the file is closed.            *)
Resumes(u, d, c) ==
  \/ u = Cons(Do("close"), <<>>) /\ c = config
  \/ \E b \in Bixes, back \in Int : \E k :
       k.do = "gc_next" /\ u = Cons(Finding(b, back), Plan(b, k, Changing)) /\ d \notin Block(b)
ToStore(h, n, d, u) ==
  /\ Flat({}, {}) /\ Live = {h, d} /\ lu[h] = n + IX_FLAG /\ work = Header(n, LEN, d)
  /\ todo = Storing(n, h, u)
OnHeader(h, n, d, u) ==
  /\ work.size = LEN
  /\ LET v == Updating(n, u)
         g == Header(n, LEN, d)
         w == Cons(Do("final"), Deletion(h, v))
     IN  \/ Shifting(h, {d}, Draft(n, LEN, d), g, n + IX_FLAG, w, v)
         \/ Shifted(h, {d}, g, n + IX_FLAG, v)
Stores(u) ==
  \E h \in Objects, n \in Ids, d \in Objects, c \in Contents :
    /\ Using(h, n, LEN) /\ Flushes /\ h # d /\ Holding(d, n, c) /\ Resumes(u, d, c)
    /\ ToStore(h, n, d, u) \/ OnHeader(h, n, d, u)
Restored == \E u : Stores(u)

Closes == todo = Cons(Do("close"), <<>>) /\ Flat({}, {}) /\ Flushes /\ Sole /\ Stable(config)
Busy ==
  \/ \E t : Collecting(t) \/ Due(t) \/ Moved(t)
  \/ Gathered \/ Restored \/ Closes

-----------------------------------------------------------------------------
(* The file is created: its header is written, with no contents.            *)

Making(n) ==
  LET g == Header(n, ONES, ONES)
      v == Cons(Do("created"), <<>>)
  IN  \/ Sought({}, Creation(n))
      \/ Ready({}, ErasedPage, Creation(n))
      \/ Laid({}, n + IX_FLAG, ErasedPage, Cons(Putting(g), v))
      \/ Laid({}, n + IX_FLAG, g, v)
Makes == Creates /\ \E n \in Ids : Making(n)

(* The first write: a page of contents is added, and the header, whose      *)
(* size and entry were all ones, is written over.                           *)
Closing == Cons(Do("close"), <<>>)
Sizing == Cons(Indexing(LEN), Closing)
Entering == Cons(Do("refer"), Sizing)
Filling(c) == Cons(Putting(Text(c)), Entering)
Starting(f, n, v) == Cons(Linking(n), Cons(Putting(Sheet(f, n, Erased)), v))
Adding(h, n, c) ==
  LET g == Header(n, ONES, ONES)
  IN  \/ /\ work = g
         /\ \/ Sought({h}, Starting(Final, n, Filling(c)))
            \/ Ready({h}, ErasedPage, Starting(Final, n, Filling(c)))
            \/ Laid({h}, n, ErasedPage, Cons(Putting(Sheet(Final, n, Erased)), Filling(c)))
            \/ Laid({h}, n, Sheet(Final, n, Erased), Filling(c))
            \/ Laid({h}, n, Sheet(Final, n, c), Entering)
      \/ work = Header(n, ONES, dst) /\ Laid({h}, n, Sheet(Final, n, c), Sizing)
Adds ==
  \E h \in Objects, n \in Ids, c \in Contents :
    /\ Using(h, n, ONES) /\ Flushes /\ lu[h] = n + IX_FLAG /\ page[h] = Header(n, ONES, ONES)
    /\ c = config /\ Adding(h, n, c)

(* A later write: a new page of contents takes the place of the old one, d, *)
(* which is deleted, and the header is stored.                              *)
Restoring(n, h) == Cons(Do("refer"), Storing(n, h, Closing))
Altered(n, h, d) == Cons(Do("final"), Deletion(d, Restoring(n, h)))
Refilling(n, h, d, c) == Cons(Putting(Text(c)), Altered(n, h, d))
Altering(n, h, d, c) ==
  LET e == Sheet({"used"}, n, Erased)
      O == {h, d}
      f == Sheet(Final, n, c)
  IN  \/ Sought(O, Starting({"used"}, n, Refilling(n, h, d, c)))
      \/ Ready(O, ErasedPage, Starting({"used"}, n, Refilling(n, h, d, c)))
      \/ Laid(O, n, ErasedPage, Cons(Putting(e), Refilling(n, h, d, c)))
      \/ Laid(O, n, e, Refilling(n, h, d, c))
      \/ Laid(O, n, Sheet({"used"}, n, c), Altered(n, h, d))
      \/ Laid(O, n, f, Deletion(d, Restoring(n, h)))
      \/ Laid({h}, n, f, Cons([do |-> "scrap", p |-> d], Restoring(n, h))) /\ lu[d] = DELETED
      \/ Laid({h}, n, f, Restoring(n, h))
Alters ==
  \E h, d \in Objects, n \in Ids, c \in Contents :
    /\ Using(h, n, LEN) /\ Flushes /\ h # d /\ lu[h] = n + IX_FLAG /\ work = Header(n, LEN, d)
    /\ c = config /\ Altering(n, h, d, c)

AtFlush ==
  /\ Flat({}, {}) /\ Flushes /\ todo = Cons(Do("flush"), <<>>)
  /\ \E h \in Objects, n \in Ids, s \in {ONES, LEN} : Keeps(h, n, s) /\ Using(h, n, s)
Flushed == Flushes /\ Flat({}, {}) /\ Shut /\ Stable(config) /\ todo = <<>>

(* A call that writes, from its first write to its last.                    *)
Engaged == Busy \/ Makes \/ Adds \/ Alters \/ AtFlush

-----------------------------------------------------------------------------
(* The other calls, from their first step to their return. *)

ToTally == Cons(Do("tally"), <<>>)
ToScan == Cons(Do("scan"), ToTally)
ToMount == Cons(Do("forget"), ToScan)
MagicOk == magic = Bixes \/ (magic = {} /\ stored = NoFile)
Mounts == phase \in {"mount", "remount", "cmd_mount"} /\ call.name = "mount" /\ Shut /\ Stable(stored)
MountOk ==
  /\ Mounts
  /\ \/ /\ rc = "ok" /\ Dry /\ MagicOk /\ (phase # "mount" => magic = Bixes)
        /\ \/ todo = ToMount
           \/ todo = ToScan /\ fs.free_cursor = 1
           \/ todo = ToTally /\ fs.free_cursor = 1 /\ magic = Bixes
     \/ phase = "mount" /\ rc = "failed" /\ Dry /\ magic = {} /\ stored = NoFile /\ todo = <<>>
     \/ rc = "ok" /\ Flat({}, {}) /\ todo = <<>>

(* Blocks below k are formatted, those below k that have their magic too.   *)
Formats(b) == [do |-> "format", b |-> b]
FormatFrom(k) == [i \in 1..(Blocks - k) |-> Formats(k + i - 1)]
Blank(k) == \A p \in Objects : BlockOf(p) < k => lu[p] = FREE /\ page[p] = ErasedPage
Marked(k) == \A b \in Bixes : b < k => b \in magic
FormatOk ==
  /\ phase \in {"format", "cmd_format"} /\ call.name = "format" /\ rc = "ok" /\ Shut
  /\ \E k \in 0..Blocks :
       \/ todo = FormatFrom(k) /\ Blank(k) /\ Marked(k)
       \/ /\ k < Blocks
          /\ \/ todo = Erasure(k, FormatFrom(k + 1)) /\ Blank(k) /\ Marked(k)
             \/ /\ todo = Cons([do |-> "count", b |-> k], Cons([do |-> "magic", b |-> k], FormatFrom(k + 1)))
                /\ Blank(k + 1) /\ Marked(k)
             \/ /\ todo = Cons([do |-> "magic", b |-> k], FormatFrom(k + 1))
                /\ Blank(k + 1) /\ Marked(k)

OpensIn ==
  /\ call.name = "open" /\ rc = "ok"
  /\ phase = "open" \/ (phase \in {"defaults", "save"} /\ config \in Contents)
Failing == Cons(Do("fail"), <<>>)
OpensFile ==
  /\ Flat({}, {}) /\ Sole /\ Fd.named
  /\ \E h \in Objects, n \in Ids, s \in {ONES, LEN} :
       Keeps(h, n, s) /\ todo = Cons(ByPage(h), <<>>)
FileOpen ==
  /\ Flat({}, {}) /\ todo = <<>>
  /\ \E h \in Objects, n \in Ids, s \in {ONES, LEN} : Keeps(h, n, s) /\ Using(h, n, s)
OpenOk ==
  \/ /\ OpensIn /\ Shut /\ Flat({}, {}) /\ Stable(stored)
     /\ todo = Cons([do |-> "open", create |-> phase # "open"], <<>>)
  \/ OpensIn /\ phase = "open" /\ Sole /\ Flat({}, {}) /\ Live = {} /\ stored = NoFile /\ todo = Failing
  \/ /\ phase = "open" /\ call.name = "open" /\ rc = "failed" /\ Shut /\ Flat({}, {})
     /\ Live = {} /\ stored = NoFile /\ todo = <<>>
  \/ OpensIn /\ (phase = "open" => Stable(stored)) /\ (OpensFile \/ FileOpen)

Reading == Cons(Do("read"), <<>>)
ReadOk ==
  /\ phase = "read" /\ call.name = "read" /\ Flat({}, {}) /\ Stable(stored)
  /\ \/ /\ rc = "ok" /\ todo = Reading
        /\ \E h \in Objects, n \in Ids, s \in {ONES, LEN} : Keeps(h, n, s) /\ Using(h, n, s)
     \/ rc = stored /\ stored \in Contents /\ Shut /\ todo = <<>>

(* The header is marked, the page of contents deleted, then the header.     *)
Removing == Cons(Do("remove"), <<>>)
Truncating == Cons(Do("truncate"), <<>>)
Marking == Cons(Do("mark"), Truncating)
LastWord(n) == Cons(Event("delete", n + IX_FLAG), <<>>)
Wiping(h, d, n) == Deletion(d, Deletion(h, LastWord(n)))
Removes(h, d, n, c) ==
  \/ Sole /\ Whole(h, d, n, c) /\ todo = Cons(ByPage(h), Marking)
  \/ /\ Knows(h, n, LEN)
     /\ \/ Whole(h, d, n, c) /\ todo = Marking
        \/ /\ Live = {h, d} /\ h # d /\ lu[h] = n + IX_FLAG /\ Holding(d, n, c)
           /\ page[h].ref = d /\ ValidHeader(page[h], n + IX_FLAG) /\ todo = Truncating
        \/ Live = {h, d} /\ h # d /\ todo = Wiping(h, d, n)
        \/ Live = {h} /\ lu[d] = DELETED /\ todo = Cons([do |-> "scrap", p |-> d], Deletion(h, LastWord(n)))
        \/ Live = {h} /\ todo = Deletion(h, LastWord(n))
        \/ Live = {} /\ lu[h] = DELETED /\ todo = Cons([do |-> "scrap", p |-> h], LastWord(n))
        \/ Live = {} /\ todo = LastWord(n)
RemoveOk ==
  /\ phase = "remove" /\ call.name = "remove" /\ Flat({}, {})
  /\ \/ rc = "ok" /\ Shut /\ Stable(stored) /\ todo = Removing
     \/ todo = <<>> /\ Shut /\ Live = {} /\ (rc = "ok" \/ (rc = "failed" /\ stored = NoFile))
     \/ rc = "ok" /\ \E h, d \in Objects, n \in Ids, c \in Contents : Removes(h, d, n, c)

-----------------------------------------------------------------------------
(* The node is off, up and idle, or in one of these calls. *)

OffOk ==
  /\ phase = "off" /\ todo = <<>> /\ rc = "ok"
  /\ Shut /\ Stable(stored) /\ Dry /\ MagicOk
UpOk ==
  /\ phase = "up" /\ todo = <<>> /\ (call.name # "remove" => rc # "failed")
  /\ Shut /\ Stable(stored) /\ Flat({}, {})
Sound ==
  \/ OffOk \/ MountOk \/ FormatOk \/ OpenOk \/ ReadOk \/ RemoveOk
  \/ Engaged \/ Flushed \/ UpOk
=============================================================================
