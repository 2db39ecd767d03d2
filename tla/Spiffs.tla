------------------------------- MODULE Spiffs -------------------------------
(***************************************************************************)
(* SPIFFS, with the one file of the node: config.dat, a header page and a  *)
(* page of contents.  A call of the file system is a list of steps; each   *)
(* action takes the first and may put others in its place.  No step writes *)
(* the flash more than once, so that power can fail between any two writes. *)
(***************************************************************************)
EXTENDS Flash, Sequences, FiniteSets, FiniteSetsExt

CONSTANTS
  MaxFds,      \* descriptors that fit in spiffsFileDescriptorCache
  Weights      \* SPIFFS_GC_HEUR_W_DELET, _USED and _ERASE_AGE

ASSUME SpiffsAssumption ==
  /\ MaxFds \in Nat \ {0}
  /\ Weights \in [deleted : Int, used : Int, age : Int]

(* Bytes are counted in halves of a data page: a write of config_t, much    *)
(* shorter than a page, is one half.                                        *)
DATA_PAGE_SIZE == 2
LEN == 1
GC_MAX_RUNS == 5

VARIABLES
  fs,      \* the file system object
  fds,     \* its file descriptors
  work,    \* the header page in the work buffer
  dst,     \* the page found last by find_free
  todo,    \* the steps left of the call in progress
  call,    \* that call: its name, descriptor and, of a write, the contents
  rc       \* its result
spiffsVars == <<fs, fds, work, dst, todo, call, rc>>

Fds == 1..MaxFds
FreshFs == [mounted |-> FALSE, free_blocks |-> 0, allocated |-> 0, deleted |-> 0,
            max_erase_count |-> 0, free_cursor |-> 1, cursor |-> 1, cleaning |-> FALSE]
FreshFds == [f \in Fds |->
  [open |-> FALSE, named |-> FALSE, obj |-> DELETED, hdr |-> 0, size |-> ONES]]
NoCall == [name |-> "none", fd |-> 1, value |-> Erased]

-----------------------------------------------------------------------------
(* Steps. *)

Do(d) == [do |-> d]
At(d) == todo # <<>> /\ Head(todo).do = d
Step == Head(todo)
Then(steps) == todo' = steps \o Tail(todo)

(* An error ends the call: SPIFFS_open and SPIFFS_remove give the           *)
(* descriptor back, SPIFFS_close and SPIFFS_read do not.                    *)
Returned(d) == IF call.name \in {"open", "remove"} THEN [d EXCEPT ![call.fd].open = FALSE] ELSE d
Fails ==
  /\ todo' = <<>> /\ rc' = "failed"
  /\ fs' = [fs EXCEPT !.cleaning = FALSE]
  /\ fds' = Returned(fds)
  /\ UNCHANGED <<flash, work, dst, call>>

Erasing(b) == <<[do |-> "erase", b |-> b], [do |-> "count", b |-> b], [do |-> "magic", b |-> b]>>
Deleting(p) == <<[do |-> "unlink", p |-> p], [do |-> "scrap", p |-> p]>>
Putting(image) == [do |-> "page", image |-> image]
Linking(id) == [do |-> "entry", id |-> id]
Event(e, id) == [do |-> e, id |-> id]

(* A search for a free page; what is done when there is none, before the    *)
(* call fails.                                                              *)
FindingOr(steps) == [do |-> "find_free", full |-> steps]
FindingFree == FindingOr(<<>>)

(* spiffs_page_move: the page is written before its entry in the lookup.    *)
Moving(image, id, src) ==
  <<FindingFree, Putting(image), Linking(id)>> \o Deleting(src)
MovingHeaderKept(id, src) ==         \* bug: the old header is not deleted
  <<FindingFree, Putting([work EXCEPT !.flags = (@ \ {"final"}) \cup {"used"}]), Linking(id),
    Do("final")>>
MovingHeader(id, src) ==
  <<FindingFree, Putting([work EXCEPT !.flags = (@ \ {"final"}) \cup {"used"}]), Linking(id),
    Do("final")>> \o Deleting(src)

-----------------------------------------------------------------------------
(* Pages and the lookup. *)

Start(c) == LET p == c % Pages IN IF p % PagesPerBlock = 0 THEN p + 1 ELSE p
CursorBlock(c) == (c - 1) \div PagesPerBlock
WithId(id) == {p \in Objects : lu[p] = id}
InUse(p) == lu[p] \notin {FREE, DELETED}

ValidHeader(pg, id) ==               \* SPIFFS_VALIDATE_OBJIX, span index 0
  /\ {"used", "final", "index"} \subseteq pg.flags /\ "delet" \notin pg.flags
  /\ IsIndex(id) /\ pg.id # ONES

DataCheck(p) ==                      \* spiffs_page_data_check
  IF p = ONES THEN "ref_free"
  ELSE IF p \notin Objects THEN "ref_lu"
  ELSE LET f == page[p].flags
       IN  CASE "used" \notin f -> "is_free"
             [] "delet" \in f -> "deleted"
             [] "final" \notin f -> "not_final"
             [] "index" \in f -> "is_index"
             [] page[p].id = ONES -> "span"
             [] OTHER -> "ok"
Bytes(p) == IF Garbled(page[p]) THEN Mixed ELSE page[p].data

(* spiffs_object_find_object_index_header_by_name_v                         *)
NamedHeader(p) ==
  /\ InUse(p) /\ IsIndex(lu[p]) /\ page[p].id # ONES
  /\ "final" \in page[p].flags /\ page[p].flags \cap {"delet", "ixdele"} = {}
  /\ page[p].named /\ ~Garbled(page[p])
Named == {p \in Objects : NamedHeader(p)}

(* spiffs_obj_lu_find_id_and_span_v, of an index header                     *)
HeadersOf(id) ==
  {p \in WithId(id) : /\ page[p].id = id
                      /\ {"final", "used"} \subseteq page[p].flags
                      /\ page[p].flags \cap {"delet", "ixdele"} = {}}

FreeIds == {n \in Ids : WithId(n) \cup WithId(n + IX_FLAG) = {}}

(* spiffs_cb_object_event: descriptors of object id follow its header and   *)
(* its size, when the event tells it, or are closed with it.                *)
FollowedNot(id, new, size) == fds    \* bug: descriptors keep the old page
Followed(id, new, size) ==
  [f \in Fds |-> IF fds[f].obj # id \/ ~fds[f].named THEN fds[f]
                 ELSE [fds[f] EXCEPT !.hdr = new, !.size = IF size = 0 THEN @ ELSE size]]
Dropped(id) ==
  [f \in Fds |-> IF fds[f].obj = id THEN [fds[f] EXCEPT !.open = FALSE, !.obj = DELETED] ELSE fds[f]]
-----------------------------------------------------------------------------
(* spiffs_erase_block *)

Erase ==
  /\ At("erase") /\ Then(<<>>)
  /\ EraseBlock(Step.b)
  /\ fs' = [fs EXCEPT !.free_blocks = @ + 1]
  /\ UNCHANGED <<fds, work, dst, call, rc>>

WriteCount ==
  /\ At("count") /\ Then(<<>>)
  /\ count' = [count EXCEPT ![Step.b] = And(@, fs.max_erase_count)]
  /\ UNCHANGED <<lu, page, magic, fs, fds, work, dst, call, rc>>

WriteMagic ==
  /\ At("magic") /\ Then(<<>>)
  /\ magic' = magic \cup {Step.b}
  /\ fs' = [fs EXCEPT !.max_erase_count = IF @ + 1 = IX_FLAG THEN 0 ELSE (@ + 1) % (ONES + 1)]
  /\ UNCHANGED <<lu, page, count, fds, work, dst, call, rc>>

(* spiffs_obj_lu_find_free, with spiffs_gc_quick when blocks are few        *)
FewBlocks == ~fs.cleaning /\ fs.free_blocks < 2
FullyDeleted == {b \in Bixes : \A p \in Block(b) : lu[p] = DELETED}
Taking == At("take_free") \/ (At("find_free") /\ ~(FewBlocks /\ FullyDeleted # {}))
NoPage == FewBlocks \/ WithId(FREE) = {}

GcQuick ==
  /\ At("find_free") /\ FewBlocks /\ FullyDeleted # {}
  /\ Then(Erasing(Min(FullyDeleted)) \o <<[do |-> "take_free", full |-> Step.full]>>)
  /\ fs' = [fs EXCEPT !.deleted = @ - Entries]
  /\ UNCHANGED <<flash, fds, work, dst, call, rc>>

TakeFree ==
  /\ Taking
  /\ IF NoPage
     THEN /\ todo' = Step.full \o <<Do("fail")>>
          /\ UNCHANGED <<flash, fs, fds, work, dst, call, rc>>
     ELSE LET p == FirstFrom(Start(fs.free_cursor), WithId(FREE))
          IN  /\ dst' = p
              /\ fs' = [fs EXCEPT !.free_cursor = p + 1,
                          !.free_blocks = IF p = FirstPage(BlockOf(p)) THEN @ - 1 ELSE @]
              /\ Then(<<>>) /\ UNCHANGED <<flash, fds, work, call, rc>>

Fail == At("fail") /\ Fails

-----------------------------------------------------------------------------
(* Writes to the page found and to a page left behind. *)

WriteLu ==
  /\ At("entry") /\ Then(<<>>)
  /\ WriteEntry(dst, Step.id)
  /\ fs' = [fs EXCEPT !.allocated = @ + 1]
  /\ UNCHANGED <<page, magic, count, fds, work, dst, call, rc>>

WriteImage ==
  /\ At("page") /\ Then(<<>>)
  /\ WritePage(dst, Step.image)
  /\ UNCHANGED <<lu, magic, count, fs, fds, work, dst, call, rc>>

Finalize ==
  /\ At("final") /\ Then(<<>>)
  /\ WriteFlags(dst, {"used", "final"})
  /\ UNCHANGED <<lu, magic, count, fs, fds, work, dst, call, rc>>

(* spiffs_page_delete: the entry, then the flags *)
Unlink ==
  /\ At("unlink") /\ Then(<<>>)
  /\ WriteEntry(Step.p, DELETED)
  /\ fs' = [fs EXCEPT !.deleted = @ + 1, !.allocated = @ - 1]
  /\ UNCHANGED <<page, magic, count, fds, work, dst, call, rc>>

Scrap ==
  /\ At("scrap") /\ Then(<<>>)
  /\ WriteFlags(Step.p, {"used", "delet"})
  /\ UNCHANGED <<lu, magic, count, fs, fds, work, dst, call, rc>>

(* The page just written becomes the first data page of the object whose    *)
(* header is in the work buffer.                                            *)
Refer ==
  /\ At("refer") /\ Then(<<>>)
  /\ work' = [work EXCEPT !.ref = dst]
  /\ UNCHANGED <<flash, fs, fds, dst, call, rc>>

(* spiffs_object_update_index_hdr *)
StoreHeader ==
  /\ At("store")
  /\ IF ~ValidHeader(work, Step.id) THEN Fails
     ELSE /\ Then(MovingHeader(Step.id, Step.p) \o <<Event("update", Step.id)>>)
          /\ UNCHANGED <<flash, fs, fds, work, dst, call, rc>>

HeaderMoved ==
  /\ At("update") \/ At("move")
  /\ Then(<<>>)
  /\ fds' = Followed(Step.id, dst, IF At("update") THEN work.size ELSE 0)
  /\ UNCHANGED <<flash, fs, work, dst, call, rc>>

HeaderDeleted ==
  /\ At("delete") /\ Then(<<>>)
  /\ fds' = Dropped(Step.id)
  /\ UNCHANGED <<flash, fs, work, dst, call, rc>>
=============================================================================
