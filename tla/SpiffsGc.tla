------------------------------ MODULE SpiffsGc ------------------------------
(***************************************************************************)
(* The garbage collection of SPIFFS.  Every call that needs pages begins   *)
(* with spiffs_gc_check, which may clean and erase blocks: the data pages  *)
(* of a block are moved object by object, and the header that refers to    *)
(* them is stored again; then the index pages are moved.                   *)
(***************************************************************************)
EXTENDS Spiffs

FreePages == Entries * (Blocks - 2) - fs.allocated - fs.deleted
Checking(len) == [do |-> "gc_check", len |-> len]
Running(len, tries) == [do |-> "gc_run", len |-> len, tries |-> tries]
Finding(b, from) == [do |-> "gc_find", b |-> b, from |-> from]
MovingData(b, from, id, hdr, back) ==
  [do |-> "gc_data", b |-> b, from |-> from, id |-> id, hdr |-> hdr, back |-> back]
MovingIndex(b, from) == [do |-> "gc_index", b |-> b, from |-> from]

(* The entries of block b from page p on that hold an index, or do not.     *)
Rest(b, p, index) ==
  {q \in Block(b) : q >= p /\ InUse(q) /\ IsIndex(lu[q]) = index}

-----------------------------------------------------------------------------
(* spiffs_gc_check *)

Ample == fs.free_blocks > 3 /\ Step.len < FreePages * DATA_PAGE_SIZE
Scarce == (Step.len + DATA_PAGE_SIZE - 1) \div DATA_PAGE_SIZE > FreePages + fs.deleted
GcCheck ==
  /\ At("gc_check")
  /\ IF Ample
     THEN Then(<<>>) /\ UNCHANGED <<flash, fs, fds, work, dst, call, rc>>
     ELSE IF Scarce THEN Fails
     ELSE Then(<<Running(Step.len, 1)>>) /\ UNCHANGED <<flash, fs, fds, work, dst, call, rc>>

(* spiffs_gc_find_candidate: a block counts up to its first free entry.     *)
Counted(b) ==
  {p \in Block(b) : \A q \in FirstPage(b)..p : lu[q] # FREE}
Age(b) == IF fs.max_erase_count > count[b] THEN fs.max_erase_count - count[b]
          ELSE ONES - (count[b] - fs.max_erase_count)
Score(b) ==
  LET deleted == Cardinality({p \in Counted(b) : lu[p] = DELETED})
  IN  deleted * Weights.deleted + (Cardinality(Counted(b)) - deleted) * Weights.used
        + Age(b) * (IF FreePages <= 0 THEN 0 ELSE Weights.age)
Candidate == Min({b \in Bixes : \A c \in Bixes : Score(c) <= Score(b)})

(* The cursor may stand behind the last entry of a block: that is not yet   *)
(* the next one.                                                            *)
GcRun ==
  /\ At("gc_run")
  /\ LET b == Candidate
     IN  /\ fs' = [fs EXCEPT !.cleaning = TRUE,
                     !.free_cursor = IF CursorBlock(@) = b THEN FirstPage((b + 1) % Blocks) ELSE @]
         /\ Then(<<Finding(b, FirstPage(b)), [do |-> "gc_erase", b |-> b]>> \o Erasing(b)
                 \o <<[do |-> "gc_next", len |-> Step.len, tries |-> Step.tries, prev |-> FreePages]>>)
  /\ UNCHANGED <<flash, fds, work, dst, call, rc>>

Again ==
  /\ ~(Step.prev <= 0 /\ Step.prev = FreePages)
  /\ Step.tries < GC_MAX_RUNS
  /\ fs.free_blocks <= 2 \/ Step.len > FreePages * DATA_PAGE_SIZE
GcNext ==
  /\ At("gc_next")
  /\ IF Again
     THEN /\ Then(<<Running(Step.len, Step.tries + 1)>>)
          /\ UNCHANGED <<flash, fs, fds, work, dst, call, rc>>
     ELSE IF Step.len > FreePages * DATA_PAGE_SIZE THEN Fails
     ELSE Then(<<>>) /\ UNCHANGED <<flash, fs, fds, work, dst, call, rc>>

(* The steps that find no room, for which the call fails.                   *)
Full ==
  \/ At("gc_check") /\ ~Ample /\ Scarce
  \/ At("gc_next") /\ ~Again /\ Step.len > FreePages * DATA_PAGE_SIZE
  \/ Taking /\ NoPage

-----------------------------------------------------------------------------
(* spiffs_gc_clean, state by state *)

(* FIND_OBJ_DATA.  A data page whose object has no header is wiped.         *)
GcFind ==
  /\ At("gc_find")
  /\ LET b == Step.b
         rest == Rest(b, Step.from, FALSE)
     IN  IF rest = {}
         THEN Then(<<MovingIndex(b, FirstPage(b))>>) /\ UNCHANGED <<flash, fs, fds, work, dst, call, rc>>
         ELSE LET p == Min(rest)
                  headers == IF page[p].id = ONES THEN {} ELSE HeadersOf(lu[p] + IX_FLAG)
                  h == FirstFrom(fs.cursor, headers)
              IN  IF headers = {}
                  THEN /\ Then(Deleting(p) \o <<Finding(b, p + 1)>>)
                       /\ UNCHANGED <<flash, fs, fds, work, dst, call, rc>>
                  ELSE IF ~ValidHeader(page[h], lu[p] + IX_FLAG) THEN Fails
                  ELSE /\ fs' = [fs EXCEPT !.cursor = h] /\ work' = page[h]
                       /\ Then(<<MovingData(b, FirstPage(b), lu[p], h, p + 1)>>)
                       /\ UNCHANGED <<flash, fds, dst, call, rc>>

(* MOVE_OBJ_DATA.  What is deleted but still in the lookup is scrapped.     *)
GcMoveData ==
  /\ At("gc_data")
  /\ LET rest == {p \in Rest(Step.b, Step.from, FALSE) : lu[p] = Step.id /\ page[p].id # ONES}
         p == Min(rest)
         next == MovingData(Step.b, p + 1, Step.id, Step.hdr, Step.back)
     IN  IF rest = {}
         THEN /\ Then(<<[do |-> "store", id |-> Step.id + IX_FLAG, p |-> Step.hdr],
                        Finding(Step.b, Step.back)>>)
              /\ UNCHANGED work
         ELSE IF "delet" \notin page[p].flags
         THEN Then(Moving(page[p], Step.id, p) \o <<Do("refer"), next>>) /\ UNCHANGED work
         ELSE Then(Deleting(p) \o <<next>>) /\ work' = [work EXCEPT !.ref = ONES]
  /\ UNCHANGED <<flash, fs, fds, dst, call, rc>>

(* MOVE_OBJ_IX.  Descriptors hear of it when the page is a header.          *)
GcMoveIndex ==
  /\ At("gc_index")
  /\ LET rest == Rest(Step.b, Step.from, TRUE)
         p == Min(rest)
         told(e) == IF page[p].id = ONES THEN <<>> ELSE <<Event(e, lu[p])>>
         next == MovingIndex(Step.b, p + 1)
     IN  Then(IF rest = {} THEN <<>>
              ELSE IF "delet" \notin page[p].flags
              THEN Moving(page[p], lu[p], p) \o told("move") \o <<next>>
              ELSE Deleting(p) \o told("delete") \o <<next>>)
  /\ UNCHANGED <<flash, fs, fds, work, dst, call, rc>>

(* spiffs_gc_erase_page_stats, of the block about to be erased.             *)
GcEraseUncounted ==                  \* bug: the counters are left alone
  /\ At("gc_erase") /\ Then(<<>>)
  /\ fs' = [fs EXCEPT !.cleaning = FALSE]
  /\ UNCHANGED <<flash, fds, work, dst, call, rc>>
GcErase ==
  /\ At("gc_erase") /\ Then(<<>>)
  /\ LET deleted == Cardinality({p \in Block(Step.b) : lu[p] = DELETED})
     IN  fs' = [fs EXCEPT !.cleaning = FALSE, !.deleted = @ - deleted,
                  !.allocated = @ - Cardinality({p \in Block(Step.b) : InUse(p)})]
  /\ UNCHANGED <<flash, fds, work, dst, call, rc>>

GcStep ==
  \/ GcCheck \/ GcRun \/ GcNext \/ GcFind \/ GcMoveData \/ GcMoveIndex \/ GcErase
=============================================================================
