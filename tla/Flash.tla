-------------------------------- MODULE Flash --------------------------------
(***************************************************************************)
(* The external flash as SPIFFS uses it: blocks of pages, of which the     *)
(* first is the object lookup, one entry for every other page of the block.*)
(* A write only clears bits: it leaves the conjunction of what was there   *)
(* and what is written.  An erase sets every bit of a block.               *)
(***************************************************************************)
EXTENDS Integers

CONSTANTS
  Blocks,      \* number of blocks
  Entries,     \* pages of a block without its lookup page
  Contents,    \* what can be stored in config.dat
  Erased,      \* contents of an erased page
  Mixed        \* the conjunction of two different contents

PagesPerBlock == Entries + 1
Pages == Blocks * PagesPerBlock
Objects == {p \in 0..(Pages - 1) : p % PagesPerBlock # 0}
Bixes == 0..(Blocks - 1)

BlockOf(p) == p \div PagesPerBlock
FirstPage(b) == b * PagesPerBlock + 1
Block(b) == FirstPage(b)..(FirstPage(b) + Entries - 1)

(* Object ids and page numbers are words of five bits here (sixteen in the  *)
(* code); the highest marks the index pages of an object.                   *)
ONES == 31
IX_FLAG == 16
FREE == ONES
DELETED == 0
Ids == 1..(IX_FLAG - 2)

Bit(w, n) == (w \div n) % 2
And(v, w) == LET both(n) == IF Bit(v, n) = 1 /\ Bit(w, n) = 1 THEN n ELSE 0
             IN  both(1) + both(2) + both(4) + both(8) + both(16)
IsIndex(id) == id >= IX_FLAG

ASSUME FlashAssumption ==
  /\ Blocks \in Nat /\ Blocks > 2 /\ Entries \in Nat /\ Entries > 0
  /\ Erased \notin Contents /\ Mixed \notin Contents /\ Erased # Mixed
ASSUME PagesAreWords == Pages < ONES

VARIABLES
  lu,      \* the object lookup: the id of the object each page belongs to
  page,    \* the pages themselves
  magic,   \* blocks whose erasure was completed
  count    \* how often each block was erased
flash == <<lu, page, magic, count>>

(* flags: the bits cleared; id: of the page header, all ones when no header *)
(* was written; size and ref: size and first data page in an object index   *)
(* header, all ones until the object is written to; named: the header       *)
(* carries the name config.dat.                                             *)
Flags == {"used", "final", "index", "delet", "ixdele"}
Page == [flags : SUBSET Flags, id : 0..ONES, data : Contents \cup {Erased, Mixed},
         size : 0..ONES, ref : 0..ONES, named : BOOLEAN]
ErasedPage == [flags |-> {}, id |-> ONES, data |-> Erased,
               size |-> ONES, ref |-> ONES, named |-> FALSE]

Joined(c, d) == CASE c = Erased -> d [] d = Erased -> c [] c = d -> c [] OTHER -> Mixed
Overlaid(p, q) ==
  [flags |-> p.flags \cup q.flags, id |-> And(p.id, q.id), data |-> Joined(p.data, q.data),
   size |-> And(p.size, q.size), ref |-> And(p.ref, q.ref), named |-> p.named \/ q.named]

(* Contents and the fields of a header share their bytes.                   *)
Garbled(p) == p.named /\ p.data # Erased

(* One call of the write function each: a page or a part of it, and an      *)
(* entry of the lookup.                                                     *)
WritePage(p, image) == page' = [page EXCEPT ![p] = Overlaid(@, image)]
WriteFlags(p, f) == page' = [page EXCEPT ![p].flags = @ \cup f]
WriteEntry(p, id) == lu' = [lu EXCEPT ![p] = And(@, id)]

(* The bytes of a block that hold the count and the magic are erased too.   *)
EraseBlock(b) ==
  /\ lu' = [p \in Objects |-> IF p \in Block(b) THEN FREE ELSE lu[p]]
  /\ page' = [p \in Objects |-> IF p \in Block(b) THEN ErasedPage ELSE page[p]]
  /\ magic' = magic \ {b}
  /\ count' = [count EXCEPT ![b] = ONES]

(* The order in which a search that starts at page s visits the lookup, all *)
(* the way round.                                                           *)
Distance(s, p) == (p - s + Pages) % Pages
FirstFrom(s, S) == CHOOSE p \in S : \A q \in S : Distance(s, p) <= Distance(s, q)

FlashInit ==                          \* never formatted
  /\ lu = [p \in Objects |-> FREE]
  /\ page = [p \in Objects |-> ErasedPage]
  /\ magic = {} /\ count = [b \in Bixes |-> ONES]

FlashTypeOK ==
  /\ lu \in [Objects -> 0..ONES] /\ page \in [Objects -> Page]
  /\ magic \subseteq Bixes /\ count \in [Bixes -> 0..ONES]
=============================================================================
