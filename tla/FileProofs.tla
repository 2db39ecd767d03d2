------------------------------ MODULE FileProofs ------------------------------
(***************************************************************************)
(* Three theorems about the file system of a node whose power never failed *)
(* inside a call, for any number of blocks, entries and commands, and any  *)
(* contents: what was saved is what a boot will find, no descriptor stays  *)
(* open, and the counters agree with the flash. They rest on HasRoom, and  *)
(* on an invariant, Sound, that names every situation of every call        *)
(* (FileStates). One lemma per call says that its steps lead from one of   *)
(* its situations to another; they are put together at the end of the      *)
(* module.                                                                 *)
(***************************************************************************)
EXTENDS SpiffsProofs

-----------------------------------------------------------------------------
(* The pages of the file: what they hold, and how it is written.             *)

LEMMA IdWords ==
  \A n \in Ids : /\ n \in Words /\ n + IX_FLAG \in Words /\ n # ONES /\ n + IX_FLAG # ONES
                 /\ n # DELETED /\ n + IX_FLAG # DELETED /\ n \in Nat
                 /\ IsIndex(n + IX_FLAG) /\ ~IsIndex(n) /\ (n + IX_FLAG) - IX_FLAG = n
                 /\ ONES \in Words
  BY DEF Ids, Words, ONES, IX_FLAG, DELETED, IsIndex

LEMMA OnErased == \A g \in Page : Overlaid(ErasedPage, g) = g
<1>. SUFFICES ASSUME NEW g \in Page PROVE Overlaid(ErasedPage, g) = g
  OBVIOUS
<1>1. g.id \in Words /\ g.size \in Words /\ g.ref \in Words /\ g.named \in BOOLEAN
      /\ g = [flags |-> g.flags, id |-> g.id, data |-> g.data, size |-> g.size, ref |-> g.ref, named |-> g.named]
  BY DEF Page, Words
<1>2. And(ONES, g.id) = g.id /\ And(ONES, g.size) = g.size /\ And(ONES, g.ref) = g.ref
  BY <1>1, Wholly
<1>3. {} \cup g.flags = g.flags /\ Joined(Erased, g.data) = g.data
  BY DEF Joined
<1>4. Overlaid(ErasedPage, g) =
        [flags |-> {} \cup g.flags, id |-> And(ONES, g.id), data |-> Joined(Erased, g.data),
         size |-> And(ONES, g.size), ref |-> And(ONES, g.ref), named |-> FALSE \/ g.named]
  BY DEF Overlaid, ErasedPage
<1>5. (FALSE \/ g.named) = g.named
  BY <1>1
<1>. QED BY <1>1, <1>2, <1>3, <1>4, <1>5, Zenon

LEMMA Images ==
  ASSUME NEW n \in Ids, NEW s \in Words, NEW r \in Words, NEW c \in Contents, NEW f \in SUBSET Flags
  PROVE  /\ Header(n, s, r) \in Page /\ Draft(n, s, r) \in Page
         /\ Sheet(f, n, c) \in Page /\ Sheet(f, n, Erased) \in Page
         /\ Overlaid(Sheet(f, n, Erased), Text(c)) = Sheet(f, n, c)
         /\ Overlaid(Header(n, ONES, ONES), Header(n, s, r)) = Header(n, s, r)
<1>1. n \in Words /\ n + IX_FLAG \in Words /\ ONES \in Words
  BY IdWords
<1>2. Header(n, s, r) \in Page /\ Draft(n, s, r) \in Page
  BY <1>1 DEF Header, Draft, Page, Words, Flags
<1>3. Sheet(f, n, c) \in Page /\ Sheet(f, n, Erased) \in Page
  BY <1>1 DEF Sheet, Page, Words, Flags
<1>4. /\ And(n, ONES) = n /\ And(ONES, ONES) = ONES /\ And(n + IX_FLAG, n + IX_FLAG) = n + IX_FLAG
      /\ And(ONES, s) = s /\ And(ONES, r) = r
  BY <1>1, Wholly
<1>5. Joined(Erased, c) = c /\ Joined(Erased, Erased) = Erased
  BY DEF Joined
<1>6. Overlaid(Sheet(f, n, Erased), Text(c)) = Sheet(f, n, c)
  <2>1. Overlaid(Sheet(f, n, Erased), Text(c)) =
          [flags |-> f \cup {}, id |-> And(n, ONES), data |-> Joined(Erased, c),
           size |-> And(ONES, ONES), ref |-> And(ONES, ONES), named |-> FALSE \/ FALSE]
    BY DEF Overlaid, Sheet, Text, ErasedPage
  <2>. QED BY <1>4, <1>5, <2>1 DEF Sheet
<1>7. Overlaid(Header(n, ONES, ONES), Header(n, s, r)) = Header(n, s, r)
  <2>. DEFINE g == {"used", "final", "index"}
  <2>1. Overlaid(Header(n, ONES, ONES), Header(n, s, r)) =
          [flags |-> g \cup g, id |-> And(n + IX_FLAG, n + IX_FLAG), data |-> Joined(Erased, Erased),
           size |-> And(ONES, s), ref |-> And(ONES, r), named |-> TRUE \/ TRUE]
    BY DEF Overlaid, Header
  <2>2. g \cup g = g
    OBVIOUS
  <2>. QED BY <1>4, <1>5, <2>1, <2>2 DEF Header
<1>. QED BY <1>2, <1>3, <1>6, <1>7

Image(f, id, c, s, r, b) ==
  [flags |-> f, id |-> id, data |-> c, size |-> s, ref |-> r, named |-> b]

LEMMA PageFields ==
  \A g \in Page : \A x :
    /\ [g EXCEPT !.flags = x] = Image(x, g.id, g.data, g.size, g.ref, g.named)
    /\ [g EXCEPT !.size = x] = Image(g.flags, g.id, g.data, x, g.ref, g.named)
    /\ [g EXCEPT !.ref = x] = Image(g.flags, g.id, g.data, g.size, x, g.named)
  BY DEF Page, Image

LEMMA Copies ==
  ASSUME NEW n \in Ids, NEW s \in Words, NEW r \in Words
  PROVE  /\ [Draft(n, s, r) EXCEPT !.flags = @ \cup Final] = Header(n, s, r)
         /\ \A c \in Contents : [Sheet({"used"}, n, c) EXCEPT !.flags = @ \cup Final] = Sheet(Final, n, c)
         /\ [Header(n, s, r) EXCEPT !.flags = (@ \ {"final"}) \cup {"used"}] = Draft(n, s, r)
         /\ \A p : /\ [Header(n, s, r) EXCEPT !.ref = p] = Header(n, s, p)
                   /\ [Header(n, s, r) EXCEPT !.size = p] = Header(n, p, r)
<1>1. {"used", "index"} \cup Final = {"used", "final", "index"} /\ {"used"} \cup Final = Final
      /\ ({"used", "final", "index"} \ {"final"}) \cup {"used"} = {"used", "index"}
  BY DEF Final
<1>2. Header(n, s, r) \in Page /\ Draft(n, s, r) \in Page
  BY IdWords DEF Header, Draft, Page, Words, Flags
<1>3. [Draft(n, s, r) EXCEPT !.flags = @ \cup Final] = Header(n, s, r)
  <2>. DEFINE g == Draft(n, s, r)
  <2>1. /\ g.flags = {"used", "index"} /\ g.id = n + IX_FLAG /\ g.data = Erased /\ g.size = s /\ g.ref = r
        /\ g.named = TRUE
    BY DEF Draft
  <2>2. [g EXCEPT !.flags = g.flags \cup Final] = Image(g.flags \cup Final, g.id, g.data, g.size, g.ref, g.named)
    <3>. HIDE DEF g
    <3>. QED BY <1>2, PageFields DEF g
  <2>. QED BY <1>1, <2>1, <2>2, Zenon DEF Header, Image
<1>4. ASSUME NEW c \in Contents
      PROVE  [Sheet({"used"}, n, c) EXCEPT !.flags = @ \cup Final] = Sheet(Final, n, c)
  <2>. DEFINE g == Sheet({"used"}, n, c)
  <2>1. /\ g.flags = {"used"} /\ g.id = n /\ g.data = c /\ g.size = ONES /\ g.ref = ONES
        /\ g.named = FALSE
    BY DEF Sheet
  <2>2. g \in Page
    BY IdWords DEF Sheet, Page, Words, Flags
  <2>3. [g EXCEPT !.flags = g.flags \cup Final] = Image(g.flags \cup Final, g.id, g.data, g.size, g.ref, g.named)
    <3>. HIDE DEF g
    <3>. QED BY <2>2, PageFields DEF g
  <2>. QED BY <1>1, <2>1, <2>3, Zenon DEF Sheet, Image
<1>. DEFINE h == Header(n, s, r)
<1>5. /\ h.flags = {"used", "final", "index"} /\ h.id = n + IX_FLAG /\ h.data = Erased /\ h.size = s /\ h.ref = r
      /\ h.named = TRUE
  BY DEF Header
<1>6. /\ [h EXCEPT !.flags = (h.flags \ {"final"}) \cup {"used"}] =
           Image((h.flags \ {"final"}) \cup {"used"}, h.id, h.data, h.size, h.ref, h.named)
      /\ \A x : /\ [h EXCEPT !.size = x] = Image(h.flags, h.id, h.data, x, h.ref, h.named)
                /\ [h EXCEPT !.ref = x] = Image(h.flags, h.id, h.data, h.size, x, h.named)
  <2>. HIDE DEF h
  <2>. QED BY <1>2, PageFields DEF h
<1>7. [h EXCEPT !.flags = (h.flags \ {"final"}) \cup {"used"}] = Draft(n, s, r)
  BY <1>1, <1>5, <1>6, Zenon DEF Draft, Image
<1>8. ASSUME NEW p
      PROVE  [h EXCEPT !.ref = p] = Header(n, s, p) /\ [h EXCEPT !.size = p] = Header(n, p, r)
  <2>1. /\ [h EXCEPT !.size = p] = Image(h.flags, h.id, h.data, p, h.ref, h.named)
        /\ [h EXCEPT !.ref = p] = Image(h.flags, h.id, h.data, h.size, p, h.named)
    BY <1>6
  <2>2. [h EXCEPT !.ref = p] = Header(n, s, p)
    BY <1>5, <2>1, Zenon DEF Header, Image
  <2>3. [h EXCEPT !.size = p] = Header(n, p, r)
    BY <1>5, <2>1, Zenon DEF Header, Image
  <2>. QED BY <2>2, <2>3
<1>. QED BY <1>3, <1>4, <1>7, <1>8

LEMMA HeaderIsValid ==
  \A n \in Ids : \A s, r, id : IsIndex(id) => ValidHeader(Header(n, s, r), id) /\ ~Garbled(Header(n, s, r))
<1>1. ASSUME NEW n \in Ids, NEW s, NEW r, NEW id, IsIndex(id)
      PROVE  ValidHeader(Header(n, s, r), id) /\ ~Garbled(Header(n, s, r))
  <2>. DEFINE g == Header(n, s, r)
  <2>1. g.flags = {"used", "final", "index"} /\ g.id = n + IX_FLAG /\ g.data = Erased
    BY DEF Header
  <2>2. g.id # ONES
    BY <2>1, IdWords
  <2>. QED BY <1>1, <2>1, <2>2 DEF ValidHeader, Garbled
<1>. QED BY <1>1

-----------------------------------------------------------------------------
(* A page is sought, found and written, entered in the lookup and written    *)
(* on, while the other pages in use, O, stay what they are.                  *)

Same(O) == \A p \in O : lu'[p] = lu[p] /\ page'[p] = page[p]

LEMMA UntouchedIsSame ==
  ASSUME NEW O, Live = O, Untouched
  PROVE  Same(O) /\ Live' = O
  BY DEF Untouched, Same

LEMMA SoughtStep ==
  ASSUME NEW O, NEW t, Listed(t), Sought(O, t), Working, FileInv, ~Full
  PROVE  /\ Same(O) /\ Steady /\ UNCHANGED <<fds, work>>
         /\ Sought(O, t)' \/ Ready(O, ErasedPage, t)'
<1>1. /\ Untouched /\ Steady /\ UNCHANGED <<fds, work>>
      /\ Seeking(t)' \/ (todo' = t /\ Found' /\ page'[dst'] = ErasedPage)
  BY SeekingStep DEF Sought
<1>2. Same(O) /\ Live' = O
  BY <1>1, UntouchedIsSame DEF Sought
<1>. QED BY <1>1, <1>2 DEF Sought, Ready

LEMMA LaidKept ==
  ASSUME NEW O, NEW id, NEW g, NEW t, Laid(O, id, g, t), NEW k, NEW u,
         todo' = u, UNCHANGED <<lu, magic, dst>>, SameCursor, SameCounters,
         \A p \in Objects : lu[p] = FREE => page'[p] = page[p], page'[dst] = k
  PROVE  Laid(O, id, k, u)' /\ UNCHANGED dst
<1>1. Flat({}, {})'
  BY FlatKept DEF Laid
<1>2. Live' = Live /\ \A b : InBlock(b)' <=> InBlock(b)
  BY SameLive, SameTop
<1>3. Near'
  BY <1>2 DEF Laid, Near
<1>. QED BY <1>1, <1>2, <1>3 DEF Laid

LEMMA Fixed == ASSUME SameLookup PROVE SameCursor /\ SameCounters /\ UNCHANGED <<lu, magic, dst>>
  BY DEF SameLookup, SameCursor, SameCounters

LEMMA DstIsLive ==
  ASSUME NEW O, NEW id, NEW g, NEW t, Laid(O, id, g, t)
  PROVE  /\ dst \in Objects /\ dst \in Live /\ dst \notin O /\ O \subseteq Objects
         /\ lu[dst] # FREE /\ lu[dst] # DELETED
         /\ \A p \in O : p \in Live /\ lu[p] # FREE
  BY LiveSets DEF Laid

LEMMA PutStep ==
  ASSUME NEW O, NEW g, NEW i, NEW t, Listed(t), Ready(O, g, Cons(Putting(i), t)), Working, FileInv
  PROVE  /\ Same(O) /\ Steady /\ UNCHANGED <<fds, work, dst>>
         /\ Ready(O, Overlaid(g, i), t)'
<1>1. Here(Putting(i), t)
  BY DEF Here, Ready
<1>2. /\ todo' = t /\ WritePage(dst, i)
      /\ Steady /\ SameLookup /\ UNCHANGED <<fds, work>>
  BY <1>1, DoPage
<1>3. dst \in Objects /\ lu[dst] = FREE /\ page \in [Objects -> Page]
  BY DEF Ready, Found, Fresh, FileInv, Typed, FlashTyped
<1>4. page'[dst] = Overlaid(page[dst], i) /\ \A p \in Objects : p # dst => page'[p] = page[p]
  BY <1>2, <1>3 DEF WritePage
<1>5. Found'
  BY <1>2, <1>4, FoundKept DEF Ready, SameLookup
<1>6. Same(O) /\ Live' = O
  <2>1. Live' = Live /\ \A p \in O : p \in Objects /\ p # dst
    BY <1>2, <1>3, SameLive, LiveSets DEF Ready, SameLookup
  <2>. QED BY <1>2, <1>4, <2>1 DEF Same, Ready, SameLookup
<1>. QED BY <1>2, <1>4, <1>5, <1>6 DEF Ready, SameLookup

LEMMA EnterStep ==
  ASSUME NEW O, NEW g, NEW id \in Words \ {FREE, DELETED}, NEW t, Listed(t),
         Ready(O, g, Cons(Linking(id), t)), Working, FileInv
  PROVE  /\ Same(O) /\ Steady /\ UNCHANGED <<fds, work, dst>>
         /\ Laid(O, id, g, t)' /\ \A p \in O : Above(p)'
<1>1. Here(Linking(id), t)
  BY DEF Here, Ready
<1>2. /\ todo' = t /\ WriteEntry(dst, id) /\ SameCursor
      /\ fs'.allocated = fs.allocated + 1 /\ fs'.deleted = fs.deleted
      /\ Steady /\ UNCHANGED <<page, magic, fds, work, dst>>
  BY <1>1, DoEntry
<1>3. Found /\ Typed
  BY DEF Ready, FileInv
<1>4. /\ Flat({}, {})' /\ Near' /\ Live' = Live \cup {dst} /\ dst \notin Live /\ dst \in Objects
      /\ lu'[dst] = id /\ \A p \in Objects : p # dst => lu'[p] = lu[p]
      /\ \A p \in Live : Above(p)
  BY <1>2, <1>3, PageIsEntered
<1>5. Laid(O, id, g, t)'
  BY <1>2, <1>4 DEF Laid, Ready
<1>6. Same(O)
  BY <1>2, <1>4, LiveSets DEF Same, Ready
<1>7. \A p \in O : Above(p)'
  BY <1>2, <1>4 DEF Above, SameBlock, Ready
<1>. QED BY <1>2, <1>5, <1>6, <1>7

LEMMA WriteStep ==
  ASSUME NEW O, NEW id, NEW g, NEW i, NEW t, Listed(t), Laid(O, id, g, Cons(Putting(i), t)), Working, FileInv
  PROVE  /\ Same(O) /\ Steady /\ UNCHANGED <<fds, work, dst>>
         /\ Laid(O, id, Overlaid(g, i), t)'
<1>1. Here(Putting(i), t)
  BY DEF Here, Laid
<1>2. /\ todo' = t /\ WritePage(dst, i)
      /\ Steady /\ SameLookup /\ UNCHANGED <<fds, work>>
  BY <1>1, DoPage
<1>3. /\ dst \in Objects /\ lu[dst] # FREE /\ dst \notin O /\ O \subseteq Objects
      /\ page \in [Objects -> Page] /\ page[dst] = g
  BY DstIsLive DEF Laid, FileInv, Typed, FlashTyped
<1>4. page'[dst] = Overlaid(g, i) /\ \A p \in Objects : p # dst => page'[p] = page[p]
  BY <1>2, <1>3 DEF WritePage
<1>5. Same(O)
  BY <1>2, <1>3, <1>4 DEF Same, SameLookup
<1>6. \A p \in Objects : lu[p] = FREE => page'[p] = page[p]
  BY <1>3, <1>4
<1>7. Laid(O, id, Overlaid(g, i), t)' /\ UNCHANGED dst
  BY <1>2, <1>4, <1>6, Fixed, LaidKept
<1>. QED BY <1>2, <1>5, <1>7

LEMMA FinalStep ==
  ASSUME NEW O, NEW id, NEW g, NEW t, Listed(t), Laid(O, id, g, Cons(Do("final"), t)), Working, FileInv
  PROVE  /\ Same(O) /\ Steady /\ UNCHANGED <<fds, work, dst>>
         /\ Laid(O, id, [g EXCEPT !.flags = @ \cup Final], t)'
<1>1. Here(Do("final"), t)
  BY DEF Here, Laid
<1>2. /\ todo' = t /\ WriteFlags(dst, Final)
      /\ Steady /\ SameLookup /\ UNCHANGED <<fds, work>>
  BY <1>1, DoFinal DEF Final
<1>3. /\ dst \in Objects /\ lu[dst] # FREE /\ dst \notin O /\ O \subseteq Objects
      /\ page \in [Objects -> Page] /\ page[dst] = g
  BY DstIsLive DEF Laid, FileInv, Typed, FlashTyped
<1>4. /\ page'[dst] = [g EXCEPT !.flags = @ \cup Final]
      /\ \A p \in Objects : p # dst => page'[p] = page[p]
  BY <1>2, <1>3 DEF WriteFlags
<1>5. Same(O)
  BY <1>2, <1>3, <1>4 DEF Same, SameLookup
<1>6. \A p \in Objects : lu[p] = FREE => page'[p] = page[p]
  BY <1>3, <1>4
<1>7. Laid(O, id, [g EXCEPT !.flags = @ \cup Final], t)' /\ UNCHANGED dst
  BY <1>2, <1>4, <1>6, Fixed, LaidKept
<1>. QED BY <1>2, <1>5, <1>7

LEMMA ReferStep ==
  ASSUME NEW O, NEW id, NEW g, NEW t, Listed(t), Laid(O, id, g, Cons(Do("refer"), t)), Working, FileInv
  PROVE  /\ Same(O) /\ Steady /\ UNCHANGED <<fds, dst>> /\ work' = [work EXCEPT !.ref = dst]
         /\ Laid(O, id, g, t)'
<1>1. Here(Do("refer"), t)
  BY DEF Here, Laid
<1>2. /\ todo' = t /\ work' = [work EXCEPT !.ref = dst]
      /\ Steady /\ SameLookup /\ UNCHANGED <<page, fds>>
  BY <1>1, DoRefer
<1>3. Laid(O, id, g, t)' /\ UNCHANGED dst
  BY <1>2, Fixed, LaidKept DEF Laid
<1>. QED BY <1>2, <1>3 DEF Same, SameLookup

LEMMA UnlinkStep ==
  ASSUME NEW O, NEW id, NEW g, NEW p \in O, NEW t, Listed(t),
         Laid(O, id, g, Cons([do |-> "unlink", p |-> p], t)), Working, FileInv
  PROVE  /\ Same(O \ {p}) /\ Steady /\ UNCHANGED <<fds, work, dst>>
         /\ Laid(O \ {p}, id, g, t)' /\ p \in Objects /\ lu'[p] = DELETED
<1>1. Here([do |-> "unlink", p |-> p], t)
  BY DEF Here, Laid
<1>2. /\ todo' = t /\ WriteEntry(p, DELETED) /\ SameCursor
      /\ fs'.allocated = fs.allocated - 1 /\ fs'.deleted = fs.deleted + 1
      /\ Steady /\ UNCHANGED <<page, magic, fds, work, dst>>
  BY <1>1, DoUnlink
<1>3. p \in Live /\ Flat({}, {}) /\ Typed /\ dst \in Objects /\ dst # p /\ O \subseteq Objects
  BY DstIsLive DEF Laid, FileInv
<1>4. /\ Flat({}, {})' /\ Live' = Live \ {p} /\ p \in Objects /\ lu'[p] = DELETED
      /\ \A q \in Objects : q # p => lu'[q] = lu[q]
  BY <1>2, <1>3, PageIsUnlinked
<1>5. Near'
  BY <1>2, SameTop DEF Laid, Near
<1>6. Laid(O \ {p}, id, g, t)'
  BY <1>2, <1>3, <1>4, <1>5 DEF Laid
<1>7. Same(O \ {p})
  BY <1>2, <1>3, <1>4 DEF Same
<1>. QED BY <1>2, <1>4, <1>6, <1>7

LEMMA ScrapStep ==
  ASSUME NEW O, NEW id, NEW g, NEW p \in Objects, NEW t, Listed(t), lu[p] = DELETED,
         Laid(O, id, g, Cons([do |-> "scrap", p |-> p], t)), Working, FileInv
  PROVE  /\ Same(O) /\ Steady /\ UNCHANGED <<fds, work, dst>>
         /\ Laid(O, id, g, t)' /\ lu'[p] = DELETED
<1>1. Here([do |-> "scrap", p |-> p], t)
  BY DEF Here, Laid
<1>2. /\ todo' = t /\ WriteFlags(p, {"used", "delet"})
      /\ Steady /\ SameLookup /\ UNCHANGED <<fds, work>>
  BY <1>1, DoScrap
<1>3. /\ dst \in Objects /\ lu[dst] # DELETED /\ O \subseteq Objects /\ \A q \in O : q \in Live
      /\ page \in [Objects -> Page] /\ page[dst] = g
  BY DstIsLive DEF Laid, FileInv, Typed, FlashTyped
<1>4. \A q \in Objects : q # p => page'[q] = page[q]
  BY <1>2, <1>3 DEF WriteFlags
<1>5. p # dst /\ p \notin O
  BY <1>3, LiveSets
<1>6. Same(O)
  BY <1>2, <1>3, <1>4, <1>5 DEF Same, SameLookup
<1>7. page'[dst] = g /\ \A q \in Objects : lu[q] = FREE => page'[q] = page[q]
  BY <1>3, <1>4, <1>5 DEF FREE, ONES, DELETED
<1>8. Laid(O, id, g, t)' /\ UNCHANGED dst
  BY <1>2, <1>7, Fixed, LaidKept
<1>. QED BY <1>2, <1>6, <1>8 DEF SameLookup

-----------------------------------------------------------------------------
(* A page is moved (spiffs_page_move): found, written, entered, perhaps made *)
(* final; then the page it was moved from is deleted.                        *)

(* What remains of a move once the page is entered: the page of a file       *)
(* that is written anew is made final first.                                 *)
Finishes(img, end, src, w, u) ==
  \/ w = Deletion(src, u) /\ img = end
  \/ w = Cons(Do("final"), Deletion(src, u)) /\ end = [img EXCEPT !.flags = @ \cup Final]

LEMMA AboveKept == ASSUME NEW p, UNCHANGED dst, Above(p) PROVE Above(p)'
  BY DEF Above, SameBlock

LEMMA FewerSame == ASSUME NEW O, NEW P, O \subseteq P, Same(P) PROVE Same(O)
  BY DEF Same

LEMMA ShiftStep ==
  ASSUME NEW src \in Objects, NEW O, src \notin O, NEW img \in Page, NEW end,
         NEW id \in Words \ {FREE, DELETED}, NEW w, NEW u, Listed(u), Finishes(img, end, src, w, u),
         Shifting(src, O, img, end, id, w, u), Working, FileInv, ~Full
  PROVE  /\ Same(O) /\ Steady /\ UNCHANGED <<fds, work>>
         /\ Shifting(src, O, img, end, id, w, u)' \/ Shifted(src, O, end, id, u)'
<1>. DEFINE P == {src} \cup O
            x == Cons([do |-> "scrap", p |-> src], u)
            y == Deletion(src, u)
            z == Cons(Linking(id), w)
<1>1. O \subseteq P /\ src \in P /\ P \ {src} = O
  OBVIOUS
<1>2. Listed(x) /\ Listed(y) /\ Listed(w) /\ Listed(z) /\ Listed(Shifts(img, id, w))
      /\ y = Cons([do |-> "unlink", p |-> src], x)
  BY ConsFacts DEF Finishes, Deletion, Shifts
<1>3. Same(P) => Same(O)
  BY <1>1, FewerSame
<1>. HIDE DEF P, x, y, z
<1>4. CASE Sought(P, Shifts(img, id, w))
  <2>1. /\ Same(P) /\ Steady /\ UNCHANGED <<fds, work>>
        /\ Sought(P, Shifts(img, id, w))' \/ Ready(P, ErasedPage, Shifts(img, id, w))'
    BY <1>2, <1>4, SoughtStep
  <2>. QED BY <1>3, <2>1 DEF Shifting, P
<1>5. CASE Ready(P, ErasedPage, Shifts(img, id, w))
  <2>1. Ready(P, ErasedPage, Cons(Putting(img), z))
    BY <1>5 DEF Shifts, z
  <2>2. /\ Same(P) /\ Steady /\ UNCHANGED <<fds, work, dst>>
        /\ Ready(P, Overlaid(ErasedPage, img), z)'
    BY <1>2, <2>1, PutStep
  <2>3. Overlaid(ErasedPage, img) = img
    BY OnErased
  <2>4. Ready(P, img, z)'
    BY <2>2, <2>3
  <2>. QED BY <1>3, <2>2, <2>4 DEF Shifting, P, z
<1>6. CASE Ready(P, img, z)
  <2>1. Ready(P, img, Cons(Linking(id), w))
    BY <1>6 DEF z
  <2>2. /\ Same(P) /\ Steady /\ UNCHANGED <<fds, work, dst>>
        /\ Laid(P, id, img, w)' /\ \A p \in P : Above(p)'
    BY <1>2, <2>1, EnterStep
  <2>. QED BY <1>1, <1>3, <2>2 DEF Shifting, P
<1>7. ASSUME Laid(P, id, end, y), Above(src)
      PROVE  /\ Same(O) /\ Steady /\ UNCHANGED <<fds, work>>
             /\ Shifting(src, O, img, end, id, w, u)'
  <2>1. Laid(P, id, end, Cons([do |-> "unlink", p |-> src], x))
    BY <1>2, <1>7
  <2>2. /\ Same(P \ {src}) /\ Steady /\ UNCHANGED <<fds, work, dst>>
        /\ Laid(P \ {src}, id, end, x)' /\ src \in Objects /\ lu'[src] = DELETED
    BY <1>1, <1>2, <2>1, UnlinkStep
  <2>3. Above(src)'
    BY <1>7, <2>2, AboveKept
  <2>4. Same(O) /\ Laid(O, id, end, x)'
    BY <1>1, <2>2
  <2>. QED BY <2>2, <2>3, <2>4 DEF Shifting, x
<1>8. CASE Laid(P, id, img, w) /\ Above(src)
  <2>1. CASE w = y /\ img = end
    BY <1>7, <1>8, <2>1
  <2>2. CASE w = Cons(Do("final"), y) /\ end = [img EXCEPT !.flags = @ \cup Final]
    <3>1. Laid(P, id, img, Cons(Do("final"), y))
      BY <1>8, <2>2
    <3>2. /\ Same(P) /\ Steady /\ UNCHANGED <<fds, work, dst>>
          /\ Laid(P, id, [img EXCEPT !.flags = @ \cup Final], y)'
      BY <1>2, <3>1, FinalStep
    <3>3. Laid(P, id, end, y)' /\ Above(src)'
      BY <1>8, <2>2, <3>2, AboveKept
    <3>. QED BY <1>3, <3>2, <3>3 DEF Shifting, P, y
  <2>. QED BY <2>1, <2>2 DEF Finishes, y
<1>9. CASE Laid(O, id, end, x) /\ Above(src) /\ lu[src] = DELETED
  <2>1. Laid(O, id, end, Cons([do |-> "scrap", p |-> src], u))
    BY <1>9 DEF x
  <2>2. /\ Same(O) /\ Steady /\ UNCHANGED <<fds, work, dst>>
        /\ Laid(O, id, end, u)' /\ lu'[src] = DELETED
    BY <1>9, <2>1, ScrapStep
  <2>3. Above(src)'
    BY <1>9, <2>2, AboveKept
  <2>. QED BY <2>2, <2>3 DEF Shifted
<1>. QED BY <1>4, <1>5, <1>6, <1>7, <1>8, <1>9 DEF Shifting, P, x, y, z

-----------------------------------------------------------------------------
(* The file, its descriptor, and what a call that begins with a garbage      *)
(* collection goes on to do.                                                 *)

LEMMA ShortListed ==
  /\ Listed(Appending) /\ Listed(Changing)
  /\ \A n : Listed(Creation(n)) /\ Listed(Cons(FindingFree, Creation(n)))
  BY NilListed, ConsFacts DEF Appending, Changing, Creation

LEMMA GoalListed == \A t : Goal(t) => Listed(t)
  BY ShortListed DEF Goal, Filed, Carried

LEMMA StillCalled ==
  ASSUME Steady, UNCHANGED fds
  PROVE  (Flushes => Flushes') /\ (Creates => Creates') /\ (Sole => Sole') /\ Fd' = Fd
<1>1. UNCHANGED <<call, rc, phase, config>> /\ fds' = fds
  BY DEF Steady
<1>. QED BY <1>1 DEF Flushes, Creates, Sole, Fd

LEMMA StillUsing ==
  ASSUME NEW h, NEW n, NEW s, Using(h, n, s), Steady, UNCHANGED fds
  PROVE  Using(h, n, s)'
  BY StillCalled DEF Using

LEMMA StillCarried ==
  ASSUME NEW O, NEW n, NEW g, NEW t, Carried(O, n, g, t), Same(O)
  PROVE  Carried(O, n, g, t)'
<1>1. CASE O = {} /\ g = Header(n, ONES, ONES) /\ t = Appending
  BY <1>1 DEF Carried
<1>2. ASSUME NEW d \in Objects, NEW c \in Contents, O = {d}, Holding(d, n, c), g = Header(n, LEN, d),
             t = Changing
      PROVE  Carried(O, n, g, t)'
  <2>1. Holding(d, n, c)'
    BY <1>2 DEF Holding, Same
  <2>. QED BY <1>2, <2>1 DEF Carried
<1>. QED BY <1>1, <1>2 DEF Carried

LEMMA StillFiled ==
  ASSUME NEW h, NEW O, NEW n, NEW g, NEW t, Filed(h, O, n, g, t), Untouched, Steady, UNCHANGED fds
  PROVE  Filed(h, O, n, g, t)'
<1>1. Live' = Live /\ lu'[h] = lu[h] /\ page'[h] = page[h] /\ Same(O)
  BY DEF Filed, Untouched, Same
<1>. DEFINE s == g.size
<1>2. Carried(O, n, g, t) /\ Using(h, n, s) /\ Flushes
  BY DEF Filed
<1>3. Carried(O, n, g, t)'
  BY <1>1, <1>2, StillCarried
<1>. HIDE DEF s
<1>4. Using(h, n, s)' /\ Flushes'
  BY <1>2, StillUsing, StillCalled
<1>. QED BY <1>1, <1>3, <1>4 DEF Filed, s

LEMMA StillGoal ==
  ASSUME NEW t, Goal(t), Untouched, Steady, UNCHANGED fds
  PROVE  Goal(t)'
<1>1. CASE Live = {} /\ Creates /\ \E n \in Ids : t = Cons(FindingFree, Creation(n))
  <2>1. Live' = {} /\ Creates'
    BY <1>1, StillCalled DEF Untouched
  <2>. QED BY <1>1, <2>1 DEF Goal
<1>2. ASSUME NEW h \in Objects, NEW n \in Ids, NEW O, NEW g, Filed(h, O, n, g, t)
      PROVE  Goal(t)'
  <2>1. Filed(h, O, n, g, t)'
    BY <1>2, StillFiled
  <2>. QED BY <2>1 DEF Goal
<1>. QED BY <1>1, <1>2 DEF Goal

-----------------------------------------------------------------------------
(* The garbage collection, between two moves of pages.                       *)

LEMMA PlanListed ==
  \A b, k, t : Listed(t) =>
    /\ Listed(Plan(b, k, t)) /\ Listed(Erasure(b, Cons(k, t))) /\ Listed(Cons(k, t))
    /\ \A x : Listed(Cons(x, Plan(b, k, t)))
  BY ConsFacts DEF Plan, Erasure

LEMMA TwoListed == \A x, y : Listed(<<x, y>>)
<1>. SUFFICES ASSUME NEW x, NEW y PROVE Listed(<<x, y>>)
  OBVIOUS
<1>1. Listed(<<x>>) /\ Listed(<<y>>) /\ <<x, y>> = <<x>> \o <<y>>
  BY ShortLists, OneListed
<1>2. Listed(<<x>> \o <<y>>)
  BY <1>1, Onto
<1>. QED BY <1>1, <1>2, Zenon

LEMMA PlanList ==
  \A b, x, k, t : Listed(t) =>
    (<<x, [do |-> "gc_erase", b |-> b]>> \o Erasing(b) \o <<k>>) \o t = Cons(x, Plan(b, k, t))
<1>. SUFFICES ASSUME NEW b, NEW x, NEW k, NEW t, Listed(t)
     PROVE  (<<x, [do |-> "gc_erase", b |-> b]>> \o Erasing(b) \o <<k>>) \o t = Cons(x, Plan(b, k, t))
  OBVIOUS
<1>. DEFINE e == [do |-> "gc_erase", b |-> b]
            q == <<x, e>>
            r == Erasing(b)
<1>1. Listed(r) /\ Listed(<<k>>)
  BY ErasingList, OneListed DEF List, Listed
<1>2. Listed(q)
  BY TwoListed
<1>3. (r \o <<k>>) \o t = Erasure(b, Cons(k, t))
  BY QuickList
<1>4. q \o Erasure(b, Cons(k, t)) = Cons(x, Plan(b, k, t))
  <2>1. Listed(Erasure(b, Cons(k, t))) /\ Plan(b, k, t) = Cons(e, Erasure(b, Cons(k, t)))
    BY PlanListed DEF Plan
  <2>. HIDE DEF e
  <2>. QED BY <2>1, ConsPairs
<1>. HIDE DEF q, r
<1>5. Listed(r \o <<k>>) /\ (q \o r) \o <<k>> = q \o (r \o <<k>>)
  BY <1>1, <1>2, Onto
<1>6. (q \o (r \o <<k>>)) \o t = q \o ((r \o <<k>>) \o t)
  BY <1>2, <1>5, Onto
<1>7. ((q \o r) \o <<k>>) \o t = Cons(x, Plan(b, k, t))
  BY <1>3, <1>4, <1>5, <1>6, Zenon
<1>. QED BY <1>7 DEF q, r

-----------------------------------------------------------------------------
(* A step that leaves the flash, the cursor and the counters alone. *)

LEMMA NothingTouched ==
  ASSUME UNCHANGED flash, SameCursor, SameCounters, Flat({}, {})
  PROVE  Flat({}, {})' /\ Untouched
<1>1. UNCHANGED <<lu, page, magic>>
  BY DEF flash
<1>. QED BY <1>1, FlatKept, SameIsUntouched

LEMMA SameFields == ASSUME UNCHANGED fs PROVE SameCursor /\ SameCounters
  BY DEF SameCursor, SameCounters

LEMMA CheckStep ==
  ASSUME NEW t, Listed(t), NEW x, x.do = "gc_check", todo = Cons(x, t), Flat({}, {}), Working, FileInv, ~Full
  PROVE  /\ Untouched /\ Steady /\ UNCHANGED fds
         /\ Counts(t)' \/ (Flat({}, {})' /\ todo' = t)
<1>1. Here(x, t)
  BY DEF Here
<1>2. /\ At("gc_check") /\ GcCheck /\ UNCHANGED <<phase, config, stored, cuts>>
      /\ \A s : Then(s) <=> todo' = s \o t
      /\ Then(<<>>) <=> todo' = t
  <2>1. /\ At("gc_check") /\ SpiffsStep /\ UNCHANGED <<phase, config, stored, cuts>>
        /\ \A s : Then(s) <=> todo' = s \o t
        /\ Then(<<>>) <=> todo' = t
    BY <1>1, HereFacts
  <2>. QED BY <2>1, Dispatch
<1>3. Ample \/ ~Scarce
  BY <1>2 DEF Full
<1>4. /\ UNCHANGED <<flash, fs, fds, call, rc>>
      /\ todo' = t \/ todo' = <<Running(Step.len, 1)>> \o t
  BY <1>2, <1>3 DEF GcCheck
<1>5. Flat({}, {})' /\ Untouched
  BY <1>4, NothingTouched, SameFields
<1>6. CASE todo' = <<Running(Step.len, 1)>> \o t
  <2>1. PICK z : z = Running(Step.len, 1)
    OBVIOUS
  <2>2. z.do = "gc_run"
    BY <2>1 DEF Running
  <2>3. todo' = Cons(z, t)
    BY <1>6, <2>1 DEF Cons
  <2>4. Counts(t)'
    BY <1>5, <2>2, <2>3 DEF Counts
  <2>. QED BY <1>2, <1>4, <1>5, <2>4 DEF Steady
<1>. QED BY <1>2, <1>4, <1>5, <1>6 DEF Steady

LEMMA AfterBlock ==
  ASSUME NEW t, Listed(t), NEW x, x.do = "gc_next", todo = Cons(x, t), Flat({}, {}), Working, FileInv, ~Full
  PROVE  /\ Untouched /\ Steady /\ UNCHANGED fds
         /\ Counts(t)' \/ (Flat({}, {})' /\ todo' = t)
<1>1. Here(x, t)
  BY DEF Here
<1>2. /\ At("gc_next") /\ GcNext /\ UNCHANGED <<phase, config, stored, cuts>>
      /\ \A s : Then(s) <=> todo' = s \o t
      /\ Then(<<>>) <=> todo' = t
  <2>1. /\ At("gc_next") /\ SpiffsStep /\ UNCHANGED <<phase, config, stored, cuts>>
        /\ \A s : Then(s) <=> todo' = s \o t
        /\ Then(<<>>) <=> todo' = t
    BY <1>1, HereFacts
  <2>. QED BY <2>1, Dispatch
<1>3. Again \/ ~(Step.len > FreePages * DATA_PAGE_SIZE)
  BY <1>2 DEF Full
<1>4. /\ UNCHANGED <<flash, fs, fds, call, rc>>
      /\ todo' = t \/ todo' = <<Running(Step.len, Step.tries + 1)>> \o t
  BY <1>2, <1>3 DEF GcNext
<1>5. Flat({}, {})' /\ Untouched
  BY <1>4, NothingTouched, SameFields
<1>6. CASE todo' = <<Running(Step.len, Step.tries + 1)>> \o t
  <2>1. PICK z : z = Running(Step.len, Step.tries + 1)
    OBVIOUS
  <2>2. z.do = "gc_run"
    BY <2>1 DEF Running
  <2>3. todo' = Cons(z, t)
    BY <1>6, <2>1 DEF Cons
  <2>4. Counts(t)'
    BY <1>5, <2>2, <2>3 DEF Counts
  <2>. QED BY <1>2, <1>4, <1>5, <2>4 DEF Steady
<1>. QED BY <1>2, <1>4, <1>5, <1>6 DEF Steady

LEMMA RunStep ==
  ASSUME NEW t, Listed(t), NEW x, x.do = "gc_run", todo = Cons(x, t), Flat({}, {}), Working, FileInv
  PROVE  /\ Untouched /\ Steady /\ UNCHANGED fds
         /\ \E b \in Bixes : \E k : k.do = "gc_next" /\ Looks(b, k, t)'
<1>1. Here(x, t)
  BY DEF Here
<1>2. /\ GcRun /\ UNCHANGED <<phase, config, stored, cuts>> /\ Typed
      /\ \A s : Then(s) <=> todo' = s \o t
  <2>1. /\ At("gc_run") /\ SpiffsStep /\ UNCHANGED <<phase, config, stored, cuts>> /\ Typed
        /\ \A s : Then(s) <=> todo' = s \o t
    BY <1>1, HereFacts
  <2>. QED BY <2>1, Dispatch
<1>3. PICK b \in Bixes : b = Candidate
  BY <1>2, CandidateIsBlock
<1>4. PICK k : k = [do |-> "gc_next", len |-> Step.len, tries |-> Step.tries, prev |-> FreePages]
  OBVIOUS
<1>5. k.do = "gc_next"
  BY <1>4
<1>6. PICK f : f = Finding(b, FirstPage(b))
  OBVIOUS
<1>7. /\ fs' = [fs EXCEPT !.cleaning = TRUE,
                  !.free_cursor = IF CursorBlock(@) = b THEN FirstPage((b + 1) % Blocks) ELSE @]
      /\ Then(<<f, [do |-> "gc_erase", b |-> b]>> \o Erasing(b) \o <<k>>)
      /\ UNCHANGED <<flash, fds, call, rc>>
  BY <1>2, <1>3, <1>4, <1>6 DEF GcRun
<1>8. todo' = Cons(f, Plan(b, k, t))
  <2>1. todo' = (<<f, [do |-> "gc_erase", b |-> b]>> \o Erasing(b) \o <<k>>) \o t
    BY <1>2, <1>7
  <2>2. (<<f, [do |-> "gc_erase", b |-> b]>> \o Erasing(b) \o <<k>>) \o t = Cons(f, Plan(b, k, t))
    BY PlanList
  <2>. QED BY <2>1, <2>2, Zenon
<1>9. /\ SameCounters /\ fs'.mounted = fs.mounted /\ fs.free_cursor \in 1..Pages
      /\ fs'.free_cursor = IF CursorBlock(fs.free_cursor) = b THEN FirstPage((b + 1) % Blocks) ELSE fs.free_cursor
  BY <1>2, <1>7 DEF Typed, FsType, SameCounters
<1>10. Flat({}, {})' /\ ~InBlock(b)'
  BY <1>7, <1>9, CursorIsMoved DEF flash
<1>11. Untouched
  BY <1>7, SameIsUntouched DEF flash
<1>12. FirstPage(b) \in Int /\ \A p \in Block(b) : p >= FirstPage(b)
  BY FirstIsStart DEF Block
<1>13. Looks(b, k, t)'
  BY <1>6, <1>8, <1>10, <1>12 DEF Looks, LooksFrom, Out
<1>. QED BY <1>2, <1>5, <1>7, <1>11, <1>13 DEF Steady

LEMMA LeavesStep ==
  ASSUME NEW t, Listed(t), NEW b \in Bixes, NEW k, Leaves(b, k, t), Working, FileInv
  PROVE  /\ Untouched /\ Steady /\ UNCHANGED fds
         /\ Clearing(b, Cons(k, t))'
<1>. DEFINE u == Erasure(b, Cons(k, t))
<1>1. Listed(u)
  BY PlanListed
<1>2. Here([do |-> "gc_erase", b |-> b], u)
  BY <1>1 DEF Here, Leaves, Plan
<1>3. /\ todo' = u /\ SameCursor
      /\ fs'.allocated = fs.allocated - Cardinality({p \in Block(b) : InUse(p)})
      /\ fs'.deleted = fs.deleted - Cardinality({p \in Block(b) : lu[p] = DELETED})
      /\ Steady /\ UNCHANGED <<lu, page, magic, fds, work, dst>>
  BY <1>2, DoGcErase
<1>4. Flat(Block(b), {})'
  BY <1>3, BlockIsUncounted DEF Leaves
<1>5. Live' = Live /\ (InBlock(b)' <=> InBlock(b))
  BY <1>3, SameLive, SameTop
<1>6. Clearing(b, Cons(k, t))'
  BY <1>3, <1>4, <1>5 DEF Clearing, Leaves
<1>. QED BY <1>3, <1>6, SameIsUntouched

LEMMA ClearedStep ==
  ASSUME NEW t, Listed(t), NEW b \in Bixes, NEW k, k.do = "gc_next", Clearing(b, Cons(k, t)), Working, FileInv
  PROVE  /\ Untouched /\ Steady /\ UNCHANGED fds
         /\ Clearing(b, Cons(k, t))' \/ Counts(t)'
<1>1. Listed(Cons(k, t))
  BY ConsFacts
<1>2. /\ Untouched /\ Steady /\ UNCHANGED <<fds, work, dst>>
      /\ Clearing(b, Cons(k, t))' \/ (todo' = Cons(k, t) /\ Flat({}, {})')
  BY <1>1, ClearingStep
<1>. QED BY <1>2 DEF Counts

-----------------------------------------------------------------------------
(* The list of a move. *)
Travel(g, id, p, v) == Cons(FindingFree, Shifts(g, id, Deletion(p, v)))

LEMMA ThreeListed == \A x, y, z : Listed(<<x, y, z>>)
<1>. SUFFICES ASSUME NEW x, NEW y, NEW z PROVE Listed(<<x, y, z>>)
  OBVIOUS
<1>1. Listed(<<x, y>>) /\ Listed(<<z>>) /\ <<x, y, z>> = <<x, y>> \o <<z>>
  BY ShortLists, OneListed, TwoListed
<1>2. Listed(<<x, y>> \o <<z>>)
  BY <1>1, Onto
<1>. QED BY <1>1, <1>2, Zenon

LEMMA DeletingOnto ==
  \A p, v : Listed(v) => Listed(Deleting(p)) /\ Listed(Deletion(p, v)) /\ Deleting(p) \o v = Deletion(p, v)
<1>. SUFFICES ASSUME NEW p, NEW v, Listed(v)
     PROVE  Listed(Deleting(p)) /\ Listed(Deletion(p, v)) /\ Deleting(p) \o v = Deletion(p, v)
  OBVIOUS
<1>. DEFINE x == [do |-> "unlink", p |-> p]
            y == [do |-> "scrap", p |-> p]
<1>1. Deleting(p) = <<x, y>> /\ Deletion(p, v) = Cons(x, Cons(y, v))
  BY DEF Deleting, Deletion
<1>. HIDE DEF x, y
<1>2. Listed(<<x, y>>) /\ <<x, y>> \o v = Cons(x, Cons(y, v))
  BY TwoListed, ConsPairs
<1>3. Listed(Cons(x, Cons(y, v)))
  BY ConsFacts
<1>. QED BY <1>1, <1>2, <1>3, Zenon

Moves(g, id, p, e, x, u) ==
  /\ (Moving(g, id, p) \o <<e, x>>) \o u = Travel(g, id, p, Cons(e, Cons(x, u)))
  /\ (Moving(g, id, p) \o <<e>> \o <<x>>) \o u = Travel(g, id, p, Cons(e, Cons(x, u)))

LEMMA MoveList == \A g, id, p, e, x, u : Listed(u) => Moves(g, id, p, e, x, u)
<1>. SUFFICES ASSUME NEW g, NEW id, NEW p, NEW e, NEW x, NEW u, Listed(u)
     PROVE  Moves(g, id, p, e, x, u)
  OBVIOUS
<1>. DEFINE a == FindingFree
            b == Putting(g)
            c == Linking(id)
            r == <<a, b, c>>
            s == Deleting(p)
            m == Moving(g, id, p)
            y == <<e, x>>
            v == Cons(e, Cons(x, u))
<1>1. m = r \o s /\ Travel(g, id, p, v) = Cons(a, Cons(b, Cons(c, Deletion(p, v))))
  BY DEF Moving, Travel, Shifts
<1>2. Listed(v) /\ Listed(y)
  BY ConsFacts, TwoListed
<1>3. y \o u = v
  BY ConsPairs
<1>4. Listed(s) /\ Listed(Deletion(p, v))
  BY <1>2, DeletingOnto
<1>5. s \o v = Deletion(p, v)
  BY <1>2, DeletingOnto
<1>. HIDE DEF a, b, c, s, m
<1>6. Listed(r)
  BY ThreeListed
<1>7. r \o Deletion(p, v) = Cons(a, Cons(b, Cons(c, Deletion(p, v))))
  BY <1>4, ConsPairs
<1>. HIDE DEF r, v, y
<1>8. Listed(r \o s) /\ (r \o s) \o v = r \o (s \o v)
  BY <1>2, <1>4, <1>6, Onto
<1>10. Listed(m)
  BY <1>1, <1>8, Zenon
<1>11. (m \o y) \o u = m \o (y \o u)
  BY <1>2, <1>10, Onto
<1>12. (m \o y) \o u = Travel(g, id, p, v)
  BY <1>1, <1>3, <1>5, <1>7, <1>8, <1>11, Zenon
<1>9. (m \o <<e>>) \o <<x>> = m \o y
  <2>1. Listed(<<e>>) /\ Listed(<<x>>)
    BY OneListed
  <2>2. <<e>> \o <<x>> = y
    BY ShortLists DEF y
  <2>3. (m \o <<e>>) \o <<x>> = m \o (<<e>> \o <<x>>)
    BY <1>10, <2>1, Onto
  <2>. QED BY <2>2, <2>3, Zenon
<1>. QED BY <1>12, <1>9, Zenon DEF Moves, m, v, y

-----------------------------------------------------------------------------
(* What the garbage collection sees of a block. *)

LEMMA RestLive ==
  ASSUME NEW b \in Bixes, NEW from \in Int
  PROVE  /\ \A q : q \in Rest(b, from, TRUE) <=> q \in Live \cap Block(b) /\ q >= from /\ IsIndex(lu[q])
         /\ \A q : q \in Rest(b, from, FALSE) <=> q \in Live \cap Block(b) /\ q >= from /\ ~IsIndex(lu[q])
<1>1. Block(b) \subseteq Objects
  BY BlockPages
<1>2. \A q : IsIndex(lu[q]) \in BOOLEAN
  BY DEF IsIndex
<1>. QED BY <1>1, <1>2 DEF Rest, Live

LEMMA FiledPages ==
  ASSUME NEW h \in Objects, NEW n \in Ids, NEW O, NEW g, NEW t, Filed(h, O, n, g, t)
  PROVE  /\ O \subseteq Objects /\ h \in Live /\ \A p \in Live : IsIndex(lu[p]) <=> p = h
         /\ g \in Page /\ "delet" \notin g.flags /\ g.id = n + IX_FLAG /\ g.id # ONES
         /\ g.size \in {ONES, LEN}
         /\ Fd.hdr = h /\ Fd.obj = n + IX_FLAG
<1>1. O \subseteq Objects /\ h \in Live /\ Fd.hdr = h /\ Fd.obj = n + IX_FLAG
  BY DEF Filed, Carried, Using
<1>2. \A p \in O : lu[p] = n
  BY DEF Filed, Carried, Holding
<1>3. \E s \in {ONES, LEN}, r \in Words : g = Header(n, s, r)
  BY IdWords, PageBlock DEF Filed, Carried
<1>4. g \in Page /\ "delet" \notin g.flags /\ g.id = n + IX_FLAG /\ g.size \in {ONES, LEN}
  <2>1. PICK s \in {ONES, LEN}, r \in Words : g = Header(n, s, r)
    BY <1>3
  <2>2. s \in Words /\ n + IX_FLAG \in Words
    BY IdWords DEF Words, LEN, ONES
  <2>. QED BY <2>1, <2>2 DEF Header, Page, Words, Flags
<1>. QED BY <1>1, <1>2, <1>4, IdWords DEF Filed

-----------------------------------------------------------------------------
(* Index pages are moved out of a block. *)

LEMMA IndexLeft ==
  ASSUME NEW t, Goal(t), NEW b \in Bixes, NEW k, NEW from \in Int, IndexesFrom(b, from, k, t), Working, FileInv
  PROVE  /\ Untouched /\ Steady /\ UNCHANGED fds
         /\ Leaves(b, k, t)' \/ MovesIndex(b, k, t)'
<1>. DEFINE u == Plan(b, k, t)
            R == Rest(b, from, TRUE)
            x == MovingIndex(b, from)
<1>1. Listed(t) /\ Listed(u)
  BY GoalListed, PlanListed
<1>2. Here(x, u)
  BY <1>1 DEF Here, IndexesFrom
<1>3. x.do = "gc_index" /\ x.b = b /\ x.from = from
  BY DEF MovingIndex
<1>4. /\ GcMoveIndex /\ UNCHANGED <<phase, config, stored, cuts>> /\ Step.b = b /\ Step.from = from
      /\ \A s : Then(s) <=> todo' = s \o u
      /\ Then(<<>>) <=> todo' = u
  <2>. HIDE DEF x, u
  <2>1. /\ At("gc_index") /\ SpiffsStep /\ UNCHANGED <<phase, config, stored, cuts>> /\ Step = x
        /\ \A s : Then(s) <=> todo' = s \o u
        /\ Then(<<>>) <=> todo' = u
    BY <1>2, <1>3, HereFacts
  <2>. QED BY <1>3, <2>1, Dispatch
<1>5. /\ UNCHANGED <<flash, fs, fds, work, dst, call, rc>>
      /\ IF R = {} THEN Then(<<>>)
         ELSE "delet" \notin page[Min(R)].flags =>
                Then(Moving(page[Min(R)], lu[Min(R)], Min(R))
                       \o (IF page[Min(R)].id = ONES THEN <<>> ELSE <<Event("move", lu[Min(R)])>>)
                       \o <<MovingIndex(b, Min(R) + 1)>>)
  BY <1>4 DEF GcMoveIndex
<1>6. Flat({}, {})' /\ Untouched /\ Steady /\ UNCHANGED fds
  <2>1. Flat({}, {})' /\ Untouched
    BY <1>5, NothingTouched, SameFields DEF IndexesFrom
  <2>. QED BY <1>4, <1>5, <2>1 DEF Steady
<1>7. /\ \A q : q \in R <=> q \in Live \cap Block(b) /\ q >= from /\ IsIndex(lu[q])
      /\ Live' = Live /\ (InBlock(b)' <=> InBlock(b))
  BY <1>5, RestLive, SameLive, SameTop, SameFields DEF flash
<1>8. CASE R = {}
  <2>1. Live \cap Block(b) = {}
    BY <1>7, <1>8 DEF IndexesFrom
  <2>2. Leaves(b, k, t)'
    BY <1>4, <1>5, <1>6, <1>7, <1>8, <2>1 DEF Leaves, Out, IndexesFrom
  <2>. QED BY <1>6, <2>2
<1>9. CASE R # {}
  <2>1. PICK h \in Objects, n \in Ids : \E O, g : Filed(h, O, n, g, t)
    BY <1>7, <1>9 DEF Goal
  <2>2. PICK O, g : Filed(h, O, n, g, t)
    BY <2>1
  <2>3. /\ O \subseteq Objects /\ h \in Live /\ \A p \in Live : IsIndex(lu[p]) <=> p = h
        /\ g \in Page /\ "delet" \notin g.flags /\ g.id # ONES /\ g.size \in {ONES, LEN}
    BY <2>2, FiledPages
  <2>4. page[h] = g /\ lu[h] = n + IX_FLAG /\ Live = {h} \cup O /\ h \notin O /\ Carried(O, n, g, t)
        /\ Flushes
    BY <2>2 DEF Filed
  <2>5. R = {h} /\ h \in Block(b)
    BY <1>7, <1>9, <2>3
  <2>6. Min(R) = h
    <3>1. R \subseteq Rest(b, from, TRUE) /\ TRUE \in BOOLEAN
      OBVIOUS
    <3>. HIDE DEF R
    <3>2. Min(R) \in R
      BY <1>9, <3>1, LeastRest
    <3>. QED BY <2>5, <3>2
  <2>7. BlockOf(h) = b /\ O \cap Block(b) = {}
    <3>1. O \cap Block(b) \subseteq {h}
      BY <1>7, <2>3, <2>4 DEF IndexesFrom
    <3>. QED BY <2>4, <2>5, <3>1, PageInBlock
  <2>. DEFINE v == Telling(b, h, n, k, t)
              e == Event("move", n + IX_FLAG)
              m == MovingIndex(b, h + 1)
              id == n + IX_FLAG
  <2>8. todo' = (Moving(g, id, h) \o <<e>> \o <<m>>) \o u
    BY <1>4, <1>5, <1>9, <2>3, <2>4, <2>6
  <2>9. (Moving(g, id, h) \o <<e>> \o <<m>>) \o u = Travel(g, id, h, v)
    <3>1. Moves(g, id, h, e, m, u)
      BY <1>1, MoveList, Zenon
    <3>. QED BY <3>1, Zenon DEF Moves, Telling
  <2>10. todo' = Cons(FindingFree, Shifts(g, id, Deletion(h, v)))
    BY <2>8, <2>9, Zenon DEF Travel
  <2>11. Sought({h} \cup O, Shifts(g, id, Deletion(h, v)))'
    <3>1. Seeking(Shifts(g, id, Deletion(h, v)))'
      BY <1>6, <2>10 DEF Seeking, FindingFree
    <3>. QED BY <1>7, <2>4, <3>1 DEF Sought
  <2>12. Filed(h, O, n, g, t)'
    BY <1>6, <2>2, StillFiled
  <2>13. Carried(O, n, g, t)' /\ Using(h, n, g.size)' /\ Flushes'
    BY <2>12 DEF Filed
  <2>14. Shifting(h, O, g, g, id, Deletion(h, v), v)'
    BY <2>11 DEF Shifting
  <2>15. MovesIndex(b, k, t)'
    BY <2>3, <2>4, <2>7, <2>13, <2>14 DEF MovesIndex
  <2>. QED BY <1>6, <2>15
<1>. QED BY <1>8, <1>9

-----------------------------------------------------------------------------
(* The descriptors are told of a move (spiffs_cb_object_event). *)

(* q is the descriptor r with its header at x and size y.                    *)
Redirected(r, x, y, q) == q = [r EXCEPT !.hdr = x, !.size = y]

LEMMA FdFields ==
  \A r \in FdType : \A x, y, q :
    Redirected(r, x, y, q) =>
      q.hdr = x /\ q.size = y /\ q.named = r.named /\ q.obj = r.obj /\ q.open = r.open
  BY DEF FdType, Redirected

LEMMA FollowedUsing ==
  ASSUME Typed, NEW h, NEW n, NEW s, Using(h, n, s), NEW x, NEW z,
         fds' = Followed(n + IX_FLAG, x, z), UNCHANGED call
  PROVE  Using(x, n, IF z = 0 THEN s ELSE z)'
<1>1. fds \in [Fds -> FdType] /\ call.fd \in Fds
  BY DEF Typed, CallType
<1>2. \A f \in Fds : fds'[f].open = fds[f].open
  BY <1>1 DEF Followed, FdType
<1>3. Sole'
  BY <1>2 DEF Using, Sole
<1>. DEFINE r == fds[call.fd]
            y == IF z = 0 THEN r.size ELSE z
<1>4. fds'[call.fd] = [r EXCEPT !.hdr = x, !.size = y] /\ r \in FdType
  BY <1>1 DEF Followed, Using, Fd
<1>. HIDE DEF r, y
<1>5. PICK q : q = fds'[call.fd]
  OBVIOUS
<1>8. q.hdr = x /\ q.size = y /\ q.named = r.named /\ q.obj = r.obj
  <2>1. Redirected(r, x, y, q)
    BY <1>4, <1>5, Zenon DEF Redirected
  <2>2. r \in FdType
    BY <1>4
  <2>3. q.hdr = x
    BY <2>1, <2>2, FdFields
  <2>4. q.size = y
    BY <2>1, <2>2, FdFields
  <2>5. q.named = r.named
    BY <2>1, <2>2, FdFields
  <2>6. q.obj = r.obj
    BY <2>1, <2>2, FdFields
  <2>. QED BY <2>3, <2>4, <2>5, <2>6
<1>6. r = Fd /\ y = (IF z = 0 THEN s ELSE z) /\ r.named /\ r.obj = n + IX_FLAG
  BY DEF r, y, Fd, Using
<1>7. Fd' = fds'[call.fd]
  BY DEF Fd
<1>. QED BY <1>3, <1>5, <1>6, <1>7, <1>8 DEF Using

LEMMA ToldStep ==
  ASSUME NEW t, NEW b \in Bixes, NEW k, NEW h \in Objects, NEW n \in Ids, NEW O, NEW g,
         BlockOf(h) = b, O \cap Block(b) = {}, Carried(O, n, g, t), Using(h, n, g.size), Flushes,
         Shifted(h, O, g, n + IX_FLAG, Telling(b, h, n, k, t)), Working, FileInv
  PROVE  Steady /\ Goal(t)' /\ Indexes(b, k, t)'
<1>. DEFINE id == n + IX_FLAG
            u == Cons(MovingIndex(b, h + 1), Plan(b, k, t))
            s == g.size
<1>1. Listed(t) /\ Listed(u)
  BY ShortListed, PlanListed DEF Carried
<1>2. Laid(O, id, g, Telling(b, h, n, k, t)) /\ Above(h)
  BY DEF Shifted
<1>3. Here(Event("move", id), u)
  BY <1>1, <1>2 DEF Here, Laid, Telling
<1>. HIDE DEF u, s
<1>4. /\ todo' = u /\ fds' = Followed(id, dst, 0)
      /\ Steady /\ SameLookup /\ UNCHANGED <<page, work>>
  BY <1>3, DoMoved
<1>5. SameCursor /\ SameCounters /\ UNCHANGED <<lu, magic, dst>>
  BY <1>4, Fixed
<1>6. Laid(O, id, g, u)'
  BY <1>2, <1>4, <1>5, LaidKept DEF Laid
<1>7. Using(h, n, s) /\ Typed /\ UNCHANGED <<call, rc, phase, config>>
  BY <1>4 DEF s, FileInv, Steady
<1>8. Using(dst, n, IF 0 = 0 THEN s ELSE 0)'
  <2>1. PICK d : d = dst
    OBVIOUS
  <2>2. Using(d, n, IF 0 = 0 THEN s ELSE 0)'
    BY <1>4, <1>7, <2>1, FollowedUsing
  <2>. QED BY <1>5, <2>1, <2>2 DEF Using
<1>9. Using(dst, n, g.size)'
  BY <1>8 DEF s
<1>10. Carried(O, n, g, t)' /\ Flushes'
  BY <1>4, <1>5, <1>7, StillCarried DEF Flushes, Same
<1>11. Filed(dst, O, n, g, t)' /\ dst' \in Objects
  BY <1>6, <1>9, <1>10 DEF Filed, Laid
<1>12. Goal(t)'
  BY <1>11 DEF Goal
<1>13. ASSUME InBlock(b)'
       PROVE  (Live \cap Block(b) # {})'
  <2>1. dst' \in Objects /\ BlockOf(dst') = b /\ dst' \in Live'
    BY <1>6, <1>13 DEF Laid, Near
  <2>2. dst' \in Block(b)
    <3>1. PICK d : d = dst'
      OBVIOUS
    <3>. QED BY <2>1, <3>1, PageInBlock
  <2>. QED BY <2>1, <2>2
<1>14. ASSUME NEW p \in Live' \cap Block(b)
       PROVE  IsIndex(lu'[p]) /\ p >= h + 1
  <2>1. p \in Objects /\ p = dst /\ lu'[p] = id
    BY <1>5, <1>6, <1>14, BlockPages DEF Laid
  <2>2. BlockOf(p) = b
    BY <1>14, <2>1, PageInBlock
  <2>3. p > h
    BY <1>2, <2>1, <2>2 DEF Above, SameBlock
  <2>4. p \in Int /\ h \in Int
    BY <2>1, ObjectIsNumber, Zenon
  <2>. QED BY <2>1, <2>3, <2>4, IdWords
<1>15. h + 1 \in Int
  BY ObjectIsNumber
<1>16. IndexesFrom(b, h + 1, k, t)'
  BY <1>6, <1>13, <1>14 DEF IndexesFrom, Out, Laid, u
<1>. QED BY <1>4, <1>12, <1>15, <1>16 DEF Indexes

LEMMA MovesIndexStep ==
  ASSUME NEW t, NEW b \in Bixes, NEW k, MovesIndex(b, k, t), Working, FileInv, ~Full
  PROVE  Steady /\ (MovesIndex(b, k, t)' \/ (Goal(t)' /\ Indexes(b, k, t)'))
<1>1. PICK h \in Objects, n \in Ids : \E O, g :
        /\ BlockOf(h) = b /\ h \notin O /\ O \cap Block(b) = {} /\ g \in Page /\ g.size \in {ONES, LEN}
        /\ Carried(O, n, g, t) /\ Using(h, n, g.size) /\ Flushes
        /\ LET v == Telling(b, h, n, k, t)
           IN  \/ Shifting(h, O, g, g, n + IX_FLAG, Deletion(h, v), v)
               \/ Shifted(h, O, g, n + IX_FLAG, v)
  BY DEF MovesIndex
<1>2. PICK O, g :
        /\ BlockOf(h) = b /\ h \notin O /\ O \cap Block(b) = {} /\ g \in Page /\ g.size \in {ONES, LEN}
        /\ Carried(O, n, g, t) /\ Using(h, n, g.size) /\ Flushes
        /\ LET v == Telling(b, h, n, k, t)
           IN  \/ Shifting(h, O, g, g, n + IX_FLAG, Deletion(h, v), v)
               \/ Shifted(h, O, g, n + IX_FLAG, v)
  BY <1>1
<1>. DEFINE v == Telling(b, h, n, k, t)
            w == Deletion(h, v)
            id == n + IX_FLAG
            s == g.size
<1>3. CASE Shifted(h, O, g, id, v)
  BY <1>2, <1>3, ToldStep
<1>4. CASE Shifting(h, O, g, g, id, w, v)
  <2>1. Listed(v)
    BY <1>2, ShortListed, PlanListed, ConsFacts DEF Carried, Telling
  <2>2. Finishes(g, g, h, w, v) /\ id \in Words \ {FREE, DELETED}
    BY IdWords DEF Finishes, FREE
  <2>. HIDE DEF v, w, id, s
  <2>3. /\ Same(O) /\ Steady /\ UNCHANGED <<fds, work>>
        /\ Shifting(h, O, g, g, id, w, v)' \/ Shifted(h, O, g, id, v)'
    BY <1>2, <1>4, <2>1, <2>2, ShiftStep
  <2>4. Carried(O, n, g, t)' /\ Flushes'
    BY <1>2, <2>3, StillCarried, StillCalled
  <2>5. Using(h, n, s)'
    BY <1>2, <2>3, StillUsing DEF s
  <2>6. MovesIndex(b, k, t)'
    BY <1>2, <2>3, <2>4, <2>5 DEF MovesIndex, v, w, id, s
  <2>. QED BY <2>3, <2>6
<1>. QED BY <1>2, <1>3, <1>4

-----------------------------------------------------------------------------
(* The data page is moved out of a block, and the header stored again.       *)

LEMMA GatheringListed ==
  \A h, n, b, d, back, k :
    /\ Listed(Plan(b, k, Changing)) /\ Listed(Gathering(h, n, b, d, back, k))
    /\ Listed(Referring(h, n, b, d, back, k))
  BY ShortListed, PlanListed, ConsFacts DEF Gathering, Referring

LEMMA ResumesListed == \A u, d, c : Resumes(u, d, c) => Listed(u)
<1>1. Listed(Cons(Do("close"), <<>>))
  BY NilListed, ConsFacts
<1>2. \A b, k, back : Listed(Cons(Finding(b, back), Plan(b, k, Changing)))
  BY GatheringListed, ConsFacts
<1>. QED BY <1>1, <1>2 DEF Resumes

LEMMA FileOfChanging ==
  ASSUME NEW h \in Objects, NEW n \in Ids, NEW O, NEW g, NEW t, Filed(h, O, n, g, t), NEW d \in O
  PROVE  /\ O = {d} /\ d \in Objects /\ t = Changing /\ g = Header(n, LEN, d)
         /\ Live = {h, d} /\ h # d /\ lu[d] = n /\ Using(h, n, LEN) /\ Flushes
         /\ lu[h] = n + IX_FLAG /\ page[h] = g
         /\ \E c \in Contents : Holding(d, n, c)
<1>1. Carried(O, n, g, t) /\ O # {} /\ Using(h, n, g.size) /\ Flushes /\ Live = {h} \cup O /\ h \notin O
      /\ lu[h] = n + IX_FLAG /\ page[h] = g
  BY DEF Filed
<1>2. PICK e \in Objects, c \in Contents : /\ O = {e} /\ Holding(e, n, c) /\ g = Header(n, LEN, e)
                                          /\ t = Changing
  BY <1>1 DEF Carried
<1>3. e = d
  BY <1>2
<1>4. g.size = LEN
  BY <1>2 DEF Header
<1>. QED BY <1>1, <1>2, <1>3, <1>4 DEF Holding

LEMMA HeaderOf ==
  ASSUME NEW h \in Objects, NEW n \in Ids, NEW d \in Objects, Live = {h, d}, h # d, lu[d] = n,
         lu[h] = n + IX_FLAG, page[h] = Header(n, LEN, d)
  PROVE  HeadersOf(n + IX_FLAG) = {h}
<1>1. \A p \in Objects : lu[p] = n + IX_FLAG => p \in Live
  BY LiveSets, IdWords DEF FREE
<1>2. WithId(n + IX_FLAG) = {h}
  BY <1>1 DEF WithId, Ids, IX_FLAG
<1>3. LET g == page[h] IN g.id = n + IX_FLAG /\ g.flags = {"used", "final", "index"}
  BY DEF Header
<1>. QED BY <1>2, <1>3 DEF HeadersOf

-----------------------------------------------------------------------------
(* The garbage collection looks for data pages in a block. *)

LEMMA LookedFor ==
  ASSUME NEW x, NEW b \in Bixes, NEW from \in Int, x = Finding(b, from), NEW u, Here(x, u)
  PROVE  /\ GcFind /\ UNCHANGED <<phase, config, stored, cuts>> /\ Step.b = b /\ Step.from = from
         /\ \A s : Then(s) <=> todo' = s \o u
         /\ Typed /\ Listed(u)
<1>1. x.do = "gc_find" /\ x.b = b /\ x.from = from
  BY DEF Finding
<1>2. /\ At("gc_find") /\ SpiffsStep /\ UNCHANGED <<phase, config, stored, cuts>> /\ Step = x
      /\ \A s : Then(s) <=> todo' = s \o u
      /\ Typed /\ Listed(u)
  BY <1>1, HereFacts
<1>. QED BY <1>1, <1>2, Dispatch

LEMMA NoneFound ==
  ASSUME NEW t, Goal(t), NEW b \in Bixes, NEW k, NEW from \in Int, LooksFrom(b, from, k, t), Working, FileInv,
         Rest(b, from, FALSE) = {}
  PROVE  Steady /\ UNCHANGED fds /\ Untouched /\ Indexes(b, k, t)'
<1>. DEFINE u == Plan(b, k, t)
            x == Finding(b, from)
<1>1. Listed(u)
  BY GoalListed, PlanListed
<1>2. Here(x, u)
  BY <1>1 DEF Here, LooksFrom
<1>3. /\ GcFind /\ UNCHANGED <<phase, config, stored, cuts>> /\ Step.b = b /\ Step.from = from
      /\ \A s : Then(s) <=> todo' = s \o u
  BY <1>2, LookedFor
<1>4. PICK m : m = MovingIndex(b, FirstPage(b))
  OBVIOUS
<1>5. /\ UNCHANGED <<flash, fs, fds, work, dst, call, rc>>
      /\ todo' = <<m>> \o u
  BY <1>3, <1>4 DEF GcFind
<1>6. Flat({}, {})' /\ Untouched
  BY <1>5, NothingTouched, SameFields DEF LooksFrom
<1>7. \A q : q \in Rest(b, from, FALSE) <=> q \in Live \cap Block(b) /\ q >= from /\ ~IsIndex(lu[q])
  BY RestLive
<1>8. Live' = Live /\ lu' = lu /\ (InBlock(b)' <=> InBlock(b))
  BY <1>5, SameLive, SameTop, SameFields DEF flash
<1>9. FirstPage(b) \in Int /\ \A p \in Block(b) : p >= FirstPage(b)
  BY FirstIsStart DEF Block
<1>10. \A p \in Live \cap Block(b) : IsIndex(lu[p])
  BY <1>7 DEF LooksFrom
<1>11. IndexesFrom(b, FirstPage(b), k, t)'
  BY <1>4, <1>5, <1>6, <1>8, <1>9, <1>10 DEF IndexesFrom, Out, LooksFrom, Cons
<1>. QED BY <1>3, <1>5, <1>6, <1>9, <1>11 DEF Steady, Indexes

LEMMA OneFound ==
  ASSUME NEW t, Goal(t), NEW b \in Bixes, NEW k, NEW from \in Int, LooksFrom(b, from, k, t), Working, FileInv,
         Rest(b, from, FALSE) # {}
  PROVE  Steady /\ UNCHANGED fds /\ t = Changing /\ Gathers(b, k)'
<1>. DEFINE u == Plan(b, k, t)
            x == Finding(b, from)
            R == Rest(b, from, FALSE)
<1>1. Listed(u)
  BY GoalListed, PlanListed
<1>2. Here(x, u)
  BY <1>1 DEF Here, LooksFrom
<1>3. /\ GcFind /\ UNCHANGED <<phase, config, stored, cuts>> /\ Step.b = b /\ Step.from = from
      /\ \A s : Then(s) <=> todo' = s \o u
      /\ Typed
  BY <1>2, LookedFor
<1>4. \A q : q \in R <=> q \in Live \cap Block(b) /\ q >= from /\ ~IsIndex(lu[q])
  BY RestLive
<1>5. PICK h \in Objects, n \in Ids : \E O, g : Filed(h, O, n, g, t)
  BY <1>4 DEF Goal
<1>6. PICK O, g : Filed(h, O, n, g, t)
  BY <1>5
<1>7. PICK d : d \in R
  OBVIOUS
<1>8. d \in O /\ d \in Live /\ d \in Block(b) /\ h \in Live
  BY <1>4, <1>6, <1>7, IdWords DEF Filed
<1>9. /\ O = {d} /\ d \in Objects /\ t = Changing /\ g = Header(n, LEN, d)
      /\ Live = {h, d} /\ h # d /\ lu[d] = n /\ Using(h, n, LEN) /\ Flushes
      /\ lu[h] = n + IX_FLAG /\ page[h] = g
      /\ \E c \in Contents : Holding(d, n, c)
  BY <1>6, <1>8, FileOfChanging
<1>10. R = {d}
  <2>. HIDE DEF R
  <2>1. IsIndex(lu[h])
    BY <1>9, IdWords
  <2>2. \A q \in R : q \in {h, d} /\ q # h
    BY <1>4, <1>9, <2>1
  <2>. QED BY <1>7, <2>2
<1>11. Min(R) = d
  <2>1. R \subseteq Rest(b, from, FALSE) /\ FALSE \in BOOLEAN /\ R # {}
    BY <1>7
  <2>. HIDE DEF R
  <2>2. Min(R) \in R
    BY <2>1, LeastRest
  <2>. QED BY <1>10, <2>2
<1>12. PICK c \in Contents : Holding(d, n, c)
  BY <1>9
<1>13. page[d].id = n /\ page[d].id # ONES /\ lu[d] + IX_FLAG = n + IX_FLAG
  BY <1>9, <1>12, IdWords DEF Holding, Sheet
<1>14. HeadersOf(n + IX_FLAG) = {h}
  BY <1>9, HeaderOf
<1>15. FirstFrom(fs.cursor, {h}) = h
  BY <1>3, OnlyOne DEF Typed, FsType
<1>16. ValidHeader(page[h], n + IX_FLAG)
  BY <1>9, HeaderIsValid, IdWords
<1>17. PICK y : y = MovingData(b, FirstPage(b), n, h, d + 1)
  OBVIOUS
<1>18. /\ fs' = [fs EXCEPT !.cursor = h] /\ work' = page[h]
       /\ Then(<<y>>)
       /\ UNCHANGED <<flash, fds, dst, call, rc>>
  <2>. HIDE DEF R, u
  <2>1. IF ~ValidHeader(page[h], n + IX_FLAG) THEN Fails
        ELSE /\ fs' = [fs EXCEPT !.cursor = h] /\ work' = page[h]
             /\ Then(<<y>>)
             /\ UNCHANGED <<flash, fds, dst, call, rc>>
    BY <1>3, <1>7, <1>9, <1>11, <1>13, <1>14, <1>15, <1>17 DEF GcFind, R
  <2>. QED BY <1>16, <2>1
<1>19. SameCursor /\ SameCounters
  BY <1>3, <1>18 DEF Typed, FsType, SameCursor, SameCounters
<1>20. Flat({}, {})' /\ Steady /\ UNCHANGED <<fds, lu, page>>
  <2>1. Flat({}, {})'
    BY <1>18, <1>19, NothingTouched DEF LooksFrom
  <2>. QED BY <1>3, <1>18, <2>1 DEF Steady, flash
<1>21. Live' = Live /\ (InBlock(b)' <=> InBlock(b))
  BY <1>19, <1>20, SameLive, SameTop
<1>22. todo' = Gathering(h, n, b, FirstPage(b), d + 1, k)
  BY <1>3, <1>9, <1>17, <1>18 DEF Gathering, Cons
<1>23. FirstPage(b) \in Int /\ d + 1 \in Int /\ d >= FirstPage(b)
  BY <1>8, <1>9, FirstIsStart, ObjectIsNumber DEF Block
<1>24. AtData(h, n, d, c, b, FirstPage(b), d + 1, k)'
  <2>1. Out(b)'
    BY <1>21 DEF Out, LooksFrom
  <2>2. Live' = {h, d} /\ Holding(d, n, c)' /\ work' = Header(n, LEN, d)
    BY <1>9, <1>12, <1>18, <1>20, <1>21 DEF Holding
  <2>. QED BY <1>9, <1>20, <1>22, <1>23, <2>1, <2>2 DEF AtData
<1>25. Using(h, n, LEN)' /\ Flushes' /\ lu'[h] = n + IX_FLAG
  BY <1>9, <1>20, StillUsing, StillCalled
<1>. QED BY <1>9, <1>20, <1>23, <1>24, <1>25 DEF Gathers

LEMMA FindStep ==
  ASSUME NEW t, Goal(t), NEW b \in Bixes, NEW k, Looks(b, k, t), Working, FileInv
  PROVE  /\ Steady /\ UNCHANGED fds
         /\ \/ Untouched /\ Indexes(b, k, t)'
            \/ t = Changing /\ Gathers(b, k)'
  BY NoneFound, OneFound DEF Looks

-----------------------------------------------------------------------------
(* The data page is moved out of the block, or is out of it. *)

LEMMA WordLen == LEN \in Words /\ LEN # 0 /\ ONES \in Words /\ ONES # 0 /\ LEN # ONES
  BY DEF LEN, Words, ONES

LEMMA ObjectIsWord == \A p \in Objects : p \in Words /\ p # ONES /\ p # 0
<1>. TAKE p \in Objects
<1>1. p \in 1..(Pages - 1) /\ Pages \in Nat /\ Pages < ONES
  BY Sizes, PagesAreWords
<1>. QED BY <1>1 DEF Words, ONES

LEMMA SheetFacts ==
  ASSUME NEW n \in Ids, NEW c \in Contents
  PROVE  LET g == Sheet(Final, n, c) IN
         g \in Page /\ "delet" \notin g.flags /\ g.id = n /\ g.id # ONES
<1>1. Final \in SUBSET Flags /\ "delet" \notin Final
  BY DEF Final, Flags
<1>2. Sheet(Final, n, c) \in Page
  BY <1>1, Images, WordLen
<1>. QED BY <1>1, <1>2, IdWords DEF Sheet

LEMMA MovedFrom ==
  ASSUME NEW x, NEW b \in Bixes, NEW from \in Int, NEW n, NEW h, NEW back, x = MovingData(b, from, n, h, back),
         NEW u, Here(x, u)
  PROVE  /\ GcMoveData /\ UNCHANGED <<phase, config, stored, cuts>>
         /\ Step.b = b /\ Step.from = from /\ Step.id = n /\ Step.hdr = h /\ Step.back = back
         /\ \A s : Then(s) <=> todo' = s \o u
<1>1. x.do = "gc_data" /\ x.b = b /\ x.from = from /\ x.id = n /\ x.hdr = h /\ x.back = back
  BY DEF MovingData
<1>2. /\ At("gc_data") /\ SpiffsStep /\ UNCHANGED <<phase, config, stored, cuts>> /\ Step = x
      /\ \A s : Then(s) <=> todo' = s \o u
  BY <1>1, HereFacts
<1>. QED BY <1>1, <1>2, Dispatch

DataIn(b, from, n) == {p \in Rest(b, from, FALSE) : lu[p] = n /\ page[p].id # ONES}
LEMMA AllGathered ==
  ASSUME NEW b \in Bixes, NEW k, k.do = "gc_next", NEW h \in Objects, NEW n \in Ids, NEW d \in Objects, NEW c \in Contents,
         NEW back \in Int, NEW from \in Int, Using(h, n, LEN), Flushes, lu[h] = n + IX_FLAG,
         AtData(h, n, d, c, b, from, back, k), d \notin Block(b), Working, FileInv
  PROVE  Steady /\ \E u : Stores(u)'
<1>. DEFINE u == Plan(b, k, Changing)
            x == MovingData(b, from, n, h, back)
            t == Cons(Finding(b, back), u)
<1>1. Listed(u)
  BY GatheringListed
<1>2. Here(x, u)
  BY <1>1 DEF Here, AtData, Gathering
<1>3. /\ GcMoveData /\ UNCHANGED <<phase, config, stored, cuts>>
      /\ Step.b = b /\ Step.from = from /\ Step.id = n /\ Step.hdr = h /\ Step.back = back
      /\ \A s : Then(s) <=> todo' = s \o u
  BY <1>2, MovedFrom
<1>4. DataIn(b, from, n) = {}
  <2>1. \A q : q \in Rest(b, from, FALSE) <=> q \in Live \cap Block(b) /\ q >= from /\ ~IsIndex(lu[q])
    BY RestLive
  <2>2. \A q \in Rest(b, from, FALSE) : FALSE
    BY <2>1, IdWords DEF AtData
  <2>. QED BY <2>2 DEF DataIn
<1>5. PICK y : y = [do |-> "store", id |-> n + IX_FLAG, p |-> h]
  OBVIOUS
<1>6. PICK z : z = Finding(b, back)
  OBVIOUS
<1>7. Then(<<y, z>>) /\ UNCHANGED <<flash, fs, fds, work, dst, call, rc>>
  <2>. HIDE DEF u, x
  <2>. QED BY <1>3, <1>4, <1>5, <1>6 DEF GcMoveData, DataIn
<1>8. todo' = Storing(n, h, t)
  <2>1. <<y, z>> \o u = Cons(y, Cons(z, u))
    BY <1>1, ConsPairs
  <2>. QED BY <1>3, <1>5, <1>6, <1>7, <2>1, Zenon DEF Storing
<1>9. Flat({}, {})' /\ Steady /\ UNCHANGED <<fds, lu, page, work>> /\ Live' = Live
  <2>1. Flat({}, {})'
    BY <1>7, NothingTouched, SameFields DEF AtData
  <2>. QED BY <1>3, <1>7, <2>1, SameLive DEF Steady, flash
<1>10. Resumes(t, d, c)'
  <2>1. Resumes(t, d, c)
    BY DEF Resumes
  <2>. QED BY <1>9, <2>1 DEF Resumes, Steady
<1>11. ToStore(h, n, d, t)' /\ Holding(d, n, c)' /\ h # d
  BY <1>8, <1>9 DEF ToStore, AtData, Holding
<1>12. Using(h, n, LEN)' /\ Flushes'
  BY <1>9, StillUsing, StillCalled
<1>13. Stores(t)'
  <2>. HIDE DEF t
  <2>. QED BY <1>10, <1>11, <1>12 DEF Stores
<1>. QED BY <1>9, <1>13

LEMMA DataTravels ==
  ASSUME NEW b \in Bixes, NEW k, NEW h \in Objects, NEW n \in Ids, NEW d \in Objects, NEW c \in Contents,
         NEW back \in Int, NEW from \in Int, Using(h, n, LEN), Flushes, lu[h] = n + IX_FLAG,
         AtData(h, n, d, c, b, from, back, k), d \in Block(b), Working, FileInv
  PROVE  Steady /\ Gathers(b, k)'
<1>. DEFINE u == Plan(b, k, Changing)
            x == MovingData(b, from, n, h, back)
            R == DataIn(b, from, n)
            g == Sheet(Final, n, c)
            v == Referring(h, n, b, d, back, k)
            e == Do("refer")
            m == MovingData(b, d + 1, n, h, back)
<1>1. Listed(u)
  BY GatheringListed
<1>2. Here(x, u)
  BY <1>1 DEF Here, AtData, Gathering
<1>3. /\ GcMoveData /\ UNCHANGED <<phase, config, stored, cuts>>
      /\ Step.b = b /\ Step.from = from /\ Step.id = n /\ Step.hdr = h /\ Step.back = back
      /\ \A s : Then(s) <=> todo' = s \o u
  BY <1>2, MovedFrom
<1>4. page[d] = g /\ lu[d] = n /\ "delet" \notin page[d].flags /\ page[d].id # ONES
  BY SheetFacts DEF AtData, Holding
<1>5. R = {d}
  <2>1. \A q : q \in Rest(b, from, FALSE) <=> q \in Live \cap Block(b) /\ q >= from /\ ~IsIndex(lu[q])
    BY RestLive
  <2>2. \A q \in Rest(b, from, FALSE) : q = d
    BY <2>1, IdWords DEF AtData
  <2>3. d \in Rest(b, from, FALSE)
    BY <1>4, <2>1, IdWords DEF AtData
  <2>. QED BY <1>4, <2>2, <2>3 DEF DataIn
<1>6. Min(R) = d
  <2>1. R \subseteq Rest(b, from, FALSE) /\ FALSE \in BOOLEAN /\ R # {}
    BY <1>5 DEF DataIn
  <2>. HIDE DEF R
  <2>2. Min(R) \in R
    BY <2>1, LeastRest
  <2>. QED BY <1>5, <2>2
<1>7. /\ Then(Moving(page[d], n, d) \o <<e, m>>)
      /\ UNCHANGED <<flash, fs, fds, work, dst, call, rc>>
  <2>. HIDE DEF u, x, e
  <2>. QED BY <1>3, <1>4, <1>5, <1>6 DEF GcMoveData, R, DataIn, e
<1>8. todo' = Travel(g, n, d, v)
  <2>1. todo' = (Moving(g, n, d) \o <<e, m>>) \o u
    BY <1>3, <1>4, <1>7
  <2>2. Moves(g, n, d, e, m, u)
    <3>. HIDE DEF u, e, m, g
    <3>. QED BY <1>1, MoveList, Zenon
  <2>. QED BY <2>1, <2>2, Zenon DEF Moves, Referring, Gathering
<1>9. Flat({}, {})' /\ Steady /\ UNCHANGED <<fds, lu, page, work>> /\ Live' = Live
  <2>1. Flat({}, {})'
    BY <1>7, NothingTouched, SameFields DEF AtData
  <2>. QED BY <1>3, <1>7, <2>1, SameLive DEF Steady, flash
<1>10. Shifting(d, {h}, g, g, n, Deletion(d, v), v)'
  <2>. HIDE DEF v, g
  <2>1. todo' = Cons(FindingFree, Shifts(g, n, Deletion(d, v)))
    BY <1>8 DEF Travel
  <2>2. Seeking(Shifts(g, n, Deletion(d, v)))'
    BY <1>9, <2>1 DEF Seeking, FindingFree
  <2>3. Live' = {d} \cup {h}
    BY <1>9 DEF AtData
  <2>. QED BY <2>2, <2>3 DEF Shifting, Sought
<1>11. OnData(h, n, d, c, b, d, back, k)'
  <2>1. BlockOf(d) = b /\ d # h /\ work' = Header(n, LEN, d)
    BY <1>9, PageInBlock DEF AtData
  <2>. QED BY <1>10, <2>1 DEF OnData
<1>12. Using(h, n, LEN)' /\ Flushes' /\ lu'[h] = n + IX_FLAG
  BY <1>9, StillUsing, StillCalled
<1>. QED BY <1>9, <1>11, <1>12, ObjectIsWord DEF Gathers

LEMMA DataArrives ==
  ASSUME NEW b \in Bixes, NEW k, NEW h \in Objects, NEW n \in Ids, NEW d \in Objects, NEW c \in Contents,
         NEW back \in Int, NEW r \in Words, Using(h, n, LEN), Flushes, lu[h] = n + IX_FLAG,
         BlockOf(d) = b, d # h, work = Header(n, LEN, r),
         Shifted(d, {h}, Sheet(Final, n, c), n, Referring(h, n, b, d, back, k)), Working, FileInv
  PROVE  Steady /\ Gathers(b, k)'
<1>. DEFINE g == Sheet(Final, n, c)
            u == Gathering(h, n, b, d + 1, back, k)
<1>1. Listed(u)
  BY GatheringListed
<1>2. Laid({h}, n, g, Cons(Do("refer"), u)) /\ Above(d)
  BY DEF Shifted, Referring
<1>. HIDE DEF g, u
<1>3. /\ Same({h}) /\ Steady /\ UNCHANGED <<fds, dst>> /\ work' = [work EXCEPT !.ref = dst]
      /\ Laid({h}, n, g, u)'
  BY <1>1, <1>2, ReferStep
<1>4. dst \in Objects /\ dst # h /\ Live' = {h, dst} /\ lu'[dst] = n /\ page'[dst] = g /\ todo' = u
      /\ Flat({}, {})' /\ Near'
  BY <1>3 DEF Laid
<1>5. work' = Header(n, LEN, dst)
  <2>1. \A p : [Header(n, LEN, r) EXCEPT !.ref = p] = Header(n, LEN, p)
    BY Copies, WordLen
  <2>. QED BY <1>3, <2>1
<1>6. ASSUME InBlock(b)' PROVE Live' \cap Block(b) # {}
  <2>1. BlockOf(dst) = b
    BY <1>3, <1>4, <1>6 DEF Near
  <2>. QED BY <1>4, <2>1, PageInBlock
<1>7. dst \in Block(b) => dst >= d + 1
  <2>1. ASSUME dst \in Block(b) PROVE BlockOf(dst) = BlockOf(d)
    BY <1>4, <2>1, PageInBlock
  <2>2. dst \in Int /\ d \in Int
    BY <1>4, ObjectIsNumber, Zenon
  <2>. QED BY <1>2, <2>1, <2>2 DEF Above, SameBlock
<1>8. AtData(h, n, dst, c, b, d + 1, back, k)'
  <2>1. PICK e : e = dst
    OBVIOUS
  <2>2. AtData(h, n, e, c, b, d + 1, back, k)'
    BY <1>3, <1>4, <1>5, <1>6, <1>7, <2>1 DEF AtData, Out, Holding, g, u
  <2>. QED BY <1>3, <2>1, <2>2
<1>9. Using(h, n, LEN)' /\ Flushes' /\ lu'[h] = n + IX_FLAG
  BY <1>3, StillUsing, StillCalled DEF Same
<1>10. d + 1 \in Int
  BY ObjectIsNumber
<1>. QED
  <2>1. PICK e \in Objects : e = dst
    BY <1>4
  <2>2. AtData(h, n, e, c, b, d + 1, back, k)'
    BY <1>3, <1>8, <2>1
  <2>. QED BY <1>3, <1>9, <1>10, <2>2 DEF Gathers

LEMMA DataShifts ==
  ASSUME NEW b \in Bixes, NEW k, NEW h \in Objects, NEW n \in Ids, NEW d \in Objects, NEW c \in Contents,
         NEW back \in Int, NEW r \in Words, Using(h, n, LEN), Flushes, lu[h] = n + IX_FLAG,
         OnData(h, n, d, c, b, r, back, k), Working, FileInv, ~Full
  PROVE  Steady /\ Gathers(b, k)'
<1>. DEFINE v == Referring(h, n, b, d, back, k)
            g == Sheet(Final, n, c)
            w == Deletion(d, v)
<1>1. BlockOf(d) = b /\ d # h /\ work = Header(n, LEN, r)
      /\ (Shifting(d, {h}, g, g, n, w, v) \/ Shifted(d, {h}, g, n, v))
  BY DEF OnData
<1>2. CASE Shifted(d, {h}, g, n, v)
  BY <1>1, <1>2, DataArrives
<1>3. CASE Shifting(d, {h}, g, g, n, w, v)
  <2>1. Listed(v) /\ g \in Page /\ n \in Words \ {FREE, DELETED}
    BY GatheringListed, SheetFacts, IdWords DEF FREE
  <2>2. Finishes(g, g, d, w, v)
    BY DEF Finishes
  <2>. HIDE DEF v, g, w
  <2>3. /\ Same({h}) /\ Steady /\ UNCHANGED <<fds, work>>
        /\ Shifting(d, {h}, g, g, n, w, v)' \/ Shifted(d, {h}, g, n, v)'
    BY <1>1, <1>3, <2>1, <2>2, ShiftStep
  <2>4. Using(h, n, LEN)' /\ Flushes' /\ lu'[h] = n + IX_FLAG
    BY <2>3, StillUsing, StillCalled DEF Same
  <2>5. OnData(h, n, d, c, b, r, back, k)'
    BY <1>1, <2>3 DEF OnData, v, g, w
  <2>. QED BY <2>3, <2>4, <2>5 DEF Gathers
<1>. QED BY <1>1, <1>2, <1>3

LEMMA GathersStep ==
  ASSUME NEW b \in Bixes, NEW k, k.do = "gc_next", Gathers(b, k), Working, FileInv, ~Full
  PROVE  Steady /\ (Gathers(b, k)' \/ \E u : Stores(u)')
<1>1. PICK h \in Objects, n \in Ids, d \in Objects, c \in Contents, back \in Int :
        /\ Using(h, n, LEN) /\ Flushes /\ lu[h] = n + IX_FLAG
        /\ \/ \E from \in Int : AtData(h, n, d, c, b, from, back, k)
           \/ \E r \in Words : OnData(h, n, d, c, b, r, back, k)
  BY DEF Gathers
<1>2. ASSUME NEW from \in Int, AtData(h, n, d, c, b, from, back, k)
      PROVE  Steady /\ (Gathers(b, k)' \/ \E u : Stores(u)')
  BY <1>1, <1>2, AllGathered, DataTravels
<1>3. ASSUME NEW r \in Words, OnData(h, n, d, c, b, r, back, k)
      PROVE  Steady /\ Gathers(b, k)'
  BY <1>1, <1>3, DataShifts
<1>. QED BY <1>1, <1>2, <1>3

-----------------------------------------------------------------------------
(* The header is stored again. *)

LooksOn == Goal(Changing) /\ \E b \in Bixes : \E k : k.do = "gc_next" /\ Looks(b, k, Changing)

LEMMA FourListed ==
  \A x, y, z, w : /\ Listed(<<x, y, z, w>>)
                  /\ \A t : Listed(t) => <<x, y, z, w>> \o t = Cons(x, Cons(y, Cons(z, Cons(w, t))))
<1>. SUFFICES ASSUME NEW x, NEW y, NEW z, NEW w
     PROVE  /\ Listed(<<x, y, z, w>>)
            /\ \A t : Listed(t) => <<x, y, z, w>> \o t = Cons(x, Cons(y, Cons(z, Cons(w, t))))
  OBVIOUS
<1>1. <<x, y, z, w>> = <<x, y, z>> \o <<w>>
  <2>. DEFINE R == {x, y, z, w}
              u == <<x, y, z, w>>
              v == <<x, y, z>> \o <<w>>
  <2>1. u \in Seq(R) /\ Len(u) = 4 /\ u[1] = x /\ u[2] = y /\ u[3] = z /\ u[4] = w
    OBVIOUS
  <2>2. v \in Seq(R) /\ Len(v) = 4 /\ v[1] = x /\ v[2] = y /\ v[3] = z /\ v[4] = w
    OBVIOUS
  <2>. HIDE DEF u, v, R
  <2>3. \A i \in 1..4 : u[i] = v[i]
    BY <2>1, <2>2
  <2>4. u = v
    BY <2>1, <2>2, <2>3, SeqEqual
  <2>. QED BY <2>4 DEF u, v
<1>2. Listed(<<x, y, z>>) /\ Listed(<<w>>)
  BY ThreeListed, OneListed
<1>3. Listed(<<x, y, z>> \o <<w>>)
  BY <1>2, Onto
<1>4. ASSUME NEW t, Listed(t)
      PROVE  <<x, y, z, w>> \o t = Cons(x, Cons(y, Cons(z, Cons(w, t))))
  <2>1. <<w>> \o t = Cons(w, t) /\ Listed(Cons(w, t))
    BY <1>4, ConsPairs, ConsFacts
  <2>2. <<x, y, z>> \o Cons(w, t) = Cons(x, Cons(y, Cons(z, Cons(w, t))))
    BY <2>1, ConsPairs
  <2>3. (<<x, y, z>> \o <<w>>) \o t = <<x, y, z>> \o (<<w>> \o t)
    BY <1>2, <1>4, Onto
  <2>. QED BY <1>1, <2>1, <2>2, <2>3, Zenon
<1>. QED BY <1>1, <1>3, <1>4, Zenon

StoreMoves(g, id, p, e, u) ==
  ((<<FindingFree, Putting(g), Linking(id), Do("final")>> \o Deleting(p)) \o <<e>>) \o u
    = Cons(FindingFree, Shifts(g, id, Cons(Do("final"), Deletion(p, Cons(e, u)))))
LEMMA StoreList == \A g, id, p, e, u : Listed(u) => StoreMoves(g, id, p, e, u)
<1>. SUFFICES ASSUME NEW g, NEW id, NEW p, NEW e, NEW u, Listed(u)
     PROVE  StoreMoves(g, id, p, e, u)
  OBVIOUS
<1>. DEFINE a == FindingFree
            b == Putting(g)
            c == Linking(id)
            f == Do("final")
            s == Deleting(p)
            r == <<a, b, c, f>>
            v == Cons(e, u)
            q == Deletion(p, v)
<1>1. Shifts(g, id, Cons(f, q)) = Cons(b, Cons(c, Cons(f, q)))
  BY DEF Shifts
<1>2. Listed(v) /\ Listed(<<e>>) /\ <<e>> \o u = v
  BY ConsFacts, ConsPairs, OneListed
<1>3. Listed(s) /\ Listed(q) /\ s \o v = q
  BY <1>2, DeletingOnto
<1>. HIDE DEF a, b, c, f, s, q, v
<1>4. Listed(r) /\ r \o q = Cons(a, Cons(b, Cons(c, Cons(f, q))))
  BY <1>3, FourListed
<1>. HIDE DEF r
<1>5. Listed(r \o s)
  BY <1>3, <1>4, Onto
<1>8. (r \o s) \o v = r \o (s \o v)
  <2>1. Listed(r) /\ Listed(s) /\ Listed(v)
    BY <1>2, <1>3, <1>4
  <2>. QED BY <2>1, Onto
<1>6. ((r \o s) \o <<e>>) \o u = (r \o s) \o (<<e>> \o u)
  BY <1>2, <1>5, Onto
<1>7. ((r \o s) \o <<e>>) \o u = Cons(a, Shifts(g, id, Cons(f, q)))
  BY <1>1, <1>2, <1>3, <1>4, <1>6, <1>8, Zenon
<1>. QED BY <1>7, Zenon DEF StoreMoves, a, b, c, f, s, r, q, v

LEMMA ToStoreStep ==
  ASSUME NEW h \in Objects, NEW n \in Ids, NEW d \in Objects, NEW c \in Contents, NEW u,
         Using(h, n, LEN), Flushes, h # d, Holding(d, n, c), Resumes(u, d, c), ToStore(h, n, d, u),
         Working, FileInv
  PROVE  Steady /\ Stores(u)'
<1>. DEFINE id == n + IX_FLAG
            x == [do |-> "store", id |-> id, p |-> h]
            g == Draft(n, LEN, d)
            v == Updating(n, u)
            w == Cons(Do("final"), Deletion(h, v))
            e == Event("update", id)
<1>1. Listed(u)
  BY ResumesListed
<1>2. Here(x, u)
  BY <1>1 DEF Here, ToStore, Storing
<1>3. /\ StoreHeader /\ UNCHANGED <<phase, config, stored, cuts>> /\ Step.id = id /\ Step.p = h
      /\ \A s : Then(s) <=> todo' = s \o u
  <2>1. x.do = "store" /\ x.id = id /\ x.p = h
    OBVIOUS
  <2>. HIDE DEF x
  <2>2. /\ At("store") /\ SpiffsStep /\ UNCHANGED <<phase, config, stored, cuts>> /\ Step = x
        /\ \A s : Then(s) <=> todo' = s \o u
    BY <1>2, <2>1, HereFacts
  <2>. QED BY <2>1, <2>2, Dispatch
<1>4. work = Header(n, LEN, d) /\ d \in Words
  BY ObjectIsWord DEF ToStore
<1>5. ValidHeader(work, id) /\ [work EXCEPT !.flags = (@ \ {"final"}) \cup {"used"}] = g
  BY <1>4, HeaderIsValid, IdWords, Copies, WordLen
<1>6. /\ Then((<<FindingFree, Putting(g), Linking(id), Do("final")>> \o Deleting(h)) \o <<e>>)
      /\ UNCHANGED <<flash, fs, fds, work, dst, call, rc>>
  <2>. HIDE DEF x, g
  <2>. QED BY <1>3, <1>5 DEF StoreHeader, MovingHeader
<1>7. todo' = Cons(FindingFree, Shifts(g, id, w))
  <2>1. StoreMoves(g, id, h, e, u)
    BY <1>1, StoreList, Zenon
  <2>2. todo' = ((<<FindingFree, Putting(g), Linking(id), Do("final")>> \o Deleting(h)) \o <<e>>) \o u
    BY <1>3, <1>6, Zenon
  <2>. QED BY <2>1, <2>2, Zenon DEF StoreMoves, Updating
<1>8. Flat({}, {})' /\ Steady /\ UNCHANGED <<fds, lu, page, work>> /\ Live' = Live
  <2>1. Flat({}, {})'
    BY <1>6, NothingTouched, SameFields DEF ToStore
  <2>. QED BY <1>3, <1>6, <2>1, SameLive DEF Steady, flash
<1>9. Shifting(h, {d}, g, Header(n, LEN, d), id, w, v)'
  <2>. HIDE DEF v, g, w, id
  <2>1. Seeking(Shifts(g, id, w))'
    BY <1>7, <1>8 DEF Seeking, FindingFree
  <2>2. Live' = {h} \cup {d}
    BY <1>8 DEF ToStore
  <2>. QED BY <2>1, <2>2 DEF Shifting, Sought
<1>10. Resumes(u, d, c)'
  BY <1>8 DEF Resumes, Steady
<1>11. OnHeader(h, n, d, u)'
  <2>1. work'.size = LEN
    BY <1>4, <1>8 DEF Header
  <2>. QED BY <1>9, <2>1 DEF OnHeader
<1>12. Using(h, n, LEN)' /\ Flushes' /\ Holding(d, n, c)'
  BY <1>8, StillUsing, StillCalled DEF Holding
<1>. QED BY <1>8, <1>10, <1>11, <1>12 DEF Stores

LEMMA HeaderArrives ==
  ASSUME NEW h \in Objects, NEW n \in Ids, NEW d \in Objects, NEW c \in Contents, NEW u,
         Using(h, n, LEN), Flushes, h # d, Holding(d, n, c), Resumes(u, d, c), work.size = LEN,
         Shifted(h, {d}, Header(n, LEN, d), n + IX_FLAG, Updating(n, u)), Working, FileInv
  PROVE  Steady /\ (Closes' \/ LooksOn')
<1>. DEFINE id == n + IX_FLAG
            g == Header(n, LEN, d)
<1>1. Listed(u)
  BY ResumesListed
<1>2. Laid({d}, id, g, Updating(n, u)) /\ Above(h)
  BY DEF Shifted
<1>3. Here(Event("update", id), u)
  BY <1>1, <1>2 DEF Here, Laid, Updating
<1>. HIDE DEF g
<1>4. /\ todo' = u /\ fds' = Followed(id, dst, work.size)
      /\ Steady /\ SameLookup /\ UNCHANGED <<page, work>>
  BY <1>3, DoUpdated
<1>5. SameCursor /\ SameCounters /\ UNCHANGED <<lu, magic, dst>>
  BY <1>4, Fixed
<1>6. Laid({d}, id, g, u)'
  BY <1>2, <1>4, <1>5, LaidKept DEF Laid
<1>7. Typed /\ UNCHANGED <<call, rc, phase, config>>
  BY <1>4 DEF FileInv, Steady
<1>8. Using(dst, n, LEN)'
  <2>1. PICK y : y = dst
    OBVIOUS
  <2>2. Using(y, n, IF LEN = 0 THEN LEN ELSE LEN)'
    BY <1>4, <1>7, <2>1, FollowedUsing
  <2>. QED BY <1>5, <2>1, <2>2 DEF Using
<1>9. Flushes' /\ Holding(d, n, c)' /\ Resumes(u, d, c)'
  BY <1>4, <1>5, <1>7 DEF Flushes, Holding, Resumes
<1>10. /\ dst' \in Objects /\ dst' # d /\ Live' = {dst', d} /\ lu'[dst'] = id /\ page'[dst'] = g /\ todo' = u
       /\ Flat({}, {})' /\ Near' /\ dst' = dst
  BY <1>5, <1>6 DEF Laid
<1>11. CASE u = Cons(Do("close"), <<>>) /\ c = config
  <2>1. Whole(dst, d, n, c)'
    BY <1>9, <1>10 DEF Whole, g
  <2>2. Stable(config)'
    <3>1. PICK y \in Objects : y = dst'
      BY <1>10
    <3>2. Whole(y, d, n, c)'
      BY <2>1, <3>1 DEF Whole
    <3>. QED BY <1>7, <1>11, <3>2 DEF Stable
  <2>. QED BY <1>4, <1>8, <1>9, <1>10, <1>11, <2>2 DEF Closes, Using
<1>12. ASSUME NEW b \in Bixes, NEW back \in Int, NEW k, k.do = "gc_next",
              u = Cons(Finding(b, back), Plan(b, k, Changing)), d \notin Block(b)
       PROVE  LooksOn'
  <2>1. Filed(dst, {d}, n, g, Changing)'
    BY <1>8, <1>9, <1>10 DEF Filed, Carried, g, Header
  <2>2. Goal(Changing)'
    <3>1. PICK y \in Objects : y = dst'
      BY <1>10
    <3>2. Filed(y, {d}, n, g, Changing)'
      BY <2>1, <3>1 DEF Filed
    <3>. QED BY <3>2 DEF Goal
  <2>3. ASSUME InBlock(b)' PROVE Live' \cap Block(b) # {}
    <3>1. PICK y \in Objects : y = dst'
      BY <1>10
    <3>2. BlockOf(y) = b
      BY <1>10, <2>3, <3>1 DEF Near
    <3>. QED BY <1>10, <3>1, <3>2, PageInBlock
  <2>4. \A p \in Live' \cap Block(b) : IsIndex(lu'[p])
    BY <1>10, <1>12, IdWords
  <2>5. LooksFrom(b, back, k, Changing)'
    BY <1>10, <1>12, <2>3, <2>4 DEF LooksFrom, Out
  <2>. QED BY <1>12, <2>2, <2>5 DEF LooksOn, Looks
<1>. QED BY <1>4, <1>11, <1>12 DEF Resumes

LEMMA StoresStep ==
  ASSUME NEW u, Stores(u), Working, FileInv, ~Full
  PROVE  Steady /\ (Stores(u)' \/ Closes' \/ LooksOn')
<1>1. PICK h \in Objects, n \in Ids, d \in Objects, c \in Contents :
        /\ Using(h, n, LEN) /\ Flushes /\ h # d /\ Holding(d, n, c) /\ Resumes(u, d, c)
        /\ ToStore(h, n, d, u) \/ OnHeader(h, n, d, u)
  BY DEF Stores
<1>. DEFINE id == n + IX_FLAG
            g == Header(n, LEN, d)
            i == Draft(n, LEN, d)
            v == Updating(n, u)
            w == Cons(Do("final"), Deletion(h, v))
<1>2. CASE ToStore(h, n, d, u)
  BY <1>1, <1>2, ToStoreStep
<1>3. CASE work.size = LEN /\ Shifted(h, {d}, g, id, v)
  BY <1>1, <1>3, HeaderArrives
<1>4. CASE work.size = LEN /\ Shifting(h, {d}, i, g, id, w, v)
  <2>1. Listed(v) /\ i \in Page /\ id \in Words \ {FREE, DELETED} /\ d \in Words
    <3>1. d \in Words
      BY ObjectIsWord
    <3>2. i \in Page
      BY <3>1, WordLen, IdWords DEF Draft, Page, Words, Flags
    <3>. QED BY <1>1, <3>1, <3>2, ResumesListed, ConsFacts, IdWords DEF FREE, Updating
  <2>2. Finishes(i, g, h, w, v)
    BY <2>1, Copies, WordLen DEF Finishes
  <2>. HIDE DEF v, g, w, i, id
  <2>3. /\ Same({d}) /\ Steady /\ UNCHANGED <<fds, work>>
        /\ Shifting(h, {d}, i, g, id, w, v)' \/ Shifted(h, {d}, g, id, v)'
    BY <1>1, <1>4, <2>1, <2>2, ShiftStep
  <2>4. Using(h, n, LEN)' /\ Flushes' /\ Holding(d, n, c)' /\ Resumes(u, d, c)'
    BY <1>1, <2>3, StillUsing, StillCalled DEF Same, Holding, Resumes, Steady
  <2>5. OnHeader(h, n, d, u)'
    BY <1>4, <2>3 DEF OnHeader, v, g, w, i, id
  <2>. QED BY <1>1, <2>3, <2>4, <2>5 DEF Stores
<1>. QED BY <1>1, <1>2, <1>3, <1>4 DEF OnHeader

-----------------------------------------------------------------------------
(* One step of the garbage collection. *)

LEMMA CountsStep ==
  ASSUME NEW t, Goal(t), Counts(t), Working, FileInv, ~Full
  PROVE  Steady /\ (Collecting(t)' \/ Due(t)')
<1>1. Listed(t)
  BY GoalListed
<1>2. PICK x : x.do \in {"gc_check", "gc_run", "gc_next"} /\ todo = Cons(x, t) /\ Flat({}, {})
  BY DEF Counts
<1>3. /\ Untouched /\ Steady /\ UNCHANGED fds
      /\ \/ Counts(t)' \/ (Flat({}, {})' /\ todo' = t)
         \/ \E b \in Bixes : \E k : k.do = "gc_next" /\ Looks(b, k, t)'
  <2>1. CASE x.do = "gc_check"
    BY <1>1, <1>2, <2>1, CheckStep
  <2>2. CASE x.do = "gc_run"
    BY <1>1, <1>2, <2>2, RunStep
  <2>3. CASE x.do = "gc_next"
    BY <1>1, <1>2, <2>3, AfterBlock
  <2>. QED BY <1>2, <2>1, <2>2, <2>3
<1>4. Goal(t)'
  BY <1>3, StillGoal
<1>. QED BY <1>3, <1>4 DEF Collecting, Collects, Cleaned, Due

LEMMA BlockStep ==
  ASSUME NEW t, Goal(t), NEW b \in Bixes, NEW k, k.do = "gc_next", Cleaned(b, k, t), Working, FileInv, ~Full
  PROVE  Steady /\ (Collecting(t)' \/ Moved(t)' \/ Gathered')
<1>1. Listed(t)
  BY GoalListed
<1>2. CASE Looks(b, k, t)
  <2>1. /\ Steady /\ UNCHANGED fds
        /\ (Untouched /\ Indexes(b, k, t)') \/ Gathers(b, k)'
    BY <1>2, FindStep
  <2>2. CASE Untouched /\ Indexes(b, k, t)'
    <3>1. Goal(t)'
      BY <2>1, <2>2, StillGoal
    <3>. QED BY <2>1, <2>2, <3>1 DEF Collecting, Collects, Cleaned
  <2>. QED BY <2>1, <2>2 DEF Gathered
<1>3. CASE Indexes(b, k, t)
  <2>1. PICK from \in Int : IndexesFrom(b, from, k, t)
    BY <1>3 DEF Indexes
  <2>2. /\ Untouched /\ Steady /\ UNCHANGED fds
        /\ Leaves(b, k, t)' \/ MovesIndex(b, k, t)'
    BY <2>1, IndexLeft
  <2>3. Goal(t)'
    BY <2>2, StillGoal
  <2>. QED BY <2>2, <2>3 DEF Collecting, Collects, Cleaned, Moved
<1>4. CASE Leaves(b, k, t)
  <2>1. Untouched /\ Steady /\ UNCHANGED fds /\ Clearing(b, Cons(k, t))'
    BY <1>1, <1>4, LeavesStep
  <2>2. Goal(t)'
    BY <2>1, StillGoal
  <2>. QED BY <2>1, <2>2 DEF Collecting, Collects, Cleaned
<1>5. CASE Clearing(b, Cons(k, t))
  <2>1. Untouched /\ Steady /\ UNCHANGED fds /\ (Clearing(b, Cons(k, t))' \/ Counts(t)')
    BY <1>1, <1>5, ClearedStep
  <2>2. Goal(t)'
    BY <2>1, StillGoal
  <2>. QED BY <2>1, <2>2 DEF Collecting, Collects, Cleaned
<1>. QED BY <1>2, <1>3, <1>4, <1>5 DEF Cleaned

LEMMA CollectingStep ==
  ASSUME NEW t, Collecting(t), Working, FileInv, ~Full
  PROVE  Steady /\ Busy'
<1>1. Goal(t)
  BY DEF Collecting
<1>2. CASE Counts(t)
  BY <1>1, <1>2, CountsStep DEF Busy
<1>3. ASSUME NEW b \in Bixes, NEW k, k.do = "gc_next", Cleaned(b, k, t) PROVE Steady /\ Busy'
  BY <1>1, <1>3, BlockStep DEF Busy
<1>. QED BY <1>2, <1>3 DEF Collecting, Collects

LEMMA LooksOnIsBusy == LooksOn => Busy
  BY DEF LooksOn, Busy, Collecting, Collects, Cleaned

LEMMA MovingStep ==
  ASSUME (\E t : Moved(t)) \/ Gathered \/ Restored, Working, FileInv, ~Full
  PROVE  Steady /\ Busy'
<1>1. ASSUME NEW t, Moved(t) PROVE Steady /\ Busy'
  <2>1. PICK b \in Bixes : \E k : k.do = "gc_next" /\ MovesIndex(b, k, t)
    BY <1>1 DEF Moved
  <2>2. PICK k : k.do = "gc_next" /\ MovesIndex(b, k, t)
    BY <2>1
  <2>3. Steady /\ (MovesIndex(b, k, t)' \/ (Goal(t)' /\ Indexes(b, k, t)'))
    BY <2>2, MovesIndexStep
  <2>. QED BY <2>2, <2>3 DEF Busy, Moved, Collecting, Collects, Cleaned
<1>2. ASSUME Gathered PROVE Steady /\ Busy'
  <2>1. PICK b \in Bixes : \E k : k.do = "gc_next" /\ Gathers(b, k)
    BY <1>2 DEF Gathered
  <2>2. PICK k : k.do = "gc_next" /\ Gathers(b, k)
    BY <2>1
  <2>3. Steady /\ (Gathers(b, k)' \/ \E u : Stores(u)')
    BY <2>2, GathersStep
  <2>. QED BY <2>2, <2>3 DEF Busy, Gathered, Restored
<1>3. ASSUME NEW u, Stores(u) PROVE Steady /\ Busy'
  <2>1. Steady /\ (Stores(u)' \/ Closes' \/ LooksOn')
    BY <1>3, StoresStep
  <2>2. LooksOn' => Busy'
    BY DEF LooksOn, Busy, Collecting, Collects, Cleaned
  <2>. QED BY <2>1, <2>2 DEF Busy, Restored
<1>. QED BY <1>1, <1>2, <1>3 DEF Restored

-----------------------------------------------------------------------------
(* The file is created, and opened. *)

LEMMA FollowedOpen ==
  ASSUME Typed, NEW id, NEW x, NEW z, fds' = Followed(id, x, z), UNCHANGED call
  PROVE  (Sole => Sole') /\ (Fd.named => Fd'.named)
<1>1. fds \in [Fds -> FdType] /\ call.fd \in Fds
  BY DEF Typed, CallType
<1>2. \A f \in Fds : fds'[f].open = fds[f].open /\ fds'[f].named = fds[f].named
  <2>. TAKE f \in Fds
  <2>1. fds[f] \in FdType
    BY <1>1
  <2>. DEFINE r == fds[f]
              y == IF z = 0 THEN r.size ELSE z
  <2>2. fds'[f] = (IF r.obj # id \/ ~r.named THEN r ELSE [r EXCEPT !.hdr = x, !.size = y])
    BY DEF Followed
  <2>. HIDE DEF y
  <2>3. r.open \in BOOLEAN /\ [r EXCEPT !.hdr = x, !.size = y].open = r.open /\ [r EXCEPT !.hdr = x, !.size = y].named = r.named
    BY <2>1 DEF FdType
  <2>. HIDE DEF r
  <2>4. fds'[f].open = r.open /\ fds'[f].named = r.named
    BY <2>2, <2>3
  <2>. QED BY <2>4 DEF r
<1>. QED BY <1>1, <1>2 DEF Sole, Fd

LEMMA CreatedStep ==
  ASSUME NEW n \in Ids, Creates, Laid({}, n + IX_FLAG, Header(n, ONES, ONES), Cons(Do("created"), <<>>)),
         Working, FileInv
  PROVE  Steady /\ OpensFile'
<1>. DEFINE g == Header(n, ONES, ONES)
<1>1. Here(Do("created"), <<>>)
  BY NilListed DEF Here, Laid
<1>2. Do("created").do = "created"
  BY DEF Do
<1>3. /\ Created /\ UNCHANGED <<phase, config, stored, cuts>>
      /\ \A s : Then(s) <=> todo' = s \o <<>>
      /\ Typed
  <2>1. /\ At("created") /\ SpiffsStep /\ UNCHANGED <<phase, config, stored, cuts>>
        /\ \A s : Then(s) <=> todo' = s \o <<>>
        /\ Typed
    BY <1>1, <1>2, HereFacts
  <2>. QED BY <2>1, Dispatch
<1>4. dst \in Objects /\ Flat({}, {}) /\ Live = {dst} /\ lu[dst] = n + IX_FLAG /\ page[dst] = g
  BY DEF Laid
<1>5. PICK h \in Objects : h = dst
  BY <1>4
<1>6. /\ Then(<<ByPage(h)>>) /\ fds' = Followed(lu[dst], dst, ONES)
      /\ UNCHANGED <<flash, fs, work, dst, call, rc>>
  BY <1>3, <1>5 DEF Created, ByPage
<1>7. todo' = Cons(ByPage(h), <<>>)
  BY <1>3, <1>6 DEF Cons
<1>8. Sole' /\ Fd'.named
  BY <1>3, <1>6, FollowedOpen DEF Creates
<1>9. Flat({}, {})' /\ UNCHANGED <<lu, page>> /\ Live' = Live
  <2>1. Flat({}, {})'
    BY <1>4, <1>6, NothingTouched, SameFields
  <2>. QED BY <1>6, <2>1, SameLive DEF flash
<1>10. Keeps(h, n, ONES)'
  BY <1>4, <1>5, <1>9 DEF Keeps
<1>. QED BY <1>3, <1>6, <1>7, <1>8, <1>9, <1>10 DEF OpensFile, Steady

LEMMA MakesStep ==
  ASSUME Makes, Working, FileInv, ~Full
  PROVE  Steady /\ (Makes' \/ OpensFile')
<1>1. PICK n \in Ids : Making(n)
  BY DEF Makes
<1>. DEFINE g == Header(n, ONES, ONES)
            v == Cons(Do("created"), <<>>)
            id == n + IX_FLAG
            w == Cons(Putting(g), v)
<1>2. Listed(v) /\ Listed(w) /\ Listed(Creation(n)) /\ Creation(n) = Cons(Linking(id), w)
  BY ShortListed, NilListed, ConsFacts DEF Creation
<1>3. id \in Words \ {FREE, DELETED} /\ g \in Page /\ Creates
  <2>1. g \in Page
    BY WordLen, IdWords DEF Header, Page, Words, Flags
  <2>. QED BY <2>1, IdWords DEF FREE, Makes
<1>4. Overlaid(ErasedPage, g) = g
  BY <1>3, OnErased
<1>5. CASE Laid({}, id, g, v)
  BY <1>3, <1>5, CreatedStep
<1>. HIDE DEF g, v, w, id
<1>6. CASE Sought({}, Creation(n))
  <2>1. Steady /\ UNCHANGED <<fds, work>> /\ (Sought({}, Creation(n))' \/ Ready({}, ErasedPage, Creation(n))')
    BY <1>2, <1>6, SoughtStep
  <2>. QED BY <1>3, <2>1, StillCalled DEF Makes, Making
<1>7. CASE Ready({}, ErasedPage, Creation(n))
  <2>1. Ready({}, ErasedPage, Cons(Linking(id), w))
    BY <1>2, <1>7
  <2>2. Steady /\ UNCHANGED <<fds, work>> /\ Laid({}, id, ErasedPage, w)'
    BY <1>2, <1>3, <2>1, EnterStep
  <2>. QED BY <1>3, <2>2, StillCalled DEF Makes, Making, g, v, w, id
<1>8. CASE Laid({}, id, ErasedPage, w)
  <2>1. Laid({}, id, ErasedPage, Cons(Putting(g), v))
    BY <1>8 DEF w
  <2>2. Steady /\ UNCHANGED <<fds, work>> /\ Laid({}, id, Overlaid(ErasedPage, g), v)'
    BY <1>2, <2>1, WriteStep
  <2>3. Laid({}, id, g, v)'
    BY <1>4, <2>2
  <2>. QED BY <1>3, <2>2, <2>3, StillCalled DEF Makes, Making, g, v, id
<1>. QED BY <1>1, <1>5, <1>6, <1>7, <1>8 DEF Making, g, v, w, id

Described(f, h, n, s, r, q) == q = [r EXCEPT ![f].hdr = h, ![f].size = s, ![f].obj = n]
LEMMA ToldFields ==
  \A r \in [Fds -> FdType], f \in Fds : \A h, n, s, q :
    Described(f, h, n, s, r, q) =>
      /\ q[f].hdr = h /\ q[f].size = s /\ q[f].obj = n /\ q[f].named = r[f].named
      /\ \A e \in Fds : q[e].open = r[e].open
<1>. SUFFICES ASSUME NEW r \in [Fds -> FdType], NEW f \in Fds, NEW h, NEW n, NEW s, NEW q,
              Described(f, h, n, s, r, q)
     PROVE  /\ q[f].hdr = h /\ q[f].size = s /\ q[f].obj = n /\ q[f].named = r[f].named
            /\ \A e \in Fds : q[e].open = r[e].open
  OBVIOUS
<1>. QED BY DEF FdType, Described

LEMMA ByPageStep ==
  ASSUME NEW h \in Objects, NEW n \in Ids, NEW s, NEW r, NEW u, Listed(u),
         todo = Cons(ByPage(h), u), Working, FileInv,
         page[h] = Header(n, s, r), lu[h] = n + IX_FLAG, Sole
  PROVE  /\ Steady /\ UNCHANGED <<flash, fs, work, dst>> /\ todo' = u
         /\ Knows(h, n, s)' /\ (Fd.named => Fd'.named)
<1>. DEFINE x == ByPage(h)
<1>1. x.do = "by_page" /\ x.p = h
  BY DEF ByPage
<1>2. Here(x, u)
  BY DEF Here
<1>3. /\ OpenByPage /\ UNCHANGED <<phase, config, stored, cuts>> /\ Step.p = h /\ Typed
      /\ Then(<<>>) <=> todo' = u
  <2>. HIDE DEF x
  <2>1. /\ At("by_page") /\ SpiffsStep /\ UNCHANGED <<phase, config, stored, cuts>> /\ Step = x /\ Typed
        /\ Then(<<>>) <=> todo' = u
    BY <1>1, <1>2, HereFacts
  <2>. QED BY <1>1, <2>1, Dispatch
<1>4. ValidHeader(page[h], lu[h])
  BY HeaderIsValid, IdWords
<1>5. PICK id : id = n + IX_FLAG
  OBVIOUS
<1>6. page[h].size = s /\ lu[h] = id
  BY <1>5 DEF Header
<1>7. /\ Then(<<>>) /\ UNCHANGED <<flash, fs, work, dst, call, rc>>
      /\ fds' = [fds EXCEPT ![call.fd].hdr = h, ![call.fd].size = s, ![call.fd].obj = id]
  <2>. HIDE DEF x
  <2>. QED BY <1>3, <1>4, <1>6 DEF OpenByPage
<1>8. fds \in [Fds -> FdType] /\ call.fd \in Fds
  BY <1>3 DEF Typed, CallType
<1>9. PICK f \in Fds : f = call.fd
  BY <1>8
<1>10. Described(f, h, id, s, fds, fds')
  BY <1>7, <1>9 DEF Described
<1>11. /\ fds'[f].hdr = h /\ fds'[f].size = s /\ fds'[f].obj = id /\ fds'[f].named = fds[f].named
       /\ \A e \in Fds : fds'[e].open = fds[e].open
  <2>1. fds'[f].hdr = h
    BY <1>8, <1>10, ToldFields
  <2>2. fds'[f].size = s
    BY <1>8, <1>10, ToldFields
  <2>3. fds'[f].obj = id
    BY <1>8, <1>10, ToldFields
  <2>4. fds'[f].named = fds[f].named
    BY <1>8, <1>10, ToldFields
  <2>5. \A e \in Fds : fds'[e].open = fds[e].open
    BY <1>8, <1>10, ToldFields
  <2>. QED BY <2>1, <2>2, <2>3, <2>4, <2>5
<1>. QED BY <1>3, <1>5, <1>7, <1>9, <1>11 DEF Steady, Knows, Sole, Fd

-----------------------------------------------------------------------------
(* The first write: a data page is added, and the header written over. *)

LEMMA OpensStep ==
  ASSUME OpensFile, Working, FileInv
  PROVE  Steady /\ FileOpen'
<1>1. PICK h \in Objects, n \in Ids, s \in {ONES, LEN} : Keeps(h, n, s) /\ todo = Cons(ByPage(h), <<>>)
  BY DEF OpensFile
<1>2. PICK r : page[h] = Header(n, s, r)
  BY <1>1 DEF Keeps, Whole
<1>3. Sole /\ Fd.named /\ Flat({}, {}) /\ lu[h] = n + IX_FLAG
  BY <1>1 DEF OpensFile, Keeps
<1>4. /\ Steady /\ UNCHANGED <<flash, fs, work, dst>> /\ todo' = <<>>
      /\ Knows(h, n, s)' /\ (Fd.named => Fd'.named)
  BY <1>1, <1>2, <1>3, NilListed, ByPageStep
<1>5. Flat({}, {})' /\ UNCHANGED <<lu, page>> /\ Live' = Live
  <2>1. Flat({}, {})'
    BY <1>3, <1>4, NothingTouched, SameFields
  <2>. QED BY <1>4, <2>1, SameLive DEF flash
<1>6. Keeps(h, n, s)'
  BY <1>1, <1>5 DEF Keeps, Whole, Holding
<1>7. Using(h, n, s)'
  BY <1>3, <1>4 DEF Using, Knows
<1>. QED BY <1>4, <1>5, <1>6, <1>7 DEF FileOpen

IsSeven(x, y, z, w, p, q, r) ==
  <<x, y, z, w, p, q, r>> \o <<>> = Cons(x, Cons(y, Cons(z, Cons(w, Cons(p, Cons(q, Cons(r, <<>>)))))))
LEMMA SevenList == \A x, y, z, w, p, q, r : IsSeven(x, y, z, w, p, q, r)
<1>. SUFFICES ASSUME NEW x, NEW y, NEW z, NEW w, NEW p, NEW q, NEW r PROVE IsSeven(x, y, z, w, p, q, r)
  OBVIOUS
<1>1. <<x, y, z, w, p, q, r>> = <<x, y, z, w>> \o <<p, q, r>>
  <2>. DEFINE R == {x, y, z, w, p, q, r}
              u == <<x, y, z, w, p, q, r>>
              v == <<x, y, z, w>> \o <<p, q, r>>
  <2>1. u \in Seq(R) /\ Len(u) = 7 /\ u[1] = x /\ u[2] = y /\ u[3] = z /\ u[4] = w
        /\ u[5] = p /\ u[6] = q /\ u[7] = r
    OBVIOUS
  <2>2. v \in Seq(R) /\ Len(v) = 7 /\ v[1] = x /\ v[2] = y /\ v[3] = z /\ v[4] = w
        /\ v[5] = p /\ v[6] = q /\ v[7] = r
    OBVIOUS
  <2>. HIDE DEF u, v, R
  <2>3. \A i \in 1..7 : u[i] = v[i]
    BY <2>1, <2>2
  <2>4. u = v
    BY <2>1, <2>2, <2>3, SeqEqual
  <2>. QED BY <2>4 DEF u, v
<1>. DEFINE a == <<x, y, z, w>>
            b == <<p, q, r>>
            c == Cons(p, Cons(q, Cons(r, <<>>)))
<1>2. Listed(a) /\ Listed(b) /\ Listed(<<>>) /\ Listed(c)
  BY FourListed, ThreeListed, NilListed, ConsFacts
<1>3. b \o <<>> = c
  <2>1. PICK e : e = <<>>
    OBVIOUS
  <2>2. Listed(e)
    BY <2>1, NilListed
  <2>3. <<p, q, r>> \o e = Cons(p, Cons(q, Cons(r, e)))
    BY <2>2, ConsPairs
  <2>. QED BY <2>1, <2>3, Zenon
<1>4. a \o c = Cons(x, Cons(y, Cons(z, Cons(w, c))))
  BY <1>2, FourListed
<1>. HIDE DEF a, b, c
<1>5. (a \o b) \o <<>> = a \o (b \o <<>>)
  BY <1>2, Onto
<1>6. (a \o b) \o <<>> = Cons(x, Cons(y, Cons(z, Cons(w, c))))
  BY <1>3, <1>4, <1>5, Zenon
<1>. QED BY <1>1, <1>6, Zenon DEF IsSeven, a, b, c

LEMMA ClosingListed ==
  /\ Listed(Closing) /\ Listed(Sizing) /\ Listed(Entering)
  /\ \A c : Listed(Filling(c))
  /\ \A i, n, f, c : Listed(Cons(Putting(i), Filling(c))) /\ Listed(Starting(f, n, Filling(c)))
  BY NilListed, ConsFacts DEF Closing, Sizing, Entering, Filling, Starting

LEMMA TwoFields ==
  \A g \in Page : \A x, y : [g EXCEPT !.flags = x, !.id = y] = Image(x, y, g.data, g.size, g.ref, g.named)
<1>. SUFFICES ASSUME NEW g \in Page, NEW x, NEW y
     PROVE  [g EXCEPT !.flags = x, !.id = y] = Image(x, y, g.data, g.size, g.ref, g.named)
  OBVIOUS
<1>1. [g EXCEPT !.flags = x] = Image(x, g.id, g.data, g.size, g.ref, g.named)
  BY PageFields
<1>. DEFINE a == g.id
            b == g.data
            c == g.size
            d == g.ref
            e == g.named
<1>. HIDE DEF a, b, c, d, e
<1>2. [Image(x, a, b, c, d, e) EXCEPT !.id = y] = Image(x, y, b, c, d, e)
  BY DEF Image
<1>. QED BY <1>1, <1>2 DEF a, b, c, d, e

LEMMA SheetIsPage ==
  \A n \in Ids : \A x : [ErasedPage EXCEPT !.flags = x, !.id = n] = Sheet(x, n, Erased)
<1>. SUFFICES ASSUME NEW n \in Ids, NEW x
     PROVE  [ErasedPage EXCEPT !.flags = x, !.id = n] = Sheet(x, n, Erased)
  OBVIOUS
<1>1. PICK g \in Page : g = ErasedPage
  BY ErasedIsPage
<1>2. g.data = Erased /\ g.size = ONES /\ g.ref = ONES /\ g.named = FALSE
  BY <1>1 DEF ErasedPage
<1>3. [g EXCEPT !.flags = x, !.id = n] = Image(x, n, g.data, g.size, g.ref, g.named)
  BY TwoFields
<1>. QED BY <1>1, <1>2, <1>3, Zenon DEF Sheet, Image

LEMMA AppendStep ==
  ASSUME NEW h \in Objects, NEW n \in Ids, NEW O, NEW g, NEW t, Filed(h, O, n, g, t), t = Appending,
         Flat({}, {}), todo = t, Working, FileInv
  PROVE  Steady /\ Adds'
<1>1. O = {} /\ g = Header(n, ONES, ONES) /\ Using(h, n, ONES) /\ Flushes /\ Live = {h} /\ lu[h] = n + IX_FLAG
      /\ page[h] = g
  <2>1. Appending # Changing
    <3>1. Head(Appending) = Do("append") /\ Head(Changing) = Do("modify")
      BY NilListed, ConsFacts DEF Appending, Changing
    <3>2. Do("append").do # Do("modify").do
      BY DEF Do
    <3>. QED BY <3>1, <3>2
  <2>2. O = {} /\ g = Header(n, ONES, ONES)
    BY <2>1 DEF Filed, Carried
  <2>3. g.size = ONES
    BY <2>2 DEF Header
  <2>. QED BY <2>2, <2>3 DEF Filed
<1>2. Here(Do("append"), <<>>)
  BY NilListed DEF Here, Appending
<1>3. /\ AppendTo /\ UNCHANGED <<phase, config, stored, cuts>>
      /\ \A s : Then(s) <=> todo' = s \o <<>>
  <2>1. Do("append").do = "append"
    BY DEF Do
  <2>2. /\ At("append") /\ SpiffsStep /\ UNCHANGED <<phase, config, stored, cuts>>
        /\ \A s : Then(s) <=> todo' = s \o <<>>
    BY <1>2, <2>1, HereFacts
  <2>. QED BY <2>2, Dispatch
<1>4. Fd.hdr = h /\ Fd.obj = n + IX_FLAG /\ Fd.obj - IX_FLAG = n /\ call.value = config /\ config \in Contents
  BY <1>1, IdWords DEF Using, Flushes
<1>5. ValidHeader(page[h], Fd.obj)
  BY <1>1, <1>4, HeaderIsValid, IdWords
<1>6. DataPage({"used", "final"}) = Sheet(Final, n, Erased)
  BY <1>4, SheetIsPage DEF DataPage, Final
<1>7. PICK f : f = FindingOr(<<Indexing(0)>>)
  OBVIOUS
<1>13. PICK c \in Contents : c = config
  BY <1>4
<1>. DEFINE L == Starting(Final, n, Filling(c))
<1>8. /\ work' = g
      /\ todo' = <<f, Linking(n), Putting(Sheet(Final, n, Erased)), Putting(Text(c)), Do("refer"),
                   Indexing(LEN), Do("close")>> \o <<>>
      /\ UNCHANGED <<flash, fs, fds, dst, call, rc>>
  <2>1. Writing(call.value) = Putting(Text(c))
    BY <1>4, <1>13 DEF Writing, Text
  <2>. QED BY <1>1, <1>3, <1>4, <1>5, <1>6, <1>7, <2>1 DEF AppendTo
<1>9. todo' = Cons(f, L)
  <2>1. IsSeven(f, Linking(n), Putting(Sheet(Final, n, Erased)), Putting(Text(c)), Do("refer"),
                Indexing(LEN), Do("close"))
    BY SevenList, Zenon
  <2>. QED BY <1>8, <2>1, Zenon DEF IsSeven, Starting, Filling, Entering, Sizing, Closing
<1>10. Steady /\ Flat({}, {})' /\ UNCHANGED <<fds, lu, page>> /\ Live' = Live
  <2>1. Flat({}, {})'
    BY <1>8, NothingTouched, SameFields
  <2>. QED BY <1>3, <1>8, <2>1, SameLive DEF Steady, flash
<1>11. Sought({h}, L)'
  <2>. HIDE DEF L
  <2>1. Seeking(L)'
    BY <1>7, <1>9, <1>10 DEF Seeking
  <2>. QED BY <1>1, <1>10, <2>1 DEF Sought
<1>12. Using(h, n, ONES)' /\ Flushes'
  BY <1>1, <1>10, StillUsing, StillCalled
<1>. QED BY <1>1, <1>8, <1>10, <1>11, <1>12, <1>13 DEF Adds, Adding, Steady

-----------------------------------------------------------------------------
(* The page of contents, as it is written. *)

LEMMA Contained ==
  ASSUME NEW n \in Ids, NEW c \in Contents
  PROVE  /\ Sheet(Final, n, Erased) \in Page /\ Sheet({"used"}, n, Erased) \in Page
         /\ \A f \in SUBSET Flags : Overlaid(Sheet(f, n, Erased), Text(c)) = Sheet(f, n, c)
         /\ n \in Words \ {FREE, DELETED}
<1>1. Final \in SUBSET Flags /\ {"used"} \in SUBSET Flags
  BY DEF Final, Flags
<1>2. \A f \in SUBSET Flags : /\ Overlaid(Sheet(f, n, Erased), Text(c)) = Sheet(f, n, c)
                              /\ Sheet(f, n, Erased) \in Page
  BY Images, WordLen
<1>. QED BY <1>1, <1>2, IdWords DEF FREE

LEMMA IndexStep ==
  ASSUME NEW h \in Objects, NEW n \in Ids, NEW c \in Contents,
         Using(h, n, ONES), Flushes, lu[h] = n + IX_FLAG, page[h] = Header(n, ONES, ONES), c = config,
         work = Header(n, ONES, dst), Laid({h}, n, Sheet(Final, n, c), Sizing), Working, FileInv
  PROVE  Steady /\ Closes'
<1>1. Here(Indexing(LEN), Closing)
  BY ClosingListed DEF Here, Laid, Sizing
<1>2. /\ StoreIndex /\ UNCHANGED <<phase, config, stored, cuts>> /\ Typed /\ Step.size = LEN
      /\ Then(<<>>) <=> todo' = Closing
  <2>1. Indexing(LEN).do = "index" /\ Indexing(LEN).size = LEN
    BY DEF Indexing
  <2>2. /\ At("index") /\ SpiffsStep /\ UNCHANGED <<phase, config, stored, cuts>> /\ Step = Indexing(LEN)
        /\ Typed /\ (Then(<<>>) <=> todo' = Closing)
    BY <1>1, <2>1, HereFacts
  <2>3. StoreIndex
    BY <2>2, Dispatch
  <2>4. Step.size = LEN
    BY <2>1, <2>2
  <2>. QED BY <2>2, <2>3, <2>4
<1>3. Fd.hdr = h /\ Fd.obj = n + IX_FLAG
  BY DEF Using
<1>4. ValidHeader(page[h], n + IX_FLAG)
  BY HeaderIsValid, IdWords
<1>5. PICK d \in Objects : d = dst
  BY DEF Laid
<1>6. d \in Words /\ ONES \in Words /\ LEN \in Words
  BY ObjectIsWord, WordLen
<1>7. [work EXCEPT !.size = LEN] = Header(n, LEN, d)
  BY <1>5, <1>6, Copies
<1>8. /\ WritePage(h, Header(n, LEN, d))
      /\ fds' = Followed(n + IX_FLAG, h, LEN)
      /\ todo' = Closing
      /\ UNCHANGED <<lu, magic, fs, dst, call, rc>>
  <2>1. /\ WritePage(Fd.hdr, [work EXCEPT !.size = Step.size])
        /\ fds' = Followed(Fd.obj, Fd.hdr, Step.size)
        /\ Then(<<>>) /\ UNCHANGED <<lu, magic, fs, dst, call, rc>>
    BY <1>2, <1>3, <1>4 DEF StoreIndex
  <2>. QED BY <1>2, <1>3, <1>7, <2>1
<1>9. /\ page'[h] = Header(n, LEN, d)
      /\ \A p \in Objects : p # h => page'[p] = page[p]
  <2>1. page \in [Objects -> Page]
    BY <1>2 DEF Typed, FlashTyped
  <2>2. Overlaid(Header(n, ONES, ONES), Header(n, LEN, d)) = Header(n, LEN, d)
    <3>1. PICK c0 \in Contents : c0 = c
      OBVIOUS
    <3>. QED BY <1>6, <3>1, Images
  <2>. QED BY <1>8, <2>1, <2>2 DEF WritePage
<1>10. d # h /\ Live = {h, d} /\ lu[d] = n /\ page[d] = Sheet(Final, n, c) /\ Flat({}, {})
       /\ lu[h] # FREE
  BY <1>5, IdWords DEF Laid, FREE
<1>11. Flat({}, {})' /\ Live' = Live
  <2>1. SameCursor /\ SameCounters /\ UNCHANGED <<lu, magic>>
    BY <1>8 DEF SameCursor, SameCounters
  <2>2. \A p \in Objects : lu[p] = FREE => page'[p] = page[p]
    BY <1>9, <1>10
  <2>. QED BY <1>10, <2>1, <2>2, FlatKept, SameLive
<1>12. Whole(h, d, n, c)'
  BY <1>8, <1>9, <1>10, <1>11 DEF Whole, Holding
<1>13. Sole' /\ Flushes' /\ Steady
  <2>1. Sole'
    BY <1>2, <1>8, FollowedOpen DEF Using
  <2>. QED BY <1>2, <1>8, <2>1 DEF Flushes, Steady
<1>14. Stable(config)'
  BY <1>2, <1>12 DEF Stable
<1>. QED BY <1>8, <1>11, <1>13, <1>14 DEF Closes, Closing

LEMMA AddsStep ==
  ASSUME Adds, Working, FileInv, ~Full
  PROVE  Steady /\ (Adds' \/ Closes')
<1>1. PICK h \in Objects, n \in Ids, c \in Contents :
    /\ Using(h, n, ONES) /\ Flushes /\ lu[h] = n + IX_FLAG /\ page[h] = Header(n, ONES, ONES)
    /\ c = config /\ Adding(h, n, c)
  BY DEF Adds
<1>. DEFINE g == Header(n, ONES, ONES)
            O == {h}
            L == Starting(Final, n, Filling(c))
            e == Sheet(Final, n, Erased)
            f == Sheet(Final, n, c)
            M == Cons(Putting(e), Filling(c))
<1>2. Listed(L) /\ Listed(M) /\ Listed(Filling(c)) /\ Listed(Entering) /\ Listed(Sizing) /\ L = Cons(Linking(n), M)
  BY ClosingListed DEF Starting
<1>3. e \in Page /\ Overlaid(e, Text(c)) = f /\ n \in Words \ {FREE, DELETED} /\ Overlaid(ErasedPage, e) = e
  <2>1. e \in Page /\ Overlaid(e, Text(c)) = f /\ n \in Words \ {FREE, DELETED}
    BY Contained DEF Final, Flags
  <2>. HIDE DEF e
  <2>. QED BY <2>1, OnErased
<1>4. CASE work = Header(n, ONES, dst) /\ Laid(O, n, f, Sizing)
  BY <1>1, <1>4, IndexStep
<1>. HIDE DEF g, L, e, f, M
<1>5. ASSUME Same(O), Steady, UNCHANGED fds, Adding(h, n, c)'
      PROVE  Adds'
  <2>1. Using(h, n, ONES)' /\ Flushes'
    BY <1>1, <1>5, StillUsing, StillCalled
  <2>2. lu'[h] = n + IX_FLAG /\ page'[h] = Header(n, ONES, ONES) /\ c = config'
    BY <1>1, <1>5 DEF Same, Steady
  <2>. QED BY <1>5, <2>1, <2>2 DEF Adds
<1>6. CASE work = g /\ Sought(O, L)
  <2>1. /\ Same(O) /\ Steady /\ UNCHANGED <<fds, work>>
        /\ Sought(O, L)' \/ Ready(O, ErasedPage, L)'
    BY <1>2, <1>6, SoughtStep
  <2>2. Adding(h, n, c)'
    BY <1>6, <2>1 DEF Adding, g, L
  <2>. QED BY <1>5, <2>1, <2>2
<1>7. CASE work = g /\ Ready(O, ErasedPage, L)
  <2>1. Ready(O, ErasedPage, Cons(Linking(n), M))
    BY <1>2, <1>7
  <2>2. Same(O) /\ Steady /\ UNCHANGED <<fds, work, dst>> /\ Laid(O, n, ErasedPage, M)'
    BY <1>2, <1>3, <2>1, EnterStep
  <2>3. Adding(h, n, c)'
    BY <1>7, <2>2 DEF Adding, g, M, e
  <2>. QED BY <1>5, <2>2, <2>3
<1>8. CASE work = g /\ Laid(O, n, ErasedPage, M)
  <2>1. Laid(O, n, ErasedPage, Cons(Putting(e), Filling(c)))
    BY <1>8 DEF M
  <2>2. Same(O) /\ Steady /\ UNCHANGED <<fds, work, dst>> /\ Laid(O, n, Overlaid(ErasedPage, e), Filling(c))'
    BY <1>2, <2>1, WriteStep
  <2>3. Adding(h, n, c)'
    BY <1>3, <1>8, <2>2 DEF Adding, g, e
  <2>. QED BY <1>5, <2>2, <2>3
<1>9. CASE work = g /\ Laid(O, n, e, Filling(c))
  <2>1. Laid(O, n, e, Cons(Putting(Text(c)), Entering))
    BY <1>9 DEF Filling
  <2>2. Same(O) /\ Steady /\ UNCHANGED <<fds, work, dst>> /\ Laid(O, n, Overlaid(e, Text(c)), Entering)'
    BY <1>2, <2>1, WriteStep
  <2>3. Adding(h, n, c)'
    BY <1>3, <1>9, <2>2 DEF Adding, g, f
  <2>. QED BY <1>5, <2>2, <2>3
<1>10. CASE work = g /\ Laid(O, n, f, Entering)
  <2>1. Laid(O, n, f, Cons(Do("refer"), Sizing))
    BY <1>10 DEF Entering
  <2>2. /\ Same(O) /\ Steady /\ UNCHANGED <<fds, dst>> /\ work' = [work EXCEPT !.ref = dst]
        /\ Laid(O, n, f, Sizing)'
    BY <1>2, <2>1, ReferStep
  <2>3. \A p : [Header(n, ONES, ONES) EXCEPT !.ref = p] = Header(n, ONES, p)
    BY Copies, WordLen
  <2>4. work' = Header(n, ONES, dst)
    BY <1>10, <2>2, <2>3 DEF g
  <2>5. Adding(h, n, c)'
    BY <2>2, <2>4 DEF Adding, f
  <2>. QED BY <1>5, <2>2, <2>5
<1>. QED BY <1>1, <1>4, <1>6, <1>7, <1>8, <1>9, <1>10 DEF Adding, g, L, e, f, M

-----------------------------------------------------------------------------
(* A later write: the page of contents is replaced. *)

Tenth(x, y, z, w, a, D, p, q, r) ==
  ((<<x, y, z, w, a>> \o D) \o <<p, q, r>>) \o <<>>
    = Cons(x, Cons(y, Cons(z, Cons(w, Cons(a, D \o Cons(p, Cons(q, Cons(r, <<>>))))))))
LEMMA TenthList ==
  \A x, y, z, w, a, D, p, q, r : Listed(D) => Tenth(x, y, z, w, a, D, p, q, r)
<1>. SUFFICES ASSUME NEW x, NEW y, NEW z, NEW w, NEW a, NEW D, NEW p, NEW q, NEW r, Listed(D)
     PROVE  Tenth(x, y, z, w, a, D, p, q, r)
  OBVIOUS
<1>1. <<x, y, z, w, a>> = <<x, y, z, w>> \o <<a>>
  <2>. DEFINE R == {x, y, z, w, a}
              u == <<x, y, z, w, a>>
              v == <<x, y, z, w>> \o <<a>>
  <2>1. u \in Seq(R) /\ Len(u) = 5 /\ u[1] = x /\ u[2] = y /\ u[3] = z /\ u[4] = w /\ u[5] = a
    OBVIOUS
  <2>2. v \in Seq(R) /\ Len(v) = 5 /\ v[1] = x /\ v[2] = y /\ v[3] = z /\ v[4] = w /\ v[5] = a
    OBVIOUS
  <2>. HIDE DEF u, v, R
  <2>3. \A i \in 1..5 : u[i] = v[i]
    BY <2>1, <2>2
  <2>4. u = v
    BY <2>1, <2>2, <2>3, SeqEqual
  <2>. QED BY <2>4 DEF u, v
<1>. DEFINE A == <<x, y, z, w>>
            B == <<a>>
            P == <<p, q, r>>
            c == Cons(p, Cons(q, Cons(r, <<>>)))
            E == D \o c
<1>2. Listed(A) /\ Listed(B) /\ Listed(P) /\ Listed(<<>>) /\ Listed(c)
  BY FourListed, OneListed, ThreeListed, NilListed, ConsFacts
<1>3. P \o <<>> = c
  <2>1. PICK e : e = <<>>
    OBVIOUS
  <2>2. Listed(e)
    BY <2>1, NilListed
  <2>3. <<p, q, r>> \o e = Cons(p, Cons(q, Cons(r, e)))
    BY <2>2, ConsPairs
  <2>. QED BY <2>1, <2>3, Zenon
<1>. HIDE DEF c, P
<1>4. Listed(E)
  BY <1>2, Onto
<1>5. \A t : Listed(t) => A \o t = Cons(x, Cons(y, Cons(z, Cons(w, t)))) /\ B \o t = Cons(a, t)
  BY FourListed, ConsPairs
<1>. HIDE DEF A, B, E
<1>6. A \o (B \o E) = Cons(x, Cons(y, Cons(z, Cons(w, Cons(a, E)))))
  <2>1. B \o E = Cons(a, E) /\ Listed(Cons(a, E))
    BY <1>4, <1>5, ConsFacts
  <2>. QED BY <1>5, <2>1
<1>7. Listed(A \o B) /\ (A \o B) \o E = A \o (B \o E)
  BY <1>2, <1>4, Onto
<1>8. Listed((A \o B) \o D) /\ ((A \o B) \o D) \o c = (A \o B) \o (D \o c)
  <2>1. Listed(A \o B) /\ Listed(c)
    BY <1>2, <1>7
  <2>. QED BY <2>1, Onto
<1>9. (((A \o B) \o D) \o P) \o <<>> = ((A \o B) \o D) \o (P \o <<>>)
  BY <1>2, <1>8, Onto
<1>. QED BY <1>1, <1>3, <1>6, <1>7, <1>8, <1>9, Zenon DEF Tenth, A, B, E, P, c

LEMMA AlteringListed ==
  \A n, h, d, c : /\ Listed(Storing(n, h, Closing)) /\ Listed(Restoring(n, h)) /\ Listed(Altered(n, h, d))
                  /\ Listed(Refilling(n, h, d, c)) /\ Listed(Deletion(d, Restoring(n, h)))
                  /\ Listed(Cons([do |-> "scrap", p |-> d], Restoring(n, h)))
                  /\ \A i : Listed(Cons(Putting(i), Refilling(n, h, d, c)))
                  /\ \A f : Listed(Starting(f, n, Refilling(n, h, d, c)))
  BY ClosingListed, ConsFacts DEF Storing, Restoring, Altered, Refilling, Deletion, Starting

LEMMA DataIsOk ==
  ASSUME NEW d \in Objects, NEW n \in Ids, NEW c, Holding(d, n, c)
  PROVE  DataCheck(d) = "ok"
<1>1. d # ONES /\ n # ONES
  BY ObjectIsWord, IdWords
<1>2. page[d].flags = Final /\ page[d].id = n
  BY DEF Holding, Sheet
<1>. QED BY <1>1, <1>2 DEF DataCheck, Final

LEMMA ModifyStep ==
  ASSUME NEW h \in Objects, NEW n \in Ids, NEW O, NEW g, NEW t, Filed(h, O, n, g, t), t = Changing,
         Flat({}, {}), todo = t, Working, FileInv
  PROVE  Steady /\ Alters'
<1>1. PICK d \in O : TRUE
  <2>1. Appending # Changing
    <3>1. Head(Appending) = Do("append") /\ Head(Changing) = Do("modify")
      BY NilListed, ConsFacts DEF Appending, Changing
    <3>2. Do("append").do # Do("modify").do
      BY DEF Do
    <3>. QED BY <3>1, <3>2
  <2>. QED BY <2>1 DEF Filed, Carried
<1>2. /\ O = {d} /\ d \in Objects /\ g = Header(n, LEN, d)
      /\ Live = {h, d} /\ h # d /\ lu[d] = n /\ Using(h, n, LEN) /\ Flushes
      /\ lu[h] = n + IX_FLAG /\ page[h] = g
      /\ \E c \in Contents : Holding(d, n, c)
  BY FileOfChanging
<1>3. Here(Do("modify"), <<>>)
  BY NilListed DEF Here, Changing
<1>4. /\ Modify /\ UNCHANGED <<phase, config, stored, cuts>>
      /\ \A s : Then(s) <=> todo' = s \o <<>>
  <2>1. Do("modify").do = "modify"
    BY DEF Do
  <2>2. /\ At("modify") /\ SpiffsStep /\ UNCHANGED <<phase, config, stored, cuts>>
        /\ \A s : Then(s) <=> todo' = s \o <<>>
    BY <1>3, <2>1, HereFacts
  <2>. QED BY <2>2, Dispatch
<1>5. Fd.hdr = h /\ Fd.obj = n + IX_FLAG /\ Fd.obj - IX_FLAG = n /\ call.value = config /\ config \in Contents
  BY <1>2, IdWords DEF Using, Flushes
<1>6. ValidHeader(page[h], Fd.obj) /\ page[h].ref = d
  BY <1>2, <1>5, HeaderIsValid, IdWords DEF Header
<1>7. DataCheck(d) = "ok"
  BY <1>2, DataIsOk
<1>8. DataPage({"used"}) = Sheet({"used"}, n, Erased)
  BY <1>5, SheetIsPage DEF DataPage
<1>9. PICK c \in Contents : c = config
  BY <1>5
<1>. DEFINE D == Deleting(d)
            e == [do |-> "store", id |-> n + IX_FLAG, p |-> h]
<1>10. /\ work' = g
       /\ todo' = ((<<FindingFree, Linking(n), Putting(Sheet({"used"}, n, Erased)), Putting(Text(c)), Do("final")>>
                      \o D) \o <<Do("refer"), e, Do("close")>>) \o <<>>
       /\ UNCHANGED <<flash, fs, fds, dst, call, rc>>
  <2>1. Writing(call.value) = Putting(Text(c))
    BY <1>5, <1>9 DEF Writing, Text
  <2>. QED BY <1>2, <1>4, <1>5, <1>6, <1>7, <1>8, <2>1 DEF Modify
<1>. DEFINE L == Starting({"used"}, n, Refilling(n, h, d, c))
<1>11. todo' = Cons(FindingFree, L)
  <2>1. D \o Restoring(n, h) = Deletion(d, Restoring(n, h)) /\ Listed(D)
    BY AlteringListed, DeletingOnto
  <2>2. Restoring(n, h) = Cons(Do("refer"), Cons(e, Cons(Do("close"), <<>>)))
    BY DEF Restoring, Storing, Closing
  <2>. HIDE DEF D, e
  <2>3. Tenth(FindingFree, Linking(n), Putting(Sheet({"used"}, n, Erased)), Putting(Text(c)), Do("final"),
              D, Do("refer"), e, Do("close"))
    BY <2>1, TenthList, Zenon
  <2>. QED BY <1>10, <2>1, <2>2, <2>3, Zenon DEF Tenth, Starting, Refilling, Altered
<1>12. Steady /\ Flat({}, {})' /\ UNCHANGED <<fds, lu, page>> /\ Live' = Live
  <2>. HIDE DEF D, e
  <2>1. Flat({}, {})'
    BY <1>10, NothingTouched, SameFields
  <2>. QED BY <1>4, <1>10, <2>1, SameLive DEF Steady, flash
<1>13. Sought({h, d}, L)'
  <2>. HIDE DEF L
  <2>1. Seeking(L)'
    BY <1>11, <1>12 DEF Seeking, FindingFree
  <2>. QED BY <1>2, <1>12, <2>1 DEF Sought
<1>14. Using(h, n, LEN)' /\ Flushes'
  BY <1>2, <1>12, StillUsing, StillCalled
<1>. HIDE DEF D, e
<1>15. Altering(n, h, d, c)'
  BY <1>13 DEF Altering
<1>16. lu'[h] = n + IX_FLAG /\ work' = Header(n, LEN, d) /\ c = config' /\ h # d
  BY <1>2, <1>9, <1>10, <1>12 DEF Steady
<1>. QED BY <1>2, <1>12, <1>14, <1>15, <1>16 DEF Alters

LEMMA AltersStep ==
  ASSUME Alters, Working, FileInv, ~Full
  PROVE  Steady /\ (Alters' \/ Stores(Closing)')
<1>1. PICK h \in Objects, d \in Objects, n \in Ids, c \in Contents :
    /\ Using(h, n, LEN) /\ Flushes /\ h # d /\ lu[h] = n + IX_FLAG /\ work = Header(n, LEN, d)
    /\ c = config /\ Altering(n, h, d, c)
  BY DEF Alters
<1>. DEFINE O == {h, d}
            e == Sheet({"used"}, n, Erased)
            i == Sheet({"used"}, n, c)
            f == Sheet(Final, n, c)
            v == Restoring(n, h)
            w == Altered(n, h, d)
            R == Refilling(n, h, d, c)
            M == Cons(Putting(e), R)
            L == Starting({"used"}, n, R)
            s == Cons([do |-> "scrap", p |-> d], v)
<1>2. /\ Listed(L) /\ Listed(M) /\ Listed(R) /\ Listed(w) /\ Listed(v) /\ Listed(Deletion(d, v)) /\ Listed(s)
      /\ Listed(Storing(n, h, Closing)) /\ L = Cons(Linking(n), M) /\ Deletion(d, v) = Cons([do |-> "unlink", p |-> d], s)
  BY AlteringListed DEF Starting, Deletion
<1>3. e \in Page /\ Overlaid(e, Text(c)) = i /\ n \in Words \ {FREE, DELETED} /\ Overlaid(ErasedPage, e) = e
      /\ [i EXCEPT !.flags = @ \cup Final] = f
  <2>1. e \in Page /\ Overlaid(e, Text(c)) = i /\ n \in Words \ {FREE, DELETED}
    BY Contained DEF Flags
  <2>2. [i EXCEPT !.flags = @ \cup Final] = f
    BY Copies, WordLen
  <2>. HIDE DEF e
  <2>. QED BY <2>1, <2>2, OnErased
<1>4. {h} \subseteq O /\ O \ {d} = {h} /\ d \in O
  BY <1>1
<1>. HIDE DEF L, e, i, f, M, v, w, R, s
<1>5. ASSUME Same({h}), Steady, UNCHANGED <<fds, work>>, Altering(n, h, d, c)'
      PROVE  Alters'
  <2>1. Using(h, n, LEN)' /\ Flushes'
    BY <1>1, <1>5, StillUsing, StillCalled
  <2>2. lu'[h] = n + IX_FLAG /\ work' = Header(n, LEN, d) /\ c = config'
    BY <1>1, <1>5 DEF Same, Steady
  <2>. QED BY <1>1, <1>5, <2>1, <2>2 DEF Alters
<1>6. CASE Sought(O, L)
  <2>1. /\ Same(O) /\ Steady /\ UNCHANGED <<fds, work>>
        /\ Sought(O, L)' \/ Ready(O, ErasedPage, L)'
    BY <1>2, <1>6, SoughtStep
  <2>2. Altering(n, h, d, c)'
    BY <2>1 DEF Altering, L, R
  <2>3. Same({h})
    BY <1>4, <2>1, FewerSame
  <2>. QED BY <1>5, <2>1, <2>2, <2>3
<1>7. CASE Ready(O, ErasedPage, L)
  <2>1. Ready(O, ErasedPage, Cons(Linking(n), M))
    BY <1>2, <1>7
  <2>2. Same(O) /\ Steady /\ UNCHANGED <<fds, work, dst>> /\ Laid(O, n, ErasedPage, M)'
    BY <1>2, <1>3, <2>1, EnterStep
  <2>3. Altering(n, h, d, c)'
    BY <2>2 DEF Altering, M, e, R
  <2>4. Same({h})
    BY <1>4, <2>2, FewerSame
  <2>. QED BY <1>5, <2>2, <2>3, <2>4
<1>8. CASE Laid(O, n, ErasedPage, M)
  <2>1. Laid(O, n, ErasedPage, Cons(Putting(e), R))
    BY <1>8 DEF M
  <2>2. Same(O) /\ Steady /\ UNCHANGED <<fds, work, dst>> /\ Laid(O, n, Overlaid(ErasedPage, e), R)'
    BY <1>2, <2>1, WriteStep
  <2>3. Altering(n, h, d, c)'
    BY <1>3, <2>2 DEF Altering, e, R
  <2>4. Same({h})
    BY <1>4, <2>2, FewerSame
  <2>. QED BY <1>5, <2>2, <2>3, <2>4
<1>9. CASE Laid(O, n, e, R)
  <2>1. Laid(O, n, e, Cons(Putting(Text(c)), w))
    BY <1>9 DEF R, Refilling, w
  <2>2. Same(O) /\ Steady /\ UNCHANGED <<fds, work, dst>> /\ Laid(O, n, Overlaid(e, Text(c)), w)'
    BY <1>2, <2>1, WriteStep
  <2>3. Altering(n, h, d, c)'
    BY <1>3, <2>2 DEF Altering, i, w
  <2>4. Same({h})
    BY <1>4, <2>2, FewerSame
  <2>. QED BY <1>5, <2>2, <2>3, <2>4
<1>10. CASE Laid(O, n, i, w)
  <2>1. Laid(O, n, i, Cons(Do("final"), Deletion(d, v)))
    BY <1>10 DEF w, Altered, v
  <2>2. Same(O) /\ Steady /\ UNCHANGED <<fds, work, dst>>
        /\ Laid(O, n, [i EXCEPT !.flags = @ \cup Final], Deletion(d, v))'
    BY <1>2, <2>1, FinalStep
  <2>3. Laid(O, n, f, Deletion(d, v))'
    BY <1>3, <2>2
  <2>4. Altering(n, h, d, c)'
    BY <2>3 DEF Altering, f, v
  <2>5. Same({h})
    BY <1>4, <2>2, FewerSame
  <2>. QED BY <1>5, <2>2, <2>4, <2>5
<1>11. CASE Laid(O, n, f, Deletion(d, v))
  <2>1. Laid(O, n, f, Cons([do |-> "unlink", p |-> d], s))
    BY <1>2, <1>11
  <2>2. Same(O \ {d}) /\ Steady /\ UNCHANGED <<fds, work, dst>>
        /\ Laid(O \ {d}, n, f, s)' /\ lu'[d] = DELETED
    BY <1>2, <1>4, <2>1, UnlinkStep
  <2>3. Altering(n, h, d, c)'
    BY <1>4, <2>2 DEF Altering, f, s, v
  <2>. QED BY <1>4, <1>5, <2>2, <2>3
<1>12. CASE Laid({h}, n, f, s) /\ lu[d] = DELETED
  <2>1. Laid({h}, n, f, Cons([do |-> "scrap", p |-> d], v))
    BY <1>12 DEF s
  <2>2. Same({h}) /\ Steady /\ UNCHANGED <<fds, work, dst>> /\ Laid({h}, n, f, v)'
    BY <1>2, <1>12, <2>1, ScrapStep
  <2>3. Altering(n, h, d, c)'
    BY <2>2 DEF Altering, f, v
  <2>. QED BY <1>5, <2>2, <2>3
<1>13. CASE Laid({h}, n, f, v)
  <2>. DEFINE u == Storing(n, h, Closing)
  <2>1. Laid({h}, n, f, Cons(Do("refer"), u))
    BY <1>13 DEF v, Restoring
  <2>. HIDE DEF u
  <2>2. /\ Same({h}) /\ Steady /\ UNCHANGED <<fds, dst>> /\ work' = [work EXCEPT !.ref = dst]
        /\ Laid({h}, n, f, u)'
    BY <1>2, <2>1, ReferStep DEF u
  <2>3. \A p : [Header(n, LEN, d) EXCEPT !.ref = p] = Header(n, LEN, p)
    BY Copies, WordLen, ObjectIsWord
  <2>4. PICK y \in Objects : y = dst'
    BY <2>2 DEF Laid
  <2>5. work' = Header(n, LEN, y)
    BY <1>1, <2>2, <2>3, <2>4
  <2>6. Flat({}, {})' /\ Live' = {h, y} /\ h # y /\ todo' = u /\ Holding(y, n, c)'
    BY <2>2, <2>4 DEF Laid, Holding, f
  <2>7. lu'[h] = n + IX_FLAG /\ c = config'
    BY <1>1, <2>2 DEF Same, Steady
  <2>8. ToStore(h, n, y, Closing)'
    BY <2>5, <2>6, <2>7 DEF ToStore, u
  <2>9. Resumes(Closing, y, c)'
    BY <2>7 DEF Resumes, Closing
  <2>10. Using(h, n, LEN)' /\ Flushes'
    BY <1>1, <2>2, StillUsing, StillCalled
  <2>. QED BY <2>2, <2>6, <2>8, <2>9, <2>10 DEF Stores
<1>. QED BY <1>1, <1>6, <1>7, <1>8, <1>9, <1>10, <1>11, <1>12, <1>13 DEF Altering, L, e, f, i, M, v, w, R, s

-----------------------------------------------------------------------------
(* A call that writes, from its first step to its last. *)

LEMMA DueStep ==
  ASSUME NEW t, Due(t), Working, FileInv, ~Full
  PROVE  Steady /\ (Makes' \/ (Creates /\ OpensFile') \/ Adds' \/ Alters')
<1>1. CASE Live = {} /\ Creates /\ \E n \in Ids : t = Cons(FindingFree, Creation(n))
  <2>1. PICK n \in Ids : t = Cons(FindingFree, Creation(n))
    BY <1>1
  <2>2. Seeking(Creation(n))
    BY <2>1 DEF Due, Seeking, FindingFree
  <2>3. Makes
    BY <1>1, <2>2 DEF Sought, Makes, Making
  <2>. QED BY <1>1, <2>3, MakesStep
<1>2. ASSUME NEW h \in Objects, NEW n \in Ids, NEW O, NEW g, Filed(h, O, n, g, t)
      PROVE  Steady /\ (Adds' \/ Alters')
  <2>1. t = Appending \/ t = Changing
    BY <1>2 DEF Filed, Carried
  <2>2. CASE t = Appending
    BY <1>2, <2>2, AppendStep DEF Due
  <2>3. CASE t = Changing
    BY <1>2, <2>3, ModifyStep DEF Due
  <2>. QED BY <2>1, <2>2, <2>3
<1>. QED BY <1>1, <1>2 DEF Due, Goal

LEMMA ShutBy ==
  ASSUME Typed, Sole, fds' = [fds EXCEPT ![call.fd].open = FALSE]
  PROVE  Shut'
<1>1. fds \in [Fds -> FdType] /\ call.fd \in Fds
  BY DEF Typed, CallType
<1>2. fds'[call.fd].open = FALSE
  <2>1. PICK r \in FdType : r = fds[call.fd]
    BY <1>1
  <2>2. fds'[call.fd] = [r EXCEPT !.open = FALSE]
    BY <1>1, <2>1
  <2>. QED BY <2>2 DEF FdType
<1>3. \A f \in Fds : f # call.fd => fds'[f] = fds[f]
  BY <1>1
<1>. QED BY <1>1, <1>2, <1>3 DEF Shut, Sole

LEMMA CloseStep ==
  ASSUME Closes, Working, FileInv
  PROVE  Steady /\ Flushed'
<1>1. Here(Do("close"), <<>>)
  BY NilListed DEF Here, Closes
<1>2. /\ todo' = <<>> /\ fds' = [fds EXCEPT ![call.fd].open = FALSE]
      /\ Steady /\ SameLookup /\ UNCHANGED <<page, work>>
  BY <1>1, DoClose
<1>3. Shut'
  BY <1>2, ShutBy DEF Closes, FileInv
<1>4. Flat({}, {})' /\ Live' = Live
  <2>1. SameCursor /\ SameCounters /\ UNCHANGED <<lu, magic, dst>>
    BY <1>2, Fixed
  <2>. QED BY <1>2, <2>1, FlatKept, SameLive DEF Closes
<1>5. Stable(config)'
  BY <1>2, <1>4 DEF Closes, Stable, Whole, Holding, SameLookup, Steady
<1>. QED BY <1>2, <1>3, <1>4, <1>5 DEF Closes, Flushes, Flushed, Steady

LEMMA FlushStep ==
  ASSUME AtFlush, Working, FileInv
  PROVE  Steady /\ \E t : Collecting(t)'
<1>1. PICK h \in Objects, n \in Ids, s \in {ONES, LEN} : Keeps(h, n, s) /\ Using(h, n, s)
  BY DEF AtFlush
<1>. DEFINE x == Checking(LEN + DATA_PAGE_SIZE)
            y == Do(IF Holds(Fd.size) THEN "modify" ELSE "append")
<1>2. Here(Do("flush"), <<>>)
  BY NilListed DEF Here, AtFlush
<1>3. /\ Flush /\ UNCHANGED <<phase, config, stored, cuts>>
      /\ \A q : Then(q) <=> todo' = q \o <<>>
  <2>1. Do("flush").do = "flush"
    BY DEF Do
  <2>2. /\ At("flush") /\ SpiffsStep /\ UNCHANGED <<phase, config, stored, cuts>>
        /\ \A q : Then(q) <=> todo' = q \o <<>>
    BY <1>2, <2>1, HereFacts
  <2>. QED BY <2>2, Dispatch
<1>4. todo' = <<x, y>> \o <<>> /\ UNCHANGED <<flash, fs, fds, work, dst, call, rc>>
  BY <1>3 DEF Flush, Unused
<1>5. todo' = Cons(x, Cons(y, <<>>))
  <2>. HIDE DEF x, y
  <2>1. PICK e : e = <<>>
    OBVIOUS
  <2>2. Listed(e)
    BY <2>1, NilListed
  <2>3. <<x, y>> \o e = Cons(x, Cons(y, e))
    BY <2>2, ConsPairs
  <2>. QED BY <1>4, <2>1, <2>3, Zenon
<1>6. Fd.size = s
  BY <1>1 DEF Using
<1>7. Goal(Cons(y, <<>>))
  <2>1. CASE s = ONES
    <3>1. Filed(h, {}, n, Header(n, ONES, ONES), Appending)
      BY <1>1, <2>1, WordLen DEF Keeps, Filed, Carried, Header, AtFlush
    <3>2. y = Do("append")
      BY <1>6, <2>1 DEF Holds
    <3>. QED BY <3>1, <3>2 DEF Goal, Appending
  <2>2. CASE s = LEN
    <3>1. PICK d \in Objects, c \in Contents : Whole(h, d, n, c)
      BY <1>1, <2>2, WordLen DEF Keeps
    <3>2. Filed(h, {d}, n, Header(n, LEN, d), Changing)
      <4>1. Carried({d}, n, Header(n, LEN, d), Changing)
        BY <3>1 DEF Carried, Whole
      <4>. QED BY <1>1, <2>2, <3>1, <4>1 DEF Whole, Filed, Header, AtFlush
    <3>3. y = Do("modify")
      BY <1>6, <2>2, WordLen DEF Holds
    <3>. QED BY <3>2, <3>3 DEF Goal, Changing
  <2>. QED BY <2>1, <2>2
<1>8. Flat({}, {})' /\ Untouched /\ Steady /\ UNCHANGED fds
  <2>. HIDE DEF x, y
  <2>1. Flat({}, {})' /\ Untouched
    BY <1>4, NothingTouched, SameFields DEF AtFlush
  <2>. QED BY <1>3, <1>4, <2>1 DEF Steady
<1>9. x.do = "gc_check"
  BY DEF Checking
<1>. HIDE DEF x, y
<1>10. PICK t : t = Cons(y, <<>>)
  OBVIOUS
<1>11. Goal(t)'
  BY <1>7, <1>8, <1>10, StillGoal
<1>12. Counts(t)'
  BY <1>5, <1>8, <1>9, <1>10 DEF Counts
<1>. QED BY <1>8, <1>11, <1>12 DEF Collecting, Collects

(* The calls that write: a save that creates the file or opens it, and the   *)
(* writing of its contents, with the garbage collection inside.              *)
LEMMA EngagedStep ==
  ASSUME Engaged, Working, FileInv, ~Full
  PROVE  Steady /\ (Engaged' \/ (Creates /\ OpensFile') \/ Flushed')
<1>1. CASE \E t : Collecting(t)
  BY <1>1, CollectingStep DEF Engaged
<1>2. CASE \E t : Due(t)
  BY <1>2, DueStep DEF Engaged
<1>3. CASE (\E t : Moved(t)) \/ Gathered \/ Restored
  BY <1>3, MovingStep DEF Engaged
<1>4. CASE Closes
  BY <1>4, CloseStep
<1>5. CASE Makes
  BY <1>5, MakesStep DEF Makes, Engaged
<1>6. CASE Adds
  BY <1>6, AddsStep DEF Engaged, Busy
<1>7. CASE Alters
  <2>1. Steady /\ (Alters' \/ Stores(Closing)')
    BY <1>7, AltersStep
  <2>2. Stores(Closing)' => Restored'
    BY DEF Restored
  <2>. QED BY <2>1, <2>2 DEF Engaged, Busy
<1>8. CASE AtFlush
  BY <1>8, FlushStep DEF Engaged, Busy
<1>. QED BY <1>1, <1>2, <1>3, <1>4, <1>5, <1>6, <1>7, <1>8 DEF Engaged, Busy

-----------------------------------------------------------------------------
(* What a boot finds. *)

LEMMA NoneNamed == ASSUME Live = {} PROVE Named = {}
  BY DEF Named, NamedHeader, Live, InUse

LEMMA OneNamed ==
  ASSUME NEW h \in Objects, NEW d \in Objects, NEW n \in Ids, NEW c, Whole(h, d, n, c)
  PROVE  Named = {h}
<1>1. NamedHeader(h)
  <2>1. InUse(h)
    BY DEF Whole, Live
  <2>2. IsIndex(lu[h]) /\ page[h] = Header(n, LEN, d) /\ n + IX_FLAG # ONES
    BY IdWords DEF Whole
  <2>. QED BY <2>1, <2>2 DEF NamedHeader, Header, Garbled
<1>2. \A p \in Objects : NamedHeader(p) => p = h
  <2>1. \A p \in Objects : InUse(p) => p \in {h, d}
    BY DEF Whole, Live
  <2>2. ~IsIndex(lu[d])
    BY IdWords DEF Whole, Holding
  <2>. QED BY <2>1, <2>2 DEF NamedHeader
<1>. QED BY <1>1, <1>2 DEF Named

LEMMA WholeIsRead ==
  ASSUME NEW h \in Objects, NEW d \in Objects, NEW n \in Ids, NEW c \in Contents, Whole(h, d, n, c)
  PROVE  /\ ValidHeader(page[h], n + IX_FLAG) /\ page[h].size = LEN /\ page[h].ref = d
         /\ DataCheck(d) = "ok" /\ Bytes(d) = c
<1>1. page[h] = Header(n, LEN, d) /\ Holding(d, n, c)
  BY DEF Whole
<1>2. ValidHeader(page[h], n + IX_FLAG)
  BY <1>1, HeaderIsValid, IdWords
<1>3. Bytes(d) = c
  BY <1>1 DEF Holding, Sheet, Bytes, Garbled
<1>. QED BY <1>1, <1>2, <1>3, DataIsOk DEF Header

LEMMA TwoPages == \A p, q : p # q => Cardinality({p, q}) = 2
<1>. SUFFICES ASSUME NEW p, NEW q, p # q PROVE Cardinality({p, q}) = 2
  OBVIOUS
<1>1. IsFiniteSet({p}) /\ Cardinality({p}) = 1
  BY FS_Singleton
<1>2. Cardinality({p} \cup {q}) = Cardinality({p}) + 1
  BY <1>1, FS_AddElement
<1>3. {p} \cup {q} = {p, q}
  OBVIOUS
<1>. QED BY <1>1, <1>2, <1>3

LEMMA StableIsFound ==
  ASSUME NEW v, Stable(v), Typed
  PROVE  /\ FileNow = v /\ Cardinality(Live) = IF v = NoFile THEN 0 ELSE 2
<1>1. CASE v = NoFile /\ Live = {}
  BY <1>1, NoneNamed, FS_EmptySet DEF FileNow
<1>2. ASSUME v \in Contents, NEW h \in Objects, NEW d \in Objects, NEW n \in Ids, Whole(h, d, n, v)
      PROVE  FileNow = v /\ Cardinality(Live) = 2
  <2>1. Named = {h}
    BY <1>2, OneNamed
  <2>2. FirstFrom(1, Named) = h
    <3>1. 1 \in Int
      OBVIOUS
    <3>. QED BY <2>1, <3>1, OnlyOne
  <2>3. ValidHeader(page[h], lu[h]) /\ page[h].size = LEN /\ page[h].ref = d
        /\ DataCheck(d) = "ok" /\ Bytes(d) = v
    BY <1>2, WholeIsRead DEF Whole
  <2>4. FileNow = v
    BY <2>1, <2>2, <2>3, WordLen DEF FileNow, Holds
  <2>5. Cardinality({h, d}) = 2
    BY <1>2, TwoPages DEF Whole
  <2>. QED BY <1>2, <2>4, <2>5 DEF Whole
<1>3. v \in Contents => v # NoFile
  BY ConfigFileAssumption
<1>. QED BY <1>1, <1>2, <1>3 DEF Stable

-----------------------------------------------------------------------------
(* Mounting *)

LEMMA MountLists ==
  /\ Listed(ToTally) /\ Listed(ToScan) /\ Listed(ToMount) /\ Mounting = ToMount
  /\ ToTally # <<>> /\ ToScan # <<>> /\ ToMount # <<>>
<1>1. Listed(ToTally) /\ Listed(ToScan) /\ Listed(ToMount)
  BY NilListed, ConsFacts DEF ToTally, ToScan, ToMount
<1>2. ToTally # <<>> /\ ToScan # <<>> /\ ToMount # <<>>
  BY <1>1, NilListed, ConsFacts DEF ToTally, ToScan, ToMount
<1>3. PICK e : e = <<>>
  OBVIOUS
<1>. DEFINE x == Do("forget")
            y == Do("scan")
            z == Do("tally")
            s == <<x, y, z>>
<1>. HIDE DEF x, y, z
<1>4. s \o e = Cons(x, Cons(y, Cons(z, e)))
  <2>1. Listed(e)
    BY <1>3, NilListed
  <2>. QED BY <2>1, ConsPairs
<1>5. s \o <<>> = s
  <2>1. s \in Seq({x, y, z})
    OBVIOUS
  <2>. HIDE DEF s
  <2>. QED BY <2>1
<1>6. s = Cons(x, Cons(y, Cons(z, <<>>)))
  BY <1>3, <1>4, <1>5, Zenon
<1>7. Mounting = s /\ ToMount = Cons(x, Cons(y, Cons(z, <<>>)))
  BY DEF Mounting, ToTally, ToScan, ToMount, x, y, z
<1>. QED BY <1>1, <1>2, <1>6, <1>7

LEMMA StableKept ==
  ASSUME NEW v, Stable(v), Live' = Live, \A p \in Live : lu'[p] = lu[p] /\ page'[p] = page[p], NEW w, w = v
  PROVE  Stable(w)'
<1>1. CASE v = NoFile /\ Live = {}
  BY <1>1 DEF Stable
<1>2. ASSUME v \in Contents, NEW h \in Objects, NEW d \in Objects, NEW n \in Ids, Whole(h, d, n, v)
      PROVE  Stable(w)'
  <2>1. h \in Live /\ d \in Live
    BY <1>2 DEF Whole
  <2>2. Whole(h, d, n, v)'
    BY <1>2, <2>1 DEF Whole, Holding
  <2>. QED BY <1>2, <2>2 DEF Stable
<1>. QED BY <1>1, <1>2 DEF Stable

LEMMA StoredKept ==
  ASSUME Stable(stored), Untouched, Steady
  PROVE  Stable(stored)'
<1>1. PICK v : v = stored
  OBVIOUS
<1>2. Stable(v)'
  BY <1>1, StableKept DEF Untouched
<1>. QED BY <1>1, <1>2 DEF Stable, Steady

LEMMA DryKept == ASSUME Dry, UNCHANGED <<lu, page>> PROVE Dry'
  BY DEF Dry, Clean, Suffix

LEMMA FreshFdsShut == \A f \in Fds : ~FreshFds[f].open
  BY DEF FreshFds

LEMMA ForgetStep ==
  ASSUME Mounts, rc = "ok", Dry, MagicOk, phase # "mount" => magic = Bixes, todo = ToMount, Working, FileInv
  PROVE  MountOk' /\ Steady
<1>1. Here(Do("forget"), ToScan)
  BY MountLists DEF Here, ToMount
<1>2. /\ Forget /\ UNCHANGED <<phase, config, stored, cuts>>
      /\ (Then(<<>>) <=> todo' = ToScan)
  <2>1. Do("forget").do = "forget"
    BY DEF Do
  <2>2. /\ At("forget") /\ SpiffsStep /\ UNCHANGED <<phase, config, stored, cuts>>
        /\ (Then(<<>>) <=> todo' = ToScan)
    BY <1>1, <2>1, HereFacts
  <2>. QED BY <2>2, Dispatch
<1>3. /\ todo' = ToScan /\ fs' = FreshFs /\ fds' = FreshFds /\ UNCHANGED <<lu, page, magic, work, dst, call, rc>>
  BY <1>2 DEF Forget, flash
<1>4. Steady /\ Untouched
  BY <1>2, <1>3, SameIsUntouched DEF Steady
<1>5. Stable(stored)' /\ Dry' /\ Shut' /\ fs'.free_cursor = 1
  BY <1>3, <1>4, StoredKept, DryKept, FreshFdsShut DEF Mounts, Shut, FreshFs
<1>. QED BY <1>3, <1>4, <1>5 DEF MountOk, Mounts, MagicOk, Steady

LEMMA ManyBlocks == Cardinality(Bixes) > 1
<1>1. Blocks \in Nat /\ Blocks > 2
  BY FlashAssumption
<1>2. Cardinality(0..(Blocks - 1)) = Blocks
  BY <1>1, FS_Interval
<1>. QED BY <1>1, <1>2 DEF Bixes

(* The scan of a mount finds every magic, or none on a flash that was        *)
(* never formatted.                                                          *)
LEMMA ScanStep ==
  ASSUME Mounts, rc = "ok", Dry, MagicOk, phase # "mount" => magic = Bixes, todo = ToScan, fs.free_cursor = 1,
         Working, FileInv
  PROVE  MountOk' /\ UNCHANGED cuts
<1>1. Here(Do("scan"), ToTally)
  BY MountLists DEF Here, ToScan
<1>2. /\ Scan /\ UNCHANGED <<phase, config, stored, cuts>>
      /\ (Then(<<>>) <=> todo' = ToTally)
  <2>1. Do("scan").do = "scan"
    BY DEF Do
  <2>2. /\ At("scan") /\ SpiffsStep /\ UNCHANGED <<phase, config, stored, cuts>>
        /\ (Then(<<>>) <=> todo' = ToTally)
    BY <1>1, <2>1, HereFacts
  <2>. QED BY <2>2, Dispatch
<1>3. fs \in FsType
  BY DEF FileInv, Typed
<1>4. CASE magic = Bixes
  <2>1. Bixes \ magic = {} /\ Cardinality({}) = 0
    BY <1>4, FS_EmptySet
  <2>. DEFINE next == IF Bixes \ magic = {} THEN <<>> ELSE Erasing(Min(Bixes \ magic))
  <2>2. next = <<>> /\ ~(Cardinality(Bixes \ magic) > 1)
    BY <2>1
  <2>3. /\ fs' = [fs EXCEPT !.max_erase_count = NextEraseCount] /\ Then(next)
        /\ UNCHANGED <<flash, fds, work, dst, call, rc>>
    BY <1>2, <2>2 DEF Scan
  <2>. HIDE DEF next
  <2>4. todo' = ToTally
    BY <1>2, <2>2, <2>3
  <2>5. fs'.free_cursor = 1
    BY <1>3, <2>3 DEF FsType
  <2>6. Steady /\ Untouched /\ UNCHANGED <<lu, page, magic>>
    BY <1>2, <2>3, SameIsUntouched DEF Steady, flash
  <2>7. Stable(stored)' /\ Dry' /\ Shut'
    BY <2>3, <2>6, StoredKept, DryKept DEF Mounts, Shut
  <2>. QED BY <1>4, <2>3, <2>4, <2>5, <2>6, <2>7 DEF MountOk, Mounts, MagicOk, Steady
<1>5. CASE magic = {} /\ stored = NoFile /\ magic # Bixes
  <2>1. Bixes \ magic = Bixes
    BY <1>5
  <2>2. todo' = <<>> /\ rc' = "failed" /\ fds' = Returned(fds) /\ UNCHANGED <<flash, work, dst, call>>
    BY <1>2, <2>1, ManyBlocks DEF Scan, Fails
  <2>3. fds' = fds
    BY <2>2 DEF Mounts, Returned
  <2>4. Untouched /\ UNCHANGED <<lu, page, magic, phase, stored, cuts, call>>
    BY <1>2, <2>2, SameIsUntouched DEF flash
  <2>5. Stable(stored)'
    <3>1. Live = {}
      BY <1>5, ConfigFileAssumption DEF Mounts, Stable
    <3>. QED BY <1>5, <2>4, <3>1 DEF Stable, Untouched
  <2>6. Dry' /\ Shut'
    BY <2>3, <2>4, DryKept DEF Mounts, Shut
  <2>. QED BY <1>5, <2>2, <2>4, <2>5, <2>6 DEF MountOk, Mounts
<1>. QED BY <1>4, <1>5 DEF MagicOk

LEMMA FirstTop ==
  ASSUME fs.free_cursor = 1
  PROVE  Top \in Objects /\ IsFirst(Top) /\ \A p \in Objects : SameBlock(p, Top) => p >= Top
<1>1. 0 \in Bixes /\ FirstPage(0) = 1
  <2>1. Blocks \in Nat /\ Blocks > 2 /\ Entries \in Nat
    BY FlashAssumption
  <2>. QED BY <2>1 DEF Bixes, FirstPage, PagesPerBlock
<1>2. Top = 1 /\ IsFirst(1)
  BY <1>1, FirstIsStart DEF Top
<1>3. 1 \in Objects
  BY FirstObject
<1>. QED BY <1>2, <1>3, FirstInBlock DEF IsFirst, SameBlock

LEMMA TallyStep ==
  ASSUME Mounts, rc = "ok", Dry, todo = ToTally, fs.free_cursor = 1, magic = Bixes, Working, FileInv
  PROVE  MountOk' /\ Steady
<1>1. Here(Do("tally"), <<>>)
  BY NilListed DEF Here, ToTally
<1>2. /\ Tally /\ UNCHANGED <<phase, config, stored, cuts>>
      /\ (Then(<<>>) <=> todo' = <<>>)
  <2>1. Do("tally").do = "tally"
    BY DEF Do
  <2>2. /\ At("tally") /\ SpiffsStep /\ UNCHANGED <<phase, config, stored, cuts>>
        /\ (Then(<<>>) <=> todo' = <<>>)
    BY <1>1, <2>1, HereFacts
  <2>. QED BY <2>2, Dispatch
<1>3. fs \in FsType
  BY DEF FileInv, Typed
<1>4. /\ todo' = <<>>
      /\ fs' = [fs EXCEPT !.mounted = TRUE, !.free_blocks = Cardinality(FreeBlocks),
                  !.allocated = Cardinality(Live), !.deleted = Cardinality(Gone)]
      /\ UNCHANGED <<lu, page, magic, fds, work, dst, call, rc>>
  BY <1>2 DEF Tally, Live, Gone, flash
<1>5. fs'.mounted /\ fs'.free_cursor = 1 /\ fs'.allocated = Cardinality(Live) /\ fs'.deleted = Cardinality(Gone)
  <2>. DEFINE a == Cardinality(Live)
              b == Cardinality(Gone)
  <2>. HIDE DEF a, b
  <2>1. fs' = [fs EXCEPT !.mounted = TRUE, !.free_blocks = Cardinality(FreeBlocks), !.allocated = a, !.deleted = b]
    BY <1>4 DEF a, b
  <2>2. fs'.mounted /\ fs'.free_cursor = 1 /\ fs'.allocated = a /\ fs'.deleted = b
    BY <1>3, <2>1 DEF FsType
  <2>. QED BY <2>2 DEF a, b
<1>6. Steady /\ Untouched /\ Live' = Live /\ Gone' = Gone
  BY <1>2, <1>4, SameIsUntouched, SameLive DEF Steady
<1>7. Stable(stored)' /\ Shut'
  BY <1>4, <1>6, StoredKept DEF Mounts, Shut
<1>8. Space({})'
  <2>1. Clean({})' /\ Suffix'
    BY <1>4, DryKept DEF Dry
  <2>2. Top' = Top
    BY <1>5 DEF Top
  <2>3. Lowest({})' /\ OnFree'
    BY <2>2, FirstTop DEF Lowest, OnFree
  <2>. QED BY <2>1, <2>3 DEF Space
<1>9. Counting({})'
  <2>1. Live \ {} = Live /\ Gone \ {} = Gone
    OBVIOUS
  <2>. QED BY <1>5, <1>6, <2>1 DEF Counting
<1>10. Flat({}, {})'
  BY <1>4, <1>5, <1>8, <1>9 DEF Flat
<1>. QED BY <1>4, <1>6, <1>7, <1>10 DEF MountOk, Mounts, Steady

LEMMA MountStep ==
  ASSUME MountOk, todo # <<>>, Working, FileInv
  PROVE  MountOk' /\ UNCHANGED cuts
  BY ForgetStep, ScanStep, TallyStep DEF MountOk, Steady

-----------------------------------------------------------------------------
(* Formatting *)

LEMMA FormatLists ==
  /\ \A k \in 0..Blocks : Listed(FormatFrom(k))
  /\ \A k \in 0..(Blocks - 1) : k + 1 \in 0..Blocks /\ FormatFrom(k) = Cons(Formats(k), FormatFrom(k + 1))
  /\ FormatFrom(Blocks) = <<>> /\ FormatFrom(0) = Formatting
<1>1. Blocks \in Nat /\ Blocks > 2
  BY FlashAssumption
<1>. DEFINE S == {Formats(b) : b \in Int}
<1>2. \A k \in 0..Blocks : FormatFrom(k) \in [1..(Blocks - k) -> S] /\ Blocks - k \in Nat
  BY <1>1 DEF FormatFrom
<1>3. ASSUME NEW k \in 0..Blocks
      PROVE  /\ FormatFrom(k) \in Seq(S) /\ Len(FormatFrom(k)) = Blocks - k
             /\ \A i \in 1..(Blocks - k) : FormatFrom(k)[i] = Formats(k + i - 1)
  <2>1. \A i \in 1..(Blocks - k) : FormatFrom(k)[i] = Formats(k + i - 1)
    BY DEF FormatFrom
  <2>2. PICK m \in Nat : m = Blocks - k
    BY <1>2
  <2>3. FormatFrom(k) \in [1..m -> S]
    BY <1>2, <2>2
  <2>. HIDE DEF S
  <2>4. FormatFrom(k) \in Seq(S) /\ Len(FormatFrom(k)) = m
    BY <2>3, SeqDef
  <2>. QED BY <2>1, <2>2, <2>4
<1>. HIDE DEF S
<1>4. ASSUME NEW k \in 0..(Blocks - 1)
      PROVE  k + 1 \in 0..Blocks /\ FormatFrom(k) = Cons(Formats(k), FormatFrom(k + 1))
  <2>1. k \in 0..Blocks /\ k + 1 \in 0..Blocks /\ k \in Int /\ Blocks \in Int
    BY <1>1
  <2>. DEFINE u == FormatFrom(k)
              t == FormatFrom(k + 1)
              v == <<Formats(k)>> \o t
  <2>2. u \in Seq(S) /\ Len(u) = Blocks - k /\ \A i \in 1..(Blocks - k) : u[i] = Formats(k + i - 1)
    BY <1>3, <2>1
  <2>3. t \in Seq(S) /\ Len(t) = Blocks - (k + 1) /\ \A i \in 1..(Blocks - (k + 1)) : t[i] = Formats((k + 1) + i - 1)
    BY <1>3, <2>1
  <2>4. PICK f : f = Formats(k)
    OBVIOUS
  <2>5. f \in S
    BY <2>1, <2>4 DEF S
  <2>. HIDE DEF u, t
  <2>6. <<f>> \o t \in Seq(S) /\ Len(<<f>> \o t) = Blocks - k
    BY <2>1, <2>3, <2>5
  <2>7. ASSUME NEW i \in 1..(Blocks - k)
        PROVE  u[i] = (<<f>> \o t)[i]
    <3>1. CASE i = 1
      <4>1. (<<f>> \o t)[1] = f
        BY <2>3, <2>5
      <4>2. k + 1 - 1 = k
        BY <2>1
      <4>. QED BY <2>2, <2>4, <3>1, <4>1, <4>2
    <3>2. CASE i # 1
      <4>1. i \in Int /\ i - 1 \in 1..(Blocks - (k + 1)) /\ ((k + 1) + (i - 1)) - 1 = (k + i) - 1
        BY <2>1, <3>2
      <4>2. i \in 2..(1 + Len(t)) /\ Len(<<f>>) = 1
        BY <2>1, <2>3, <3>2
      <4>3. (<<f>> \o t)[i] = t[i - 1]
        BY <2>3, <2>5, <4>2
      <4>4. t[i - 1] = Formats(((k + 1) + (i - 1)) - 1)
        BY <2>3, <4>1
      <4>5. u[i] = Formats((k + i) - 1)
        BY <2>2
      <4>. QED BY <4>1, <4>3, <4>4, <4>5, Zenon
    <3>. QED BY <3>1, <3>2
  <2>8. u = <<f>> \o t
    <3>1. PICK w : w = <<f>> \o t
      OBVIOUS
    <3>. QED BY <2>2, <2>6, <2>7, <3>1, SeqEqual
  <2>. QED BY <2>1, <2>4, <2>8 DEF Cons, u, t
<1>5. FormatFrom(Blocks) = <<>>
  <2>1. FormatFrom(Blocks) \in Seq(S) /\ Len(FormatFrom(Blocks)) = 0
    BY <1>1, <1>3
  <2>. QED BY <2>1
<1>6. FormatFrom(0) = Formatting
  <2>1. Blocks - 0 = Blocks /\ \A i \in 1..Blocks : 0 + i - 1 = i - 1
    BY <1>1
  <2>. QED BY <2>1 DEF FormatFrom, Formatting, Formats
<1>. QED BY <1>3, <1>4, <1>5, <1>6 DEF Listed

LEMMA FormatBlockStep ==
  ASSUME NEW k \in 0..(Blocks - 1), todo = FormatFrom(k), Working, FileInv
  PROVE  todo' = Erasure(k, FormatFrom(k + 1)) /\ Steady /\ UNCHANGED <<lu, page, magic, fds>>
<1>. DEFINE u == FormatFrom(k + 1)
<1>1. Listed(u) /\ todo = Cons(Formats(k), u)
  BY FormatLists
<1>. HIDE DEF u
<1>2. Here(Formats(k), u)
  BY <1>1 DEF Here
<1>3. /\ FormatBlock /\ UNCHANGED <<phase, config, stored, cuts>> /\ Step.b = k
      /\ \A s : Then(s) <=> todo' = s \o u
  <2>1. Formats(k).do = "format" /\ Formats(k).b = k
    BY DEF Formats
  <2>2. /\ At("format") /\ SpiffsStep /\ UNCHANGED <<phase, config, stored, cuts>> /\ Step = Formats(k)
        /\ \A s : Then(s) <=> todo' = s \o u
    BY <1>2, <2>1, HereFacts
  <2>3. FormatBlock
    BY <2>2, Dispatch
  <2>. QED BY <2>1, <2>2, <2>3
<1>4. todo' = Erasing(k) \o u /\ UNCHANGED <<flash, fds, work, dst, call, rc>>
  BY <1>3 DEF FormatBlock
<1>5. Erasing(k) \o u = Erasure(k, u)
  <2>. DEFINE x == [do |-> "erase", b |-> k]
              y == [do |-> "count", b |-> k]
              z == [do |-> "magic", b |-> k]
  <2>1. Erasing(k) = <<x, y, z>> /\ Erasure(k, u) = Cons(x, Cons(y, Cons(z, u)))
    BY DEF Erasing, Erasure
  <2>. HIDE DEF x, y, z
  <2>2. <<x, y, z>> \o u = Cons(x, Cons(y, Cons(z, u)))
    BY <1>1, ConsPairs
  <2>. QED BY <2>1, <2>2
<1>. QED BY <1>3, <1>4, <1>5 DEF u, Steady, flash

LEMMA BlankBlock ==
  ASSUME NEW k \in 0..(Blocks - 1), EraseBlock(k), Blank(k)
  PROVE  Blank(k + 1)'
<1>1. k \in Bixes /\ k \in Int
  BY FlashAssumption DEF Bixes
<1>2. /\ \A p \in Objects : BlockOf(p) = k => lu'[p] = FREE /\ page'[p] = ErasedPage
      /\ \A p \in Objects : BlockOf(p) # k => lu'[p] = lu[p] /\ page'[p] = page[p]
  BY <1>1, ErasedBlock
<1>3. \A p \in Objects : BlockOf(p) \in Int
  BY PageBlock DEF Bixes
<1>4. \A p \in Objects : BlockOf(p) < k + 1 /\ BlockOf(p) # k => BlockOf(p) < k
  BY <1>1, <1>3
<1>. QED BY <1>2, <1>4 DEF Blank

LEMMA FormatStep ==
  ASSUME FormatOk, todo # <<>>, Working, FileInv
  PROVE  FormatOk' /\ UNCHANGED cuts
<1>1. PICK k \in 0..Blocks :
       \/ todo = FormatFrom(k) /\ Blank(k) /\ Marked(k)
       \/ /\ k < Blocks
          /\ \/ todo = Erasure(k, FormatFrom(k + 1)) /\ Blank(k) /\ Marked(k)
             \/ /\ todo = Cons([do |-> "count", b |-> k], Cons([do |-> "magic", b |-> k], FormatFrom(k + 1)))
                /\ Blank(k + 1) /\ Marked(k)
             \/ /\ todo = Cons([do |-> "magic", b |-> k], FormatFrom(k + 1))
                /\ Blank(k + 1) /\ Marked(k)
  BY DEF FormatOk
<1>2. k \in 0..(Blocks - 1) /\ k + 1 \in 0..Blocks /\ k \in Bixes /\ k \in Int
  <2>1. Blocks \in Nat
    BY FlashAssumption
  <2>2. k # Blocks
    BY <1>1, FormatLists, <2>1
  <2>. QED BY <2>1, <2>2 DEF Bixes
<1>. DEFINE u == FormatFrom(k + 1)
            v == Cons([do |-> "magic", b |-> k], u)
            w == Cons([do |-> "count", b |-> k], v)
<1>3. Listed(u) /\ Listed(v) /\ Listed(w) /\ Erasure(k, u) = Cons([do |-> "erase", b |-> k], w)
  BY <1>2, FormatLists, ConsFacts DEF Erasure
<1>. HIDE DEF u, v, w
<1>4. \A j \in 0..Blocks :
        \/ todo' = FormatFrom(j) /\ Blank(j)' /\ Marked(j)'
        \/ /\ j < Blocks
           /\ \/ todo' = Erasure(j, FormatFrom(j + 1)) /\ Blank(j)' /\ Marked(j)'
              \/ /\ todo' = Cons([do |-> "count", b |-> j], Cons([do |-> "magic", b |-> j], FormatFrom(j + 1)))
                 /\ Blank(j + 1)' /\ Marked(j)'
              \/ /\ todo' = Cons([do |-> "magic", b |-> j], FormatFrom(j + 1))
                 /\ Blank(j + 1)' /\ Marked(j)'
        => (Steady /\ UNCHANGED fds => FormatOk' /\ UNCHANGED cuts)
  BY DEF FormatOk, Steady, Shut
<1>5. k < Blocks
  BY <1>2, FlashAssumption
<1>6. CASE todo = FormatFrom(k) /\ Blank(k) /\ Marked(k)
  <2>1. todo' = Erasure(k, FormatFrom(k + 1)) /\ Steady /\ UNCHANGED <<lu, page, magic, fds>>
    BY <1>2, <1>6, FormatBlockStep
  <2>2. Blank(k)' /\ Marked(k)'
    BY <1>6, <2>1 DEF Blank, Marked
  <2>. QED BY <1>4, <1>5, <2>1, <2>2
<1>7. CASE todo = Erasure(k, u) /\ Blank(k) /\ Marked(k)
  <2>1. Here([do |-> "erase", b |-> k], w)
    BY <1>3, <1>7 DEF Here
  <2>2. todo' = w /\ EraseBlock(k) /\ Steady /\ UNCHANGED fds
    BY <2>1, DoErase
  <2>3. Blank(k + 1)'
    BY <1>2, <1>7, <2>2, BlankBlock
  <2>4. Marked(k)'
    BY <1>2, <1>7, <2>2 DEF Marked, EraseBlock, Bixes
  <2>. QED BY <1>4, <1>5, <2>2, <2>3, <2>4 DEF w, v, u
<1>8. CASE todo = w /\ Blank(k + 1) /\ Marked(k)
  <2>1. Here([do |-> "count", b |-> k], v)
    BY <1>3, <1>8 DEF Here, w
  <2>2. todo' = v /\ Steady /\ UNCHANGED <<lu, page, magic, fds>>
    BY <2>1, DoCount
  <2>3. Blank(k + 1)' /\ Marked(k)'
    BY <1>8, <2>2 DEF Blank, Marked
  <2>. QED BY <1>4, <1>5, <2>2, <2>3 DEF v, u
<1>9. CASE todo = v /\ Blank(k + 1) /\ Marked(k)
  <2>1. Here([do |-> "magic", b |-> k], u)
    BY <1>3, <1>9 DEF Here, v
  <2>2. todo' = u /\ magic' = magic \cup {k} /\ Steady /\ UNCHANGED <<lu, page, fds>>
    BY <2>1, DoMagic
  <2>3. Blank(k + 1)' /\ Marked(k + 1)'
    <3>1. \A b \in Bixes : b < k + 1 => b < k \/ b = k
      BY <1>2 DEF Bixes
    <3>. QED BY <1>9, <2>2, <3>1 DEF Blank, Marked
  <2>. QED BY <1>2, <1>4, <2>2, <2>3 DEF u
<1>. QED BY <1>1, <1>6, <1>7, <1>8, <1>9 DEF u, v, w

LEMMA FormatEnds ==
  ASSUME FormatOk, todo = <<>>
  PROVE  /\ Shut /\ rc = "ok" /\ Dry /\ Live = {}
         /\ (magic \subseteq Bixes => magic = Bixes)
<1>1. Blocks \in Nat
  BY FlashAssumption
<1>2. ASSUME NEW k \in 0..(Blocks - 1)
      PROVE  todo # FormatFrom(k)
  <2>1. Listed(FormatFrom(k + 1)) /\ FormatFrom(k) = Cons(Formats(k), FormatFrom(k + 1))
    BY FormatLists
  <2>. QED BY <2>1, ConsFacts
<1>3. ASSUME NEW k \in 0..Blocks, k < Blocks
      PROVE  /\ todo # Erasure(k, FormatFrom(k + 1))
             /\ todo # Cons([do |-> "count", b |-> k], Cons([do |-> "magic", b |-> k], FormatFrom(k + 1)))
             /\ todo # Cons([do |-> "magic", b |-> k], FormatFrom(k + 1))
  <2>1. Listed(FormatFrom(k + 1))
    BY <1>1, <1>3, FormatLists
  <2>. QED BY <2>1, ConsFacts DEF Erasure
<1>4. Blank(Blocks) /\ Marked(Blocks)
  <2>1. PICK k \in 0..Blocks :
       \/ todo = FormatFrom(k) /\ Blank(k) /\ Marked(k)
       \/ /\ k < Blocks
          /\ \/ todo = Erasure(k, FormatFrom(k + 1)) /\ Blank(k) /\ Marked(k)
             \/ /\ todo = Cons([do |-> "count", b |-> k], Cons([do |-> "magic", b |-> k], FormatFrom(k + 1)))
                /\ Blank(k + 1) /\ Marked(k)
             \/ /\ todo = Cons([do |-> "magic", b |-> k], FormatFrom(k + 1))
                /\ Blank(k + 1) /\ Marked(k)
    BY DEF FormatOk
  <2>2. k \notin 0..(Blocks - 1)
    BY <1>1, <1>2, <1>3, <2>1
  <2>3. k = Blocks
    BY <1>1, <2>2
  <2>. QED BY <1>3, <2>1, <2>3
<1>5. \A p \in Objects : lu[p] = FREE /\ page[p] = ErasedPage
  <2>1. \A p \in Objects : BlockOf(p) \in Bixes
    BY PageBlock
  <2>2. \A p \in Objects : BlockOf(p) < Blocks
    BY <1>1, <2>1 DEF Bixes
  <2>. QED BY <1>4, <2>2 DEF Blank
<1>6. \A b \in Bixes : b \in magic
  BY <1>1, <1>4 DEF Marked, Bixes
<1>. QED BY <1>5, <1>6 DEF FormatOk, Dry, Clean, Suffix, Live, InUse

-----------------------------------------------------------------------------
(* Opening the file *)

FiveParts(x, y, z, w, a) ==
  <<x, y, z, w, a>> \o <<>> = Cons(x, Cons(y, Cons(z, Cons(w, Cons(a, <<>>)))))
LEMMA FiveList == \A x, y, z, w, a : FiveParts(x, y, z, w, a)
<1>. SUFFICES ASSUME NEW x, NEW y, NEW z, NEW w, NEW a PROVE FiveParts(x, y, z, w, a)
  OBVIOUS
<1>1. <<x, y, z, w, a>> = <<x, y, z, w>> \o <<a>>
  <2>. DEFINE R == {x, y, z, w, a}
              u == <<x, y, z, w, a>>
              v == <<x, y, z, w>> \o <<a>>
  <2>1. u \in Seq(R) /\ Len(u) = 5 /\ u[1] = x /\ u[2] = y /\ u[3] = z /\ u[4] = w /\ u[5] = a
    OBVIOUS
  <2>2. v \in Seq(R) /\ Len(v) = 5 /\ v[1] = x /\ v[2] = y /\ v[3] = z /\ v[4] = w /\ v[5] = a
    OBVIOUS
  <2>. HIDE DEF u, v, R
  <2>3. \A i \in 1..5 : u[i] = v[i]
    BY <2>1, <2>2
  <2>4. u = v
    BY <2>1, <2>2, <2>3, SeqEqual
  <2>. QED BY <2>4 DEF u, v
<1>. DEFINE A == <<x, y, z, w>>
            B == <<a>>
            c == Cons(a, <<>>)
<1>2. Listed(A) /\ Listed(B) /\ Listed(<<>>) /\ Listed(c)
  BY FourListed, OneListed, NilListed, ConsFacts
<1>3. B \o <<>> = c
  <2>1. PICK e : e = <<>>
    OBVIOUS
  <2>2. Listed(e)
    BY <2>1, NilListed
  <2>3. <<a>> \o e = Cons(a, e)
    BY <2>2, ConsPairs
  <2>. QED BY <2>1, <2>3, Zenon
<1>4. A \o c = Cons(x, Cons(y, Cons(z, Cons(w, c))))
  BY <1>2, FourListed
<1>. HIDE DEF A, B, c
<1>5. (A \o B) \o <<>> = A \o (B \o <<>>)
  BY <1>2, Onto
<1>6. (A \o B) \o <<>> = Cons(x, Cons(y, Cons(z, Cons(w, c))))
  BY <1>3, <1>4, <1>5, Zenon
<1>. QED BY <1>1, <1>6, Zenon DEF FiveParts, A, B, c

LEMMA NilOnto == \A x : <<x>> \o <<>> = Cons(x, <<>>)
  BY DEF Cons

LEMMA AnyFreeId == ASSUME Live = {} PROVE Min(FreeIds) \in Ids /\ FreeIds # {}
<1>1. \A n \in Ids : WithId(n) \cup WithId(n + IX_FLAG) = {}
  <2>1. \A n \in Ids : n # FREE /\ n + IX_FLAG # FREE /\ n # DELETED /\ n + IX_FLAG # DELETED
    BY IdWords DEF FREE
  <2>. QED BY <2>1 DEF WithId, Live, InUse
<1>2. FreeIds = Ids
  BY <1>1 DEF FreeIds
<1>3. 1 \in Ids /\ Ids \subseteq Nat
  BY DEF Ids, IX_FLAG
<1>. QED BY <1>2, <1>3, MinIn

Turned(f, r, q) == q = [r EXCEPT ![f].open = TRUE, ![f].named = TRUE]
LEMMA TurnedFields ==
  \A r \in [Fds -> FdType], f \in Fds : \A q :
    Turned(f, r, q) => q[f].named /\ \A e \in Fds : e # f => q[e].open = r[e].open
<1>. SUFFICES ASSUME NEW r \in [Fds -> FdType], NEW f \in Fds, NEW q, Turned(f, r, q)
     PROVE  q[f].named /\ \A e \in Fds : e # f => q[e].open = r[e].open
  OBVIOUS
<1>1. q[f].named
  BY DEF FdType, Turned
<1>2. \A e \in Fds : e # f => q[e] = r[e]
  BY DEF Turned
<1>. QED BY <1>1, <1>2

LEMMA AllClosed == ASSUME Shut PROVE Closed = Fds /\ Closed # {}
  BY FdsNotEmpty DEF Shut, Closed

LEMMA OpenStep ==
  ASSUME OpensIn, Shut, Flat({}, {}), Stable(stored),
         todo = Cons([do |-> "open", create |-> phase # "open"], <<>>), Working, FileInv
  PROVE  UNCHANGED cuts /\ (OpenOk' \/ Engaged')
<1>. DEFINE x == [do |-> "open", create |-> phase # "open"]
<1>1. Here(x, <<>>)
  BY NilListed DEF Here
<1>2. /\ Open /\ UNCHANGED <<phase, config, stored, cuts>> /\ Step.create = (phase # "open") /\ Typed
      /\ \A s : Then(s) <=> todo' = s \o <<>>
  <2>1. x.do = "open" /\ x.create = (phase # "open")
    OBVIOUS
  <2>. HIDE DEF x
  <2>2. /\ At("open") /\ SpiffsStep /\ UNCHANGED <<phase, config, stored, cuts>> /\ Step = x /\ Typed
        /\ \A s : Then(s) <=> todo' = s \o <<>>
    BY <1>1, <2>1, HereFacts
  <2>3. Open
    BY <2>2, Dispatch
  <2>. QED BY <2>1, <2>2, <2>3
<1>. HIDE DEF x
<1>3. fs.mounted /\ Closed # {} /\ ForName \in Fds
  BY AllClosed, ClosedFds DEF Flat
<1>4. PICK f \in Fds : f = ForName
  BY <1>3
<1>. DEFINE s == IF Named # {} THEN <<[do |-> "by_page", p |-> FirstFrom(Hint(f), Named)]>>
                 ELSE IF Step.create /\ FreeIds # {} THEN Creating(Min(FreeIds) + IX_FLAG)
                 ELSE <<Do("fail")>>
            y == IF Named # {} THEN FirstFrom(Hint(f), Named) ELSE Hint(f)
<1>5. /\ fds' = [fds EXCEPT ![f].open = TRUE, ![f].named = TRUE]
      /\ call' = [call EXCEPT !.fd = f] /\ fs' = [fs EXCEPT !.cursor = y] /\ Then(s)
      /\ UNCHANGED <<flash, work, dst, rc>>
  BY <1>2, <1>3, <1>4 DEF Open
<1>6. todo' = s \o <<>>
  <2>. HIDE DEF s, y
  <2>. QED BY <1>2, <1>5
<1>7. fs \in FsType /\ call \in CallType /\ fds \in [Fds -> FdType]
  BY <1>2 DEF Typed
<1>8. call'.fd = f /\ call'.name = "open"
  <2>. HIDE DEF s, y
  <2>. QED BY <1>5, <1>7 DEF CallType, OpensIn
<1>9. Sole' /\ Fd'.named
  <2>1. Turned(f, fds, fds')
    BY <1>5 DEF Turned
  <2>2. fds'[f].named /\ \A e \in Fds : e # f => fds'[e].open = fds[e].open
    BY <1>7, <2>1, TurnedFields
  <2>. QED BY <1>8, <2>2 DEF Shut, Sole, Fd
<1>10. SameCursor /\ SameCounters
  <2>. HIDE DEF y
  <2>. QED BY <1>5, <1>7 DEF FsType, SameCursor, SameCounters
<1>11. /\ Flat({}, {})' /\ Untouched /\ UNCHANGED <<lu, page, phase, config, stored, cuts, rc>>
  <2>1. Flat({}, {})' /\ Untouched
    BY <1>5, <1>10, NothingTouched
  <2>. QED BY <1>2, <1>5, <2>1 DEF flash
<1>12. Stable(stored)'
  <2>1. PICK v : v = stored
    OBVIOUS
  <2>2. Stable(v)'
    BY <1>11, <2>1, StableKept DEF Untouched
  <2>. QED BY <1>11, <2>1, <2>2 DEF Stable
<1>13. OpensIn'
  BY <1>8, <1>11 DEF OpensIn
<1>14. ASSUME NEW h \in Objects, NEW d \in Objects, NEW n \in Ids, NEW c \in Contents, Whole(h, d, n, c)
       PROVE  OpenOk'
  <2>1. Named = {h}
    BY <1>14, OneNamed
  <2>2. Hint(f) \in Int
    BY <1>2, HintIsNumber
  <2>3. FirstFrom(Hint(f), Named) = h
    BY <2>1, <2>2, OnlyOne
  <2>4. s = <<ByPage(h)>>
    BY <2>1, <2>3 DEF ByPage
  <2>. HIDE DEF s, y
  <2>5. todo' = Cons(ByPage(h), <<>>)
    BY <1>6, <2>4, NilOnto
  <2>6. h \in Live /\ d \in Live
    BY <1>14 DEF Whole
  <2>7. Whole(h, d, n, c)'
    BY <1>11, <1>14, <2>6 DEF Whole, Holding, Untouched
  <2>8. Keeps(h, n, LEN)'
    BY <2>7 DEF Keeps, Whole
  <2>9. OpensFile'
    BY <1>9, <1>11, <2>5, <2>8 DEF OpensFile
  <2>. QED BY <1>12, <1>13, <2>9 DEF OpenOk
<1>15. CASE stored = NoFile /\ Live = {}
  <2>1. Named = {}
    BY <1>15, NoneNamed
  <2>2. Live' = {} /\ stored' = NoFile
    BY <1>11, <1>15 DEF Untouched
  <2>3. CASE phase = "open"
    <3>1. s = <<Do("fail")>>
      BY <1>2, <2>1, <2>3
    <3>. HIDE DEF s, y
    <3>2. todo' = Failing
      BY <1>6, <3>1, NilOnto DEF Failing
    <3>. QED BY <1>9, <1>11, <1>13, <2>2, <2>3, <3>2 DEF OpenOk
  <2>4. CASE phase # "open"
    <3>1. Min(FreeIds) \in Ids /\ FreeIds # {}
      BY <1>15, AnyFreeId
    <3>2. s = Creating(Min(FreeIds) + IX_FLAG)
      BY <1>2, <2>1, <2>4, <3>1
    <3>. HIDE DEF s, y
    <3>3. PICK n \in Ids : n = Min(FreeIds)
      BY <3>1
    <3>4. PICK k : k = Checking(DATA_PAGE_SIZE)
      OBVIOUS
    <3>5. FreshHeader(n + IX_FLAG) = Header(n, ONES, ONES)
      BY DEF FreshHeader, Header
    <3>6. todo' = <<k, FindingFree, Linking(n + IX_FLAG), Putting(Header(n, ONES, ONES)), Do("created")>> \o <<>>
      BY <1>6, <3>2, <3>3, <3>4, <3>5 DEF Creating
    <3>7. FiveParts(k, FindingFree, Linking(n + IX_FLAG), Putting(Header(n, ONES, ONES)), Do("created"))
      BY FiveList, Zenon
    <3>8. todo' = Cons(k, Cons(FindingFree, Creation(n)))
      BY <3>6, <3>7, Zenon DEF FiveParts, Creation
    <3>9. PICK t : t = Cons(FindingFree, Creation(n))
      OBVIOUS
    <3>10. Creates'
      BY <1>8, <1>9, <1>11, <2>4 DEF Creates, OpensIn
    <3>11. Goal(t)'
      BY <2>2, <3>9, <3>10 DEF Goal
    <3>12. k.do = "gc_check"
      BY <3>4 DEF Checking
    <3>13. Counts(t)'
      BY <1>11, <3>8, <3>9, <3>12 DEF Counts
    <3>. QED BY <1>11, <3>11, <3>13 DEF Collecting, Collects, Busy, Engaged
  <2>. QED BY <1>11, <2>3, <2>4
<1>. QED BY <1>11, <1>14, <1>15 DEF Stable

LEMMA FailStep ==
  ASSUME OpensIn, phase = "open", Sole, Flat({}, {}), Live = {}, stored = NoFile, todo = Failing,
         Working, FileInv
  PROVE  UNCHANGED cuts /\ OpenOk'
<1>1. Here(Do("fail"), <<>>)
  BY NilListed DEF Here, Failing
<1>2. /\ Fail /\ UNCHANGED <<phase, config, stored, cuts>> /\ Typed
  <2>1. Do("fail").do = "fail"
    BY DEF Do
  <2>2. At("fail") /\ SpiffsStep /\ UNCHANGED <<phase, config, stored, cuts>> /\ Typed
    BY <1>1, <2>1, HereFacts
  <2>. QED BY <2>2, Dispatch
<1>3. /\ todo' = <<>> /\ rc' = "failed" /\ fs' = [fs EXCEPT !.cleaning = FALSE]
      /\ fds' = [fds EXCEPT ![call.fd].open = FALSE] /\ UNCHANGED <<flash, work, dst, call>>
  BY <1>2 DEF Fail, Fails, Returned, OpensIn
<1>4. SameCursor /\ SameCounters
  BY <1>2, <1>3 DEF Typed, FsType, SameCursor, SameCounters
<1>5. Flat({}, {})' /\ Untouched
  BY <1>3, <1>4, NothingTouched
<1>6. Shut'
  BY <1>2, <1>3, ShutBy
<1>. QED BY <1>2, <1>3, <1>5, <1>6 DEF OpenOk, OpensIn, Untouched

LEMMA OpenOkStep ==
  ASSUME OpenOk, todo # <<>>, Working, FileInv
  PROVE  UNCHANGED cuts /\ (OpenOk' \/ Engaged')
<1>1. CASE OpensIn /\ (phase = "open" => Stable(stored)) /\ OpensFile
  <2>1. Steady /\ FileOpen' /\ UNCHANGED <<lu, page>>
    <3>1. PICK h \in Objects, n \in Ids, s \in {ONES, LEN} : Keeps(h, n, s) /\ todo = Cons(ByPage(h), <<>>)
      BY <1>1 DEF OpensFile
    <3>2. PICK r : page[h] = Header(n, s, r)
      BY <3>1 DEF Keeps, Whole
    <3>3. Sole /\ lu[h] = n + IX_FLAG
      BY <1>1, <3>1 DEF OpensFile, Keeps
    <3>4. UNCHANGED flash
      BY <3>1, <3>2, <3>3, NilListed, ByPageStep
    <3>. QED BY <1>1, <3>4, OpensStep DEF flash
  <2>2. OpensIn' /\ (phase' = "open" => Stable(stored)')
    BY <1>1, <2>1, StoredKept, SameIsUntouched DEF OpensIn, Steady
  <2>. QED BY <2>1, <2>2 DEF OpenOk, Steady
<1>. QED BY <1>1, OpenStep, FailStep DEF OpenOk, FileOpen

-----------------------------------------------------------------------------
(* Reading the file, and removing it. *)

LEMMA KeepsStable ==
  ASSUME NEW h \in Objects, NEW n \in Ids, NEW s \in {ONES, LEN}, Keeps(h, n, s), NEW v, Stable(v)
  PROVE  v \in Contents /\ s = LEN /\ \E d \in Objects : Whole(h, d, n, v)
<1>1. PICK x \in Objects, y \in Objects, m \in Ids : v \in Contents /\ Whole(x, y, m, v)
  BY DEF Stable, Keeps, Whole
<1>2. Live = {x, y} /\ x # y /\ h \in Live
  BY <1>1 DEF Whole, Keeps
<1>3. PICK d \in Objects, c \in Contents : s = LEN /\ Whole(h, d, n, c)
  BY <1>1, <1>2, WordLen DEF Keeps, Whole
<1>4. x = h
  BY <1>1, <1>2, <1>3, IdWords DEF Whole, Holding
<1>5. y = d
  BY <1>2, <1>3, <1>4 DEF Whole
<1>6. m = n
  BY <1>1, <1>3, <1>5 DEF Whole, Holding
<1>. QED BY <1>1, <1>3, <1>4, <1>5, <1>6

LEMMA ReadStep ==
  ASSUME ReadOk, todo # <<>>, Working, FileInv
  PROVE  UNCHANGED cuts /\ ReadOk'
<1>1. PICK h \in Objects, n \in Ids, s \in {ONES, LEN} : Keeps(h, n, s) /\ Using(h, n, s)
  BY DEF ReadOk
<1>2. PICK c \in Contents, d \in Objects : c = stored /\ s = LEN /\ Whole(h, d, n, c)
  BY <1>1, KeepsStable DEF ReadOk
<1>3. Here(Do("read"), <<>>)
  BY NilListed DEF Here, ReadOk, Reading
<1>4. /\ Read /\ UNCHANGED <<phase, config, stored, cuts>> /\ Typed
      /\ (Then(<<>>) <=> todo' = <<>>)
  <2>1. Do("read").do = "read"
    BY DEF Do
  <2>2. /\ At("read") /\ SpiffsStep /\ UNCHANGED <<phase, config, stored, cuts>> /\ Typed
        /\ (Then(<<>>) <=> todo' = <<>>)
    BY <1>3, <2>1, HereFacts
  <2>. QED BY <2>2, Dispatch
<1>5. /\ ValidHeader(page[h], n + IX_FLAG) /\ page[h].size = LEN /\ page[h].ref = d
      /\ DataCheck(d) = "ok" /\ Bytes(d) = c
  BY <1>2, WholeIsRead
<1>6. Fd.hdr = h /\ Fd.obj = n + IX_FLAG /\ Fd.size = LEN /\ Sole /\ Holds(LEN)
  BY <1>1, <1>2, WordLen DEF Using, Holds
<1>7. rc' = c /\ Close /\ todo' = <<>> /\ UNCHANGED <<flash, fs, work, dst, call>>
  BY <1>4, <1>5, <1>6 DEF Read
<1>8. Shut'
  BY <1>4, <1>6, <1>7, ShutBy DEF Close
<1>9. Flat({}, {})' /\ Untouched
  BY <1>7, NothingTouched, SameFields DEF ReadOk
<1>10. Stable(stored)'
  <2>1. PICK v : v = stored
    OBVIOUS
  <2>2. Stable(v)'
    BY <1>9, <2>1, StableKept DEF Untouched, ReadOk
  <2>. QED BY <1>4, <2>1, <2>2 DEF Stable
<1>. QED BY <1>2, <1>4, <1>7, <1>8, <1>9, <1>10 DEF ReadOk

-----------------------------------------------------------------------------
(* The lists of a remove. *)

Wipes(h, d, n) ==
  (Deleting(d) \o (Deleting(h) \o <<Event("delete", n + IX_FLAG)>>)) \o <<>> = Wiping(h, d, n)

LEMMA RemoveLists ==
  /\ Listed(Truncating) /\ Listed(Marking)
  /\ \A h, d, n : /\ Listed(LastWord(n)) /\ Listed(Deletion(h, LastWord(n))) /\ Listed(Wiping(h, d, n))
                  /\ Listed(Cons([do |-> "scrap", p |-> d], Deletion(h, LastWord(n))))
                  /\ Listed(Cons([do |-> "scrap", p |-> h], LastWord(n)))
                  /\ Wipes(h, d, n)
<1>1. Listed(Truncating) /\ Listed(Marking)
  BY NilListed, ConsFacts DEF Truncating, Marking
<1>2. ASSUME NEW h, NEW d, NEW n
      PROVE  /\ Listed(LastWord(n)) /\ Listed(Deletion(h, LastWord(n))) /\ Listed(Wiping(h, d, n))
             /\ Listed(Cons([do |-> "scrap", p |-> d], Deletion(h, LastWord(n))))
             /\ Listed(Cons([do |-> "scrap", p |-> h], LastWord(n)))
             /\ Wipes(h, d, n)
  <2>. DEFINE e == Event("delete", n + IX_FLAG)
              A == Deleting(d)
              B == Deleting(h)
              w == LastWord(n)
              u == Deletion(h, w)
  <2>1. Listed(w) /\ w = <<e>> \o <<>> /\ Listed(<<e>>) /\ Listed(<<>>)
    BY NilListed, ConsFacts, OneListed DEF LastWord, Cons
  <2>2. Listed(B) /\ Listed(u) /\ B \o w = u
    BY <2>1, DeletingOnto
  <2>3. Listed(A) /\ A \o u = Wiping(h, d, n) /\ Listed(Wiping(h, d, n))
    BY <2>2, DeletingOnto DEF Wiping
  <2>4. Listed(Cons([do |-> "scrap", p |-> d], u)) /\ Listed(Cons([do |-> "scrap", p |-> h], w))
    BY <2>1, <2>2, ConsFacts
  <2>. HIDE DEF e, A, B, w, u
  <2>5. Listed(B \o <<e>>) /\ (B \o <<e>>) \o <<>> = B \o (<<e>> \o <<>>)
    BY <2>1, <2>2, Onto
  <2>6. (A \o (B \o <<e>>)) \o <<>> = A \o ((B \o <<e>>) \o <<>>)
    BY <2>1, <2>3, <2>5, Onto
  <2>7. (A \o (B \o <<e>>)) \o <<>> = Wiping(h, d, n)
    BY <2>1, <2>2, <2>3, <2>5, <2>6, Zenon
  <2>. QED BY <2>1, <2>2, <2>3, <2>4, <2>7 DEF Wipes, e, A, B, w, u
<1>. QED BY <1>1, <1>2

LEMMA RemoveStart ==
  ASSUME RemoveOk, Shut, Stable(stored), todo = Removing, rc = "ok", Working, FileInv
  PROVE  UNCHANGED cuts /\ RemoveOk'
<1>1. Here(Do("remove"), <<>>)
  BY NilListed DEF Here, Removing
<1>2. /\ Remove /\ UNCHANGED <<phase, config, stored, cuts>> /\ Typed
      /\ \A s : Then(s) <=> todo' = s \o <<>>
  <2>1. Do("remove").do = "remove"
    BY DEF Do
  <2>2. /\ At("remove") /\ SpiffsStep /\ UNCHANGED <<phase, config, stored, cuts>> /\ Typed
        /\ \A s : Then(s) <=> todo' = s \o <<>>
    BY <1>1, <2>1, HereFacts
  <2>. QED BY <2>2, Dispatch
<1>3. fs.mounted /\ Closed # {} /\ Flat({}, {}) /\ phase = "remove" /\ call.name = "remove"
  BY AllClosed DEF Flat, RemoveOk
<1>4. fs \in FsType /\ call \in CallType /\ fds \in [Fds -> FdType]
  BY <1>2 DEF Typed
<1>5. CASE stored = NoFile /\ Live = {}
  <2>1. Named = {}
    BY <1>5, NoneNamed
  <2>2. todo' = <<>> /\ rc' = "failed" /\ UNCHANGED <<flash, fs, fds, work, dst, call>>
    BY <1>2, <2>1 DEF Remove, NoDescriptor
  <2>3. Flat({}, {})' /\ Untouched
    BY <1>3, <2>2, NothingTouched, SameFields
  <2>. QED BY <1>2, <1>3, <1>5, <2>2, <2>3 DEF RemoveOk, Shut, Untouched
<1>6. ASSUME NEW h \in Objects, NEW d \in Objects, NEW n \in Ids, NEW c \in Contents, Whole(h, d, n, c)
      PROVE  UNCHANGED cuts /\ RemoveOk'
  <2>1. Named = {h} /\ Named # {}
    BY <1>6, OneNamed
  <2>2. FirstFrom(fs.cursor, Named) = h
    BY <1>4, <2>1, OnlyOne DEF FsType
  <2>. DEFINE F == IF Closed = Known THEN Known ELSE {Min(Closed \ Known)}
  <2>3. /\ fs' = [fs EXCEPT !.cursor = h]
        /\ \E f \in F : fds' = [fds EXCEPT ![f].open = TRUE] /\ call' = [call EXCEPT !.fd = f]
        /\ Then(<<ByPage(h), Do("mark"), Do("truncate")>>)
        /\ UNCHANGED <<flash, work, dst, rc>>
    BY <1>2, <1>3, <2>1, <2>2 DEF Remove, ByPage
  <2>4. PICK f \in F : fds' = [fds EXCEPT ![f].open = TRUE] /\ call' = [call EXCEPT !.fd = f]
    BY <2>3
  <2>5. f \in Fds
    BY <1>3, ClosedFds
  <2>6. call'.fd = f /\ call'.name = "remove"
    BY <1>3, <1>4, <2>4 DEF CallType
  <2>. HIDE DEF F
  <2>7. Sole'
    <3>1. \A e \in Fds : e # f => fds'[e] = fds[e]
      BY <1>4, <2>4
    <3>. QED BY <2>6, <3>1 DEF Shut, Sole
  <2>8. SameCursor /\ SameCounters
    BY <1>4, <2>3 DEF FsType, SameCursor, SameCounters
  <2>9. Flat({}, {})' /\ Untouched
    BY <1>3, <2>3, <2>8, NothingTouched
  <2>10. Whole(h, d, n, c)'
    <3>1. h \in Live /\ d \in Live
      BY <1>6 DEF Whole
    <3>. QED BY <1>6, <2>9, <3>1 DEF Whole, Holding, Untouched
  <2>11. todo' = Cons(ByPage(h), Marking)
    <3>1. todo' = <<ByPage(h), Do("mark"), Do("truncate")>> \o <<>>
      BY <1>2, <2>3
    <3>2. PICK e : e = <<>>
      OBVIOUS
    <3>3. Listed(e)
      BY <3>2, NilListed
    <3>4. <<ByPage(h), Do("mark"), Do("truncate")>> \o e = Cons(ByPage(h), Cons(Do("mark"), Cons(Do("truncate"), e)))
      BY <3>3, ConsPairs
    <3>. QED BY <3>1, <3>2, <3>4, Zenon DEF Marking, Truncating
  <2>12. Removes(h, d, n, c)'
    BY <2>7, <2>10, <2>11 DEF Removes
  <2>. QED BY <1>2, <1>3, <2>3, <2>6, <2>9, <2>12 DEF RemoveOk
<1>. QED BY <1>5, <1>6 DEF Stable

LEMMA DroppedShut ==
  ASSUME Typed, Sole, NEW id, Fd.obj = id, fds' = Dropped(id)
  PROVE  Shut'
<1>1. fds \in [Fds -> FdType] /\ call.fd \in Fds
  BY DEF Typed, CallType
<1>2. ASSUME NEW f \in Fds PROVE ~fds'[f].open
  <2>1. CASE fds[f].obj = id
    <3>1. PICK r \in FdType : r = fds[f]
      BY <1>1
    <3>2. fds'[f] = [r EXCEPT !.open = FALSE, !.obj = DELETED]
      BY <2>1, <3>1 DEF Dropped
    <3>. QED BY <3>2 DEF FdType
  <2>2. CASE fds[f].obj # id
    <3>1. fds'[f] = fds[f] /\ f # call.fd
      BY <2>2 DEF Dropped, Fd
    <3>. QED BY <3>1 DEF Sole
  <2>. QED BY <2>1, <2>2
<1>. QED BY <1>2 DEF Shut

LEMMA KnowsKept ==
  ASSUME NEW h, NEW n, NEW s, Knows(h, n, s), Steady, UNCHANGED fds
  PROVE  Knows(h, n, s)'
  BY DEF Knows, Steady, Sole, Fd

(* The pages are unlinked and scrapped one by one. *)
LEMMA UnlinkFlat ==
  ASSUME NEW p \in Live, NEW u, Listed(u), todo = Deletion(p, u), Flat({}, {}), Working, FileInv
  PROVE  /\ Steady /\ UNCHANGED fds /\ todo' = Cons([do |-> "scrap", p |-> p], u)
         /\ Flat({}, {})' /\ Live' = Live \ {p} /\ lu'[p] = DELETED
<1>1. Listed(Cons([do |-> "scrap", p |-> p], u))
  BY ConsFacts
<1>2. Here([do |-> "unlink", p |-> p], Cons([do |-> "scrap", p |-> p], u))
  BY <1>1 DEF Here, Deletion
<1>3. /\ todo' = Cons([do |-> "scrap", p |-> p], u) /\ WriteEntry(p, DELETED) /\ SameCursor
      /\ fs'.allocated = fs.allocated - 1 /\ fs'.deleted = fs.deleted + 1
      /\ Steady /\ UNCHANGED <<page, magic, fds, work, dst>>
  BY <1>2, DoUnlink
<1>. QED BY <1>3, PageIsUnlinked DEF FileInv

LEMMA ScrapFlat ==
  ASSUME NEW p \in Objects, NEW u, Listed(u), todo = Cons([do |-> "scrap", p |-> p], u), lu[p] = DELETED,
         Flat({}, {}), Working, FileInv
  PROVE  Steady /\ UNCHANGED fds /\ todo' = u /\ Flat({}, {})' /\ Live' = Live
<1>1. Here([do |-> "scrap", p |-> p], u)
  BY DEF Here
<1>2. /\ todo' = u /\ WriteFlags(p, {"used", "delet"})
      /\ Steady /\ SameLookup /\ UNCHANGED <<fds, work>>
  BY <1>1, DoScrap
<1>3. SameCursor /\ SameCounters /\ UNCHANGED <<lu, magic, dst>>
  BY <1>2, Fixed
<1>4. \A q \in Objects : lu[q] = FREE => page'[q] = page[q]
  <2>1. page \in [Objects -> Page] /\ DELETED # FREE
    BY DEF FileInv, Typed, FlashTyped, DELETED, FREE, ONES
  <2>. QED BY <1>2, <2>1 DEF WriteFlags
<1>. QED BY <1>2, <1>3, <1>4, FlatKept, SameLive

LEMMA MarkStep ==
  ASSUME NEW h \in Objects, NEW d \in Objects, NEW n \in Ids, NEW c \in Contents,
         Knows(h, n, LEN), Whole(h, d, n, c), todo = Marking, Flat({}, {}), Working, FileInv
  PROVE  Steady /\ Flat({}, {})' /\ Removes(h, d, n, c)'
<1>1. Here(Do("mark"), Truncating)
  BY RemoveLists DEF Here, Marking
<1>2. /\ todo' = Truncating /\ WriteFlags(Fd.hdr, {"used", "final", "index", "ixdele"})
      /\ Steady /\ SameLookup /\ UNCHANGED <<fds, work>>
  BY <1>1, DoMark
<1>3. SameCursor /\ SameCounters /\ UNCHANGED <<lu, magic, dst>>
  BY <1>2, Fixed
<1>4. page \in [Objects -> Page] /\ Fd.hdr = h /\ lu[h] # FREE /\ h # d
  BY IdWords DEF FileInv, Typed, FlashTyped, Knows, Whole, FREE
<1>. DEFINE x == page[h].flags \cup {"used", "final", "index", "ixdele"}
<1>5. /\ page'[h] = [page[h] EXCEPT !.flags = x]
      /\ \A q \in Objects : q # h => page'[q] = page[q]
  BY <1>2, <1>4 DEF WriteFlags
<1>6. Flat({}, {})' /\ Live' = Live
  BY <1>2, <1>3, <1>4, <1>5, FlatKept, SameLive
<1>7. page[h] \in Page /\ page[h].flags = {"used", "final", "index"} /\ page[h].id = n + IX_FLAG /\ page[h].ref = d
  <2>. HIDE DEF x
  <2>1. page[h] \in Page
    BY <1>4
  <2>2. page[h] = Header(n, LEN, d)
    BY DEF Whole
  <2>3. PICK r : r = Header(n, LEN, d)
    OBVIOUS
  <2>4. r.flags = {"used", "final", "index"} /\ r.id = n + IX_FLAG /\ r.ref = d
    BY <2>3 DEF Header
  <2>. QED BY <2>1, <2>2, <2>3, <2>4
<1>8. page'[h].flags = x /\ page'[h].id = page[h].id /\ page'[h].ref = page[h].ref
  <2>. HIDE DEF x
  <2>1. [page[h] EXCEPT !.flags = x]
          = Image(x, page[h].id, page[h].data, page[h].size, page[h].ref, page[h].named)
    BY <1>7, PageFields
  <2>. QED BY <1>5, <2>1 DEF Image
<1>9. ValidHeader(page'[h], n + IX_FLAG)
  BY <1>7, <1>8, IdWords DEF ValidHeader
<1>10. Knows(h, n, LEN)'
  BY <1>2, KnowsKept
<1>11. Holding(d, n, c)'
  BY <1>3, <1>4, <1>5 DEF Whole, Holding
<1>12. Live' = {h, d} /\ page'[h].ref = d
  BY <1>6, <1>7, <1>8 DEF Whole
<1>13. lu'[h] = n + IX_FLAG
  BY <1>3, <1>4, <1>7 DEF Whole
<1>14. Removes(h, d, n, c)'
  BY <1>2, <1>4, <1>9, <1>10, <1>11, <1>12, <1>13, Zenon DEF Removes
<1>. QED BY <1>2, <1>6, <1>14

LEMMA TruncateStep ==
  ASSUME NEW h \in Objects, NEW d \in Objects, NEW n \in Ids, NEW c \in Contents,
         Knows(h, n, LEN), Live = {h, d}, h # d, Holding(d, n, c),
         page[h].ref = d, ValidHeader(page[h], n + IX_FLAG), todo = Truncating,
         Flat({}, {}), Working, FileInv
  PROVE  Steady /\ Flat({}, {})' /\ Removes(h, d, n, c)'
<1>1. Here(Do("truncate"), <<>>)
  BY NilListed DEF Here, Truncating
<1>2. /\ Truncate /\ UNCHANGED <<phase, config, stored, cuts>>
      /\ \A s : Then(s) <=> todo' = s \o <<>>
  <2>1. Do("truncate").do = "truncate"
    BY DEF Do
  <2>2. /\ At("truncate") /\ SpiffsStep /\ UNCHANGED <<phase, config, stored, cuts>>
        /\ \A s : Then(s) <=> todo' = s \o <<>>
    BY <1>1, <2>1, HereFacts
  <2>. QED BY <2>2, Dispatch
<1>3. Fd.hdr = h /\ Fd.obj = n + IX_FLAG /\ Fd.size = LEN /\ Holds(LEN)
  BY WordLen DEF Knows, Holds
<1>4. DataCheck(d) = "ok"
  BY DataIsOk
<1>5. /\ Then(Deleting(d) \o (Deleting(h) \o <<Event("delete", n + IX_FLAG)>>))
      /\ UNCHANGED <<flash, fs, fds, dst, call, rc>>
  BY <1>2, <1>3, <1>4 DEF Truncate
<1>6. todo' = (Deleting(d) \o (Deleting(h) \o <<Event("delete", n + IX_FLAG)>>)) \o <<>>
  BY <1>2, <1>5
<1>7. todo' = Wiping(h, d, n)
  <2>1. Wipes(h, d, n)
    BY RemoveLists
  <2>. QED BY <1>6, <2>1, Zenon DEF Wipes
<1>8. Steady /\ Flat({}, {})' /\ Untouched
  <2>1. Flat({}, {})' /\ Untouched
    BY <1>5, NothingTouched, SameFields
  <2>. QED BY <1>2, <1>5, <2>1 DEF Steady
<1>9. Knows(h, n, LEN)'
  BY <1>5, <1>8, KnowsKept
<1>. QED BY <1>7, <1>8, <1>9 DEF Removes, Untouched

LEMMA RemovesStep ==
  ASSUME NEW h \in Objects, NEW d \in Objects, NEW n \in Ids, NEW c \in Contents, Removes(h, d, n, c),
         Flat({}, {}), Working, FileInv
  PROVE  Steady /\ Flat({}, {})' /\ (Removes(h, d, n, c)' \/ (todo' = <<>> /\ Shut' /\ Live' = {}))
<1>. DEFINE w == LastWord(n)
            u == Deletion(h, w)
<1>1. Listed(w) /\ Listed(u) /\ Listed(Cons([do |-> "scrap", p |-> d], u))
      /\ Listed(Cons([do |-> "scrap", p |-> h], w))
  BY RemoveLists
<1>2. CASE Sole /\ Whole(h, d, n, c) /\ todo = Cons(ByPage(h), Marking)
  <2>1. /\ Steady /\ UNCHANGED <<flash, fs, work, dst>> /\ todo' = Marking /\ Knows(h, n, LEN)'
    BY <1>2, RemoveLists, ByPageStep DEF Whole
  <2>2. Flat({}, {})' /\ Untouched
    BY <2>1, NothingTouched, SameFields
  <2>3. Whole(h, d, n, c)'
    <3>1. h \in Live /\ d \in Live
      BY <1>2 DEF Whole
    <3>. QED BY <1>2, <2>2, <3>1 DEF Whole, Holding, Untouched
  <2>. QED BY <2>1, <2>2, <2>3 DEF Removes
<1>3. CASE Knows(h, n, LEN) /\ Whole(h, d, n, c) /\ todo = Marking
  BY <1>3, MarkStep
<1>4. CASE /\ Knows(h, n, LEN) /\ Live = {h, d} /\ h # d /\ lu[h] = n + IX_FLAG /\ Holding(d, n, c)
           /\ page[h].ref = d /\ ValidHeader(page[h], n + IX_FLAG) /\ todo = Truncating
  BY <1>4, TruncateStep
<1>. HIDE DEF w, u
<1>5. CASE Knows(h, n, LEN) /\ Live = {h, d} /\ h # d /\ todo = Deletion(d, u)
  <2>1. d \in Live
    BY <1>5
  <2>2. /\ Steady /\ UNCHANGED fds /\ todo' = Cons([do |-> "scrap", p |-> d], u)
        /\ Flat({}, {})' /\ Live' = Live \ {d} /\ lu'[d] = DELETED
    BY <1>1, <1>5, <2>1, UnlinkFlat
  <2>3. Live' = {h}
    BY <1>5, <2>2
  <2>4. Knows(h, n, LEN)'
    BY <1>5, <2>2, KnowsKept
  <2>. QED BY <2>2, <2>3, <2>4 DEF Removes, u, w
<1>6. CASE Knows(h, n, LEN) /\ Live = {h} /\ lu[d] = DELETED /\ todo = Cons([do |-> "scrap", p |-> d], u)
  <2>1. Steady /\ UNCHANGED fds /\ todo' = u /\ Flat({}, {})' /\ Live' = Live
    BY <1>1, <1>6, ScrapFlat
  <2>2. Knows(h, n, LEN)'
    BY <1>6, <2>1, KnowsKept
  <2>. QED BY <1>6, <2>1, <2>2 DEF Removes, u, w
<1>7. CASE Knows(h, n, LEN) /\ Live = {h} /\ todo = Deletion(h, w)
  <2>1. h \in Live
    BY <1>7
  <2>2. /\ Steady /\ UNCHANGED fds /\ todo' = Cons([do |-> "scrap", p |-> h], w)
        /\ Flat({}, {})' /\ Live' = Live \ {h} /\ lu'[h] = DELETED
    BY <1>1, <1>7, <2>1, UnlinkFlat
  <2>3. Live' = {}
    BY <1>7, <2>2
  <2>4. Knows(h, n, LEN)'
    BY <1>7, <2>2, KnowsKept
  <2>. QED BY <2>2, <2>3, <2>4 DEF Removes, w
<1>8. CASE Knows(h, n, LEN) /\ Live = {} /\ lu[h] = DELETED /\ todo = Cons([do |-> "scrap", p |-> h], w)
  <2>1. Steady /\ UNCHANGED fds /\ todo' = w /\ Flat({}, {})' /\ Live' = Live
    BY <1>1, <1>8, ScrapFlat
  <2>2. Knows(h, n, LEN)'
    BY <1>8, <2>1, KnowsKept
  <2>. QED BY <1>8, <2>1, <2>2 DEF Removes, w
<1>9. CASE Knows(h, n, LEN) /\ Live = {} /\ todo = w
  <2>1. Here(Event("delete", n + IX_FLAG), <<>>)
    BY <1>9, NilListed DEF Here, w, LastWord
  <2>2. /\ todo' = <<>> /\ fds' = Dropped(n + IX_FLAG)
        /\ Steady /\ SameLookup /\ UNCHANGED <<page, work>>
    BY <2>1, DoDeleted
  <2>3. SameCursor /\ SameCounters /\ UNCHANGED <<lu, magic, dst>>
    BY <2>2, Fixed
  <2>4. Flat({}, {})' /\ Live' = Live
    BY <2>2, <2>3, FlatKept, SameLive
  <2>5. Shut'
    BY <1>9, <2>2, DroppedShut DEF Knows, FileInv
  <2>. QED BY <1>9, <2>2, <2>4, <2>5
<1>. QED BY <1>2, <1>3, <1>4, <1>5, <1>6, <1>7, <1>8, <1>9 DEF Removes, Wiping, u, w

LEMMA RemoveOkStep ==
  ASSUME RemoveOk, todo # <<>>, Working, FileInv
  PROVE  UNCHANGED cuts /\ RemoveOk'
<1>1. CASE rc = "ok" /\ Shut /\ Stable(stored) /\ todo = Removing
  BY <1>1, RemoveStart
<1>2. ASSUME rc = "ok", NEW h \in Objects, NEW d \in Objects, NEW n \in Ids, NEW c \in Contents, Removes(h, d, n, c)
      PROVE  UNCHANGED cuts /\ RemoveOk'
  BY <1>2, RemovesStep DEF RemoveOk, Steady
<1>. QED BY <1>1, <1>2 DEF RemoveOk

-----------------------------------------------------------------------------
(* A call that is under way has something left to do. *)

(* A call that returned has nothing left; none of the situations inside a    *)
(* call is mistaken for that.                                                *)
Left == todo # <<>>

LEMMA SomethingLeft == ASSUME NEW x, NEW u, Listed(u), todo = Cons(x, u) PROVE Left
  BY ConsFacts DEF Left

LEMMA WorkIsLeft == Working => Left
<1>1. \A d : At(d) => Left
  BY DEF At, Left
<1>. QED BY <1>1, Heads DEF Working, SpiffsStep, CallStep, PageStep, GcStep

LEMMA ClearingLeft == ASSUME NEW b, NEW u, Listed(u), Clearing(b, u) PROVE Left
<1>1. /\ Listed(Cons([do |-> "magic", b |-> b], u))
      /\ Listed(Cons([do |-> "count", b |-> b], Cons([do |-> "magic", b |-> b], u)))
  BY ConsFacts
<1>. QED BY <1>1, SomethingLeft DEF Clearing, Erasure

LEMMA SeekingLeft == ASSUME NEW t, Listed(t), Seeking(t) PROVE Left
<1>1. PICK e : \/ todo \in {Cons(FindingOr(e), t), Cons(TakingOr(e), t)}
               \/ \E b \in Bixes : Clearing(b, Cons(TakingOr(e), t))
  BY DEF Seeking
<1>2. Listed(Cons(TakingOr(e), t))
  BY ConsFacts
<1>. QED BY <1>1, <1>2, SomethingLeft, ClearingLeft

(* A page is sought, or the rest of the list is what is left.                *)
LEMMA TodoLeft ==
  \A O, id, g, x, t : Listed(t) =>
    /\ Sought(O, t) => Left
    /\ Ready(O, g, Cons(x, t)) => Left
    /\ Laid(O, id, g, Cons(x, t)) => Left
  BY SeekingLeft, SomethingLeft DEF Sought, Ready, Laid

LEMMA ShiftingLeft ==
  ASSUME NEW src, NEW O, NEW img, NEW end, NEW id, NEW u, Listed(u),
         NEW w, w = Deletion(src, u) \/ w = Cons(Do("final"), Deletion(src, u)),
         Shifting(src, O, img, end, id, w, u)
  PROVE  Left
<1>1. Listed(Cons([do |-> "scrap", p |-> src], u)) /\ Listed(Deletion(src, u))
  BY ConsFacts DEF Deletion
<1>2. Listed(w)
  BY <1>1, ConsFacts
<1>3. Listed(Cons(Linking(id), w)) /\ Listed(Shifts(img, id, w))
  BY <1>2, ConsFacts DEF Shifts
<1>4. \A P, i, g : Laid(P, i, g, Deletion(src, u)) => Left
  BY <1>1, TodoLeft DEF Deletion
<1>5. \A P, i, g : Laid(P, i, g, w) => Left
  BY <1>1, <1>4, TodoLeft
<1>6. Sought({src} \cup O, Shifts(img, id, w)) => Left
  BY <1>3, TodoLeft
<1>7. \A P, g : Ready(P, g, Shifts(img, id, w)) => Left
  BY <1>3, TodoLeft DEF Shifts
<1>8. \A P, g : Ready(P, g, Cons(Linking(id), w)) => Left
  BY <1>2, TodoLeft
<1>9. \A P, i, g : Laid(P, i, g, Cons([do |-> "scrap", p |-> src], u)) => Left
  BY TodoLeft
<1>. QED BY <1>4, <1>5, <1>6, <1>7, <1>8, <1>9, Zenon DEF Shifting

LEMMA ShiftedLeft ==
  ASSUME NEW src, NEW O, NEW end, NEW id, NEW x, NEW u, Listed(u), Shifted(src, O, end, id, Cons(x, u))
  PROVE  Left
  BY TodoLeft DEF Shifted

LEMMA BusyLeft == Busy => Left
<1>1. ASSUME NEW t, Goal(t), Collects(t) PROVE Left
  <2>1. Listed(t) /\ \A x : todo = Cons(x, t) => Left
    BY <1>1, GoalListed, SomethingLeft
  <2>2. ASSUME NEW b \in Bixes, NEW k, Cleaned(b, k, t) PROVE Left
    <3>1. Listed(Cons(k, t)) /\ Listed(Plan(b, k, t)) /\ Listed(Erasure(b, Cons(k, t)))
      BY <2>1, PlanListed
    <3>2. \A x : todo = Cons(x, Plan(b, k, t)) => Left
      BY <3>1, SomethingLeft
    <3>3. todo = Plan(b, k, t) => Left
      BY <3>1, SomethingLeft DEF Plan
    <3>4. Clearing(b, Cons(k, t)) => Left
      BY <3>1, ClearingLeft
    <3>. QED BY <2>2, <3>2, <3>3, <3>4 DEF Cleaned, Looks, LooksFrom, Indexes, IndexesFrom, Leaves
  <2>. QED BY <1>1, <2>1, <2>2 DEF Collects, Counts
<1>2. ASSUME NEW t, Goal(t), todo = t PROVE Left
  <2>1. t = Appending \/ t = Changing \/ \E n \in Ids : t = Cons(FindingFree, Creation(n))
    BY <1>2 DEF Goal, Filed, Carried
  <2>. QED BY <1>2, <2>1, ShortListed, NilListed, SomethingLeft DEF Appending, Changing
<1>3. ASSUME NEW t, NEW b, NEW k, MovesIndex(b, k, t) PROVE Left
  <2>1. PICK h \in Objects, n \in Ids : \E O, g :
          /\ Carried(O, n, g, t)
          /\ LET v == Telling(b, h, n, k, t)
             IN  \/ Shifting(h, O, g, g, n + IX_FLAG, Deletion(h, v), v)
                 \/ Shifted(h, O, g, n + IX_FLAG, v)
    BY <1>3 DEF MovesIndex
  <2>2. Listed(t)
    BY <2>1, ShortListed DEF Carried
  <2>3. Listed(Cons(MovingIndex(b, h + 1), Plan(b, k, t))) /\ Listed(Telling(b, h, n, k, t))
    BY <2>2, PlanListed, ConsFacts DEF Telling
  <2>4. \A O, g : Shifting(h, O, g, g, n + IX_FLAG, Deletion(h, Telling(b, h, n, k, t)), Telling(b, h, n, k, t)) => Left
    BY <2>3, ShiftingLeft
  <2>5. \A O, g : Shifted(h, O, g, n + IX_FLAG, Telling(b, h, n, k, t)) => Left
    BY <2>3, ShiftedLeft DEF Telling
  <2>. QED BY <2>1, <2>4, <2>5
<1>4. ASSUME NEW b, NEW k, Gathers(b, k) PROVE Left
  <2>1. PICK h, n, d, c, back :
          \/ \E from \in Int : AtData(h, n, d, c, b, from, back, k)
          \/ \E r \in Words : OnData(h, n, d, c, b, r, back, k)
    BY <1>4 DEF Gathers
  <2>. DEFINE v == Referring(h, n, b, d, back, k)
  <2>2. Listed(v) /\ Listed(Gathering(h, n, b, d + 1, back, k)) /\ Listed(Plan(b, k, Changing))
    BY GatheringListed
  <2>3. ASSUME NEW from, AtData(h, n, d, c, b, from, back, k) PROVE Left
    BY <2>2, <2>3, SomethingLeft DEF AtData, Gathering
  <2>4. ASSUME NEW g, Shifting(d, {h}, g, g, n, Deletion(d, v), v) PROVE Left
    <3>. HIDE DEF v
    <3>. QED BY <2>2, <2>4, ShiftingLeft
  <2>5. ASSUME NEW g, Shifted(d, {h}, g, n, v) PROVE Left
    BY <2>2, <2>5, ShiftedLeft DEF Referring
  <2>. QED BY <2>1, <2>3, <2>4, <2>5 DEF OnData
<1>5. ASSUME NEW u, Stores(u) PROVE Left
  <2>1. PICK h, n, d, c : Resumes(u, d, c) /\ (ToStore(h, n, d, u) \/ OnHeader(h, n, d, u))
    BY <1>5 DEF Stores
  <2>2. Listed(u)
    BY <2>1, ResumesListed
  <2>. DEFINE v == Updating(n, u)
              w == Cons(Do("final"), Deletion(h, v))
  <2>3. Listed(v)
    BY <2>2, ConsFacts DEF Updating
  <2>4. ToStore(h, n, d, u) => Left
    BY <2>2, SomethingLeft DEF ToStore, Storing
  <2>5. ASSUME NEW f, NEW g, Shifting(h, {d}, f, g, n + IX_FLAG, w, v) PROVE Left
    <3>1. w = Cons(Do("final"), Deletion(h, v))
      OBVIOUS
    <3>. HIDE DEF v, w
    <3>. QED BY <2>3, <2>5, <3>1, ShiftingLeft
  <2>6. ASSUME NEW g, Shifted(h, {d}, g, n + IX_FLAG, v) PROVE Left
    BY <2>2, <2>6, ShiftedLeft DEF Updating
  <2>. QED BY <2>1, <2>4, <2>5, <2>6 DEF OnHeader
<1>6. Closes => Left
  BY NilListed, SomethingLeft DEF Closes
<1>. QED BY <1>1, <1>2, <1>3, <1>4, <1>5, <1>6 DEF Busy, Collecting, Due, Moved, Gathered, Restored

LEMMA EngagedLeft == Engaged => Left
<1>1. Makes => Left
  <2>. SUFFICES ASSUME NEW n \in Ids, Making(n) PROVE Left
    BY DEF Makes
  <2>. DEFINE g == Header(n, ONES, ONES)
              v == Cons(Do("created"), <<>>)
  <2>1. Listed(v) /\ Listed(Cons(Putting(g), v)) /\ Listed(Creation(n))
    BY NilListed, ConsFacts, ShortListed
  <2>2. Sought({}, Creation(n)) => Left
    BY <2>1, TodoLeft
  <2>3. Ready({}, ErasedPage, Creation(n)) => Left
    BY <2>1, TodoLeft DEF Creation
  <2>4. Laid({}, n + IX_FLAG, ErasedPage, Cons(Putting(g), v)) => Left
    BY <2>1, TodoLeft
  <2>5. Laid({}, n + IX_FLAG, g, v) => Left
    BY NilListed, TodoLeft
  <2>. QED BY <2>2, <2>3, <2>4, <2>5 DEF Making
<1>2. Adds => Left
  <2>. SUFFICES ASSUME NEW h, NEW n, NEW c, Adding(h, n, c) PROVE Left
    BY DEF Adds
  <2>. DEFINE s == Starting(Final, n, Filling(c))
  <2>1. /\ Listed(Closing) /\ Listed(Sizing) /\ Listed(Entering) /\ Listed(Filling(c)) /\ Listed(s)
        /\ \A i : Listed(Cons(Putting(i), Filling(c)))
    BY ClosingListed
  <2>2. Sought({h}, s) => Left
    BY <2>1, TodoLeft
  <2>3. Ready({h}, ErasedPage, s) => Left
    BY <2>1, TodoLeft DEF Starting
  <2>4. \A i, g : Laid({h}, n, g, Cons(Putting(i), Filling(c))) => Left
    BY <2>1, TodoLeft
  <2>5. \A g : Laid({h}, n, g, Filling(c)) => Left
    BY <2>1, TodoLeft DEF Filling
  <2>6. \A g : Laid({h}, n, g, Entering) => Left
    BY <2>1, TodoLeft DEF Entering
  <2>7. \A g : Laid({h}, n, g, Sizing) => Left
    BY <2>1, TodoLeft DEF Sizing
  <2>. QED BY <2>2, <2>3, <2>4, <2>5, <2>6, <2>7 DEF Adding
<1>3. Alters => Left
  <2>. SUFFICES ASSUME NEW h, NEW d, NEW n, NEW c, Altering(n, h, d, c) PROVE Left
    BY DEF Alters
  <2>. DEFINE s == Starting({"used"}, n, Refilling(n, h, d, c))
  <2>1. /\ Listed(Storing(n, h, Closing)) /\ Listed(Restoring(n, h)) /\ Listed(Altered(n, h, d))
        /\ Listed(Refilling(n, h, d, c)) /\ Listed(Deletion(d, Restoring(n, h)))
        /\ Listed(Cons([do |-> "scrap", p |-> d], Restoring(n, h)))
        /\ Listed(s) /\ \A i : Listed(Cons(Putting(i), Refilling(n, h, d, c)))
    BY AlteringListed
  <2>2. \A O : Sought(O, s) => Left
    BY <2>1, TodoLeft
  <2>3. \A O, g : Ready(O, g, s) => Left
    BY <2>1, TodoLeft DEF Starting
  <2>4. \A O, i, g : Laid(O, n, g, Cons(Putting(i), Refilling(n, h, d, c))) => Left
    BY <2>1, TodoLeft
  <2>5. \A O, g : Laid(O, n, g, Refilling(n, h, d, c)) => Left
    BY <2>1, TodoLeft DEF Refilling
  <2>6. \A O, g : Laid(O, n, g, Altered(n, h, d)) => Left
    BY <2>1, TodoLeft DEF Altered
  <2>7. \A O, g : Laid(O, n, g, Deletion(d, Restoring(n, h))) => Left
    BY <2>1, TodoLeft DEF Deletion
  <2>8. \A O, g : Laid(O, n, g, Cons([do |-> "scrap", p |-> d], Restoring(n, h))) => Left
    BY <2>1, TodoLeft
  <2>9. \A O, g : Laid(O, n, g, Restoring(n, h)) => Left
    BY <2>1, TodoLeft DEF Restoring
  <2>. QED BY <2>2, <2>3, <2>4, <2>5, <2>6, <2>7, <2>8, <2>9 DEF Altering
<1>4. AtFlush => Left
  BY NilListed, SomethingLeft DEF AtFlush
<1>. QED BY <1>1, <1>2, <1>3, <1>4, BusyLeft DEF Engaged

-----------------------------------------------------------------------------
(* The whole life of a node whose power never fails inside a call. *)

(* The invariant: the state is typed, and as long as power never failed      *)
(* inside a call every call is in one of its situations.                     *)
Kempt == cuts = 0 => Sound
SoundInv == FileInv /\ cuts \in Nat /\ Kempt

(* A step of a call, when it finds room, leads from one situation of the     *)
(* call to another.                                                          *)
LEMMA WorkingSound == ASSUME Sound, Working, FileInv, ~Full PROVE Sound' /\ UNCHANGED cuts
<1>1. todo # <<>>
  BY WorkIsLeft DEF Left
<1>2. CASE MountOk
  BY <1>1, <1>2, MountStep DEF Sound
<1>3. CASE FormatOk
  BY <1>1, <1>3, FormatStep DEF Sound
<1>4. CASE OpenOk
  BY <1>1, <1>4, OpenOkStep DEF Sound
<1>5. CASE ReadOk
  BY <1>1, <1>5, ReadStep DEF Sound
<1>6. CASE RemoveOk
  BY <1>1, <1>6, RemoveOkStep DEF Sound
<1>7. CASE Engaged
  <2>1. Steady /\ (Engaged' \/ (Creates /\ OpensFile') \/ Flushed')
    BY <1>7, EngagedStep
  <2>2. ASSUME Creates, OpensFile' PROVE OpenOk'
    <3>1. /\ call'.name = "open" /\ phase' \in {"defaults", "save"} /\ rc' = "ok" /\ config' \in Contents
      BY <2>1, <2>2 DEF Creates, Steady
    <3>. QED BY <2>2, <3>1 DEF OpenOk, OpensIn
  <2>. QED BY <2>1, <2>2 DEF Sound, Steady
<1>. QED BY <1>1, <1>2, <1>3, <1>4, <1>5, <1>6, <1>7 DEF Sound, OffOk, Flushed, UpOk

(* What lies on the flash, while no call is under way.                       *)
LEMMA SameFlash ==
  ASSUME UNCHANGED <<flash, fs>>
  PROVE  /\ Flat({}, {}) => Flat({}, {})'
         /\ Dry => Dry'
         /\ Live' = Live
         /\ \A v, w : Stable(v) /\ v = w => Stable(w)'
<1>1. UNCHANGED <<lu, page, magic>> /\ fs' = fs
  BY DEF flash
<1>2. Dry => Dry'
  BY <1>1, DryKept
<1>3. Live' = Live
  BY <1>1, SameLive
<1>4. \A v, w : Stable(v) /\ v = w => Stable(w)'
  BY <1>1, <1>3, StableKept
<1>5. Flat({}, {}) => Flat({}, {})'
  BY <1>1, NothingTouched, SameFields
<1>. QED BY <1>2, <1>3, <1>4, <1>5

(* When no step is left, the phase of the node tells which call returned.    *)
LEMMA IdleSound ==
  ASSUME Sound, todo = <<>>
  PROVE  /\ phase = "off" => OffOk
         /\ phase \in {"mount", "remount", "cmd_mount"} => MountOk
         /\ phase \in {"format", "cmd_format"} => FormatOk
         /\ phase \in {"open", "defaults", "save"} => OpenOk
         /\ phase = "read" => ReadOk
         /\ phase = "remove" => RemoveOk
         /\ phase \in {"writing", "saving"} => Flushed
         /\ phase = "up" => UpOk
<1>1. ~Engaged
  BY EngagedLeft DEF Left
<1>2. OpenOk => phase \in {"open", "defaults", "save"}
  BY DEF OpenOk, OpensIn
<1>3. MountOk => phase \in {"mount", "remount", "cmd_mount"}
  BY DEF MountOk, Mounts
<1>4. FormatOk => phase \in {"format", "cmd_format"}
  BY DEF FormatOk
<1>5. /\ OffOk => phase = "off"
      /\ ReadOk => phase = "read"
      /\ RemoveOk => phase = "remove"
      /\ Flushed => phase \in {"writing", "saving"}
      /\ UpOk => phase = "up"
  BY DEF OffOk, ReadOk, RemoveOk, Flushed, Flushes, UpOk
<1>. QED BY <1>1, <1>2, <1>3, <1>4, <1>5 DEF Sound

LEMMA SingleStep == \A x : Cons(x, <<>>) = <<x>>
<1>. SUFFICES ASSUME NEW x PROVE Cons(x, <<>>) = <<x>>
  OBVIOUS
<1>1. <<x>> \in Seq({x})
  OBVIOUS
<1>. QED BY <1>1, ConcatEmptySeq DEF Cons

LEMMA StillShut == ASSUME UNCHANGED fds PROVE Shut => Shut'
  BY DEF Shut

(* What a call finds when it begins.                                         *)
LEMMA CallBegins ==
  ASSUME NEW name, NEW value, NEW steps, NEW next, Calls(name, value, steps, next), Typed
  PROVE  /\ call'.name = name /\ call'.value = value /\ call'.fd = call.fd
         /\ rc' = "ok" /\ todo' = steps /\ phase' = next
         /\ UNCHANGED <<flash, fs, fds, work, dst>>
<1>1. /\ call' = [call EXCEPT !.name = name, !.value = value] /\ rc' = "ok" /\ todo' = steps /\ phase' = next
      /\ UNCHANGED <<flash, fs, fds, work, dst>>
  BY DEF Calls, Begins, Kept
<1>2. call'.name = name /\ call'.value = value /\ call'.fd = call.fd
  <2>1. PICK r \in CallType : r = call
    BY DEF Typed
  <2>. QED BY <1>1, <2>1 DEF CallType
<1>. QED BY <1>1, <1>2

LEMMA OpenBegins ==
  ASSUME NEW value, NEW next, NEW create \in BOOLEAN, Calls("open", value, Opening(create), next),
         next = "open" \/ (next \in {"defaults", "save"} /\ config' \in Contents),
         create <=> next # "open",
         Shut, Flat({}, {}), Stable(stored), UNCHANGED stored, Typed
  PROVE  OpenOk'
<1>1. /\ call'.name = "open" /\ rc' = "ok" /\ todo' = Opening(create) /\ phase' = next
      /\ UNCHANGED <<flash, fs, fds>>
  BY CallBegins
<1>2. Shut' /\ Flat({}, {})'
  BY <1>1, StillShut, SameFlash
<1>3. Stable(stored)'
  <2>1. PICK v : v = stored
    OBVIOUS
  <2>2. Stable(v)' /\ stored' = v
    BY <1>1, <2>1, SameFlash
  <2>. QED BY <2>2 DEF Stable
<1>4. todo' = Cons([do |-> "open", create |-> phase' # "open"], <<>>)
  <2>1. (phase' # "open") <=> create
    BY <1>1
  <2>2. (phase' # "open") = create
    BY <2>1
  <2>3. todo' = <<[do |-> "open", create |-> create]>>
    BY <1>1 DEF Opening
  <2>. QED BY <2>2, <2>3, SingleStep, Zenon
<1>. QED BY <1>1, <1>2, <1>3, <1>4 DEF OpenOk, OpensIn

LEMMA MountBegins ==
  ASSUME NEW next \in {"mount", "remount", "cmd_mount"}, Calls("mount", Erased, Mounting, next),
         Shut, Dry, Stable(stored)', MagicOk', next # "mount" => magic = Bixes, Typed
  PROVE  MountOk'
<1>1. /\ call'.name = "mount" /\ rc' = "ok" /\ todo' = Mounting /\ phase' = next
      /\ UNCHANGED <<flash, fs, fds>>
  BY CallBegins
<1>2. Shut' /\ Dry' /\ magic' = magic
  BY <1>1, StillShut, SameFlash DEF flash
<1>. QED BY <1>1, <1>2, MountLists DEF MountOk, Mounts

LEMMA StoredStable ==
  ASSUME UNCHANGED <<lu, page>>, NEW v, Stable(v), stored' = v
  PROVE  Stable(stored)'
<1>1. Live' = Live
  BY SameLive
<1>2. Stable(v)'
  BY <1>1, StableKept
<1>. QED BY <1>2 DEF Stable

LEMMA UpAgain ==
  ASSUME phase' = "up", NoCallNow, todo = <<>>, call.name # "remove" => rc # "failed",
         Shut, Flat({}, {}), NEW v, Stable(v), stored' = v
  PROVE  UpOk'
<1>1. todo' = <<>> /\ UNCHANGED <<rc, call, flash, fs, fds>>
  BY DEF NoCallNow, Kept
<1>2. Shut' /\ Flat({}, {})'
  BY <1>1, StillShut, SameFlash
<1>3. Stable(stored)'
  BY <1>1, StoredStable DEF flash
<1>. QED BY <1>1, <1>2, <1>3 DEF UpOk

LEMMA FormatBegins ==
  ASSUME phase' \in {"format", "cmd_format"}, call'.name = "format", rc' = "ok", Shut', todo' = Formatting
  PROVE  FormatOk'
<1>1. Blocks \in Nat /\ Blocks > 2
  BY FlashAssumption
<1>2. 0 \in 0..Blocks /\ \A b \in Bixes : ~(b < 0)
  BY <1>1 DEF Bixes
<1>3. \A p \in Objects : ~(BlockOf(p) < 0)
  BY <1>2, PageBlock
<1>4. Blank(0)' /\ Marked(0)'
  BY <1>2, <1>3 DEF Blank, Marked
<1>. QED BY <1>2, <1>4, FormatLists DEF FormatOk

-----------------------------------------------------------------------------
(* Between two calls. *)

LEMMA MountEnds ==
  ASSUME MountOk, todo = <<>>
  PROVE  /\ Shut /\ Stable(stored) /\ call.name = "mount"
         /\ \/ rc = "ok" /\ Flat({}, {})
            \/ phase = "mount" /\ rc = "failed" /\ Dry /\ magic = {} /\ stored = NoFile
  BY MountLists DEF MountOk, Mounts

LEMMA OpenEnds ==
  ASSUME OpenOk, todo = <<>>
  PROVE  \/ /\ phase = "open" /\ rc = "failed" /\ Shut /\ Flat({}, {})
            /\ Live = {} /\ stored = NoFile
         \/ OpensIn /\ (phase = "open" => Stable(stored)) /\ FileOpen
<1>1. \A x : Cons(x, <<>>) # <<>>
  BY NilListed, ConsFacts
<1>. QED BY <1>1 DEF OpenOk, OpensFile, Failing

LEMMA RemoveEnds ==
  ASSUME RemoveOk, todo = <<>>
  PROVE  call.name = "remove" /\ Flat({}, {}) /\ Shut /\ Live = {} /\ (rc = "ok" \/ (rc = "failed" /\ stored = NoFile))
<1>1. Removing # <<>> /\ Truncating # <<>> /\ Marking # <<>> /\ \A n : LastWord(n) # <<>>
  BY NilListed, ConsFacts, RemoveLists DEF Removing, Truncating, Marking, LastWord
<1>2. \A x : Cons(x, Marking) # <<>>
  BY ConsFacts, RemoveLists
<1>3. \A h, n : Deletion(h, LastWord(n)) # <<>>
  <2>1. \A h, n : Listed(Cons([do |-> "scrap", p |-> h], LastWord(n)))
    BY RemoveLists
  <2>. QED BY <2>1, ConsFacts DEF Deletion
<1>4. \A h, d, n : Wiping(h, d, n) # <<>>
  <2>1. \A h, d, n : Listed(Cons([do |-> "scrap", p |-> d], Deletion(h, LastWord(n))))
    BY RemoveLists
  <2>. QED BY <2>1, ConsFacts DEF Deletion, Wiping
<1>5. \A x, n : Cons(x, LastWord(n)) # <<>>
  BY ConsFacts, RemoveLists
<1>6. \A x, h, n : Cons(x, Deletion(h, LastWord(n))) # <<>>
  BY ConsFacts, RemoveLists
<1>7. \A h, d \in Objects, n \in Ids, c \in Contents : ~Removes(h, d, n, c)
  BY <1>1, <1>2, <1>3, <1>4, <1>5, <1>6 DEF Removes
<1>. QED BY <1>1, <1>7 DEF RemoveOk

LEMMA CommandsApart == \A c \in Contents : c # "failed" /\ c # "ok" /\ c # NoFile
  BY ConfigFileAssumption

(* The node goes on, from one call to the next.                              *)
LEMMA ContinueSound == ASSUME Sound, Continue, FileInv PROVE Sound' /\ UNCHANGED cuts
<1>1. Typed /\ magic \subseteq Bixes /\ Default \in Contents
  BY ConfigFileAssumption DEF FileInv, Typed, FlashTyped
<1>2. CASE Boot
  <2>1. /\ phase = "off" /\ todo = <<>> /\ Calls("mount", Erased, Mounting, "mount")
        /\ UNCHANGED <<stored, cuts>>
    BY <1>2 DEF Boot, Returns, Idle
  <2>2. OffOk
    BY <2>1, IdleSound
  <2>3. UNCHANGED <<lu, page, magic>>
    BY <1>1, <2>1, CallBegins DEF flash
  <2>4. Stable(stored)' /\ MagicOk'
    <3>1. PICK v : v = stored
      OBVIOUS
    <3>2. Stable(v) /\ stored' = v
      BY <2>1, <2>2, <3>1 DEF OffOk
    <3>3. Stable(stored)'
      BY <2>3, <3>2, StoredStable
    <3>. QED BY <2>1, <2>2, <2>3, <3>3 DEF OffOk, MagicOk
  <2>5. MountOk'
    BY <1>1, <2>1, <2>2, <2>4, MountBegins DEF OffOk
  <2>. QED BY <2>1, <2>5 DEF Sound
<1>3. CASE Mounted
  <2>1. /\ phase = "mount" /\ todo = <<>> /\ UNCHANGED <<config, stored, cuts>>
        /\ rc = "ok" => Calls("open", Erased, Opening(FALSE), "open")
        /\ rc # "ok" => Calls("format", Erased, Formatting, "format")
    BY <1>3 DEF Mounted, Returns, Idle
  <2>2. MountOk
    BY <2>1, IdleSound
  <2>3. Shut /\ Stable(stored) /\ (rc = "ok" => Flat({}, {}))
    BY <2>1, <2>2, MountEnds
  <2>4. CASE rc = "ok"
    <3>1. Calls("open", Erased, Opening(FALSE), "open")
      BY <2>1, <2>4
    <3>2. OpenOk'
      BY <1>1, <2>1, <2>3, <2>4, <3>1, OpenBegins
    <3>. QED BY <2>1, <3>2 DEF Sound
  <2>5. CASE rc # "ok"
    <3>1. Calls("format", Erased, Formatting, "format")
      BY <2>1, <2>5
    <3>2. call'.name = "format" /\ rc' = "ok" /\ todo' = Formatting /\ phase' = "format" /\ fds' = fds
      BY <1>1, <3>1, CallBegins
    <3>3. FormatOk'
      BY <2>3, <3>2, StillShut, FormatBegins
    <3>. QED BY <2>1, <3>3 DEF Sound
  <2>. QED BY <2>4, <2>5
<1>4. ASSUME NEW before, NEW next \in {"remount", "cmd_mount"}, before \in {"format", "cmd_format"},
             Returns(before), Calls("mount", Erased, Mounting, next), Stored(NoFile), UNCHANGED cuts
      PROVE  Sound' /\ UNCHANGED cuts
  <2>1. phase \in {"format", "cmd_format"} /\ todo = <<>>
    BY <1>4 DEF Returns, Idle
  <2>2. FormatOk
    BY <2>1, IdleSound
  <2>3. Shut /\ rc = "ok" /\ Dry /\ Live = {} /\ magic = Bixes
    BY <1>1, <2>1, <2>2, FormatEnds
  <2>4. UNCHANGED <<lu, page, magic>>
    BY <1>1, <1>4, CallBegins DEF flash
  <2>5. stored' = NoFile /\ Live' = {}
    BY <1>4, <2>3, <2>4, SameLive DEF Stored
  <2>6. Stable(stored)' /\ MagicOk'
    BY <2>3, <2>4, <2>5 DEF Stable, MagicOk
  <2>7. MountOk'
    BY <1>1, <1>4, <2>3, <2>6, MountBegins
  <2>. QED BY <1>4, <2>7 DEF Sound
<1>5. CASE Formatted \/ CmdFormatted
  BY <1>4, <1>5 DEF Formatted, CmdFormatted
<1>6. CASE Remounted
  <2>1. /\ phase = "remount" /\ todo = <<>> /\ Calls("open", Erased, Opening(FALSE), "open")
        /\ UNCHANGED <<config, stored, cuts>>
    BY <1>6 DEF Remounted, Returns, Idle
  <2>2. MountOk
    BY <2>1, IdleSound
  <2>3. Shut /\ Stable(stored) /\ Flat({}, {})
    BY <2>1, <2>2, MountEnds
  <2>4. OpenOk'
    BY <1>1, <2>1, <2>3, OpenBegins
  <2>. QED BY <2>1, <2>4 DEF Sound
<1>7. CASE CmdMounted
  <2>1. /\ phase = "cmd_mount" /\ todo = <<>> /\ phase' = "up" /\ NoCallNow
        /\ UNCHANGED <<config, stored, cuts>>
    BY <1>7 DEF CmdMounted, Returns, Idle
  <2>2. MountOk
    BY <2>1, IdleSound
  <2>3. Shut /\ Stable(stored) /\ Flat({}, {}) /\ rc = "ok"
    BY <2>1, <2>2, MountEnds
  <2>4. PICK v : v = stored
    OBVIOUS
  <2>5. UpOk'
    BY <2>1, <2>3, <2>4, UpAgain
  <2>. QED BY <2>1, <2>5 DEF Sound
<1>8. CASE Opened
  <2>1. /\ phase = "open" /\ todo = <<>> /\ UNCHANGED <<stored, cuts>>
        /\ rc = "ok" => Calls("read", Erased, <<Do("read")>>, "read")
        /\ rc # "ok" => Writes(Default, "defaults")
    BY <1>8 DEF Opened, Returns, Idle
  <2>2. OpenOk
    BY <2>1, IdleSound
  <2>3. CASE rc = "failed" /\ Shut /\ Flat({}, {}) /\ Live = {} /\ stored = NoFile
    <3>1. Calls("open", Default, Opening(TRUE), "defaults") /\ config' \in Contents
      BY <1>1, <2>1, <2>3 DEF Writes
    <3>2. Stable(stored)
      BY <2>3 DEF Stable
    <3>3. OpenOk'
      BY <1>1, <2>1, <2>3, <3>1, <3>2, OpenBegins
    <3>. QED BY <2>1, <3>3 DEF Sound
  <2>4. CASE OpensIn /\ (phase = "open" => Stable(stored)) /\ FileOpen
    <3>1. rc = "ok" /\ Stable(stored) /\ Flat({}, {})
      BY <2>1, <2>4 DEF OpensIn, FileOpen
    <3>2. /\ call'.name = "read" /\ call'.fd = call.fd /\ rc' = "ok" /\ todo' = <<Do("read")>> /\ phase' = "read"
          /\ UNCHANGED <<flash, fs, fds, work, dst>>
      BY <1>1, <2>1, <3>1, CallBegins
    <3>3. UNCHANGED <<lu, page, magic>>
      BY <3>2 DEF flash
    <3>4. Flat({}, {})' /\ Live' = Live
      BY <3>1, <3>2, SameFlash
    <3>5. Stable(stored)'
      <4>1. PICK v : v = stored
        OBVIOUS
      <4>. QED BY <2>1, <3>1, <3>3, <4>1, StoredStable
    <3>6. PICK h \in Objects, n \in Ids, s \in {ONES, LEN} : Keeps(h, n, s) /\ Using(h, n, s)
      BY <2>4 DEF FileOpen
    <3>7. Using(h, n, s)'
      BY <3>2, <3>6 DEF Using, Sole, Fd
    <3>8. Keeps(h, n, s)'
      BY <3>3, <3>4, <3>6 DEF Keeps, Whole, Holding
    <3>9. todo' = Reading
      BY <3>2, SingleStep DEF Reading
    <3>10. ReadOk'
      BY <3>2, <3>4, <3>5, <3>7, <3>8, <3>9 DEF ReadOk
    <3>. QED BY <2>1, <3>10 DEF Sound
  <2>. QED BY <2>1, <2>2, <2>3, <2>4, OpenEnds
<1>9. CASE ReadIn
  <2>1. phase = "read" /\ todo = <<>> /\ UNCHANGED cuts
    BY <1>9 DEF ReadIn, Returns, Idle
  <2>2. ReadOk
    BY <2>1, IdleSound
  <2>3. rc = stored /\ stored \in Contents /\ Shut /\ Flat({}, {}) /\ Stable(stored)
    BY <2>1, <2>2, NilListed, ConsFacts DEF ReadOk, Reading
  <2>4. phase' = "up" /\ NoCallNow /\ stored' = rc
    BY <1>9, <2>3 DEF ReadIn
  <2>5. rc # "failed"
    BY <2>3, CommandsApart
  <2>6. PICK v : v = stored
    OBVIOUS
  <2>7. UpOk'
    BY <2>1, <2>3, <2>4, <2>5, <2>6, UpAgain
  <2>. QED BY <2>1, <2>7 DEF Sound
<1>10. CASE FileOpened
  <2>1. phase \in {"defaults", "save"} /\ todo = <<>> /\ UNCHANGED <<config, cuts>>
    BY <1>10 DEF FileOpened, Returns, Idle
  <2>2. OpenOk
    BY <2>1, IdleSound
  <2>3. OpensIn /\ FileOpen
    BY <2>1, <2>2, OpenEnds
  <2>4. rc = "ok" /\ config \in Contents /\ Flat({}, {})
    BY <2>1, <2>3 DEF OpensIn, FileOpen
  <2>5. PICK next \in {"writing", "saving"} : Calls("flush", config, <<Do("flush")>>, next)
    BY <1>10, <2>4 DEF FileOpened
  <2>6. /\ call'.name = "flush" /\ call'.value = config /\ call'.fd = call.fd
        /\ rc' = "ok" /\ todo' = <<Do("flush")>> /\ phase' = next
        /\ UNCHANGED <<flash, fs, fds, work, dst>>
    BY <1>1, <2>5, CallBegins
  <2>7. UNCHANGED <<lu, page, magic>>
    BY <2>6 DEF flash
  <2>8. Flat({}, {})' /\ Live' = Live
    BY <2>4, <2>6, SameFlash
  <2>9. PICK h \in Objects, n \in Ids, s \in {ONES, LEN} : Keeps(h, n, s) /\ Using(h, n, s)
    BY <2>3 DEF FileOpen
  <2>10. Using(h, n, s)'
    BY <2>6, <2>9 DEF Using, Sole, Fd
  <2>11. Keeps(h, n, s)'
    BY <2>7, <2>8, <2>9 DEF Keeps, Whole, Holding
  <2>12. todo' = Cons(Do("flush"), <<>>)
    BY <2>6, SingleStep
  <2>13. Flushes'
    BY <2>1, <2>4, <2>6 DEF Flushes
  <2>14. AtFlush'
    BY <2>8, <2>10, <2>11, <2>12, <2>13 DEF AtFlush
  <2>. QED BY <2>1, <2>14 DEF Sound, Engaged
<1>11. CASE Written
  <2>1. phase \in {"writing", "saving"} /\ todo = <<>> /\ phase' = "up" /\ NoCallNow /\ Stored(config)
        /\ UNCHANGED cuts
    BY <1>11 DEF Written, Ended, Returns, Idle
  <2>2. Flushed
    BY <2>1, IdleSound
  <2>3. rc = "ok" /\ Flat({}, {}) /\ Shut /\ Stable(config)
    BY <2>2 DEF Flushed, Flushes
  <2>4. PICK v : v = config
    OBVIOUS
  <2>5. Stable(v) /\ stored' = v
    BY <2>1, <2>3, <2>4 DEF Stored
  <2>6. UpOk'
    BY <2>1, <2>3, <2>5, UpAgain
  <2>. QED BY <2>1, <2>6 DEF Sound
<1>12. CASE Removed
  <2>1. phase = "remove" /\ todo = <<>> /\ phase' = "up" /\ NoCallNow /\ Stored(NoFile) /\ UNCHANGED cuts
    BY <1>12 DEF Removed, Returns, Idle
  <2>2. RemoveOk
    BY <2>1, IdleSound
  <2>3. call.name = "remove" /\ Flat({}, {}) /\ Shut /\ Live = {} /\ (rc = "ok" \/ stored = NoFile)
    BY <2>1, <2>2, RemoveEnds
  <2>4. Stable(NoFile) /\ stored' = NoFile
    BY <2>1, <2>3 DEF Stable, Stored
  <2>5. UpOk'
    BY <2>1, <2>3, <2>4, UpAgain
  <2>. QED BY <2>1, <2>5 DEF Sound
<1>. QED BY <1>2, <1>3, <1>5, <1>6, <1>7, <1>8, <1>9, <1>10, <1>11, <1>12 DEF Continue

-----------------------------------------------------------------------------
(* A command, or a reset between two calls. *)

LEMMA MagicKept == ASSUME UNCHANGED <<magic, stored>>, MagicOk PROVE MagicOk'
  BY DEF MagicOk

LEMMA UpIsDry == ASSUME UpOk, FileInv PROVE Dry /\ magic = Bixes /\ Shut /\ Stable(stored) /\ Flat({}, {})
<1>1. magic \subseteq Bixes
  BY DEF FileInv, Typed, FlashTyped
<1>. QED BY <1>1 DEF UpOk, Flat, Space, Dry

LEMMA CommandSound == ASSUME Sound, Command, FileInv PROVE Sound' /\ UNCHANGED cuts
<1>1. Typed
  BY DEF FileInv
<1>2. phase = "up" /\ todo = <<>>
  BY DEF Command, CmdSave, CmdRemove, CmdFormat, Commanded, Returns, Idle
<1>3. Shut /\ Stable(stored) /\ Flat({}, {})
  BY <1>2, IdleSound, UpIsDry
<1>4. ASSUME NEW value \in Contents, CmdSave(value) PROVE Sound' /\ UNCHANGED cuts
  <2>1. Calls("open", value, Opening(TRUE), "save") /\ config' \in Contents /\ UNCHANGED <<stored, cuts>>
    BY <1>4 DEF CmdSave, Writes
  <2>2. OpenOk'
    BY <1>1, <1>3, <2>1, OpenBegins
  <2>. QED BY <2>1, <2>2 DEF Sound
<1>5. CASE CmdRemove
  <2>1. Calls("remove", Erased, <<Do("remove")>>, "remove") /\ UNCHANGED <<stored, cuts>>
    BY <1>5 DEF CmdRemove
  <2>2. /\ call'.name = "remove" /\ rc' = "ok" /\ todo' = <<Do("remove")>> /\ phase' = "remove"
        /\ UNCHANGED <<flash, fs, fds>>
    BY <1>1, <2>1, CallBegins
  <2>3. Shut' /\ Flat({}, {})'
    BY <1>3, <2>2, StillShut, SameFlash
  <2>4. Stable(stored)'
    <3>1. PICK v : v = stored
      OBVIOUS
    <3>. QED BY <1>3, <2>1, <2>2, <3>1, StoredStable DEF flash
  <2>5. todo' = Removing
    BY <2>2, SingleStep DEF Removing
  <2>6. RemoveOk'
    BY <2>2, <2>3, <2>4, <2>5 DEF RemoveOk
  <2>. QED BY <2>1, <2>6 DEF Sound
<1>6. CASE CmdFormat
  <2>1. /\ Begins("format", Erased, Formatting) /\ phase' = "cmd_format"
        /\ fds' = [f \in Fds |-> [fds[f] EXCEPT !.open = FALSE]] /\ UNCHANGED cuts
    BY <1>6 DEF CmdFormat
  <2>2. todo' = Formatting /\ rc' = "ok" /\ call'.name = "format"
    <3>1. PICK r \in CallType : r = call
      BY <1>1 DEF Typed
    <3>2. call' = [r EXCEPT !.name = "format", !.value = Erased] /\ todo' = Formatting /\ rc' = "ok"
      BY <2>1, <3>1 DEF Begins
    <3>. QED BY <3>2 DEF CallType
  <2>3. Shut'
    <3>1. ASSUME NEW f \in Fds PROVE ~fds'[f].open
      <4>1. PICK r \in FdType : r = fds[f]
        BY <1>1 DEF Typed
      <4>2. fds'[f] = [r EXCEPT !.open = FALSE]
        BY <2>1, <4>1
      <4>. QED BY <4>2 DEF FdType
    <3>. QED BY <3>1 DEF Shut
  <2>4. FormatOk'
    BY <2>1, <2>2, <2>3, FormatBegins
  <2>. QED BY <2>1, <2>4 DEF Sound
<1>. QED BY <1>4, <1>5, <1>6 DEF Command

LEMMA ResetSound == ASSUME Sound, Reset, FileInv PROVE Sound' /\ UNCHANGED cuts
<1>1. phase = "up" /\ todo = <<>> /\ Off /\ UNCHANGED cuts
  BY DEF Reset, Commanded, Returns, Idle
<1>2. Stable(stored) /\ Dry /\ magic = Bixes
  BY <1>1, IdleSound, UpIsDry
<1>3. /\ phase' = "off" /\ todo' = <<>> /\ rc' = "ok" /\ fds' = FreshFds
      /\ UNCHANGED <<lu, page, magic, stored>>
  BY <1>1 DEF Off, flash
<1>4. Shut'
  BY <1>3, FreshFdsShut DEF Shut
<1>5. Stable(stored)'
  <2>1. PICK v : v = stored
    OBVIOUS
  <2>. QED BY <1>2, <1>3, <2>1, StoredStable
<1>6. Dry' /\ MagicOk'
  BY <1>2, <1>3, DryKept DEF MagicOk
<1>. QED BY <1>1, <1>3, <1>4, <1>5, <1>6 DEF Sound, OffOk

-----------------------------------------------------------------------------
(* Nothing of it depends on anything but the state: a step that changes no   *)
(* variable keeps it.                                                        *)

Stutter ==
  UNCHANGED <<lu, page, magic, count, fs, fds, work, dst, todo, call, rc, phase, config, stored, cuts>>

LEMMA StutterPages ==
  ASSUME Stutter
  PROVE  /\ Live' = Live /\ Fd' = Fd
         /\ \A X, M : Flat(X, M) => Flat(X, M)'
         /\ Near => Near'
         /\ Found => Found'
         /\ \A p : Above(p) => Above(p)'
         /\ \A b : InBlock(b)' <=> InBlock(b)
<1>1. /\ UNCHANGED <<lu, page, magic, fs, fds, dst, call>> /\ SameCursor /\ SameCounters
  BY SameFields DEF Stutter
<1>2. Live' = Live /\ Gone' = Gone /\ Top' = Top /\ \A b : InBlock(b)' <=> InBlock(b)
  BY <1>1, SameLive, SameTop
<1>3. \A X, M : Flat(X, M) => Flat(X, M)'
  BY <1>1, FlatKept
<1>4. Fd' = Fd
  BY <1>1 DEF Fd
<1>5. Near => Near'
  BY <1>1, <1>2 DEF Near
<1>6. Found => Found'
  <2>1. Fresh => Fresh'
    BY <1>1, <1>2 DEF Fresh
  <2>2. Counting({}) => Counting({})'
    BY <1>1, <1>2 DEF Counting
  <2>3. Space({dst}) => Space({dst})'
    BY <1>1, <1>2 DEF Space, Clean, Suffix, Lowest, OnFree, IsFirst, SameBlock
  <2>. QED BY <1>1, <1>5, <2>1, <2>2, <2>3 DEF Found
<1>7. \A p : Above(p) => Above(p)'
  BY <1>1 DEF Above, SameBlock
<1>. QED BY <1>2, <1>3, <1>4, <1>5, <1>6, <1>7

LEMMA StutterLists ==
  ASSUME Stutter
  PROVE  /\ \A b, u : Clearing(b, u) => Clearing(b, u)'
         /\ \A t : Seeking(t) => Seeking(t)'
         /\ \A O, t : Sought(O, t) => Sought(O, t)'
         /\ \A O, g, t : Ready(O, g, t) => Ready(O, g, t)'
         /\ \A O, id, g, t : Laid(O, id, g, t) => Laid(O, id, g, t)'
         /\ \A src, O, img, end, id, w, u : Shifting(src, O, img, end, id, w, u) => Shifting(src, O, img, end, id, w, u)'
         /\ \A src, O, end, id, u : Shifted(src, O, end, id, u) => Shifted(src, O, end, id, u)'
<1>1. UNCHANGED <<lu, page, todo, dst>>
  BY DEF Stutter
<1>2. \A b, u : Clearing(b, u) => Clearing(b, u)'
  BY <1>1, StutterPages DEF Clearing
<1>3. \A t : Seeking(t) => Seeking(t)'
  BY <1>1, <1>2, StutterPages DEF Seeking
<1>4. \A O, t : Sought(O, t) => Sought(O, t)'
  BY <1>3, StutterPages DEF Sought
<1>5. \A O, g, t : Ready(O, g, t) => Ready(O, g, t)'
  BY <1>1, StutterPages DEF Ready
<1>6. \A O, id, g, t : Laid(O, id, g, t) => Laid(O, id, g, t)'
  BY <1>1, StutterPages DEF Laid
<1>7. \A src, O, end, id, u : Shifted(src, O, end, id, u) => Shifted(src, O, end, id, u)'
  BY <1>6, StutterPages DEF Shifted
<1>8. \A src, O, img, end, id, w, u : Shifting(src, O, img, end, id, w, u) => Shifting(src, O, img, end, id, w, u)'
  BY <1>1, <1>4, <1>5, <1>6, StutterPages DEF Shifting
<1>. QED BY <1>2, <1>3, <1>4, <1>5, <1>6, <1>7, <1>8

LEMMA StutterFile ==
  ASSUME Stutter
  PROVE  /\ Shut => Shut'
         /\ Sole => Sole'
         /\ Creates => Creates'
         /\ Flushes => Flushes'
         /\ \A h, n, s : Using(h, n, s) => Using(h, n, s)'
         /\ \A d, n, c : Holding(d, n, c) => Holding(d, n, c)'
         /\ \A h, d, n, c : Whole(h, d, n, c) => Whole(h, d, n, c)'
         /\ \A v, w : Stable(v) /\ v = w => Stable(w)'
         /\ \A O, n, g, t : Carried(O, n, g, t) => Carried(O, n, g, t)'
         /\ \A t : Goal(t) => Goal(t)'
         /\ \A h, n, s : Keeps(h, n, s) => Keeps(h, n, s)'
         /\ \A h, n, s : Knows(h, n, s) => Knows(h, n, s)'
         /\ \A u, d, c : Resumes(u, d, c) => Resumes(u, d, c)'
<1>1. UNCHANGED <<lu, page, fds, call, rc, phase, config>> /\ Live' = Live /\ Fd' = Fd
  BY StutterPages DEF Stutter
<1>2. Shut => Shut'
  BY <1>1 DEF Shut
<1>3. Sole => Sole'
  BY <1>1 DEF Sole
<1>4. Creates => Creates'
  BY <1>1, <1>3 DEF Creates
<1>5. Flushes => Flushes'
  BY <1>1 DEF Flushes
<1>6. \A h, n, s : Using(h, n, s) => Using(h, n, s)'
  BY <1>1, <1>3 DEF Using
<1>7. \A d, n, c : Holding(d, n, c) => Holding(d, n, c)'
  BY <1>1 DEF Holding
<1>8. \A h, d, n, c : Whole(h, d, n, c) => Whole(h, d, n, c)'
  BY <1>1, <1>7 DEF Whole
<1>9. \A v, w : Stable(v) /\ v = w => Stable(w)'
  BY <1>1, <1>8 DEF Stable
<1>10. \A O, n, g, t : Carried(O, n, g, t) => Carried(O, n, g, t)'
  BY <1>1, <1>7 DEF Carried
<1>11. \A h, O, n, g, t : Filed(h, O, n, g, t) => Filed(h, O, n, g, t)'
  BY <1>1, <1>5, <1>6, <1>10 DEF Filed
<1>12. \A t : Goal(t) => Goal(t)'
  BY <1>1, <1>4, <1>11 DEF Goal
<1>13. \A h, n, s : Keeps(h, n, s) => Keeps(h, n, s)'
  BY <1>1, <1>8 DEF Keeps
<1>14. \A h, n, s : Knows(h, n, s) => Knows(h, n, s)'
  BY <1>1, <1>3 DEF Knows
<1>15. \A u, d, c : Resumes(u, d, c) => Resumes(u, d, c)'
  BY <1>1 DEF Resumes
<1>. QED BY <1>2, <1>3, <1>4, <1>5, <1>6, <1>7, <1>8, <1>9, <1>10, <1>12, <1>13, <1>14, <1>15

LEMMA StutterBusy == ASSUME Stutter, Busy PROVE Busy'
<1>1. UNCHANGED <<lu, page, todo, work, config>> /\ Live' = Live
  BY StutterPages DEF Stutter
<1>2. \A t : Counts(t) => Counts(t)'
  BY <1>1, StutterPages DEF Counts
<1>3. \A b : Out(b) => Out(b)'
  BY <1>1, StutterPages DEF Out
<1>4. \A b, k, t : Looks(b, k, t) => Looks(b, k, t)'
  BY <1>1, <1>3, StutterPages DEF Looks, LooksFrom
<1>5. \A b, k, t : Indexes(b, k, t) => Indexes(b, k, t)'
  BY <1>1, <1>3, StutterPages DEF Indexes, IndexesFrom
<1>6. \A b, k, t : Leaves(b, k, t) => Leaves(b, k, t)'
  BY <1>1, StutterPages DEF Leaves
<1>7. \A b, k, t : Cleaned(b, k, t) => Cleaned(b, k, t)'
  BY <1>4, <1>5, <1>6, StutterLists DEF Cleaned
<1>8. \A t : Collecting(t) => Collecting(t)'
  BY <1>2, <1>7, StutterFile DEF Collecting, Collects
<1>9. \A t : Due(t) => Due(t)'
  BY <1>1, StutterPages, StutterFile DEF Due
<1>10. \A b, k, t : MovesIndex(b, k, t) => MovesIndex(b, k, t)'
  BY StutterLists, StutterFile DEF MovesIndex
<1>11. \A b, k : Gathers(b, k) => Gathers(b, k)'
  <2>1. \A h, n, d, c, b, from, back, k : AtData(h, n, d, c, b, from, back, k) => AtData(h, n, d, c, b, from, back, k)'
    BY <1>1, <1>3, StutterPages, StutterFile DEF AtData
  <2>2. \A h, n, d, c, b, r, back, k : OnData(h, n, d, c, b, r, back, k) => OnData(h, n, d, c, b, r, back, k)'
    BY <1>1, StutterLists DEF OnData
  <2>. QED BY <1>1, <2>1, <2>2, StutterFile DEF Gathers
<1>12. \A u : Stores(u) => Stores(u)'
  <2>1. \A h, n, d, u : ToStore(h, n, d, u) => ToStore(h, n, d, u)'
    BY <1>1, StutterPages DEF ToStore
  <2>2. \A h, n, d, u : OnHeader(h, n, d, u) => OnHeader(h, n, d, u)'
    BY <1>1, StutterLists DEF OnHeader
  <2>. QED BY <2>1, <2>2, StutterFile DEF Stores
<1>13. Closes => Closes'
  BY <1>1, StutterPages, StutterFile DEF Closes
<1>. QED BY <1>8, <1>9, <1>10, <1>11, <1>12, <1>13 DEF Busy, Moved, Gathered, Restored

LEMMA StutterEngaged == ASSUME Stutter, Engaged PROVE Engaged'
<1>1. UNCHANGED <<lu, page, todo, work, dst, config>>
  BY DEF Stutter
<1>2. Makes => Makes'
  <2>1. \A n : Making(n) => Making(n)'
    BY StutterLists DEF Making
  <2>. QED BY <2>1, StutterFile DEF Makes
<1>3. Adds => Adds'
  <2>1. \A h, n, c : Adding(h, n, c) => Adding(h, n, c)'
    BY <1>1, StutterLists DEF Adding
  <2>. QED BY <1>1, <2>1, StutterFile DEF Adds
<1>4. Alters => Alters'
  <2>1. \A n, h, d, c : Altering(n, h, d, c) => Altering(n, h, d, c)'
    BY <1>1, StutterLists DEF Altering
  <2>. QED BY <1>1, <2>1, StutterFile DEF Alters
<1>5. AtFlush => AtFlush'
  BY <1>1, StutterPages, StutterFile DEF AtFlush
<1>. QED BY <1>2, <1>3, <1>4, <1>5, StutterBusy DEF Engaged

LEMMA StutterSound == ASSUME Stutter, Sound PROVE Sound'
<1>1. UNCHANGED <<lu, page, magic, fs, fds, todo, call, rc, phase, config, stored>> /\ Live' = Live
  BY StutterPages DEF Stutter
<1>2. Stable(stored) => Stable(stored)'
  <2>1. PICK v : v = stored
    OBVIOUS
  <2>. QED BY <1>1, <2>1, StoredStable
<1>3. Stable(config) => Stable(config)'
  <2>1. PICK v : v = config
    OBVIOUS
  <2>2. Stable(v) => Stable(v)'
    BY StutterFile
  <2>. QED BY <1>1, <2>1, <2>2 DEF Stable
<1>4. /\ Flat({}, {}) => Flat({}, {})'
      /\ Shut => Shut'
      /\ Sole => Sole'
      /\ Dry => Dry'
      /\ MagicOk => MagicOk'
  BY <1>1, StutterPages, StutterFile, DryKept, MagicKept
<1>5. OffOk => OffOk'
  BY <1>1, <1>2, <1>4 DEF OffOk
<1>6. UpOk => UpOk'
  BY <1>1, <1>2, <1>4 DEF UpOk
<1>7. MountOk => MountOk'
  BY <1>1, <1>2, <1>4 DEF MountOk, Mounts
<1>8. FormatOk => FormatOk'
  <2>1. \A k : (Blank(k) => Blank(k)') /\ (Marked(k) => Marked(k)')
    BY <1>1 DEF Blank, Marked
  <2>. QED BY <1>1, <1>4, <2>1 DEF FormatOk
<1>9. FileOpen => FileOpen'
  BY <1>1, <1>4, StutterFile DEF FileOpen
<1>10. OpensFile => OpensFile'
  <2>1. Fd' = Fd
    BY StutterPages
  <2>. QED BY <1>1, <1>4, <2>1, StutterFile DEF OpensFile
<1>11. OpenOk => OpenOk'
  BY <1>1, <1>2, <1>4, <1>9, <1>10 DEF OpenOk, OpensIn
<1>12. ReadOk => ReadOk'
  BY <1>1, <1>2, <1>4, StutterFile DEF ReadOk
<1>13. RemoveOk => RemoveOk'
  <2>1. \A h, d, n, c : Removes(h, d, n, c) => Removes(h, d, n, c)'
    BY <1>1, StutterFile DEF Removes
  <2>. QED BY <1>1, <1>2, <1>4, <2>1 DEF RemoveOk
<1>14. Flushed => Flushed'
  BY <1>1, <1>3, <1>4, StutterFile DEF Flushed
<1>. QED BY <1>5, <1>6, <1>7, <1>8, <1>11, <1>12, <1>13, <1>14, StutterEngaged DEF Sound

LEMMA StartSound == Init => SoundInv
<1>. SUFFICES ASSUME Init PROVE SoundInv
  OBVIOUS
<1>1. /\ lu = [p \in Objects |-> FREE] /\ page = [p \in Objects |-> ErasedPage] /\ magic = {}
      /\ fds = FreshFds /\ todo = <<>> /\ rc = "ok" /\ phase = "off" /\ stored = NoFile /\ cuts = 0
  BY DEF Init, FlashInit
<1>2. Live = {}
  BY <1>1 DEF Live, InUse
<1>3. Dry
  BY <1>1 DEF Dry, Clean, Suffix
<1>4. Shut
  BY <1>1, FreshFdsShut DEF Shut
<1>5. OffOk
  BY <1>1, <1>2, <1>3, <1>4 DEF OffOk, Stable, MagicOk
<1>. QED BY <1>1, <1>5, StartTyped DEF SoundInv, Kempt, Sound

(* Every step keeps the invariant, as long as the steps that need room       *)
(* find it.                                                                  *)
LEMMA NextSound == SoundInv /\ HasRoom /\ [Next]_vars => SoundInv'
<1>. SUFFICES ASSUME SoundInv, HasRoom, [Next]_vars PROVE SoundInv'
  OBVIOUS
<1>1. FileInv' /\ FileInv /\ cuts \in Nat /\ Kempt
  BY NextTyped DEF SoundInv
<1>2. CASE Working
  <2>1. UNCHANGED cuts
    BY <1>2 DEF Working, nodeVars
  <2>2. CASE cuts = 0
    BY <1>1, <1>2, <2>1, <2>2, WorkingSound DEF SoundInv, Kempt, HasRoom
  <2>. QED BY <1>1, <2>1, <2>2 DEF SoundInv, Kempt
<1>3. CASE Continue
  <2>1. UNCHANGED cuts
    BY <1>3 DEF Continue, Boot, Mounted, Formatted, Remounted, Opened, ReadIn, FileOpened, Written,
       Removed, CmdFormatted, CmdMounted
  <2>2. CASE cuts = 0
    BY <1>1, <1>3, <2>1, <2>2, ContinueSound DEF SoundInv, Kempt
  <2>. QED BY <1>1, <2>1, <2>2 DEF SoundInv, Kempt
<1>4. CASE Command
  <2>1. UNCHANGED cuts
    BY <1>4 DEF Command, CmdSave, CmdRemove, CmdFormat
  <2>2. CASE cuts = 0
    BY <1>1, <1>4, <2>1, <2>2, CommandSound DEF SoundInv, Kempt
  <2>. QED BY <1>1, <2>1, <2>2 DEF SoundInv, Kempt
<1>5. CASE Reset
  <2>1. UNCHANGED cuts
    BY <1>5 DEF Reset
  <2>2. CASE cuts = 0
    BY <1>1, <1>5, <2>1, <2>2, ResetSound DEF SoundInv, Kempt
  <2>. QED BY <1>1, <2>1, <2>2 DEF SoundInv, Kempt
<1>6. CASE Cut
  BY <1>1, <1>6 DEF Cut, SoundInv, Kempt
<1>7. CASE UNCHANGED vars
  <2>1. Stutter
    BY <1>7 DEF vars, flash, spiffsVars, nodeVars, Stutter
  <2>2. cuts' = cuts
    BY <2>1 DEF Stutter
  <2>. QED BY <1>1, <2>1, <2>2, StutterSound DEF SoundInv, Kempt
<1>. QED BY <1>2, <1>3, <1>4, <1>5, <1>6, <1>7 DEF Next

(* Between two commands the node is up, the file closed and stable.          *)
LEMMA SoundAtRest ==
  ASSUME SoundInv, AtRest, cuts = 0
  PROVE  UpOk /\ Typed
<1>1. phase = "up" /\ todo = <<>>
  BY DEF AtRest, Returns, Idle
<1>. QED BY <1>1, IdleSound DEF SoundInv, Kempt, FileInv

(* On a node whose power never failed inside a call, and whose garbage       *)
(* collector always finds room, config.dat holds between two commands        *)
(* exactly what was saved last, and no save has failed: spiffs_page_move,    *)
(* the descriptors that follow it, and the order of write, link, finalize    *)
(* and delete in spiffs_object_modify lose nothing.                          *)
THEOREM NothingIsLost == Spec /\ []HasRoom => []NothingLost
<1>1. SoundInv => NothingLost
  <2>. SUFFICES ASSUME SoundInv, AtRest, cuts = 0 PROVE FileNow = stored /\ (call.name # "remove" => rc # "failed")
    BY DEF NothingLost
  <2>1. UpOk /\ Typed
    BY SoundAtRest
  <2>2. PICK v : v = stored
    OBVIOUS
  <2>3. FileNow = v
    BY <2>1, <2>2, StableIsFound DEF UpOk
  <2>. QED BY <2>1, <2>2, <2>3 DEF UpOk
<1>. QED BY <1>1, StartSound, NextSound, PTL DEF Spec

(* On such a node no descriptor is left open between two commands: every     *)
(* path of SPIFFS_open, SPIFFS_read and the final close gives its            *)
(* descriptor back (spiffs_fd_return).                                       *)
THEOREM NoneIsLeaked == Spec /\ []HasRoom => []NoneLeaked
<1>1. SoundInv => NoneLeaked
  BY SoundAtRest DEF NoneLeaked, UpOk, Shut
<1>. QED BY <1>1, StartSound, NextSound, PTL DEF Spec

(* On such a node the flash holds between two commands exactly the two       *)
(* pages of the file, or none, and stats_p_allocated and stats_p_deleted,    *)
(* adjusted by every page written, deleted and erased, agree with the        *)
(* lookup.                                                                   *)
THEOREM PagesAreAccounted == Spec /\ []HasRoom => []Accounted
<1>1. SoundInv => Accounted
  <2>. SUFFICES ASSUME SoundInv, AtRest, cuts = 0
       PROVE  /\ Cardinality(Live) = IF stored = NoFile THEN 0 ELSE 2
              /\ fs.allocated = Cardinality(Live) /\ fs.deleted = Cardinality(WithId(DELETED))
    BY DEF Accounted
  <2>1. UpOk /\ Typed
    BY SoundAtRest
  <2>2. PICK v : v = stored
    OBVIOUS
  <2>3. Cardinality(Live) = IF v = NoFile THEN 0 ELSE 2
    BY <2>1, <2>2, StableIsFound DEF UpOk
  <2>4. Live \ {} = Live /\ Gone \ {} = Gone
    OBVIOUS
  <2>5. Counting({})
    BY <2>1 DEF UpOk, Flat
  <2>. QED BY <2>2, <2>3, <2>4, <2>5 DEF Counting, Gone
<1>. QED BY <1>1, StartSound, NextSound, PTL DEF Spec
=============================================================================
