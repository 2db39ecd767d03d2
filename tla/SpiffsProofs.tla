----------------------------- MODULE SpiffsProofs -----------------------------
(***************************************************************************)
(* Two theorems about the file system of the configuration, for any number *)
(* of blocks, entries, commands and power failures. A flash that can be    *)
(* mounted can be mounted ever after: this is about the order of the       *)
(* writes and does not use PagesAreWords. And the state is typed: this     *)
(* needs the shape of every list of calls still to be made, and the count  *)
(* of the blocks that are really free beside free_blocks. The last         *)
(* sections say what each step makes of the free pages, the counters and   *)
(* the pages in use; the proofs about the file (FileProofs) rest on them.  *)
(***************************************************************************)
EXTENDS FileStates, FiniteSetTheorems, SequenceTheorems, WellFoundedInduction, TLAPS

-----------------------------------------------------------------------------
(* Lists of steps. *)

(* A step that does not belong to the erasure of a block, nor leads to one   *)
(* when no page is found.                                                    *)
Plain(x) ==
  /\ x.do \notin {"erase", "count"}
  /\ x.do \in {"find_free", "take_free"} => x.full \in {<<>>, <<Indexing(0)>>}

(* An erase is followed by the count and the magic of its block.             *)
InTurn(s, i) ==
  /\ s[i].do = "erase" => i < Len(s) /\ s[i + 1].do = "count" /\ s[i + 1].b = s[i].b
  /\ s[i].do = "count" => i < Len(s) /\ s[i + 1].do = "magic" /\ s[i + 1].b = s[i].b
  /\ s[i].do \in {"find_free", "take_free"} => s[i].full \in {<<>>, <<Indexing(0)>>}
Paired(s) == \A i \in 1..Len(s) : InTurn(s, i)
List(s) == (\E S : s \in Seq(S)) /\ Paired(s)

LEMMA EmptyList == List(<<>>)
<1>1. <<>> \in Seq({})
  OBVIOUS
<1>. QED BY <1>1 DEF List, Paired

LEMMA JoinedList ==
  ASSUME NEW s, NEW t, List(s), List(t)
  PROVE  List(s \o t)
<1>1. PICK S : s \in Seq(S)
  BY DEF List
<1>2. PICK T : t \in Seq(T)
  BY DEF List
<1>3. s \in Seq(S \cup T) /\ t \in Seq(S \cup T)
  BY <1>1, <1>2
<1>. DEFINE st == s \o t
<1>4. st \in Seq(S \cup T) /\ Len(st) = Len(s) + Len(t)
  BY <1>3
<1>5. \A i \in 1..Len(s) : st[i] = s[i]
  BY <1>3
<1>6. \A i \in (Len(s) + 1)..(Len(s) + Len(t)) : st[i] = t[i - Len(s)]
  BY <1>3
<1>7. Len(s) \in Nat /\ Len(t) \in Nat
  BY <1>1, <1>2
<1>8. Paired(s) /\ Paired(t)
  BY DEF List
<1>. HIDE DEF st
<1>9. Paired(st)
  <2>. SUFFICES ASSUME NEW i \in 1..(Len(s) + Len(t))
       PROVE  InTurn(st, i)
    BY <1>4 DEF Paired
  <2>1. CASE i \in 1..Len(s)
    <3>1. InTurn(s, i) /\ st[i] = s[i]
      BY <2>1, <1>5, <1>8 DEF Paired
    <3>2. i < Len(s) => st[i + 1] = s[i + 1] /\ i < Len(st)
      BY <2>1, <1>4, <1>5, <1>7
    <3>. QED BY <3>1, <3>2 DEF InTurn
  <2>2. CASE i \in (Len(s) + 1)..(Len(s) + Len(t))
    <3>. DEFINE j == i - Len(s)
    <3>1. j \in 1..Len(t) /\ st[i] = t[j]
      BY <2>2, <1>6, <1>7
    <3>2. j < Len(t) => st[i + 1] = t[j + 1] /\ i < Len(st)
      BY <2>2, <1>4, <1>6, <1>7
    <3>. HIDE DEF j
    <3>3. InTurn(t, j)
      BY <3>1, <1>8 DEF Paired
    <3>. QED BY <3>1, <3>2, <3>3 DEF InTurn
  <2>. QED BY <2>1, <2>2, <1>7
<1>. QED BY <1>4, <1>9 DEF List, st

LEMMA TailList ==
  ASSUME NEW s, List(s), s # <<>>
  PROVE  /\ List(Tail(s))
         /\ Len(Tail(s)) = Len(s) - 1 /\ Len(s) \in Nat /\ Len(s) >= 1
         /\ \A i \in 1..(Len(s) - 1) : Tail(s)[i] = s[i + 1]
         /\ Head(s) = s[1]
<1>1. PICK S : s \in Seq(S)
  BY DEF List
<1>2. Tail(s) \in Seq(S) /\ Len(Tail(s)) = Len(s) - 1 /\ Len(s) \in Nat /\ Len(s) >= 1
  BY <1>1
<1>3. \A i \in 1..(Len(s) - 1) : Tail(s)[i] = s[i + 1]
  BY <1>1
<1>4. Head(s) = s[1]
  BY <1>1
<1>5. Paired(Tail(s))
  <2>. DEFINE t == Tail(s)
  <2>1. \A i \in 1..Len(t) : t[i] = s[i + 1] /\ i + 1 \in 1..Len(s) /\ i \in Nat
    BY <1>2, <1>3
  <2>2. \A i \in 1..Len(t) : i + 1 < Len(s) => i + 1 \in 1..Len(t) /\ i < Len(t)
    BY <1>2
  <2>3. Paired(s)
    BY DEF List
  <2>. HIDE DEF t
  <2>. SUFFICES ASSUME NEW i \in 1..Len(t) PROVE InTurn(t, i)
    BY DEF Paired, t
  <2>4. InTurn(s, i + 1) /\ t[i] = s[i + 1]
    BY <2>1, <2>3 DEF Paired
  <2>5. i + 1 < Len(s) => t[i + 1] = s[(i + 1) + 1] /\ i < Len(t)
    BY <2>1, <2>2
  <2>. QED BY <2>4, <2>5 DEF InTurn
<1>. QED BY <1>2, <1>3, <1>4, <1>5 DEF List

LEMMA PlainList ==
  ASSUME NEW S, NEW s \in Seq(S), \A i \in 1..Len(s) : Plain(s[i])
  PROVE  List(s)
<1>1. \A i \in 1..Len(s) : InTurn(s, i)
  BY DEF Plain, InTurn
<1>. QED BY <1>1 DEF List, Paired

LEMMA OneStep ==
  ASSUME NEW u, Plain(u)
  PROVE  List(<<u>>)
<1>. DEFINE s == <<u>>
<1>1. s \in Seq({u}) /\ Len(s) = 1 /\ s[1] = u
  OBVIOUS
<1>. HIDE DEF s
<1>2. \A i \in 1..Len(s) : Plain(s[i])
  BY <1>1
<1>. QED BY <1>1, <1>2, PlainList DEF s

LEMMA TwoSteps ==
  ASSUME NEW u, Plain(u), NEW v, Plain(v)
  PROVE  List(<<u, v>>)
<1>. DEFINE s == <<u, v>>
<1>1. s \in Seq({u, v}) /\ Len(s) = 2 /\ s[1] = u /\ s[2] = v
  OBVIOUS
<1>. HIDE DEF s
<1>2. \A i \in 1..Len(s) : Plain(s[i])
  BY <1>1
<1>. QED BY <1>1, <1>2, PlainList DEF s

LEMMA ThreeSteps ==
  ASSUME NEW u, Plain(u), NEW v, Plain(v), NEW w, Plain(w)
  PROVE  List(<<u, v, w>>)
<1>. DEFINE s == <<u, v, w>>
<1>1. s \in Seq({u, v, w}) /\ Len(s) = 3 /\ s[1] = u /\ s[2] = v /\ s[3] = w
  OBVIOUS
<1>. HIDE DEF s
<1>2. \A i \in 1..Len(s) : Plain(s[i])
  BY <1>1
<1>. QED BY <1>1, <1>2, PlainList DEF s

LEMMA FourSteps ==
  ASSUME NEW u, Plain(u), NEW v, Plain(v), NEW w, Plain(w), NEW x, Plain(x)
  PROVE  List(<<u, v, w, x>>)
<1>. DEFINE s == <<u, v, w, x>>
<1>1. /\ s \in Seq({u, v, w, x}) /\ Len(s) = 4
      /\ s[1] = u /\ s[2] = v /\ s[3] = w /\ s[4] = x
  OBVIOUS
<1>. HIDE DEF s
<1>2. \A i \in 1..Len(s) : Plain(s[i])
  BY <1>1
<1>. QED BY <1>1, <1>2, PlainList DEF s

LEMMA FiveSteps ==
  ASSUME NEW u, Plain(u), NEW v, Plain(v), NEW w, Plain(w), NEW x, Plain(x), NEW y, Plain(y)
  PROVE  List(<<u, v, w, x, y>>)
<1>. DEFINE s == <<u, v, w, x, y>>
<1>1. /\ s \in Seq({u, v, w, x, y}) /\ Len(s) = 5
      /\ s[1] = u /\ s[2] = v /\ s[3] = w /\ s[4] = x /\ s[5] = y
  OBVIOUS
<1>. HIDE DEF s
<1>2. \A i \in 1..Len(s) : Plain(s[i])
  BY <1>1
<1>. QED BY <1>1, <1>2, PlainList DEF s

LEMMA SevenSteps ==
  ASSUME NEW u, Plain(u), NEW v, Plain(v), NEW w, Plain(w), NEW x, Plain(x), NEW y, Plain(y),
         NEW z, Plain(z), NEW a, Plain(a)
  PROVE  List(<<u, v, w, x, y, z, a>>)
<1>. DEFINE s == <<u, v, w, x, y, z, a>>
<1>1. /\ s \in Seq({u, v, w, x, y, z, a}) /\ Len(s) = 7
      /\ s[1] = u /\ s[2] = v /\ s[3] = w /\ s[4] = x /\ s[5] = y /\ s[6] = z /\ s[7] = a
  OBVIOUS
<1>. HIDE DEF s
<1>2. \A i \in 1..Len(s) : Plain(s[i])
  BY <1>1
<1>. QED BY <1>1, <1>2, PlainList DEF s

LEMMA ErasingList == \A b : List(Erasing(b))
<1>. TAKE b
<1>. DEFINE s == Erasing(b)
            steps == {[do |-> d, b |-> b] : d \in {"erase", "count", "magic"}}
<1>1. /\ s \in Seq(steps) /\ Len(s) = 3
      /\ s[1].do = "erase" /\ s[2].do = "count" /\ s[3].do = "magic"
      /\ s[1].b = b /\ s[2].b = b /\ s[3].b = b
  BY DEF Erasing
<1>. HIDE DEF s, steps
<1>2. InTurn(s, 1) /\ InTurn(s, 2) /\ InTurn(s, 3)
  BY <1>1 DEF InTurn
<1>3. Paired(s)
  BY <1>1, <1>2 DEF Paired
<1>. QED BY <1>1, <1>3 DEF List, s

(* The steps the actions put on a list. *)
LEMMA PlainSteps ==
  /\ Plain(FindingFree) /\ Plain(FindingOr(<<Indexing(0)>>))
  /\ \A image : Plain(Putting(image))
  /\ \A id : Plain(Linking(id)) /\ Plain(Event("update", id)) /\ Plain(Event("move", id))
             /\ Plain(Event("delete", id))
  /\ \A len : Plain(Checking(len))
  /\ \A size : Plain(Indexing(size))
  /\ \A len, tries : Plain(Running(len, tries))
  /\ \A b, p : Plain(Finding(b, p)) /\ Plain(MovingIndex(b, p))
  /\ \A b, p, id, h, back : Plain(MovingData(b, p, id, h, back))
<1>1. Plain(FindingFree) /\ Plain(FindingOr(<<Indexing(0)>>))
  BY DEF Plain, FindingFree, FindingOr
<1>2. \A image : Plain(Putting(image))
  BY DEF Plain, Putting
<1>3. \A id : Plain(Linking(id)) /\ Plain(Event("update", id)) /\ Plain(Event("move", id))
              /\ Plain(Event("delete", id))
  BY DEF Plain, Linking, Event
<1>4. (\A len : Plain(Checking(len))) /\ (\A size : Plain(Indexing(size)))
  BY DEF Plain, Checking, Indexing
<1>5. \A len, tries : Plain(Running(len, tries))
  BY DEF Plain, Running
<1>6. \A b, p : Plain(Finding(b, p)) /\ Plain(MovingIndex(b, p))
  BY DEF Plain, Finding, MovingIndex
<1>7. \A b, p, id, h, back : Plain(MovingData(b, p, id, h, back))
  BY DEF Plain, MovingData
<1>. QED BY <1>1, <1>2, <1>3, <1>4, <1>5, <1>6, <1>7

LEMMA PlainWords ==
  \A d \in {"final", "fail", "created", "refer", "close", "mark", "truncate", "read", "flush",
            "modify", "append", "remove", "forget", "scan", "tally"} : Plain(Do(d))
  BY DEF Plain, Do

LEMMA PlainPages ==
  /\ \A p : Plain([do |-> "unlink", p |-> p]) /\ Plain([do |-> "scrap", p |-> p])
            /\ Plain([do |-> "by_page", p |-> p])
  /\ \A id, p : Plain([do |-> "store", id |-> id, p |-> p])
  /\ \A b : Plain([do |-> "gc_erase", b |-> b])
  /\ \A len, tries, prev : Plain([do |-> "gc_next", len |-> len, tries |-> tries, prev |-> prev])
<1>1. \A p : Plain([do |-> "unlink", p |-> p]) /\ Plain([do |-> "scrap", p |-> p])
             /\ Plain([do |-> "by_page", p |-> p])
  BY DEF Plain
<1>2. \A id, p : Plain([do |-> "store", id |-> id, p |-> p])
  BY DEF Plain
<1>3. \A b : Plain([do |-> "gc_erase", b |-> b])
  BY DEF Plain
<1>4. \A len, tries, prev : Plain([do |-> "gc_next", len |-> len, tries |-> tries, prev |-> prev])
  BY DEF Plain
<1>. QED BY <1>1, <1>2, <1>3, <1>4

LEMMA DeletingList == \A p : List(Deleting(p))
<1>. TAKE p
<1>. DEFINE u == [do |-> "unlink", p |-> p]
            v == [do |-> "scrap", p |-> p]
<1>1. Plain(u) /\ Plain(v)
  BY PlainPages
<1>2. Deleting(p) = <<u, v>>
  BY DEF Deleting
<1>. HIDE DEF u, v
<1>. QED BY <1>1, <1>2, TwoSteps

LEMMA MovingList == \A image, id, src : List(Moving(image, id, src))
<1>. TAKE image, id, src
<1>1. Plain(FindingFree) /\ Plain(Putting(image)) /\ Plain(Linking(id))
  BY PlainSteps
<1>2. List(<<FindingFree, Putting(image), Linking(id)>>)
  BY <1>1, ThreeSteps
<1>3. List(Deleting(src))
  BY DeletingList
<1>. QED BY <1>2, <1>3, JoinedList DEF Moving

LEMMA MovingHeaderList == \A id, src : List(MovingHeader(id, src))
<1>. TAKE id, src
<1>. DEFINE put == Putting([work EXCEPT !.flags = (@ \ {"final"}) \cup {"used"}])
<1>1. Plain(FindingFree) /\ Plain(put) /\ Plain(Linking(id)) /\ Plain(Do("final"))
  BY PlainSteps, PlainWords
<1>2. MovingHeader(id, src) = <<FindingFree, put, Linking(id), Do("final")>> \o Deleting(src)
  BY DEF MovingHeader
<1>. HIDE DEF put
<1>3. List(<<FindingFree, put, Linking(id), Do("final")>>)
  BY <1>1, FourSteps
<1>4. List(Deleting(src))
  BY DeletingList
<1>. QED BY <1>2, <1>3, <1>4, JoinedList

-----------------------------------------------------------------------------
(* Steps that neither erase a block, nor write its count or magic, nor       *)
(* belong to a format or a mount.                                            *)
Special == {"erase", "count", "magic", "format", "forget", "scan", "tally"}
Ordinary ==
  /\ todo # <<>> /\ Head(todo).do \notin Special
  /\ magic' = magic /\ List(todo')

LEMMA Pushed ==
  ASSUME List(todo), todo # <<>>, NEW s, List(s), Then(s)
  PROVE  List(todo')
  BY JoinedList, TailList DEF Then

LEMMA OnlyTaken ==
  ASSUME List(todo), todo # <<>>, Then(<<>>)
  PROVE  List(todo') /\ todo' = Tail(todo)
<1>1. PICK S : todo \in Seq(S)
  BY DEF List
<1>2. <<>> \o Tail(todo) = Tail(todo)
  BY <1>1
<1>. QED BY <1>2, TailList DEF Then

LEMMA Failed == Fails => magic' = magic /\ todo' = <<>> /\ rc' = "failed" /\ List(todo')
  BY EmptyList DEF Fails, flash

LEMMA WritesOrdinary ==
  ASSUME List(todo), WriteLu \/ WriteImage \/ Finalize \/ Unlink \/ Scrap \/ Refer
                     \/ HeaderMoved \/ HeaderDeleted \/ GcErase \/ CloseFd \/ Mark
  PROVE  Ordinary
<1>1. Then(<<>>) /\ magic' = magic /\ todo # <<>>
      /\ Head(todo).do \in {"entry", "page", "final", "unlink", "scrap", "refer", "update", "move",
                            "delete", "gc_erase", "close", "mark"}
  BY DEF WriteLu, WriteImage, Finalize, Unlink, Scrap, Refer, HeaderMoved, HeaderDeleted, GcErase,
         CloseFd, Mark, At, flash
<1>. QED BY <1>1, OnlyTaken DEF Ordinary, Special

LEMMA GcQuickOrdinary == ASSUME List(todo), GcQuick PROVE Ordinary
<1>. DEFINE b == Min(FullyDeleted)
            x == [do |-> "take_free", full |-> Step.full]
<1>1. /\ todo # <<>> /\ Head(todo).do = "find_free" /\ magic' = magic
      /\ Then(Erasing(b) \o <<x>>)
  BY DEF GcQuick, At, flash
<1>2. Step.full \in {<<>>, <<Indexing(0)>>}
  BY <1>1, TailList DEF List, Paired, InTurn, Step
<1>3. Plain(x)
  BY <1>2 DEF Plain
<1>. HIDE DEF b, x
<1>4. List(Erasing(b) \o <<x>>)
  BY <1>3, OneStep, ErasingList, JoinedList
<1>5. List(todo')
  BY <1>1, <1>4, Pushed
<1>. QED BY <1>1, <1>5 DEF Ordinary, Special

LEMMA TakeFreeOrdinary == ASSUME List(todo), TakeFree PROVE Ordinary
<1>1. todo # <<>> /\ Head(todo).do \in {"find_free", "take_free"} /\ magic' = magic
  BY DEF TakeFree, Taking, At, flash
<1>2. Step.full \in {<<>>, <<Indexing(0)>>}
  BY <1>1, TailList DEF List, Paired, InTurn, Step
<1>3. List(Step.full)
  BY <1>2, EmptyList, OneStep, PlainSteps
<1>4. List(<<Do("fail")>>)
  BY OneStep, PlainWords
<1>5. List(Step.full \o <<Do("fail")>>)
  BY <1>3, <1>4, JoinedList
<1>6. todo' = Step.full \o <<Do("fail")>> \/ Then(<<>>)
  BY DEF TakeFree
<1>7. List(todo')
  BY <1>1, <1>5, <1>6, OnlyTaken
<1>. QED BY <1>1, <1>7 DEF Ordinary, Special

LEMMA FailOrdinary == ASSUME Fail PROVE Ordinary
  BY Failed DEF Fail, At, Ordinary, Special

LEMMA StoreHeaderOrdinary == ASSUME List(todo), StoreHeader PROVE Ordinary
<1>1. todo # <<>> /\ Head(todo).do = "store"
  BY DEF StoreHeader, At
<1>. DEFINE s == MovingHeader(Step.id, Step.p) \o <<Event("update", Step.id)>>
<1>2. Fails \/ (Then(s) /\ magic' = magic)
  BY DEF StoreHeader, flash
<1>3. List(s)
  BY MovingHeaderList, OneStep, PlainSteps, JoinedList
<1>. HIDE DEF s
<1>. QED BY <1>1, <1>2, <1>3, Failed, Pushed DEF Ordinary, Special

LEMMA GcCheckOrdinary == ASSUME List(todo), GcCheck PROVE Ordinary
<1>1. todo # <<>> /\ Head(todo).do = "gc_check"
  BY DEF GcCheck, At
<1>. DEFINE s == <<Running(Step.len, 1)>>
<1>2. Fails \/ ((Then(<<>>) \/ Then(s)) /\ magic' = magic)
  BY DEF GcCheck, flash
<1>3. List(s)
  BY OneStep, PlainSteps
<1>. HIDE DEF s
<1>. QED BY <1>1, <1>2, <1>3, Failed, Pushed, OnlyTaken DEF Ordinary, Special

LEMMA GcRunOrdinary == ASSUME List(todo), GcRun PROVE Ordinary
<1>1. todo # <<>> /\ Head(todo).do = "gc_run" /\ magic' = magic
  BY DEF GcRun, At, flash
<1>. DEFINE b == Candidate
            erase == [do |-> "gc_erase", b |-> b]
            next == [do |-> "gc_next", len |-> Step.len, tries |-> Step.tries, prev |-> FreePages]
            front == <<Finding(b, FirstPage(b)), erase>>
<1>2. Then(front \o Erasing(b) \o <<next>>)
  BY DEF GcRun
<1>3. Plain(Finding(b, FirstPage(b))) /\ Plain(erase) /\ Plain(next)
  BY PlainSteps, PlainPages
<1>. HIDE DEF b, erase, next
<1>4. List(front) /\ List(<<next>>) /\ List(Erasing(b))
  BY <1>3, OneStep, TwoSteps, ErasingList
<1>. HIDE DEF front
<1>5. List(front \o Erasing(b) \o <<next>>)
  BY <1>4, JoinedList
<1>6. List(todo')
  BY <1>1, <1>2, <1>5, Pushed
<1>. QED BY <1>1, <1>6 DEF Ordinary, Special

LEMMA GcNextOrdinary == ASSUME List(todo), GcNext PROVE Ordinary
<1>1. todo # <<>> /\ Head(todo).do = "gc_next"
  BY DEF GcNext, At
<1>. DEFINE s == <<Running(Step.len, Step.tries + 1)>>
<1>2. Fails \/ ((Then(<<>>) \/ Then(s)) /\ magic' = magic)
  BY DEF GcNext, flash
<1>3. List(s)
  BY OneStep, PlainSteps
<1>. HIDE DEF s
<1>. QED BY <1>1, <1>2, <1>3, Failed, Pushed, OnlyTaken DEF Ordinary, Special

LEMMA GcFindOrdinary == ASSUME List(todo), GcFind PROVE Ordinary
<1>1. todo # <<>> /\ Head(todo).do = "gc_find"
  BY DEF GcFind, At
<1>2. \/ Fails
      \/ magic' = magic /\ \E b, q : Then(<<MovingIndex(b, q)>>)
      \/ magic' = magic /\ \E p, b, q : Then(Deleting(p) \o <<Finding(b, q)>>)
      \/ magic' = magic /\ \E b, q, id, h, back : Then(<<MovingData(b, q, id, h, back)>>)
  BY DEF GcFind, flash
<1>3. ASSUME NEW b, NEW q, magic' = magic, Then(<<MovingIndex(b, q)>>)
      PROVE  Ordinary
  <2>1. List(<<MovingIndex(b, q)>>)
    BY OneStep, PlainSteps
  <2>. QED BY <1>1, <1>3, <2>1, Pushed DEF Ordinary, Special
<1>4. ASSUME NEW p, NEW b, NEW q, magic' = magic, Then(Deleting(p) \o <<Finding(b, q)>>)
      PROVE  Ordinary
  <2>1. List(Deleting(p)) /\ List(<<Finding(b, q)>>)
    BY OneStep, PlainSteps, DeletingList
  <2>2. List(Deleting(p) \o <<Finding(b, q)>>)
    BY <2>1, JoinedList
  <2>. QED BY <1>1, <1>4, <2>2, Pushed DEF Ordinary, Special
<1>5. ASSUME NEW b, NEW q, NEW id, NEW h, NEW back, magic' = magic,
             Then(<<MovingData(b, q, id, h, back)>>)
      PROVE  Ordinary
  <2>1. List(<<MovingData(b, q, id, h, back)>>)
    BY OneStep, PlainSteps
  <2>. QED BY <1>1, <1>5, <2>1, Pushed DEF Ordinary, Special
<1>6. CASE Fails
  BY <1>1, <1>6, Failed DEF Ordinary, Special
<1>. QED BY <1>2, <1>3, <1>4, <1>5, <1>6

LEMMA GcMoveDataOrdinary == ASSUME List(todo), GcMoveData PROVE Ordinary
<1>1. todo # <<>> /\ Head(todo).do = "gc_data" /\ magic' = magic
  BY DEF GcMoveData, At, flash
<1>2. \/ \E id, q, b, back :
           Then(<<[do |-> "store", id |-> id, p |-> q], Finding(b, back)>>)
      \/ \E image, id, p, b, q, h, back :
           Then(Moving(image, id, p) \o <<Do("refer"), MovingData(b, q, id, h, back)>>)
      \/ \E id, p, b, q, h, back : Then(Deleting(p) \o <<MovingData(b, q, id, h, back)>>)
  BY DEF GcMoveData
<1>3. ASSUME NEW id, NEW q, NEW b, NEW back,
             Then(<<[do |-> "store", id |-> id, p |-> q], Finding(b, back)>>)
      PROVE  List(todo')
  <2>. DEFINE u == [do |-> "store", id |-> id, p |-> q]
  <2>1. Plain(u) /\ Plain(Finding(b, back))
    BY PlainSteps, PlainPages
  <2>. HIDE DEF u
  <2>2. List(<<u, Finding(b, back)>>)
    BY <2>1, TwoSteps
  <2>. QED BY <1>1, <1>3, <2>2, Pushed DEF u
<1>4. ASSUME NEW image, NEW id, NEW p, NEW b, NEW q, NEW h, NEW back,
             Then(Moving(image, id, p) \o <<Do("refer"), MovingData(b, q, id, h, back)>>)
      PROVE  List(todo')
  <2>1. List(<<Do("refer"), MovingData(b, q, id, h, back)>>)
    BY TwoSteps, PlainSteps, PlainWords
  <2>2. List(Moving(image, id, p) \o <<Do("refer"), MovingData(b, q, id, h, back)>>)
    BY <2>1, MovingList, JoinedList
  <2>. QED BY <1>1, <1>4, <2>2, Pushed
<1>5. ASSUME NEW id, NEW p, NEW b, NEW q, NEW h, NEW back,
             Then(Deleting(p) \o <<MovingData(b, q, id, h, back)>>)
      PROVE  List(todo')
  <2>1. List(Deleting(p) \o <<MovingData(b, q, id, h, back)>>)
    BY OneStep, PlainSteps, DeletingList, JoinedList
  <2>. QED BY <1>1, <1>5, <2>1, Pushed
<1>6. List(todo')
  BY <1>2, <1>3, <1>4, <1>5
<1>. QED BY <1>1, <1>6 DEF Ordinary, Special

LEMMA GcMoveIndexOrdinary == ASSUME List(todo), GcMoveIndex PROVE Ordinary
<1>1. todo # <<>> /\ Head(todo).do = "gc_index" /\ magic' = magic
  BY DEF GcMoveIndex, At, flash
<1>. DEFINE Told(told) == told = <<>> \/ \E id : told \in {<<Event("move", id)>>, <<Event("delete", id)>>}
<1>2. \/ Then(<<>>)
      \/ \E image, id, p, b, q, told :
           Told(told) /\ Then(Moving(image, id, p) \o told \o <<MovingIndex(b, q)>>)
      \/ \E p, b, q, told : Told(told) /\ Then(Deleting(p) \o told \o <<MovingIndex(b, q)>>)
  BY DEF GcMoveIndex
<1>3. ASSUME NEW told, Told(told)
      PROVE  List(told)
  BY <1>3, EmptyList, OneStep, PlainSteps
<1>. HIDE DEF Told
<1>4. \A b, q : List(<<MovingIndex(b, q)>>)
  BY OneStep, PlainSteps
<1>5. ASSUME NEW image, NEW id, NEW p, NEW b, NEW q, NEW told, Told(told),
             Then(Moving(image, id, p) \o told \o <<MovingIndex(b, q)>>)
      PROVE  List(todo')
  <2>1. List(Moving(image, id, p) \o told \o <<MovingIndex(b, q)>>)
    BY <1>3, <1>4, <1>5, MovingList, JoinedList
  <2>. QED BY <1>1, <1>5, <2>1, Pushed
<1>6. ASSUME NEW p, NEW b, NEW q, NEW told, Told(told),
             Then(Deleting(p) \o told \o <<MovingIndex(b, q)>>)
      PROVE  List(todo')
  <2>1. List(Deleting(p) \o told \o <<MovingIndex(b, q)>>)
    BY <1>3, <1>4, <1>6, DeletingList, JoinedList
  <2>. QED BY <1>1, <1>6, <2>1, Pushed
<1>7. List(todo')
  BY <1>1, <1>2, <1>5, <1>6, OnlyTaken
<1>. QED BY <1>1, <1>7 DEF Ordinary, Special

LEMMA GcStepOrdinary == ASSUME List(todo), GcStep PROVE Ordinary
  BY GcCheckOrdinary, GcRunOrdinary, GcNextOrdinary, GcFindOrdinary, GcMoveDataOrdinary,
     GcMoveIndexOrdinary, WritesOrdinary DEF GcStep

LEMMA OpenOrdinary == ASSUME List(todo), Open PROVE Ordinary
<1>1. todo # <<>> /\ Head(todo).do = "open" /\ magic' = magic
  BY DEF Open, At, flash, NoDescriptor
<1>2. \/ todo' = <<>>
      \/ \E p : Then(<<[do |-> "by_page", p |-> p]>>)
      \/ \E id : Then(Creating(id))
      \/ Then(<<Do("fail")>>)
  BY DEF Open, NoDescriptor
<1>3. ASSUME NEW p PROVE List(<<[do |-> "by_page", p |-> p]>>)
  BY OneStep, PlainPages
<1>4. ASSUME NEW id PROVE List(Creating(id))
  <2>1. Plain(Checking(DATA_PAGE_SIZE)) /\ Plain(FindingFree) /\ Plain(Linking(id))
        /\ Plain(Putting(FreshHeader(id))) /\ Plain(Do("created"))
    BY PlainSteps, PlainWords
  <2>. QED BY <2>1, FiveSteps DEF Creating
<1>5. List(<<Do("fail")>>)
  BY OneStep, PlainWords
<1>6. List(todo')
  BY <1>1, <1>2, <1>3, <1>4, <1>5, EmptyList, Pushed
<1>. QED BY <1>1, <1>6 DEF Ordinary, Special

LEMMA CreatedOrdinary == ASSUME List(todo), Created PROVE Ordinary
<1>1. todo # <<>> /\ Head(todo).do = "created" /\ magic' = magic
  BY DEF Created, At, flash
<1>2. Then(<<[do |-> "by_page", p |-> dst]>>)
  BY DEF Created
<1>3. List(<<[do |-> "by_page", p |-> dst]>>)
  BY OneStep, PlainPages
<1>4. List(todo')
  BY <1>1, <1>2, <1>3, Pushed
<1>. QED BY <1>1, <1>4 DEF Ordinary, Special

LEMMA OpenByPageOrdinary == ASSUME List(todo), OpenByPage PROVE Ordinary
<1>1. todo # <<>> /\ Head(todo).do = "by_page" /\ magic' = magic
  BY DEF OpenByPage, At, flash
<1>2. Then(<<>>) \/ todo' = <<>>
  BY DEF OpenByPage
<1>3. List(todo')
  BY <1>1, <1>2, EmptyList, OnlyTaken
<1>. QED BY <1>1, <1>3 DEF Ordinary, Special

LEMMA ReadOrdinary == ASSUME List(todo), Read PROVE Ordinary
<1>1. todo # <<>> /\ Head(todo).do = "read"
  BY DEF Read, At
<1>2. Fails \/ (Then(<<>>) /\ magic' = magic)
  BY DEF Read, flash
<1>. QED BY <1>1, <1>2, Failed, OnlyTaken DEF Ordinary, Special

LEMMA FlushOrdinary == ASSUME List(todo), Flush PROVE Ordinary
<1>1. todo # <<>> /\ Head(todo).do = "flush" /\ magic' = magic
  BY DEF Flush, At, Unused, flash
<1>2. \E d \in {"modify", "append"} : Then(<<Checking(LEN + DATA_PAGE_SIZE), Do(d)>>)
  BY DEF Flush
<1>3. ASSUME NEW d \in {"modify", "append"}
      PROVE  List(<<Checking(LEN + DATA_PAGE_SIZE), Do(d)>>)
  BY TwoSteps, PlainSteps, PlainWords
<1>4. List(todo')
  BY <1>1, <1>2, <1>3, Pushed
<1>. QED BY <1>1, <1>4 DEF Ordinary, Special

LEMMA ModifyOrdinary == ASSUME List(todo), Modify PROVE Ordinary
<1>1. todo # <<>> /\ Head(todo).do = "modify"
  BY DEF Modify, At
<1>. DEFINE put(image, data) == <<FindingFree, Linking(Fd.obj - IX_FLAG), Putting(image), Writing(data), Do("final")>>
            store == [do |-> "store", id |-> Fd.obj, p |-> Fd.hdr]
            back == <<Do("refer"), store, Do("close")>>
<1>2. Fails \/ (magic' = magic /\ \E image, data, p : Then(put(image, data) \o Deleting(p) \o back))
  BY DEF Modify, flash
<1>3. List(back)
  <2>1. Plain(Do("refer")) /\ Plain(store) /\ Plain(Do("close"))
    BY PlainWords, PlainPages
  <2>. HIDE DEF store
  <2>. QED BY <2>1, ThreeSteps
<1>4. ASSUME NEW image, NEW data PROVE List(put(image, data))
  <2>1. Plain(FindingFree) /\ Plain(Linking(Fd.obj - IX_FLAG)) /\ Plain(Putting(image))
        /\ Plain(Writing(data)) /\ Plain(Do("final"))
    BY PlainSteps, PlainWords DEF Writing
  <2>. QED BY <2>1, FiveSteps
<1>. HIDE DEF put, back
<1>5. \A image, data, p : List(put(image, data) \o Deleting(p) \o back)
  BY <1>3, <1>4, DeletingList, JoinedList
<1>. QED BY <1>1, <1>2, <1>5, Failed, Pushed DEF Ordinary, Special

LEMMA AppendToOrdinary == ASSUME List(todo), AppendTo PROVE Ordinary
<1>1. todo # <<>> /\ Head(todo).do = "append"
  BY DEF AppendTo, At
<1>. DEFINE s(id, image, data) ==
              <<FindingOr(<<Indexing(0)>>), Linking(id), Putting(image),
                Writing(data), Do("refer"), Indexing(LEN), Do("close")>>
<1>2. Fails \/ (magic' = magic /\ \E id, image, data : Then(s(id, image, data)))
  BY DEF AppendTo, flash
<1>3. ASSUME NEW id, NEW image, NEW data PROVE List(s(id, image, data))
  <2>1. Plain(FindingOr(<<Indexing(0)>>)) /\ Plain(Linking(id)) /\ Plain(Putting(image))
        /\ Plain(Writing(data)) /\ Plain(Do("refer")) /\ Plain(Indexing(LEN)) /\ Plain(Do("close"))
    BY PlainSteps, PlainWords DEF Writing
  <2>. QED BY <2>1, SevenSteps
<1>. HIDE DEF s
<1>. QED BY <1>1, <1>2, <1>3, Failed, Pushed DEF Ordinary, Special

LEMMA StoreIndexOrdinary == ASSUME List(todo), StoreIndex PROVE Ordinary
<1>1. todo # <<>> /\ Head(todo).do = "index"
  BY DEF StoreIndex, At
<1>2. Fails \/ (Then(<<>>) /\ magic' = magic)
  BY DEF StoreIndex, flash
<1>. QED BY <1>1, <1>2, Failed, OnlyTaken DEF Ordinary, Special

LEMMA RemoveOrdinary == ASSUME List(todo), Remove PROVE Ordinary
<1>1. todo # <<>> /\ Head(todo).do = "remove" /\ magic' = magic
  BY DEF Remove, At, flash, NoDescriptor
<1>2. \/ todo' = <<>>
      \/ \E p : Then(<<[do |-> "by_page", p |-> p], Do("mark"), Do("truncate")>>)
  BY DEF Remove, NoDescriptor
<1>3. ASSUME NEW p PROVE List(<<[do |-> "by_page", p |-> p], Do("mark"), Do("truncate")>>)
  <2>. DEFINE u == [do |-> "by_page", p |-> p]
  <2>1. Plain(u) /\ Plain(Do("mark")) /\ Plain(Do("truncate"))
    BY PlainWords, PlainPages
  <2>. HIDE DEF u
  <2>2. List(<<u, Do("mark"), Do("truncate")>>)
    BY <2>1, ThreeSteps
  <2>. QED BY <2>2 DEF u
<1>4. List(todo')
  BY <1>1, <1>2, <1>3, EmptyList, Pushed
<1>. QED BY <1>1, <1>4 DEF Ordinary, Special

LEMMA TruncateOrdinary == ASSUME List(todo), Truncate PROVE Ordinary
<1>1. todo # <<>> /\ Head(todo).do = "truncate"
  BY DEF Truncate, At
<1>. DEFINE store(id, p) == <<[do |-> "store", id |-> id, p |-> p]>>
            gone(p, id) == Deleting(p) \o <<Event("delete", id)>>
<1>2. \/ Fails
      \/ magic' = magic /\ \E p, q, id : \/ Then(gone(p, id))
                                         \/ Then(Deleting(q) \o gone(p, id))
                                         \/ Then(store(id, p))
  BY DEF Truncate, flash
<1>3. \A p, id : List(store(id, p))
  BY OneStep, PlainPages
<1>4. \A p, id : List(gone(p, id))
  BY OneStep, PlainSteps, DeletingList, JoinedList
<1>. HIDE DEF store, gone
<1>5. \A p, q, id : List(Deleting(q) \o gone(p, id))
  BY <1>4, DeletingList, JoinedList
<1>. QED BY <1>1, <1>2, <1>3, <1>4, <1>5, Failed, Pushed DEF Ordinary, Special

(* Every step of a call is ordinary, or one of eight.                        *)
LEMMA Steps ==
  ASSUME List(todo), SpiffsStep
  PROVE  Ordinary \/ Erase \/ WriteCount \/ WriteMagic \/ FormatBlock \/ Forget \/ Scan \/ Tally
<1>1. ASSUME CallStep
      PROVE  Ordinary \/ FormatBlock \/ Forget \/ Scan \/ Tally
  BY <1>1, OpenOrdinary, CreatedOrdinary, OpenByPageOrdinary, ReadOrdinary, FlushOrdinary,
     ModifyOrdinary, AppendToOrdinary, StoreIndexOrdinary, RemoveOrdinary, TruncateOrdinary,
     WritesOrdinary DEF CallStep
<1>2. ASSUME PageStep
      PROVE  Ordinary \/ Erase \/ WriteCount \/ WriteMagic
  BY <1>2, GcQuickOrdinary, TakeFreeOrdinary, FailOrdinary, StoreHeaderOrdinary, WritesOrdinary
  DEF PageStep
<1>. QED BY <1>1, <1>2, GcStepOrdinary DEF SpiffsStep

-----------------------------------------------------------------------------
(* The invariant. *)

Missing == Bixes \ magic
LastTwo == {Blocks - 2, Blocks - 1}

(* The block whose erasure is under way.                                     *)
Underway == IF todo # <<>> /\ Head(todo).do \in {"erase", "count", "magic"}
           THEN {Head(todo).b} ELSE {}

(* A flash whose power fails now can be mounted, or a mount finds so many    *)
(* blocks without magic that it fails, and the node formats.                 *)
Recoverable == (\E b : Missing \subseteq {b}) \/ LastTwo \subseteq Missing

(* A file system in use misses no magic but that of the block being erased.  *)
Calm == phase \notin {"off", "mount", "format"} => Missing \subseteq Underway
Stopped == phase = "off" => todo = <<>>

(* The first mount of a boot: before and at its scan; failed; after it.      *)
Erasures == {"erase", "count", "magic", "tally"}
Finishing == /\ rc = "ok" /\ Missing \subseteq Underway
             /\ \A i \in 1..Len(todo) : todo[i].do \in Erasures
MountSafe == phase = "mount" =>
  \/ todo = Mounting /\ rc = "ok"
  \/ todo = <<Do("scan"), Do("tally")>> /\ rc = "ok"
  \/ todo = <<>> /\ rc # "ok" /\ LastTwo \subseteq Missing
  \/ Finishing

(* The format of a boot: the blocks from c on are to be formatted, and k     *)
(* steps are left of the block before.                                       *)
Stage(c, k) ==
  /\ Len(todo) = k + (Blocks - c)
  /\ \A i \in 1..(Blocks - c) : todo[k + i].do = "format" /\ todo[k + i].b = (c + i) - 1
  /\ k > 0 => c > 0 /\ todo[1].b = c - 1
  /\ (k = 3 => todo[1].do = "erase") /\ (k = 2 => todo[1].do = "count") /\ (k = 1 => todo[1].do = "magic")
  /\ \A b \in Missing : b < c => k > 0 /\ b = c - 1
  /\ (IF k > 0 THEN c - 1 ELSE c) <= Blocks - 2 => LastTwo \subseteq Missing
FormatSafe == phase = "format" => \E c \in 0..Blocks, k \in 0..3 : Stage(c, k)

MountInv == List(todo) /\ Recoverable /\ Calm /\ Stopped /\ MountSafe /\ FormatSafe

LEMMA Geometry == Blocks \in Nat /\ Blocks > 2 /\ IsFiniteSet(Missing) /\ Missing \subseteq Bixes
<1>1. Blocks \in Nat /\ Blocks > 2
  BY FlashAssumption
<1>2. IsFiniteSet(Bixes)
  BY <1>1, FS_Interval DEF Bixes
<1>. QED BY <1>1, <1>2, FS_Subset DEF Missing

LEMMA NoTwoMissing ==
  ASSUME Cardinality(Missing) <= 1, NEW b \in Missing
  PROVE  Missing \subseteq {b}
<1>1. IsFiniteSet(Missing) /\ {b} \in SUBSET Missing
  BY Geometry
<1>2. Cardinality({b}) = 1
  BY FS_Singleton
<1>3. Cardinality(Missing) \in Nat /\ Cardinality({b}) <= Cardinality(Missing)
  BY <1>1, FS_Subset, FS_CardinalityType
<1>4. Cardinality(Missing) = Cardinality({b})
  BY <1>2, <1>3
<1>5. {b} = Missing
  BY <1>1, <1>4, FS_Subset, Zenon
<1>. QED BY <1>5

LEMMA OneMissing ==
  ASSUME NEW S, NEW b, S \subseteq {b}
  PROVE  IsFiniteSet(S) /\ Cardinality(S) <= 1
<1>1. S = {} \/ S = {b}
  OBVIOUS
<1>2. CASE S = {}
  <2>1. IsFiniteSet(S) /\ Cardinality(S) = 0
    BY <1>2, FS_EmptySet, Zenon
  <2>. QED BY <2>1
<1>3. CASE S = {b}
  <2>1. IsFiniteSet({b}) /\ Cardinality({b}) = 1
    BY FS_Singleton, Zenon
  <2>. QED BY <1>3, <2>1
<1>. QED BY <1>1, <1>2, <1>3

LEMMA LastTwoMissing == LastTwo \subseteq Missing => Cardinality(Missing) > 1
<1>. SUFFICES ASSUME LastTwo \subseteq Missing, Cardinality(Missing) <= 1 PROVE FALSE
  <2>1. Cardinality(Missing) \in Nat
    BY Geometry, FS_CardinalityType
  <2>. QED BY <2>1
<1>1. Missing \subseteq {Blocks - 1}
  BY NoTwoMissing DEF LastTwo
<1>. QED BY <1>1, Geometry DEF LastTwo

LEMMA FormatHead ==
  ASSUME List(todo), todo # <<>>, NEW c \in 0..Blocks, NEW k \in 0..3, Stage(c, k)
  PROVE  /\ k = 0 => c < Blocks /\ Head(todo).do = "format" /\ Head(todo).b = c
         /\ k > 0 => c > 0 /\ Head(todo).b = c - 1
         /\ k = 1 => Head(todo).do = "magic"
         /\ k = 2 => Head(todo).do = "count"
         /\ k = 3 => Head(todo).do = "erase"
<1>1. Head(todo) = todo[1] /\ Len(todo) >= 1 /\ Len(todo) \in Nat
  BY TailList
<1>2. k = 0 => c < Blocks
  BY <1>1, Geometry DEF Stage
<1>3. k = 0 => todo[1].do = "format" /\ todo[1].b = c
  <2>. SUFFICES ASSUME k = 0 PROVE todo[1].do = "format" /\ todo[1].b = c
    OBVIOUS
  <2>1. 1 \in 1..(Blocks - c)
    BY <1>2, Geometry
  <2>2. todo[k + 1].do = "format" /\ todo[k + 1].b = (c + 1) - 1
    BY <2>1 DEF Stage
  <2>. QED BY <2>2
<1>. QED BY <1>1, <1>2, <1>3 DEF Stage

LEMMA MountHead ==
  ASSUME List(todo), todo # <<>>, MountSafe, phase = "mount"
  PROVE  /\ rc = "ok"
         /\ \/ todo = Mounting /\ Head(todo) = Do("forget")
            \/ todo = <<Do("scan"), Do("tally")>> /\ Head(todo) = Do("scan")
            \/ Finishing /\ Head(todo).do \in Erasures
<1>1. Finishing => Head(todo).do \in Erasures
  BY TailList DEF Finishing
<1>. QED BY <1>1 DEF MountSafe, Mounting, Finishing

(* A step that is not of a format or a mount is taken of a file system in    *)
(* use.                                                                      *)
LEMMA OrdinaryKeeps == ASSUME MountInv, Ordinary, UNCHANGED nodeVars PROVE MountInv'
<1>1. phase' = phase /\ Missing' = Missing /\ List(todo')
  BY DEF nodeVars, Ordinary, Missing
<1>2. phase # "off"
  BY DEF MountInv, Stopped, Ordinary
<1>3. phase # "mount"
  BY MountHead DEF MountInv, Ordinary, Special, Erasures, Do
<1>4. phase # "format"
  <2>. SUFFICES ASSUME phase = "format" PROVE FALSE
    OBVIOUS
  <2>1. PICK c \in 0..Blocks, k \in 0..3 : Stage(c, k)
    BY DEF MountInv, FormatSafe
  <2>. QED BY <2>1, FormatHead DEF MountInv, Ordinary, Special
<1>5. Missing = {}
  BY <1>2, <1>3, <1>4 DEF MountInv, Calm, Underway, Ordinary, Special
<1>. QED BY <1>1, <1>2, <1>3, <1>4, <1>5
         DEF MountInv, Recoverable, Calm, Stopped, MountSafe, FormatSafe

(* The block erased is the only one without magic, or the last two are.      *)
LEMMA EraseSafe ==
  ASSUME MountInv, Erase
  PROVE  Missing \subseteq {Step.b} \/ LastTwo \subseteq Missing
<1>1. todo # <<>> /\ Head(todo).do = "erase" /\ Step = Head(todo) /\ List(todo)
  BY DEF Erase, At, Step, MountInv
<1>2. CASE phase \notin {"off", "mount", "format"}
  BY <1>1, <1>2 DEF MountInv, Calm, Underway
<1>3. CASE phase = "mount"
  BY <1>1, <1>3, MountHead DEF MountInv, Finishing, Underway, Do
<1>4. CASE phase = "format"
  <2>1. PICK c \in 0..Blocks, k \in 0..3 : Stage(c, k)
    BY <1>4 DEF MountInv, FormatSafe
  <2>2. k = 3 /\ c > 0 /\ Step.b = c - 1
    BY <1>1, <2>1, FormatHead
  <2>3. CASE c - 1 <= Blocks - 2
    BY <2>1, <2>2, <2>3 DEF Stage
  <2>4. CASE c = Blocks
    <3>1. \A b \in Missing : b < c
      BY <2>4, Geometry DEF Bixes
    <3>. QED BY <2>1, <2>2, <3>1 DEF Stage
  <2>. QED BY <2>3, <2>4, Geometry
<1>. QED BY <1>1, <1>2, <1>3, <1>4 DEF MountInv, Stopped

LEMMA EraseKeeps == ASSUME MountInv, Erase, UNCHANGED nodeVars PROVE MountInv'
<1>. DEFINE b == Step.b
<1>1. /\ todo # <<>> /\ Head(todo).do = "erase" /\ List(todo) /\ Head(todo).b = b
      /\ Then(<<>>) /\ phase' = phase /\ rc' = rc
      /\ magic' = magic \ {b}
  BY DEF Erase, At, Step, MountInv, nodeVars, EraseBlock
<1>2. /\ todo' = Tail(todo) /\ List(todo')
      /\ Len(todo') = Len(todo) - 1 /\ Len(todo) \in Nat /\ Head(todo) = todo[1]
      /\ \A i \in 1..(Len(todo) - 1) : todo'[i] = todo[i + 1]
  BY <1>1, OnlyTaken, TailList
<1>3. Len(todo) > 1 /\ todo[2].do = "count" /\ todo[2].b = b
  <2>1. InTurn(todo, 1)
    BY <1>1, <1>2, TailList DEF List, Paired
  <2>. QED BY <1>1, <1>2, <2>1 DEF InTurn
<1>4. todo' # <<>> /\ Head(todo') = todo[2]
  <2>1. Len(todo') >= 1 /\ todo'[1] = todo[2]
    BY <1>2, <1>3
  <2>2. todo' # <<>>
    BY <2>1
  <2>. QED BY <1>2, <2>1, <2>2, TailList
<1>5. Missing' \subseteq Missing \cup {b} /\ Missing \subseteq Missing'
  BY <1>1 DEF Missing
<1>6. Underway = {b} /\ Underway' = {b}
  BY <1>1, <1>3, <1>4 DEF Underway
<1>. HIDE DEF b
<1>7. Recoverable'
  <2>1. Missing \subseteq {b} \/ LastTwo \subseteq Missing
    BY EraseSafe DEF b
  <2>. QED BY <1>5, <2>1 DEF Recoverable
<1>8. Calm' /\ Stopped'
  BY <1>1, <1>5, <1>6 DEF MountInv, Calm, Stopped
<1>9. MountSafe'
  <2>. SUFFICES ASSUME phase = "mount" PROVE Finishing'
    BY <1>1 DEF MountSafe
  <2>1. Finishing
    BY <1>1, MountHead DEF MountInv, Do
  <2>2. Missing' \subseteq Underway'
    BY <1>5, <1>6, <2>1 DEF Finishing
  <2>3. \A i \in 1..Len(todo') : todo'[i].do \in Erasures
    BY <1>2, <2>1 DEF Finishing
  <2>. QED BY <1>1, <2>1, <2>2, <2>3 DEF Finishing
<1>10. FormatSafe'
  <2>. SUFFICES ASSUME phase = "format" PROVE \E c \in 0..Blocks, k \in 0..3 : Stage(c, k)'
    BY <1>1 DEF FormatSafe
  <2>1. PICK c \in 0..Blocks, k \in 0..3 : Stage(c, k)
    BY DEF MountInv, FormatSafe
  <2>2. k = 3 /\ c > 0 /\ b = c - 1
    BY <1>1, <2>1, FormatHead
  <2>3. Len(todo') = 2 + (Blocks - c)
    BY <1>2, <2>1, <2>2, Geometry DEF Stage
  <2>4. \A i \in 1..(Blocks - c) : todo'[2 + i] = todo[3 + i]
    BY <1>2, <2>1, <2>2, Geometry DEF Stage
  <2>5. \A i \in 1..(Blocks - c) : todo[3 + i].do = "format" /\ todo[3 + i].b = (c + i) - 1
    BY <2>1, <2>2 DEF Stage
  <2>6. todo'[1].do = "count" /\ todo'[1].b = c - 1
    BY <1>2, <1>3, <2>2
  <2>7. \A x \in Missing' : x < c => x = c - 1
    BY <1>5, <2>1, <2>2 DEF Stage
  <2>8. c - 1 <= Blocks - 2 => LastTwo \subseteq Missing'
    BY <1>5, <2>1, <2>2 DEF Stage
  <2>9. Stage(c, 2)'
    BY <2>2, <2>3, <2>4, <2>5, <2>6, <2>7, <2>8 DEF Stage, LastTwo
  <2>. QED BY <2>9
<1>. QED BY <1>2, <1>7, <1>8, <1>9, <1>10 DEF MountInv

LEMMA CountKeeps == ASSUME MountInv, WriteCount, UNCHANGED nodeVars PROVE MountInv'
<1>. DEFINE b == Step.b
<1>1. /\ todo # <<>> /\ Head(todo).do = "count" /\ List(todo) /\ Head(todo).b = b
      /\ Then(<<>>) /\ phase' = phase /\ rc' = rc /\ magic' = magic
  BY DEF WriteCount, At, Step, MountInv, nodeVars
<1>2. /\ todo' = Tail(todo) /\ List(todo')
      /\ Len(todo') = Len(todo) - 1 /\ Len(todo) \in Nat /\ Head(todo) = todo[1]
      /\ \A i \in 1..(Len(todo) - 1) : todo'[i] = todo[i + 1]
  BY <1>1, OnlyTaken, TailList
<1>3. Len(todo) > 1 /\ todo[2].do = "magic" /\ todo[2].b = b
  <2>1. InTurn(todo, 1)
    BY <1>1, <1>2, TailList DEF List, Paired
  <2>. QED BY <1>1, <1>2, <2>1 DEF InTurn
<1>4. todo' # <<>> /\ Head(todo') = todo[2]
  <2>1. Len(todo') >= 1 /\ todo'[1] = todo[2]
    BY <1>2, <1>3
  <2>2. todo' # <<>>
    BY <2>1
  <2>. QED BY <1>2, <2>1, <2>2, TailList
<1>5. Missing' = Missing
  BY <1>1 DEF Missing
<1>6. Underway = {b} /\ Underway' = {b}
  BY <1>1, <1>3, <1>4 DEF Underway
<1>. HIDE DEF b
<1>7. Recoverable' /\ Calm' /\ Stopped'
  BY <1>1, <1>5, <1>6 DEF MountInv, Recoverable, Calm, Stopped
<1>8. MountSafe'
  <2>. SUFFICES ASSUME phase = "mount" PROVE Finishing'
    BY <1>1 DEF MountSafe
  <2>1. Finishing
    BY <1>1, MountHead DEF MountInv, Do
  <2>2. \A i \in 1..Len(todo') : todo'[i].do \in Erasures
    BY <1>2, <2>1 DEF Finishing
  <2>. QED BY <1>1, <1>5, <1>6, <2>1, <2>2 DEF Finishing
<1>9. FormatSafe'
  <2>. SUFFICES ASSUME phase = "format" PROVE \E c \in 0..Blocks, k \in 0..3 : Stage(c, k)'
    BY <1>1 DEF FormatSafe
  <2>1. PICK c \in 0..Blocks, k \in 0..3 : Stage(c, k)
    BY DEF MountInv, FormatSafe
  <2>2. k = 2 /\ c > 0 /\ b = c - 1
    BY <1>1, <2>1, FormatHead
  <2>3. Len(todo') = 1 + (Blocks - c)
    BY <1>2, <2>1, <2>2, Geometry DEF Stage
  <2>4. \A i \in 1..(Blocks - c) : todo'[1 + i] = todo[2 + i]
    BY <1>2, <2>1, <2>2, Geometry DEF Stage
  <2>5. \A i \in 1..(Blocks - c) : todo[2 + i].do = "format" /\ todo[2 + i].b = (c + i) - 1
    BY <2>1, <2>2 DEF Stage
  <2>6. todo'[1].do = "magic" /\ todo'[1].b = c - 1
    BY <1>2, <1>3, <2>2
  <2>7. \A x \in Missing' : x < c => x = c - 1
    BY <1>5, <2>1, <2>2 DEF Stage
  <2>8. c - 1 <= Blocks - 2 => LastTwo \subseteq Missing'
    BY <1>5, <2>1, <2>2 DEF Stage
  <2>9. Stage(c, 1)'
    BY <2>2, <2>3, <2>4, <2>5, <2>6, <2>7, <2>8 DEF Stage, LastTwo
  <2>. QED BY <2>9
<1>. QED BY <1>2, <1>7, <1>8, <1>9 DEF MountInv

LEMMA MagicKeeps == ASSUME MountInv, WriteMagic, UNCHANGED nodeVars PROVE MountInv'
<1>. DEFINE b == Step.b
<1>1. /\ todo # <<>> /\ Head(todo).do = "magic" /\ List(todo) /\ Head(todo).b = b
      /\ Then(<<>>) /\ phase' = phase /\ rc' = rc /\ magic' = magic \cup {b}
  BY DEF WriteMagic, At, Step, MountInv, nodeVars
<1>2. /\ todo' = Tail(todo) /\ List(todo')
      /\ Len(todo') = Len(todo) - 1 /\ Len(todo) \in Nat
      /\ \A i \in 1..(Len(todo) - 1) : todo'[i] = todo[i + 1]
  BY <1>1, OnlyTaken, TailList
<1>3. Missing' = Missing \ {b}
  BY <1>1 DEF Missing
<1>4. Missing \subseteq Underway => Missing' = {}
  BY <1>1, <1>3 DEF Underway
<1>. HIDE DEF b
<1>5. Calm' /\ Stopped'
  BY <1>1, <1>4 DEF MountInv, Calm, Stopped
<1>6. MountSafe'
  <2>. SUFFICES ASSUME phase = "mount" PROVE Finishing'
    BY <1>1 DEF MountSafe
  <2>1. Finishing
    BY <1>1, MountHead DEF MountInv, Do
  <2>2. \A i \in 1..Len(todo') : todo'[i].do \in Erasures
    BY <1>2, <2>1 DEF Finishing
  <2>3. Missing' = {}
    BY <1>4, <2>1 DEF Finishing
  <2>. QED BY <1>1, <2>1, <2>2, <2>3 DEF Finishing
<1>7. ASSUME phase = "format"
      PROVE  Recoverable' /\ \E c \in 0..Blocks, k \in 0..3 : Stage(c, k)'
  <2>1. PICK c \in 0..Blocks, k \in 0..3 : Stage(c, k)
    BY <1>7 DEF MountInv, FormatSafe
  <2>2. k = 1 /\ c > 0 /\ b = c - 1
    BY <1>1, <2>1, FormatHead
  <2>3. Len(todo') = 0 + (Blocks - c)
    BY <1>2, <2>1, <2>2, Geometry DEF Stage
  <2>4. \A i \in 1..(Blocks - c) : todo'[0 + i] = todo[1 + i]
    BY <1>2, <2>1, <2>2, Geometry DEF Stage
  <2>5. \A i \in 1..(Blocks - c) : todo[1 + i].do = "format" /\ todo[1 + i].b = (c + i) - 1
    BY <2>1, <2>2 DEF Stage
  <2>6. \A x \in Missing' : ~(x < c)
    BY <1>3, <2>1, <2>2 DEF Stage
  <2>7. c <= Blocks - 2 => LastTwo \subseteq Missing'
    BY <1>3, <2>1, <2>2, Geometry DEF Stage, LastTwo
  <2>8. Stage(c, 0)'
    BY <2>2, <2>3, <2>4, <2>5, <2>6, <2>7 DEF Stage, LastTwo
  <2>9. Recoverable'
    <3>1. CASE c <= Blocks - 2
      BY <2>7, <3>1 DEF Recoverable, LastTwo
    <3>2. CASE c > Blocks - 2
      <4>1. \A x \in Missing' : x \in 0..(Blocks - 1)
        BY DEF Missing, Bixes
      <4>2. Missing' \subseteq {Blocks - 1}
        BY <2>6, <3>2, <4>1, Geometry
      <4>. QED BY <4>2 DEF Recoverable
    <3>. QED BY <3>1, <3>2, Geometry
  <2>. QED BY <2>8, <2>9
<1>8. Recoverable'
  <2>1. CASE phase = "format"
    BY <1>7, <2>1
  <2>2. CASE phase # "format"
    <3>1. Missing \subseteq Underway
      BY <1>1, <2>2, MountHead DEF MountInv, Calm, Stopped, Finishing, Do
    <3>. QED BY <1>4, <3>1 DEF Recoverable
  <2>. QED BY <2>1, <2>2
<1>9. FormatSafe'
  BY <1>1, <1>7 DEF FormatSafe
<1>. QED BY <1>2, <1>5, <1>6, <1>8, <1>9 DEF MountInv

ErasesFirst(s, b, t) ==
  /\ s # <<>> /\ Len(s) = 3 + Len(t) /\ Len(t) \in Nat
  /\ Head(s) = s[1] /\ s[1].do = "erase" /\ s[1].b = b
  /\ s[2].do = "count" /\ s[3].do = "magic"
  /\ \A i \in 1..Len(t) : s[3 + i] = t[i]

LEMMA ErasingHead == ASSUME NEW b, NEW t, List(t) PROVE ErasesFirst(Erasing(b) \o t, b, t)
<1>. DEFINE e == Erasing(b)
            steps == {[do |-> d, b |-> b] : d \in {"erase", "count", "magic"}}
<1>1. /\ e \in Seq(steps) /\ Len(e) = 3
      /\ e[1].do = "erase" /\ e[2].do = "count" /\ e[3].do = "magic" /\ e[1].b = b
  BY DEF Erasing
<1>. DEFINE s == Erasing(b) \o t
<1>2. s = e \o t
  OBVIOUS
<1>. HIDE DEF e, steps, s
<1>3. PICK S : t \in Seq(S)
  BY DEF List
<1>4. e \in Seq(steps \cup S) /\ t \in Seq(steps \cup S)
  BY <1>1, <1>3
<1>5. /\ s \in Seq(steps \cup S) /\ Len(s) = Len(e) + Len(t)
      /\ Len(t) \in Nat /\ Len(e) \in Nat
  BY <1>2, <1>4
<1>6. \A i \in 1..Len(e) : s[i] = e[i]
  BY <1>2, <1>4
<1>7. \A i \in (Len(e) + 1)..(Len(e) + Len(t)) : s[i] = t[i - Len(e)]
  BY <1>2, <1>4
<1>8. s # <<>> /\ Head(s) = s[1]
  BY <1>1, <1>5
<1>9. /\ s[1] = e[1] /\ s[2] = e[2] /\ s[3] = e[3]
      /\ \A i \in 1..Len(t) : s[3 + i] = t[i]
  BY <1>1, <1>5, <1>6, <1>7
<1>10. ErasesFirst(s, b, t)
  BY <1>1, <1>5, <1>8, <1>9 DEF ErasesFirst
<1>. QED BY <1>10 DEF s

LEMMA FormatBlockKeeps == ASSUME MountInv, FormatBlock, UNCHANGED nodeVars PROVE MountInv'
<1>. DEFINE b == Step.b
            t == Tail(todo)
<1>1. /\ todo # <<>> /\ Head(todo).do = "format" /\ List(todo) /\ Head(todo).b = b
      /\ todo' = Erasing(b) \o t /\ phase' = phase /\ rc' = rc /\ magic' = magic
  BY DEF FormatBlock, At, Step, MountInv, nodeVars, Then, flash
<1>2. /\ List(t) /\ Len(t) = Len(todo) - 1 /\ Len(todo) \in Nat
      /\ \A i \in 1..(Len(todo) - 1) : t[i] = todo[i + 1]
  BY <1>1, TailList
<1>. HIDE DEF b, t
<1>3. /\ todo' # <<>> /\ Len(todo') = 3 + Len(t)
      /\ Head(todo') = todo'[1] /\ todo'[1].do = "erase" /\ todo'[1].b = b
      /\ \A i \in 1..Len(t) : todo'[3 + i] = t[i]
  <2>1. ErasesFirst(todo', b, t)
    BY <1>1, <1>2, ErasingHead, Zenon
  <2>. QED BY <2>1 DEF ErasesFirst
<1>4. List(todo')
  BY <1>1, <1>2, ErasingList, JoinedList
<1>5. Missing' = Missing
  BY <1>1 DEF Missing
<1>6. phase # "off" /\ phase # "mount"
  BY <1>1, MountHead DEF MountInv, Stopped, Do, Erasures
<1>7. Recoverable' /\ Calm' /\ Stopped' /\ MountSafe'
  BY <1>1, <1>5, <1>6 DEF MountInv, Recoverable, Calm, Underway, Stopped, MountSafe
<1>8. FormatSafe'
  <2>. SUFFICES ASSUME phase = "format" PROVE \E c \in 0..Blocks, k \in 0..3 : Stage(c, k)'
    BY <1>1 DEF FormatSafe
  <2>1. PICK c \in 0..Blocks, k \in 0..3 : Stage(c, k)
    BY DEF MountInv, FormatSafe
  <2>2. k = 0 /\ c < Blocks /\ b = c
    BY <1>1, <2>1, FormatHead
  <2>. DEFINE n == c + 1
  <2>3. n \in 0..Blocks /\ n > 0 /\ c = n - 1
    BY <2>2, Geometry
  <2>4. Len(todo) = Blocks - c
    BY <2>1, <2>2, Geometry DEF Stage
  <2>5. Len(todo') = 3 + (Blocks - n)
    BY <1>2, <1>3, <2>4, Geometry
  <2>6. \A i \in 1..(Blocks - n) :
          /\ todo'[3 + i] = todo[0 + (i + 1)] /\ i + 1 \in 1..(Blocks - c)
          /\ (c + (i + 1)) - 1 = (n + i) - 1
    <3>. TAKE i \in 1..(Blocks - n)
    <3>1. /\ i \in 1..Len(t) /\ i \in 1..(Len(todo) - 1)
          /\ i + 1 \in 1..(Blocks - c) /\ 0 + (i + 1) = i + 1
          /\ (c + (i + 1)) - 1 = (n + i) - 1
      BY <1>2, <2>4, Geometry
    <3>. QED BY <1>2, <1>3, <3>1
  <2>7. \A i \in 1..(Blocks - c) : todo[0 + i].do = "format" /\ todo[0 + i].b = (c + i) - 1
    BY <2>1, <2>2 DEF Stage
  <2>8. \A i \in 1..(Blocks - n) : todo'[3 + i].do = "format" /\ todo'[3 + i].b = (n + i) - 1
    BY <2>6, <2>7
  <2>9. \A x \in Missing' : x < n => x = n - 1
    <3>1. \A x \in Missing : x \in Int /\ ~(x < c)
      BY <2>1, <2>2 DEF Stage, Missing, Bixes
    <3>. QED BY <1>5, <2>3, <3>1
  <2>10. n - 1 <= Blocks - 2 => LastTwo \subseteq Missing'
    BY <1>5, <2>1, <2>2, <2>3 DEF Stage
  <2>11. todo'[1].do = "erase" /\ todo'[1].b = n - 1
    BY <1>3, <2>2, <2>3
  <2>. HIDE DEF n
  <2>12. Stage(n, 3)'
    BY <2>3, <2>5, <2>8, <2>9, <2>10, <2>11 DEF Stage, LastTwo
  <2>. QED BY <2>3, <2>12
<1>. QED BY <1>4, <1>7, <1>8 DEF MountInv

LEMMA MountingTail ==
  /\ Tail(Mounting) = <<Do("scan"), Do("tally")>>
  /\ Tail(<<Do("scan"), Do("tally")>>) = <<Do("tally")>>
  BY DEF Mounting

LEMMA ForgetKeeps == ASSUME MountInv, Forget, UNCHANGED nodeVars PROVE MountInv'
<1>1. /\ todo # <<>> /\ Head(todo).do = "forget" /\ List(todo)
      /\ Then(<<>>) /\ phase' = phase /\ rc' = rc /\ magic' = magic
  BY DEF Forget, At, MountInv, nodeVars, flash
<1>2. todo' = Tail(todo) /\ List(todo')
  BY <1>1, OnlyTaken
<1>3. Missing' = Missing /\ Underway = {}
  BY <1>1 DEF Missing, Underway
<1>4. phase # "off"
  BY <1>1 DEF MountInv, Stopped
<1>5. phase # "format"
  BY <1>1, FormatHead DEF MountInv, FormatSafe
<1>6. phase = "mount" => todo' = <<Do("scan"), Do("tally")>> /\ rc = "ok"
  BY <1>1, <1>2, MountHead, MountingTail DEF MountInv, Do, Erasures
<1>7. MountSafe'
  BY <1>1, <1>6 DEF MountSafe
<1>8. Recoverable' /\ Calm' /\ Stopped' /\ FormatSafe'
  BY <1>1, <1>3, <1>4, <1>5 DEF MountInv, Recoverable, Calm, Stopped, FormatSafe
<1>. QED BY <1>2, <1>7, <1>8 DEF MountInv

LEMMA TallyKeeps == ASSUME MountInv, Tally, UNCHANGED nodeVars PROVE MountInv'
<1>1. /\ todo # <<>> /\ Head(todo).do = "tally" /\ List(todo)
      /\ Then(<<>>) /\ phase' = phase /\ rc' = rc /\ magic' = magic
  BY DEF Tally, At, MountInv, nodeVars, flash
<1>2. /\ todo' = Tail(todo) /\ List(todo')
      /\ Len(todo') = Len(todo) - 1 /\ Len(todo) \in Nat
      /\ \A i \in 1..(Len(todo) - 1) : todo'[i] = todo[i + 1]
  BY <1>1, OnlyTaken, TailList
<1>3. Missing' = Missing /\ Underway = {}
  BY <1>1 DEF Missing, Underway
<1>4. phase # "off"
  BY <1>1 DEF MountInv, Stopped
<1>5. phase # "format"
  BY <1>1, FormatHead DEF MountInv, FormatSafe
<1>6. MountSafe'
  <2>. SUFFICES ASSUME phase = "mount" PROVE Finishing'
    BY <1>1 DEF MountSafe
  <2>1. Finishing
    BY <1>1, MountHead DEF MountInv, Do
  <2>2. \A i \in 1..Len(todo') : todo'[i].do \in Erasures
    BY <1>2, <2>1 DEF Finishing
  <2>. QED BY <1>1, <1>3, <2>1, <2>2 DEF Finishing
<1>7. Recoverable' /\ Calm' /\ Stopped' /\ FormatSafe'
  BY <1>1, <1>3, <1>4, <1>5 DEF MountInv, Recoverable, Calm, Stopped, FormatSafe
<1>. QED BY <1>2, <1>6, <1>7 DEF MountInv

LEMMA SmallMissing ==
  ASSUME ~(Cardinality(Missing) > 1), Missing # {}
  PROVE  Missing = {Min(Missing)}
<1>1. PICK b \in Missing : TRUE
  OBVIOUS
<1>2. Cardinality(Missing) <= 1
  <2>1. Cardinality(Missing) \in Nat
    BY Geometry, FS_CardinalityType
  <2>. QED BY <2>1
<1>3. Missing = {b} /\ b \in Int
  <2>1. Missing \subseteq {b}
    BY <1>1, <1>2, NoTwoMissing
  <2>2. b \in 0..(Blocks - 1)
    BY <1>1 DEF Missing, Bixes
  <2>3. b \in Int
    BY <2>2, Geometry
  <2>. QED BY <1>1, <2>1, <2>3, Zenon
<1>4. Min({b}) = b
  BY <1>3 DEF Min
<1>. QED BY <1>3, <1>4

(* The scan finishes the erasure of the one block it finds without magic,    *)
(* or fails.                                                                 *)
LEMMA ScanKeeps == ASSUME MountInv, Scan, UNCHANGED nodeVars PROVE MountInv'
<1>. DEFINE b == Min(Missing)
<1>1. /\ todo # <<>> /\ Head(todo).do = "scan" /\ List(todo)
      /\ phase' = phase /\ magic' = magic /\ Underway = {}
      /\ \/ Cardinality(Missing) > 1 /\ Fails
         \/ ~(Cardinality(Missing) > 1) /\ Missing = {} /\ Then(<<>>) /\ rc' = rc
         \/ ~(Cardinality(Missing) > 1) /\ Missing # {} /\ Then(Erasing(b)) /\ rc' = rc
  BY DEF Scan, At, MountInv, nodeVars, flash, Fails, Missing, Underway
<1>. HIDE DEF b
<1>2. Missing' = Missing
  BY <1>1 DEF Missing
<1>3. phase # "off" /\ phase # "format"
  BY <1>1, FormatHead DEF MountInv, Stopped, FormatSafe
<1>4. List(todo')
  BY <1>1, ErasingList, EmptyList, Failed, Pushed
<1>5. phase # "mount" => Missing = {}
  BY <1>1, <1>3 DEF MountInv, Calm
<1>6. Recoverable' /\ Calm' /\ Stopped' /\ FormatSafe'
  BY <1>1, <1>2, <1>3, <1>5 DEF MountInv, Recoverable, Calm, Stopped, FormatSafe
<1>7. ASSUME phase = "mount"
      PROVE  \/ todo' = <<>> /\ rc' # "ok" /\ LastTwo \subseteq Missing'
             \/ Finishing'
  <2>1. Tail(todo) = <<Do("tally")>> /\ rc = "ok"
    <3>1. todo = <<Do("scan"), Do("tally")>> /\ rc = "ok"
      BY <1>1, <1>7, MountHead DEF MountInv, Do, Erasures
    <3>. QED BY <3>1, MountingTail, Zenon
  <2>2. CASE Cardinality(Missing) > 1 /\ Fails
    <3>1. LastTwo \subseteq Missing
      <4>. SUFFICES ASSUME NEW x, Missing \subseteq {x} PROVE FALSE
        BY DEF MountInv, Recoverable
      <4>1. Cardinality(Missing) <= 1
        BY OneMissing
      <4>2. Cardinality(Missing) \in Nat
        BY Geometry, FS_CardinalityType
      <4>. QED BY <2>2, <4>1, <4>2
    <3>. QED BY <1>2, <2>2, <3>1, Failed DEF LastTwo
  <2>3. CASE Missing = {} /\ Then(<<>>) /\ rc' = rc
    <3>1. todo' = <<Do("tally")>>
      BY <1>1, <2>1, <2>3, OnlyTaken
    <3>2. \A i \in 1..Len(todo') : todo'[i].do \in Erasures
      BY <3>1 DEF Do, Erasures
    <3>. QED BY <1>2, <2>1, <2>3, <3>2 DEF Finishing
  <2>4. CASE ~(Cardinality(Missing) > 1) /\ Missing # {} /\ Then(Erasing(b)) /\ rc' = rc
    <3>. DEFINE t == <<Do("tally")>>
    <3>1. todo' = Erasing(b) \o t
      BY <2>1, <2>4 DEF Then
    <3>2. List(t) /\ Len(t) = 1 /\ t[1].do = "tally"
      BY OneStep, PlainWords DEF Do
    <3>. HIDE DEF t
    <3>3. /\ todo' # <<>> /\ Len(todo') = 3 + Len(t)
          /\ Head(todo') = todo'[1] /\ todo'[1].do = "erase" /\ todo'[1].b = b
          /\ todo'[2].do = "count" /\ todo'[3].do = "magic"
          /\ \A i \in 1..Len(t) : todo'[3 + i] = t[i]
      <4>1. ErasesFirst(todo', b, t)
        BY <3>1, <3>2, ErasingHead, Zenon
      <4>. QED BY <4>1 DEF ErasesFirst
    <3>4. Missing = {b}
      BY <2>4, SmallMissing DEF b
    <3>5. Underway' = {b}
      BY <3>3 DEF Underway
    <3>6. todo'[4].do = "tally" /\ Len(todo') = 4
      <4>1. todo'[3 + 1] = t[1]
        BY <3>2, <3>3
      <4>. QED BY <3>2, <3>3, <4>1
    <3>7. \A i \in 1..Len(todo') : todo'[i].do \in Erasures
      <4>1. /\ todo'[1].do \in Erasures /\ todo'[2].do \in Erasures
            /\ todo'[3].do \in Erasures /\ todo'[4].do \in Erasures
        BY <3>3, <3>6 DEF Erasures
      <4>2. \A i \in 1..Len(todo') : i \in {1, 2, 3, 4}
        BY <3>6
      <4>. QED BY <4>1, <4>2, Zenon
    <3>. QED BY <1>2, <2>1, <2>4, <3>4, <3>5, <3>7 DEF Finishing
  <2>. QED BY <1>1, <2>2, <2>3, <2>4
<1>8. MountSafe'
  BY <1>1, <1>7 DEF MountSafe
<1>. QED BY <1>4, <1>6, <1>8 DEF MountInv

-----------------------------------------------------------------------------
(* The node: its calls begin and end on an empty list. *)

LEMMA LiteralLists ==
  /\ List(Mounting)
  /\ \A create : List(Opening(create))
  /\ \A d \in {"read", "flush", "remove"} : List(<<Do(d)>>)
<1>1. List(Mounting)
  BY ThreeSteps, PlainWords DEF Mounting
<1>2. ASSUME NEW create PROVE List(Opening(create))
  <2>. DEFINE u == [do |-> "open", create |-> create]
  <2>1. Plain(u)
    BY DEF Plain
  <2>2. Opening(create) = <<u>>
    BY DEF Opening
  <2>. HIDE DEF u
  <2>. QED BY <2>1, <2>2, OneStep
<1>3. \A d \in {"read", "flush", "remove"} : List(<<Do(d)>>)
  BY OneStep, PlainWords
<1>. QED BY <1>1, <1>2, <1>3

LEMMA FormattingList ==
  /\ List(Formatting) /\ Len(Formatting) = Blocks
  /\ \A i \in 1..Blocks : Formatting[i].do = "format" /\ Formatting[i].b = i - 1
<1>. DEFINE f == Formatting
            steps == {[do |-> "format", b |-> i - 1] : i \in 1..Blocks}
<1>1. /\ f \in [1..Blocks -> steps]
      /\ \A i \in 1..Blocks : f[i].do = "format" /\ f[i].b = i - 1
  BY DEF Formatting
<1>. HIDE DEF f, steps
<1>2. f \in Seq(steps) /\ Len(f) = Blocks
  BY <1>1, Geometry
<1>3. \A i \in 1..Len(f) : Plain(f[i])
  BY <1>1, <1>2 DEF Plain
<1>. QED BY <1>1, <1>2, <1>3, PlainList DEF f

LEMMA InUseKeeps ==
  ASSUME Missing = {}, magic' = magic, List(todo'), phase' \notin {"off", "mount", "format"}
  PROVE  MountInv'
<1>1. Missing' = {}
  BY DEF Missing
<1>. QED BY <1>1 DEF MountInv, Recoverable, Calm, Stopped, MountSafe, FormatSafe

LEMMA ContinueKeeps ==
  ASSUME MountInv, Opened \/ ReadIn \/ FileOpened \/ Written \/ Remounted \/ Removed
                   \/ CmdFormatted \/ CmdMounted \/ Command
  PROVE  MountInv'
<1>1. /\ todo = <<>> /\ magic' = magic
      /\ phase \notin {"off", "mount", "format"} /\ phase' \notin {"off", "mount", "format"}
      /\ \/ todo' \in {<<>>, Mounting, Formatting, Opening(TRUE), Opening(FALSE)}
         \/ todo' \in {<<Do("read")>>, <<Do("flush")>>, <<Do("remove")>>}
  <2>1. CASE Opened \/ ReadIn
    BY <2>1 DEF Opened, ReadIn, Returns, Idle, Calls, Begins, Writes, NoCallNow, Kept, flash
  <2>2. CASE FileOpened \/ Written
    BY <2>2 DEF FileOpened, Written, Returns, Idle, Calls, Begins, Ended, NoCallNow, Kept, flash
  <2>3. CASE Remounted \/ Removed \/ CmdFormatted \/ CmdMounted
    BY <2>3 DEF Remounted, Removed, CmdFormatted, CmdMounted, Returns, Idle, Calls, Begins,
                NoCallNow, Kept, flash
  <2>4. CASE \E value \in Contents : CmdSave(value)
    BY <2>4 DEF CmdSave, Commanded, Returns, Idle, Calls, Begins, Writes, Kept, flash
  <2>5. CASE CmdRemove
    BY <2>5 DEF CmdRemove, Commanded, Returns, Idle, Calls, Begins, Kept, flash
  <2>6. CASE CmdFormat
    BY <2>6 DEF CmdFormat, Commanded, Returns, Idle, Begins, flash
  <2>. QED BY <2>1, <2>2, <2>3, <2>4, <2>5, <2>6 DEF Command
<1>2. List(todo')
  BY <1>1, EmptyList, LiteralLists, FormattingList
<1>3. Missing = {}
  BY <1>1 DEF MountInv, Calm, Underway
<1>. QED BY <1>1, <1>2, <1>3, InUseKeeps

LEMMA BootKeeps == ASSUME MountInv, Boot PROVE MountInv'
<1>1. todo' = Mounting /\ rc' = "ok" /\ phase' = "mount" /\ magic' = magic
  BY DEF Boot, Calls, Begins, Kept, flash
<1>2. List(todo') /\ Missing' = Missing
  BY <1>1, LiteralLists DEF Missing
<1>. QED BY <1>1, <1>2 DEF MountInv, Recoverable, Calm, Stopped, MountSafe, FormatSafe

LEMMA MountedKeeps == ASSUME MountInv, Mounted PROVE MountInv'
<1>1. phase = "mount" /\ todo = <<>> /\ magic' = magic
  BY DEF Mounted, Returns, Idle, Calls, Begins, Kept, flash
<1>2. todo # Mounting /\ todo # <<Do("scan"), Do("tally")>>
  BY <1>1 DEF Mounting
<1>3. CASE rc = "ok"
  <2>1. todo' = Opening(FALSE) /\ phase' = "open"
    BY <1>3 DEF Mounted, Calls, Begins
  <2>2. Missing = {}
    BY <1>1, <1>2, <1>3 DEF MountInv, MountSafe, Finishing, Underway
  <2>3. List(todo')
    BY <2>1, LiteralLists
  <2>. QED BY <1>1, <2>1, <2>2, <2>3, InUseKeeps
<1>4. CASE rc # "ok"
  <2>1. todo' = Formatting /\ phase' = "format"
    BY <1>4 DEF Mounted, Calls, Begins
  <2>2. LastTwo \subseteq Missing
    BY <1>1, <1>2, <1>4 DEF MountInv, MountSafe, Finishing
  <2>3. Missing' = Missing /\ LastTwo' = LastTwo
    BY <1>1 DEF Missing, LastTwo
  <2>4. /\ Len(todo') = 0 + (Blocks - 0)
        /\ \A i \in 1..(Blocks - 0) : todo'[0 + i].do = "format" /\ todo'[0 + i].b = (0 + i) - 1
    <3>1. Blocks - 0 = Blocks /\ \A i \in 1..Blocks : 0 + i = i
      BY Geometry
    <3>. QED BY <2>1, <3>1, FormattingList
  <2>5. \A b \in Missing : ~(b < 0)
    BY Geometry DEF Bixes
  <2>6. Stage(0, 0)'
    BY <2>2, <2>3, <2>4, <2>5 DEF Stage
  <2>7. FormatSafe'
    BY <2>1, <2>6, Geometry DEF FormatSafe
  <2>8. List(todo')
    BY <2>1, FormattingList
  <2>. QED BY <2>1, <2>2, <2>3, <2>7, <2>8
           DEF MountInv, Recoverable, Calm, Stopped, MountSafe
<1>. QED BY <1>3, <1>4

LEMMA FormattedKeeps == ASSUME MountInv, Formatted PROVE MountInv'
<1>1. phase = "format" /\ todo = <<>> /\ magic' = magic /\ todo' = Mounting /\ phase' = "remount"
  BY DEF Formatted, Returns, Idle, Calls, Begins, Kept, flash
<1>2. PICK c \in 0..Blocks, k \in 0..3 : Stage(c, k)
  BY <1>1 DEF MountInv, FormatSafe
<1>3. k = 0 /\ c = Blocks
  <2>1. Len(todo) = 0
    BY <1>1
  <2>2. k + (Blocks - c) = 0
    BY <1>2, <2>1 DEF Stage
  <2>. QED BY <2>2, Geometry
<1>4. Missing = {}
  <2>1. \A b \in Missing : b < Blocks
    BY Geometry DEF Bixes
  <2>2. \A b \in Missing : ~(b < Blocks)
    BY <1>2, <1>3 DEF Stage
  <2>. QED BY <2>1, <2>2
<1>5. List(todo')
  BY <1>1, LiteralLists
<1>. QED BY <1>1, <1>4, <1>5, InUseKeeps

(* Power fails, or the node is reset.                                        *)
LEMMA OffKeeps == ASSUME MountInv, Reset \/ Cut PROVE MountInv'
<1>1. phase' = "off" /\ todo' = <<>> /\ magic' = magic
  BY DEF Reset, Cut, Off, flash
<1>2. List(todo') /\ Missing' = Missing
  BY <1>1, EmptyList DEF Missing
<1>. QED BY <1>1, <1>2 DEF MountInv, Recoverable, Calm, Stopped, MountSafe, FormatSafe

LEMMA InitMountInv == Init => MountInv
<1>. SUFFICES ASSUME Init PROVE MountInv
  OBVIOUS
<1>1. phase = "off" /\ todo = <<>> /\ magic = {}
  BY DEF Init, FlashInit
<1>2. LastTwo \subseteq Missing
  BY <1>1, Geometry DEF LastTwo, Missing, Bixes
<1>. QED BY <1>1, <1>2, EmptyList
         DEF MountInv, Recoverable, Calm, Stopped, MountSafe, FormatSafe

LEMMA WorkingKeeps == ASSUME MountInv, Working PROVE MountInv'
<1>1. SpiffsStep /\ UNCHANGED nodeVars /\ List(todo)
  BY DEF Working, MountInv
<1>. QED BY <1>1, Steps, OrdinaryKeeps, EraseKeeps, CountKeeps, MagicKeeps, FormatBlockKeeps,
            ForgetKeeps, ScanKeeps, TallyKeeps

LEMMA NextKeeps == MountInv /\ [Next]_vars => MountInv'
<1>. SUFFICES ASSUME MountInv, [Next]_vars PROVE MountInv'
  OBVIOUS
<1>1. CASE Next
  BY <1>1, WorkingKeeps, ContinueKeeps, BootKeeps, MountedKeeps, FormattedKeeps, OffKeeps
  DEF Next, Continue
<1>2. CASE UNCHANGED vars
  <2>1. UNCHANGED <<todo, magic, phase, rc>>
    BY <1>2 DEF vars, flash, spiffsVars, nodeVars
  <2>2. Missing' = Missing /\ Underway' = Underway /\ List(todo')
    BY <2>1 DEF Missing, Underway, MountInv
  <2>3. Recoverable' /\ Calm' /\ Stopped'
    BY <2>1, <2>2 DEF MountInv, Recoverable, Calm, Stopped
  <2>4. MountSafe'
    BY <2>1, <2>2 DEF MountInv, MountSafe, Finishing
  <2>5. ASSUME NEW c, NEW k, Stage(c, k) PROVE Stage(c, k)'
    BY <2>1, <2>2, <2>5 DEF Stage
  <2>6. FormatSafe'
    BY <2>1, <2>5 DEF MountInv, FormatSafe
  <2>. QED BY <2>2, <2>3, <2>4, <2>6 DEF MountInv
<1>. QED BY <1>1, <1>2

-----------------------------------------------------------------------------
(* Only Erase takes a magic away. *)

LEMMA MagicStays ==
  ASSUME MountInv, [Next]_vars, ~(Erase /\ UNCHANGED nodeVars)
  PROVE  Missing' \subseteq Missing
<1>1. magic \subseteq magic'
  <2>1. CASE Working
    <3>1. SpiffsStep /\ ~Erase /\ List(todo)
      BY <2>1 DEF Working, MountInv
    <3>2. Ordinary \/ WriteCount \/ WriteMagic \/ FormatBlock \/ Forget \/ Scan \/ Tally
      BY <3>1, Steps
    <3>. QED BY <3>2 DEF Ordinary, WriteCount, WriteMagic, FormatBlock, Forget, Scan, Tally, flash, Fails
  <2>2. CASE Continue
    BY <2>2 DEF Continue, Boot, Mounted, Formatted, Remounted, Opened, ReadIn, FileOpened, Written,
                Removed, CmdFormatted, CmdMounted, Calls, Writes, NoCallNow, Kept, flash
  <2>3. CASE Command
    BY <2>3 DEF Command, CmdSave, CmdRemove, CmdFormat, Writes, Calls, Kept, flash
  <2>4. CASE Reset \/ Cut
    BY <2>4 DEF Reset, Cut, Off, flash
  <2>5. CASE UNCHANGED vars
    BY <2>5 DEF vars, flash
  <2>. QED BY <2>1, <2>2, <2>3, <2>4, <2>5 DEF Next
<1>. QED BY <1>1 DEF Missing

LEMMA StepStaysMountable ==
  ASSUME MountInv, [Next]_vars, Cardinality(Missing) <= 1
  PROVE  Cardinality(Missing') <= 1
<1>1. CASE Erase /\ UNCHANGED nodeVars
  <2>1. Missing \subseteq {Step.b}
    <3>1. Cardinality(Missing) \in Nat
      BY Geometry, FS_CardinalityType
    <3>. QED BY <1>1, <3>1, EraseSafe, LastTwoMissing
  <2>2. magic' = magic \ {Step.b}
    BY <1>1 DEF Erase, EraseBlock
  <2>3. Missing' \subseteq {Step.b}
    BY <2>1, <2>2 DEF Missing
  <2>. QED BY <2>3, OneMissing
<1>2. CASE ~(Erase /\ UNCHANGED nodeVars)
  <2>1. Missing' \subseteq Missing
    BY <1>2, MagicStays
  <2>2. Cardinality(Missing') <= Cardinality(Missing) /\ Cardinality(Missing) \in Nat
        /\ Cardinality(Missing') \in Nat
    BY <2>1, Geometry, FS_Subset, FS_CardinalityType
  <2>. QED BY <2>2
<1>. QED BY <1>1, <1>2

(* Whatever is saved, removed and formatted, and wherever and however often   *)
(* power fails: once at most one block is without its magic, so that          *)
(* spiffs_obj_lu_scan mounts the flash, this is so ever after.                *)
THEOREM MountableForEver == Spec => StaysMountable
<1>1. Init => MountInv
  BY InitMountInv
<1>2. MountInv /\ [Next]_vars => MountInv'
  BY NextKeeps
<1>3. MountInv /\ [Next]_vars =>
        [Cardinality(Bixes \ magic) <= 1 => Cardinality(Bixes \ magic') <= 1]_vars
  BY StepStaysMountable DEF Missing
<1>. QED BY <1>1, <1>2, <1>3, PTL DEF Spec, StaysMountable

-----------------------------------------------------------------------------
(* Sets of numbers. *)

LEMMA LeastNatural ==
  ASSUME NEW T, T \subseteq Nat, T # {}
  PROVE  \E x \in T : \A y \in T : ~(y < x)
<1>1. \E x \in T : \A y \in T : <<y, x>> \notin OpToRel(<, Nat)
  BY WFMin, NatLessThanWellFounded
<1>. QED BY <1>1 DEF OpToRel

LEMMA MinIn ==
  ASSUME NEW S, S \subseteq Nat, S # {}
  PROVE  Min(S) \in S
<1>1. PICK x \in S : \A y \in S : ~(y < x)
  BY LeastNatural
<1>2. \A y \in S : x <= y
  BY <1>1
<1>. QED BY <1>1, <1>2 DEF Min

LEMMA MaxIn ==
  ASSUME NEW n \in Nat, NEW S, S \subseteq 0..n, S # {}
  PROVE  Max(S) \in S
<1>. DEFINE T == {m \in Nat : \A y \in S : y <= m}
<1>1. n \in T
  OBVIOUS
<1>2. PICK x \in T : \A y \in T : ~(y < x)
  <2>1. T \subseteq Nat /\ T # {}
    BY <1>1
  <2>. HIDE DEF T
  <2>. QED BY <2>1, LeastNatural
<1>3. x \in S
  <2>. SUFFICES ASSUME x \notin S PROVE FALSE
    OBVIOUS
  <2>1. \A y \in S : y <= x - 1 /\ y >= 0
    BY <1>2
  <2>2. x \in Nat /\ x - 1 >= 0
    <3>1. PICK y \in S : TRUE
      OBVIOUS
    <3>. QED BY <1>2, <2>1, <3>1
  <2>3. x - 1 \in T
    BY <2>1, <2>2
  <2>. QED BY <1>2, <2>2, <2>3
<1>4. \A y \in S : x >= y
  BY <1>2
<1>. QED BY <1>3, <1>4 DEF Max

(* Of finitely many numbers, one is the greatest: by the least number of     *)
(* them of which none is.                                                    *)
LEMMA Greatest ==
  ASSUME NEW n \in Nat, NEW f, \A i \in 0..n : f[i] \in Int
  PROVE  \E i \in 0..n : \A j \in 0..n : f[j] <= f[i]
<1>. DEFINE Best(m) == \E i \in 0..m : \A j \in 0..m : f[j] <= f[i]
            T == {m \in 0..n : ~Best(m)}
<1>1. Best(0)
  <2>1. \A j \in 0..0 : f[j] <= f[0]
    OBVIOUS
  <2>. QED BY <2>1
<1>2. ASSUME NEW m \in 0..n, m # 0, Best(m - 1)
      PROVE  Best(m)
  <2>1. PICK i \in 0..(m - 1) : \A j \in 0..(m - 1) : f[j] <= f[i]
    BY <1>2
  <2>2. \A j \in 0..m : j \in 0..(m - 1) \/ j = m
    OBVIOUS
  <2>3. CASE f[m] <= f[i]
    <3>1. \A j \in 0..m : f[j] <= f[i]
      BY <2>1, <2>2, <2>3
    <3>. QED BY <3>1
  <2>4. CASE ~(f[m] <= f[i])
    <3>1. \A j \in 0..m : f[j] <= f[m]
      BY <2>1, <2>2, <2>4
    <3>. QED BY <3>1
  <2>. QED BY <2>3, <2>4
<1>3. T = {}
  <2>. SUFFICES ASSUME T # {} PROVE FALSE
    OBVIOUS
  <2>1. T \subseteq Nat
    OBVIOUS
  <2>2. PICK m \in T : \A k \in T : ~(k < m)
    <3>. HIDE DEF T
    <3>. QED BY <2>1, LeastNatural
  <2>. HIDE DEF Best
  <2>3. m # 0 /\ m \in 0..n /\ ~Best(m)
    BY <1>1, <2>2
  <2>4. m - 1 \in 0..n /\ m - 1 \notin T
    BY <2>2, <2>3
  <2>. QED BY <1>2, <2>3, <2>4
<1>4. Best(n)
  <2>. HIDE DEF Best
  <2>. QED BY <1>3
<1>. QED BY <1>4

-----------------------------------------------------------------------------
(* Words of the flash. *)

(* The ids of entries written: a data page's and, IX_FLAG above it, its      *)
(* header's, neither of which is all ones.                                   *)
Id == Words \ {IX_FLAG - 1, ONES}

LEMMA Bits ==
  ASSUME NEW w \in Words
  PROVE  /\ \A n \in {1, 2, 4, 8, 16} : Bit(w, n) \in {0, 1}
         /\ w = Bit(w, 1) + (2 * Bit(w, 2)) + (4 * Bit(w, 4)) + (8 * Bit(w, 8)) + (16 * Bit(w, 16))
  BY DEF Bit, Words, ONES

LEMMA Conjunction ==
  ASSUME NEW v \in Words, NEW w \in Words
  PROVE  /\ And(v, w) \in Words
         /\ And(v, w) = ONES => w = ONES
         /\ And(v, w) = IX_FLAG - 1 => v = IX_FLAG - 1 \/ w = IX_FLAG - 1
<1>. DEFINE a(n) == Bit(v, n)
            b(n) == Bit(w, n)
            c(n) == IF a(n) = 1 /\ b(n) = 1 THEN n ELSE 0
<1>1. /\ a(1) \in {0, 1} /\ a(2) \in {0, 1} /\ a(4) \in {0, 1} /\ a(8) \in {0, 1} /\ a(16) \in {0, 1}
      /\ v = a(1) + (2 * a(2)) + (4 * a(4)) + (8 * a(8)) + (16 * a(16))
  BY Bits
<1>2. /\ b(1) \in {0, 1} /\ b(2) \in {0, 1} /\ b(4) \in {0, 1} /\ b(8) \in {0, 1} /\ b(16) \in {0, 1}
      /\ w = b(1) + (2 * b(2)) + (4 * b(4)) + (8 * b(8)) + (16 * b(16))
  BY Bits
<1>3. And(v, w) = c(1) + c(2) + c(4) + c(8) + c(16)
  BY DEF And
<1>. HIDE DEF a, b
<1>4. And(v, w) \in Words
  BY <1>1, <1>2, <1>3 DEF Words, ONES
<1>5. And(v, w) = ONES => w = ONES
  BY <1>1, <1>2, <1>3 DEF ONES
<1>6. And(v, w) = IX_FLAG - 1 => v = IX_FLAG - 1 \/ w = IX_FLAG - 1
  BY <1>1, <1>2, <1>3 DEF ONES, IX_FLAG
<1>. QED BY <1>4, <1>5, <1>6

(* What is written to an entry stays an id, whatever was there.              *)
LEMMA EntryStaysId ==
  ASSUME NEW v \in Id \cup {FREE}, NEW id \in Id
  PROVE  And(v, id) \in Id
<1>1. v \in Words /\ id \in Words /\ id # ONES /\ id # IX_FLAG - 1 /\ v # IX_FLAG - 1
  BY DEF Id, Words, FREE, ONES, IX_FLAG
<1>. QED BY <1>1, Conjunction DEF Id

LEMMA OverlaidPage ==
  ASSUME NEW p \in Page, NEW q \in Page
  PROVE  Overlaid(p, q) \in Page
<1>1. Joined(p.data, q.data) \in Contents \cup {Erased, Mixed}
  BY DEF Joined, Page
<1>2. And(p.id, q.id) \in 0..ONES /\ And(p.size, q.size) \in 0..ONES /\ And(p.ref, q.ref) \in 0..ONES
  BY Conjunction DEF Page, Words
<1>3. p.flags \cup q.flags \in SUBSET Flags /\ (p.named \/ q.named) \in BOOLEAN
  BY DEF Page
<1>. QED BY <1>1, <1>2, <1>3 DEF Overlaid, Page

-----------------------------------------------------------------------------
(* Blocks and pages. *)

LEMMA Products ==
  ASSUME NEW m \in Nat, m > 0, NEW a \in Nat, NEW b \in Nat, a < b
  PROVE  /\ a * m \in Nat /\ b * m \in Nat
         /\ (a * m) + m <= b * m
<1>1. PICK d \in Nat : b = a + (d + 1)
  <2>1. b - a - 1 \in Nat /\ b = a + ((b - a - 1) + 1)
    OBVIOUS
  <2>. QED BY <2>1
<1>2. b * m = (a * m) + (d * m) + m /\ d * m >= 0 /\ a * m \in Nat /\ b * m \in Nat
  BY <1>1
<1>. QED BY <1>2

LEMMA Division ==
  ASSUME NEW m \in Nat, m > 0, NEW b \in Nat, NEW r \in 0..(m - 1)
  PROVE  ((b * m) + r) \div m = b /\ ((b * m) + r) % m = r
<1>. DEFINE n == (b * m) + r
            q == n \div m
            t == n % m
<1>1. n \in Nat
  OBVIOUS
<1>2. q \in Nat /\ t \in 0..(m - 1) /\ n = (q * m) + t
  OBVIOUS
<1>. HIDE DEF q, t
<1>3. (q * m) + t = (b * m) + r
  BY <1>2
<1>4. ~(q < b)
  BY <1>2, <1>3, Products
<1>5. ~(b < q)
  BY <1>2, <1>3, Products
<1>6. q = b
  BY <1>2, <1>4, <1>5
<1>. QED BY <1>2, <1>3, <1>6 DEF q, t

LEMMA Sizes ==
  /\ PagesPerBlock \in Nat /\ PagesPerBlock = Entries + 1 /\ PagesPerBlock > 1
  /\ Entries \in Nat /\ Entries > 0
  /\ Pages \in Nat /\ Pages < ONES /\ Pages = Blocks * PagesPerBlock
  /\ Blocks \in Nat /\ Blocks > 2
  /\ Objects \subseteq 1..(Pages - 1)
  /\ Bixes \subseteq Nat /\ IsFiniteSet(Bixes)
<1>1. /\ PagesPerBlock \in Nat /\ PagesPerBlock = Entries + 1 /\ PagesPerBlock > 1
      /\ Entries \in Nat /\ Entries > 0 /\ Blocks \in Nat /\ Blocks > 2
  BY FlashAssumption DEF PagesPerBlock
<1>2. Pages \in Nat /\ Pages = Blocks * PagesPerBlock
  BY <1>1 DEF Pages
<1>3. Objects \subseteq 1..(Pages - 1)
  <2>. SUFFICES ASSUME NEW p \in Objects PROVE p \in 1..(Pages - 1)
    OBVIOUS
  <2>1. p \in 0..(Pages - 1) /\ p % PagesPerBlock # 0
    BY DEF Objects
  <2>2. 0 % PagesPerBlock = 0
    BY <1>1
  <2>. QED BY <1>2, <2>1, <2>2
<1>4. Bixes \subseteq Nat /\ IsFiniteSet(Bixes)
  BY <1>1, FS_Interval DEF Bixes
<1>. QED BY <1>1, <1>2, <1>3, <1>4, PagesAreWords

(* The pages of a block are objects of it and of no other.                   *)
LEMMA BlockPages ==
  ASSUME NEW b \in Bixes
  PROVE  /\ Block(b) \subseteq Objects
         /\ \A p \in Block(b) : BlockOf(p) = b
         /\ FirstPage(b) \in Block(b)
<1>1. b \in Nat /\ b < Blocks
  BY Sizes DEF Bixes
<1>2. /\ b * PagesPerBlock \in Nat /\ Pages \in Nat
      /\ (b * PagesPerBlock) + PagesPerBlock <= Pages
  BY <1>1, Sizes, Products
<1>3. FirstPage(b) = (b * PagesPerBlock) + 1
  BY DEF FirstPage
<1>4. ASSUME NEW p \in Block(b)
      PROVE  p \in Objects /\ BlockOf(p) = b
  <2>. DEFINE r == p - (b * PagesPerBlock)
              s == b * PagesPerBlock
  <2>1. p \in Int /\ p >= s + 1 /\ p <= s + Entries /\ s \in Nat
    BY <1>2, <1>3, Sizes DEF Block
  <2>2. r \in 1..Entries /\ r \in 0..(PagesPerBlock - 1) /\ p = s + r
    BY <2>1, Sizes
  <2>. HIDE DEF r
  <2>3. p \div PagesPerBlock = b /\ p % PagesPerBlock = r
    BY <1>1, <2>2, Sizes, Division
  <2>4. p \in 0..(Pages - 1)
    BY <1>2, <2>1, <2>2, Sizes
  <2>. QED BY <2>2, <2>3, <2>4 DEF Objects, BlockOf
<1>5. FirstPage(b) \in Block(b)
  BY <1>2, <1>3, Sizes DEF Block
<1>. QED BY <1>4, <1>5

LEMMA PageBlock ==
  ASSUME NEW p \in Objects
  PROVE  BlockOf(p) \in Bixes /\ p \in Words /\ p \in Nat
<1>1. p \in 1..(Pages - 1) /\ p \in Nat
  BY Sizes
<1>. DEFINE q == p \div PagesPerBlock
            t == p % PagesPerBlock
<1>2. q \in Nat /\ t \in Nat /\ p = (q * PagesPerBlock) + t
  BY <1>1, Sizes
<1>. HIDE DEF q, t
<1>3. q < Blocks
  <2>. SUFFICES ASSUME ~(q < Blocks) PROVE FALSE
    OBVIOUS
  <2>1. Blocks = q \/ Blocks < q
    BY <1>2, Sizes
  <2>2. Blocks * PagesPerBlock <= q * PagesPerBlock /\ q * PagesPerBlock \in Nat
    BY <1>2, <2>1, Sizes, Products
  <2>. QED BY <1>1, <1>2, <2>2, Sizes
<1>4. BlockOf(p) \in Bixes
  BY <1>2, <1>3, Sizes DEF Bixes, BlockOf, q
<1>. QED BY <1>1, <1>4, Sizes DEF Words, ONES

LEMMA FirstObject == 1 \in Objects
<1>1. 0 \in Bixes
  BY Sizes DEF Bixes
<1>2. FirstPage(0) = 1
  BY Sizes DEF FirstPage
<1>. QED BY <1>1, <1>2, BlockPages

LEMMA NearestIn ==
  ASSUME NEW s \in Int, NEW S, S \subseteq Objects, S # {}
  PROVE  FirstFrom(s, S) \in S
<1>. DEFINE T == {Distance(s, p) : p \in S}
<1>1. ASSUME NEW p \in S
      PROVE  Distance(s, p) \in Nat
  <2>1. (p - s) + Pages \in Int /\ Pages \in Nat /\ Pages > 0
    <3>1. p \in 1..(Pages - 1) /\ Pages \in Nat
      BY Sizes
    <3>. QED BY <3>1
  <2>. QED BY <2>1 DEF Distance
<1>2. T \subseteq Nat /\ T # {}
  BY <1>1
<1>3. PICK d \in T : \A e \in T : ~(e < d)
  <2>. HIDE DEF T
  <2>. QED BY <1>2, LeastNatural
<1>4. PICK p \in S : d = Distance(s, p)
  BY <1>3
<1>5. \A q \in S : Distance(s, p) <= Distance(s, q)
  BY <1>1, <1>3, <1>4
<1>. QED BY <1>5 DEF FirstFrom

LEMMA StartIsNumber == \A c \in Int : Start(c) \in Int
<1>. TAKE c \in Int
<1>1. Pages \in Nat /\ Pages > 0
  BY Sizes, FirstObject
<1>2. c % Pages \in Int
  BY <1>1
<1>. QED BY <1>2 DEF Start

-----------------------------------------------------------------------------
(* The types of the state. *)

FsType == [mounted : BOOLEAN, free_blocks : Nat, allocated : Int, deleted : Int,
           max_erase_count : Words, free_cursor : 1..Pages, cursor : Int, cleaning : BOOLEAN]
FdType == [open : BOOLEAN, named : BOOLEAN, obj : 0..(ONES - 1), hdr : {0} \cup Objects, size : Words]
CallType == [name : {"none", "mount", "open", "read", "format", "flush", "remove"}, fd : Fds,
             value : Contents \cup {Erased, Mixed}]
FlashTyped ==
  /\ lu \in [Objects -> Id \cup {FREE}] /\ page \in [Objects -> Page]
  /\ magic \subseteq Bixes /\ count \in [Bixes -> Words]
Typed ==
  /\ FlashTyped
  /\ fs \in FsType /\ fds \in [Fds -> FdType] /\ work \in Page /\ dst \in Objects
  /\ call \in CallType
  /\ config \in Contents \cup {Mixed} /\ stored \in Contents \cup {Mixed, NoFile}

LEMMA TypedIsTypeOK == Typed => TypeOK
<1>. SUFFICES ASSUME Typed PROVE TypeOK
  OBVIOUS
<1>1. Id \cup {FREE} \subseteq 0..ONES
  BY DEF Id, Words, FREE, ONES
<1>2. FlashTypeOK
  BY <1>1 DEF Typed, FlashTyped, FlashTypeOK, Words
<1>3. fs.free_cursor \in 1..Pages /\ fs.free_blocks >= 0
  BY DEF Typed, FsType
<1>4. \A f \in Fds : fds[f].hdr \in {0} \cup Objects
  BY DEF Typed, FdType
<1>. QED BY <1>2, <1>3, <1>4 DEF Typed, TypeOK

LEMMA ErasedIsPage == ErasedPage \in Page
  BY DEF ErasedPage, Page, ONES

LEMMA FdsNotEmpty == 1 \in Fds
  BY SpiffsAssumption DEF Fds

LEMMA FreshTypes == FreshFs \in FsType /\ FreshFds \in [Fds -> FdType] /\ NoCall \in CallType
<1>1. FreshFs \in FsType
  <2>1. 1 \in 1..Pages
    BY Sizes, FirstObject
  <2>. QED BY <2>1 DEF FreshFs, FsType, Words, ONES
<1>2. FreshFds \in [Fds -> FdType]
  BY DEF FreshFds, FdType, Words, ONES, DELETED
<1>3. NoCall \in CallType
  BY FdsNotEmpty DEF NoCall, CallType
<1>. QED BY <1>1, <1>2, <1>3

(* What the searches find. *)
LEMMA SubsetOfObjects ==
  ASSUME NEW S, S \subseteq Objects, S # {}
  PROVE  Min(S) \in S /\ Min(S) \in Objects
<1>1. S \subseteq Nat
  BY Sizes
<1>. QED BY <1>1, MinIn

LEMMA SubsetOfBixes ==
  ASSUME NEW S, S \subseteq Bixes, S # {}
  PROVE  Min(S) \in S /\ Min(S) \in Bixes
<1>1. S \subseteq Nat
  BY Sizes
<1>. QED BY <1>1, MinIn

LEMMA SubsetOfFds ==
  ASSUME NEW S, S \subseteq Fds, S # {}
  PROVE  Min(S) \in S /\ Min(S) \in Fds
<1>1. S \subseteq Nat
  BY DEF Fds
<1>. QED BY <1>1, MinIn

LEMMA BlockCounts ==
  ASSUME NEW b \in Bixes
  PROVE  \A S : S \subseteq Block(b) => IsFiniteSet(S) /\ Cardinality(S) \in Nat
<1>1. FirstPage(b) \in Int /\ Entries \in Int
  BY Sizes DEF FirstPage
<1>2. IsFiniteSet(Block(b))
  BY <1>1, FS_Interval DEF Block
<1>. QED BY <1>2, FS_Subset, FS_CardinalityType

LEMMA CandidateIsBlock == ASSUME Typed PROVE Candidate \in Bixes
<1>1. ASSUME NEW b \in Bixes
      PROVE  Score(b) \in Int
  <2>. DEFINE deleted == Cardinality({p \in Counted(b) : lu[p] = DELETED})
  <2>1. Counted(b) \subseteq Block(b) /\ {p \in Counted(b) : lu[p] = DELETED} \subseteq Block(b)
    BY DEF Counted
  <2>2. deleted \in Int /\ Cardinality(Counted(b)) \in Int
    BY <2>1, BlockCounts
  <2>3. count[b] \in Int /\ fs.max_erase_count \in Int /\ fs.allocated \in Int /\ fs.deleted \in Int
    BY DEF Typed, FlashTyped, FsType, Words, ONES
  <2>4. Age(b) \in Int
    BY <2>3 DEF Age, ONES
  <2>5. Weights.deleted \in Int /\ Weights.used \in Int /\ Weights.age \in Int
    BY SpiffsAssumption
  <2>6. PICK w \in Int : w = IF FreePages <= 0 THEN 0 ELSE Weights.age
    BY <2>5
  <2>7. Score(b) = (deleted * Weights.deleted) + ((Cardinality(Counted(b)) - deleted) * Weights.used)
                     + (Age(b) * w)
    BY <2>6 DEF Score
  <2>. HIDE DEF deleted
  <2>. QED BY <2>2, <2>4, <2>5, <2>6, <2>7
<1>. DEFINE f == [b \in Bixes |-> Score(b)]
            B == {b \in Bixes : \A c \in Bixes : Score(c) <= Score(b)}
<1>2. Bixes = 0..(Blocks - 1) /\ Blocks - 1 \in Nat
  BY Sizes DEF Bixes
<1>3. \A i \in 0..(Blocks - 1) : f[i] \in Int
  BY <1>1, <1>2
<1>4. PICK b \in Bixes : \A c \in Bixes : f[c] <= f[b]
  <2>. HIDE DEF f
  <2>. QED BY <1>2, <1>3, Greatest
<1>5. B # {} /\ B \subseteq Bixes
  BY <1>4
<1>. QED BY <1>5, SubsetOfBixes DEF Candidate

LEMMA NextCountIsWord == ASSUME Typed PROVE NextEraseCount \in Words
<1>. DEFINE counts == {count[b] : b \in Bixes} \ {ONES}
            low == IF counts = {} THEN ONES ELSE Min(counts)
            high == IF counts = {} THEN 0 ELSE Max(counts)
<1>1. counts \subseteq 0..30
  BY DEF Typed, FlashTyped, Words, ONES
<1>2. counts # {} => low \in 0..30 /\ high \in 0..30
  <2>1. counts \subseteq Nat
    BY <1>1
  <2>. HIDE DEF counts
  <2>2. counts # {} => Min(counts) \in counts /\ Max(counts) \in counts
    BY <1>1, <2>1, MinIn, MaxIn
  <2>. QED BY <1>1, <2>2
<1>3. counts = {} => low = 31 /\ high = 0
  BY DEF ONES
<1>4. NextEraseCount = IF high - low > ONES \div 2 THEN low + 1 ELSE high + 1
  BY DEF NextEraseCount
<1>. HIDE DEF counts, low, high
<1>. QED BY <1>2, <1>3, <1>4 DEF Words, ONES

-----------------------------------------------------------------------------
(* The steps that may be on the list, with what they need: some only that    *)
(* the flash is mounted, some that the descriptor of the call knows a header. *)
Loose == {"format", "erase", "count", "magic", "scan", "tally", "read", "close"}
OnMount == {"find_free", "take_free", "page", "entry", "final", "unlink", "scrap", "refer", "store",
            "update", "move", "delete", "gc_check", "gc_run", "gc_next", "gc_find", "gc_data",
            "gc_index", "gc_erase", "index", "mark", "created", "fail"}
OnFile == {"flush", "modify", "append", "truncate"}
HasHeader == fs.mounted /\ fds[call.fd].hdr \in Objects
Allowed ==
  Loose \cup (IF fs.mounted THEN OnMount ELSE {}) \cup (IF HasHeader THEN OnFile ELSE {})

StepTyped(x) ==
  /\ x.do \in {"erase", "count", "magic", "format", "gc_erase", "gc_find", "gc_data", "gc_index"}
       => x.b \in Bixes
  /\ x.do \in {"entry", "store"} => x.id \in Id
  /\ x.do = "page" => x.image \in Page
  /\ x.do = "index" => x.size \in Words
  /\ x.do = "gc_data" => x.id \in Id /\ x.id + IX_FLAG \in Id
  /\ x.do \in {"find_free", "take_free"} => x.full \in {<<>>, <<Indexing(0)>>}

(* A page that is found is written, and its entry, before another is looked  *)
(* for; a header is created once its entry and its page are written.         *)
Seated(s, i) ==
  /\ s[i].do \in {"find_free", "take_free"} =>
       /\ i < Len(s)
       /\ \/ s[i + 1].do = "entry"
          \/ s[i + 1].do = "page" /\ i + 1 < Len(s) /\ s[i + 2].do = "entry"
  /\ s[i].do = "created" =>
       /\ i = Len(s)
       /\ i > 1 => s[i - 1].do = "page"
       /\ i > 2 => s[i - 2].do = "entry"
Body(s, D) ==
  /\ \E S : s \in Seq(S)
  /\ \A i \in 1..Len(s) : s[i].do \in D /\ StepTyped(s[i]) /\ Seated(s, i)
Shape ==
  \/ Body(todo, Allowed)
  \/ todo \in {Opening(TRUE), Opening(FALSE), <<Do("remove")>>, Mounting}
  \/ /\ fs.mounted
     /\ \E p \in Objects :
          /\ lu[p] # FREE
          /\ todo = <<ByPage(p)>> \/ todo = <<ByPage(p), Do("mark"), Do("truncate")>>

(* The page of a header just created is no longer free.                      *)
CreatedSafe == \A i \in 1..Len(todo) : i <= 2 /\ todo[i].do = "created" => lu[dst] # FREE

(* An open that succeeds leaves a descriptor with a header.                  *)
Enders == {"open", "by_page", "created", "fail"}
OpenSafe ==
  phase \in {"defaults", "save"} =>
    IF todo = <<>> THEN rc = "ok" => HasHeader ELSE todo[Len(todo)].do \in Enders

(* Blocks counted as free: all of them, less the one whose first page is     *)
(* taken and not yet entered in the lookup.                                  *)
AtEntry ==
  /\ todo # <<>>
  /\ \/ todo[1].do = "entry"
     \/ todo[1].do = "page" /\ Len(todo) > 1 /\ todo[2].do = "entry"
Taken == IF AtEntry THEN {b \in Bixes : FirstPage(b) = dst} ELSE {}
CountSafe == fs.mounted => Cardinality(FreeBlocks \ Taken) <= fs.free_blocks

FileInv == Typed /\ Shape /\ CreatedSafe /\ OpenSafe /\ CountSafe

LEMMA EmptyBody == \A D : Body(<<>>, D)
<1>1. <<>> \in Seq({})
  OBVIOUS
<1>. QED BY <1>1 DEF Body

LEMMA WiderBody ==
  ASSUME NEW s, NEW D, NEW E, D \subseteq E, Body(s, D)
  PROVE  Body(s, E)
  BY DEF Body

LEMMA JoinedBody ==
  ASSUME NEW D, NEW s, Body(s, D \ {"created"}), NEW t, Body(t, D),
         \A i \in 1..Len(t) : t[i].do = "created" => i > 2
  PROVE  /\ Body(s \o t, D)
         /\ \A i \in 1..Len(s \o t) : (s \o t)[i].do = "created" => i > 2
<1>1. PICK S : s \in Seq(S)
  BY DEF Body
<1>2. PICK T : t \in Seq(T)
  BY DEF Body
<1>3. s \in Seq(S \cup T) /\ t \in Seq(S \cup T)
  BY <1>1, <1>2
<1>. DEFINE st == s \o t
            n == Len(s)
            m == Len(t)
<1>4. st \in Seq(S \cup T) /\ Len(st) = n + m /\ n \in Nat /\ m \in Nat
  BY <1>3
<1>5. \A i \in 1..n : st[i] = s[i]
  BY <1>3
<1>6. \A i \in (n + 1)..(n + m) : st[i] = t[i - n]
  BY <1>3
<1>. HIDE DEF st, n, m
<1>7. \A i \in 1..n : s[i].do \in D /\ s[i].do # "created" /\ StepTyped(s[i]) /\ Seated(s, i)
  BY DEF Body, n
<1>8. \A j \in 1..m : t[j].do \in D /\ (t[j].do = "created" => j > 2) /\ StepTyped(t[j]) /\ Seated(t, j)
  BY DEF Body, m
<1>9. ASSUME NEW i \in 1..n
      PROVE  st[i].do \in D /\ st[i].do # "created" /\ StepTyped(st[i]) /\ Seated(st, i)
  <2>1. i < n => st[i + 1] = s[i + 1]
    BY <1>4, <1>5
  <2>2. i + 1 < n => st[i + 2] = s[i + 2]
    BY <1>4, <1>5
  <2>3. st[i] = s[i] /\ i <= n /\ i \in Nat
    BY <1>4, <1>5
  <2>4. Seated(st, i)
    BY <1>4, <1>7, <2>1, <2>2, <2>3 DEF Seated, n
  <2>. QED BY <1>7, <2>3, <2>4
<1>10. ASSUME NEW i \in (n + 1)..(n + m)
       PROVE  /\ st[i].do \in D /\ StepTyped(st[i]) /\ Seated(st, i)
              /\ st[i].do = "created" => i > 2
  <2>1. PICK j \in 1..m : i = n + j
    <3>1. i - n \in 1..m /\ i = n + (i - n)
      BY <1>4
    <3>. QED BY <3>1
  <2>2. st[i] = t[j] /\ i \in Nat /\ j \in Nat
    BY <1>4, <1>6, <2>1
  <2>3. j < m => st[i + 1] = t[j + 1]
    BY <1>4, <1>6, <2>1
  <2>4. j + 1 < m => st[i + 2] = t[j + 2]
    BY <1>4, <1>6, <2>1
  <2>5. j > 2 => st[i - 1] = t[j - 1] /\ st[i - 2] = t[j - 2]
    BY <1>4, <1>6, <2>1
  <2>6. t[j].do = "created" =>
          i = n + m /\ j > 2 /\ i > 2 /\ t[j - 1].do = "page" /\ t[j - 2].do = "entry"
    BY <1>4, <1>8, <2>1, <2>2 DEF Seated, m
  <2>7. st[i].do \in {"find_free", "take_free"} =>
          /\ i < n + m
          /\ \/ st[i + 1].do = "entry"
             \/ st[i + 1].do = "page" /\ i + 1 < n + m /\ st[i + 2].do = "entry"
    BY <1>4, <1>8, <2>1, <2>2, <2>3, <2>4 DEF Seated, m
  <2>8. Seated(st, i)
    BY <1>4, <2>2, <2>5, <2>6, <2>7 DEF Seated
  <2>. QED BY <1>8, <2>2, <2>6, <2>8
<1>11. \A i \in 1..Len(st) : i \in 1..n \/ i \in (n + 1)..(n + m)
  BY <1>4
<1>12. Body(st, D)
  BY <1>4, <1>9, <1>10, <1>11 DEF Body
<1>13. \A i \in 1..Len(st) : st[i].do = "created" => i > 2
  BY <1>9, <1>10, <1>11
<1>. QED BY <1>12, <1>13 DEF st

LEMMA TailBody ==
  ASSUME NEW s, NEW D, Body(s, D), s # <<>>
  PROVE  /\ Body(Tail(s), D)
         /\ Len(Tail(s)) = Len(s) - 1 /\ Len(s) \in Nat /\ Len(s) >= 1
         /\ \A i \in 1..(Len(s) - 1) : Tail(s)[i] = s[i + 1]
         /\ Head(s) = s[1] /\ s[1].do \in D /\ StepTyped(s[1]) /\ Seated(s, 1)
         /\ s[1].do \notin {"page", "entry"} =>
              \A i \in 1..Len(Tail(s)) : Tail(s)[i].do = "created" => i > 2
<1>1. PICK S : s \in Seq(S)
  BY DEF Body
<1>. DEFINE t == Tail(s)
<1>2. t \in Seq(S) /\ Len(t) = Len(s) - 1 /\ Len(s) \in Nat /\ Len(s) >= 1
  BY <1>1
<1>3. \A i \in 1..(Len(s) - 1) : t[i] = s[i + 1]
  BY <1>1
<1>4. Head(s) = s[1]
  BY <1>1
<1>5. \A i \in 1..Len(s) : s[i].do \in D /\ StepTyped(s[i]) /\ Seated(s, i)
  BY DEF Body
<1>. HIDE DEF t
<1>6. ASSUME NEW i \in 1..Len(t)
      PROVE  t[i].do \in D /\ StepTyped(t[i]) /\ Seated(t, i)
  <2>1. t[i] = s[i + 1] /\ i + 1 \in 1..Len(s) /\ i \in Nat
    BY <1>2, <1>3
  <2>2. i < Len(t) => t[i + 1] = s[i + 2]
    BY <1>2, <1>3
  <2>3. i + 1 < Len(t) => t[i + 2] = s[i + 3]
    BY <1>2, <1>3
  <2>4. i > 1 => t[i - 1] = s[i]
    BY <1>2, <1>3
  <2>5. i > 2 => t[i - 2] = s[i - 1]
    BY <1>2, <1>3
  <2>6. s[i + 1].do \in D /\ StepTyped(s[i + 1]) /\ Seated(s, i + 1)
    BY <1>5, <2>1
  <2>7. Seated(t, i)
    BY <1>2, <2>1, <2>2, <2>3, <2>4, <2>5, <2>6 DEF Seated
  <2>. QED BY <2>1, <2>6, <2>7
<1>7. Body(t, D)
  BY <1>2, <1>6 DEF Body
<1>8. ASSUME s[1].do \notin {"page", "entry"}, NEW i \in 1..Len(t), t[i].do = "created"
      PROVE  i > 2
  <2>1. t[i] = s[i + 1] /\ i + 1 \in 1..Len(s) /\ i \in Nat /\ i >= 1
    BY <1>2, <1>3
  <2>2. Seated(s, i + 1) /\ s[i + 1].do = "created"
    BY <1>5, <1>8, <2>1
  <2>3. s[(i + 1) - 1].do = "page" /\ (i + 1 > 2 => s[(i + 1) - 2].do = "entry")
    BY <2>1, <2>2 DEF Seated
  <2>4. i # 1
    BY <1>8, <2>3
  <2>5. i # 2
    <3>. SUFFICES ASSUME i = 2 PROVE FALSE
      OBVIOUS
    <3>1. s[1].do = "entry"
      BY <2>3
    <3>. QED BY <1>8, <3>1
  <2>. QED BY <2>1, <2>4, <2>5
<1>. QED BY <1>2, <1>3, <1>4, <1>5, <1>7, <1>8 DEF t

-----------------------------------------------------------------------------
(* The lists the actions put in place of a step. *)

Quiet(x, D) == x.do \in D \ {"find_free", "take_free", "created"} /\ StepTyped(x)

LEMMA QuietBody ==
  ASSUME NEW D, NEW S, NEW s \in Seq(S), \A i \in 1..Len(s) : Quiet(s[i], D)
  PROVE  Body(s, D \ {"created"})
<1>1. \A i \in 1..Len(s) : Seated(s, i)
  BY DEF Quiet, Seated
<1>. QED BY <1>1 DEF Body, Quiet

LEMMA QuietOne ==
  ASSUME NEW D, NEW u, Quiet(u, D)
  PROVE  Body(<<u>>, D \ {"created"})
<1>. DEFINE s == <<u>>
<1>1. s \in Seq({u}) /\ Len(s) = 1 /\ s[1] = u
  OBVIOUS
<1>. HIDE DEF s
<1>2. \A i \in 1..Len(s) : Quiet(s[i], D)
  BY <1>1
<1>. QED BY <1>1, <1>2, QuietBody DEF s

LEMMA QuietTwo ==
  ASSUME NEW D, NEW u, Quiet(u, D), NEW v, Quiet(v, D)
  PROVE  Body(<<u, v>>, D \ {"created"})
<1>. DEFINE s == <<u, v>>
<1>1. s \in Seq({u, v}) /\ Len(s) = 2 /\ s[1] = u /\ s[2] = v
  OBVIOUS
<1>. HIDE DEF s
<1>2. \A i \in 1..Len(s) : Quiet(s[i], D)
  BY <1>1
<1>. QED BY <1>1, <1>2, QuietBody DEF s

LEMMA QuietThree ==
  ASSUME NEW D, NEW u, Quiet(u, D), NEW v, Quiet(v, D), NEW w, Quiet(w, D)
  PROVE  Body(<<u, v, w>>, D \ {"created"})
<1>. DEFINE s == <<u, v, w>>
<1>1. s \in Seq({u, v, w}) /\ Len(s) = 3 /\ s[1] = u /\ s[2] = v /\ s[3] = w
  OBVIOUS
<1>. HIDE DEF s
<1>2. \A i \in 1..Len(s) : Quiet(s[i], D)
  BY <1>1
<1>. QED BY <1>1, <1>2, QuietBody DEF s

(* A page that is looked for and then written.                               *)
LEMMA FoundBody ==
  ASSUME NEW D, NEW S, NEW s \in Seq(S), Len(s) > 1,
         s[1].do \in D \cap {"find_free", "take_free"}, StepTyped(s[1]),
         \A i \in 2..Len(s) : Quiet(s[i], D),
         \/ s[2].do = "entry"
         \/ s[2].do = "page" /\ Len(s) > 2 /\ s[3].do = "entry"
  PROVE  Body(s, D \ {"created"})
<1>1. \A i \in 1..Len(s) : i = 1 \/ i \in 2..Len(s)
  OBVIOUS
<1>2. Seated(s, 1)
  BY DEF Seated
<1>3. \A i \in 2..Len(s) : Seated(s, i)
  BY DEF Quiet, Seated
<1>4. \A i \in 1..Len(s) : s[i].do \in D \ {"created"} /\ StepTyped(s[i]) /\ Seated(s, i)
  BY <1>1, <1>2, <1>3 DEF Quiet
<1>. QED BY <1>4 DEF Body

LEMMA TypedSteps ==
  /\ StepTyped(FindingFree) /\ StepTyped(FindingOr(<<Indexing(0)>>))
  /\ \A image \in Page : StepTyped(Putting(image))
  /\ \A id \in Id : StepTyped(Linking(id))
  /\ \A id, p : id \in Id => StepTyped([do |-> "store", id |-> id, p |-> p])
  /\ \A size \in Words : StepTyped(Indexing(size))
  /\ \A b, p : b \in Bixes => StepTyped(Finding(b, p)) /\ StepTyped(MovingIndex(b, p))
  /\ \A b, p, id, h, back : b \in Bixes /\ id \in Id /\ id + IX_FLAG \in Id
                              => StepTyped(MovingData(b, p, id, h, back))
  /\ \A b \in Bixes : /\ StepTyped([do |-> "gc_erase", b |-> b])
                      /\ StepTyped([do |-> "erase", b |-> b])
                      /\ StepTyped([do |-> "count", b |-> b])
                      /\ StepTyped([do |-> "magic", b |-> b])
                      /\ StepTyped([do |-> "format", b |-> b])
<1>1. StepTyped(FindingFree) /\ StepTyped(FindingOr(<<Indexing(0)>>))
  BY DEF StepTyped, FindingFree, FindingOr
<1>2. \A image \in Page : StepTyped(Putting(image))
  BY DEF StepTyped, Putting
<1>3. \A id \in Id : StepTyped(Linking(id))
  BY DEF StepTyped, Linking
<1>4. \A id, p : id \in Id => StepTyped([do |-> "store", id |-> id, p |-> p])
  BY DEF StepTyped
<1>5. \A size \in Words : StepTyped(Indexing(size))
  BY DEF StepTyped, Indexing
<1>6. \A b, p : b \in Bixes => StepTyped(Finding(b, p)) /\ StepTyped(MovingIndex(b, p))
  BY DEF StepTyped, Finding, MovingIndex
<1>7. \A b, p, id, h, back : b \in Bixes /\ id \in Id /\ id + IX_FLAG \in Id
                               => StepTyped(MovingData(b, p, id, h, back))
  BY DEF StepTyped, MovingData
<1>8. \A b \in Bixes : StepTyped([do |-> "gc_erase", b |-> b])
  BY DEF StepTyped
<1>9. \A b \in Bixes : StepTyped([do |-> "erase", b |-> b])
  BY DEF StepTyped
<1>10. \A b \in Bixes : StepTyped([do |-> "count", b |-> b])
  BY DEF StepTyped
<1>11. \A b \in Bixes : StepTyped([do |-> "magic", b |-> b])
  BY DEF StepTyped
<1>12. \A b \in Bixes : StepTyped([do |-> "format", b |-> b])
  BY DEF StepTyped
<1>. QED BY <1>1, <1>2, <1>3, <1>4, <1>5, <1>6, <1>7, <1>8, <1>9, <1>10, <1>11, <1>12

LEMMA UntypedSteps ==
  /\ \A d \in {"final", "fail", "created", "refer", "close", "mark", "truncate", "read", "flush",
               "modify", "append", "scan", "tally"} : StepTyped(Do(d))
  /\ \A id : StepTyped(Event("update", id)) /\ StepTyped(Event("move", id))
             /\ StepTyped(Event("delete", id))
  /\ \A p : StepTyped([do |-> "unlink", p |-> p]) /\ StepTyped([do |-> "scrap", p |-> p])
  /\ \A len : StepTyped(Checking(len))
  /\ \A len, tries : StepTyped(Running(len, tries))
  /\ \A len, tries, prev :
       StepTyped([do |-> "gc_next", len |-> len, tries |-> tries, prev |-> prev])
<1>1. \A d \in {"final", "fail", "created", "refer", "close", "mark", "truncate", "read", "flush",
                "modify", "append", "scan", "tally"} : StepTyped(Do(d))
  BY DEF StepTyped, Do
<1>2. \A id : StepTyped(Event("update", id)) /\ StepTyped(Event("move", id))
              /\ StepTyped(Event("delete", id))
  BY DEF StepTyped, Event
<1>3. \A p : StepTyped([do |-> "unlink", p |-> p]) /\ StepTyped([do |-> "scrap", p |-> p])
  BY DEF StepTyped
<1>4. \A len : StepTyped(Checking(len))
  BY DEF StepTyped, Checking
<1>5. \A len, tries : StepTyped(Running(len, tries))
  BY DEF StepTyped, Running
<1>6. \A len, tries, prev :
        StepTyped([do |-> "gc_next", len |-> len, tries |-> tries, prev |-> prev])
  BY DEF StepTyped
<1>. QED BY <1>1, <1>2, <1>3, <1>4, <1>5, <1>6

LEMMA ErasingBody ==
  ASSUME NEW D, Loose \subseteq D, NEW b \in Bixes
  PROVE  Body(Erasing(b), D \ {"created"})
<1>. DEFINE u == [do |-> "erase", b |-> b]
            v == [do |-> "count", b |-> b]
            w == [do |-> "magic", b |-> b]
<1>1. Quiet(u, D) /\ Quiet(v, D) /\ Quiet(w, D)
  BY TypedSteps DEF Quiet, Loose
<1>2. Erasing(b) = <<u, v, w>>
  BY DEF Erasing
<1>. HIDE DEF u, v, w
<1>. QED BY <1>1, <1>2, QuietThree

LEMMA DeletingBody ==
  ASSUME NEW D, OnMount \subseteq D, NEW p
  PROVE  Body(Deleting(p), D \ {"created"})
<1>. DEFINE u == [do |-> "unlink", p |-> p]
            v == [do |-> "scrap", p |-> p]
<1>1. Quiet(u, D) /\ Quiet(v, D)
  BY UntypedSteps DEF Quiet, OnMount
<1>2. Deleting(p) = <<u, v>>
  BY DEF Deleting
<1>. HIDE DEF u, v
<1>. QED BY <1>1, <1>2, QuietTwo

LEMMA Joined2 ==
  ASSUME NEW D, NEW s, Body(s, D \ {"created"}), NEW t, Body(t, D \ {"created"})
  PROVE  Body(s \o t, D \ {"created"})
<1>1. \A i \in 1..Len(t) : t[i].do # "created"
  BY DEF Body
<1>2. (D \ {"created"}) \ {"created"} = D \ {"created"}
  OBVIOUS
<1>. QED BY <1>1, <1>2, JoinedBody

LEMMA MovingBody ==
  ASSUME NEW D, OnMount \subseteq D, NEW image \in Page, NEW id \in Id, NEW src
  PROVE  Body(Moving(image, id, src), D \ {"created"})
<1>. DEFINE u == FindingFree
            v == Putting(image)
            w == Linking(id)
            s == <<u, v, w>>
<1>1. /\ u.do = "find_free" /\ v.do = "page" /\ w.do = "entry"
      /\ StepTyped(u) /\ StepTyped(v) /\ StepTyped(w)
  BY TypedSteps DEF FindingFree, FindingOr, Putting, Linking
<1>2. Moving(image, id, src) = s \o Deleting(src)
  BY DEF Moving
<1>. HIDE DEF u, v, w
<1>3. s \in Seq({u, v, w}) /\ Len(s) = 3 /\ s[1] = u /\ s[2] = v /\ s[3] = w
  OBVIOUS
<1>. HIDE DEF s
<1>4. Quiet(v, D) /\ Quiet(w, D) /\ u.do \in D
  BY <1>1 DEF Quiet, OnMount
<1>5. \A i \in 2..Len(s) : i = 2 \/ i = 3
  BY <1>3
<1>6. \A i \in 2..Len(s) : Quiet(s[i], D)
  BY <1>3, <1>4, <1>5
<1>7. Body(s, D \ {"created"})
  <2>1. /\ Len(s) > 1 /\ s[1].do \in D \cap {"find_free", "take_free"} /\ StepTyped(s[1])
        /\ \/ s[2].do = "entry"
           \/ s[2].do = "page" /\ Len(s) > 2 /\ s[3].do = "entry"
    BY <1>1, <1>3, <1>4
  <2>. QED BY <1>3, <1>6, <2>1, FoundBody, Zenon
<1>. QED BY <1>2, <1>7, DeletingBody, Joined2

LEMMA MovingHeaderBody ==
  ASSUME NEW D, OnMount \subseteq D, work \in Page, NEW id \in Id, NEW src
  PROVE  Body(MovingHeader(id, src), D \ {"created"})
<1>. DEFINE image == [work EXCEPT !.flags = (@ \ {"final"}) \cup {"used"}]
            u == FindingFree
            v == Putting(image)
            w == Linking(id)
            x == Do("final")
            s == <<u, v, w, x>>
<1>1. image \in Page
  BY DEF Page, Flags
<1>2. MovingHeader(id, src) = s \o Deleting(src)
  BY DEF MovingHeader
<1>. HIDE DEF image
<1>3. /\ u.do = "find_free" /\ v.do = "page" /\ w.do = "entry" /\ x.do = "final"
      /\ StepTyped(u) /\ StepTyped(v) /\ StepTyped(w) /\ StepTyped(x)
  BY <1>1, TypedSteps, UntypedSteps DEF FindingFree, FindingOr, Putting, Linking, Do
<1>. HIDE DEF u, v, w, x
<1>4. s \in Seq({u, v, w, x}) /\ Len(s) = 4 /\ s[1] = u /\ s[2] = v /\ s[3] = w /\ s[4] = x
  OBVIOUS
<1>. HIDE DEF s
<1>5. Quiet(v, D) /\ Quiet(w, D) /\ Quiet(x, D) /\ u.do \in D
  BY <1>3 DEF Quiet, OnMount
<1>6. \A i \in 2..Len(s) : i = 2 \/ i = 3 \/ i = 4
  BY <1>4
<1>7. \A i \in 2..Len(s) : Quiet(s[i], D)
  BY <1>4, <1>5, <1>6
<1>8. Body(s, D \ {"created"})
  <2>1. /\ Len(s) > 1 /\ s[1].do \in D \cap {"find_free", "take_free"} /\ StepTyped(s[1])
        /\ \/ s[2].do = "entry"
           \/ s[2].do = "page" /\ Len(s) > 2 /\ s[3].do = "entry"
    BY <1>3, <1>4, <1>5
  <2>. QED BY <1>4, <1>7, <2>1, FoundBody, Zenon
<1>. QED BY <1>2, <1>8, DeletingBody, Joined2

-----------------------------------------------------------------------------
(* One step of a call. *)

LEMMA SomeSeq == ASSUME Shape PROVE \E S : todo \in Seq(S)
<1>1. CASE Body(todo, Allowed)
  BY <1>1 DEF Body
<1>2. CASE todo \in {Opening(TRUE), Opening(FALSE)}
  <2>1. PICK x : todo = <<x>>
    BY <1>2 DEF Opening
  <2>2. <<x>> \in Seq({x})
    OBVIOUS
  <2>. QED BY <2>1, <2>2
<1>3. CASE todo = <<Do("remove")>>
  <2>1. todo \in Seq({Do("remove")})
    BY <1>3
  <2>. QED BY <2>1
<1>4. CASE todo = Mounting
  <2>1. todo \in Seq({Do("forget"), Do("scan"), Do("tally")})
    BY <1>4 DEF Mounting
  <2>. QED BY <2>1
<1>5. ASSUME NEW p, todo = <<ByPage(p)>> \/ todo = <<ByPage(p), Do("mark"), Do("truncate")>>
      PROVE  \E S : todo \in Seq(S)
  <2>. DEFINE u == ByPage(p)
              v == Do("mark")
              w == Do("truncate")
  <2>1. todo = <<u>> \/ todo = <<u, v, w>>
    BY <1>5
  <2>. HIDE DEF u, v, w
  <2>2. <<u>> \in Seq({u, v, w}) /\ <<u, v, w>> \in Seq({u, v, w})
    OBVIOUS
  <2>. QED BY <2>1, <2>2
<1>. QED BY <1>1, <1>2, <1>3, <1>4, <1>5 DEF Shape

LEMMA HeadOf ==
  ASSUME Shape, NEW d, At(d)
  PROVE  /\ todo # <<>> /\ Step = todo[1] /\ todo[1].do = d
         /\ Len(todo) \in Nat /\ Len(todo) >= 1
<1>1. PICK S : todo \in Seq(S)
  BY SomeSeq
<1>. QED BY <1>1 DEF At, Step

Firsts == {"open", "remove", "forget", "by_page"}

LEMMA AtStep ==
  ASSUME Shape, NEW d, d \notin Firsts, At(d)
  PROVE  /\ Body(todo, Allowed) /\ StepTyped(Step)
         /\ d \in OnMount \cup OnFile => fs.mounted
         /\ d \in OnFile => HasHeader
<1>1. todo # <<>> /\ Step = todo[1] /\ todo[1].do = d
  BY HeadOf
<1>2. Body(todo, Allowed)
  <2>1. todo \notin {Opening(TRUE), Opening(FALSE)}
    BY <1>1 DEF Opening, Firsts
  <2>2. todo # <<Do("remove")>> /\ todo # Mounting
    BY <1>1 DEF Mounting, Do, Firsts
  <2>3. \A p : todo # <<ByPage(p)>> /\ todo # <<ByPage(p), Do("mark"), Do("truncate")>>
    BY <1>1 DEF ByPage, Firsts
  <2>. QED BY <2>1, <2>2, <2>3 DEF Shape
<1>3. StepTyped(Step) /\ d \in Allowed
  BY <1>1, <1>2, TailBody
<1>4. d \in OnMount => d \notin Loose \cup OnFile
  BY DEF OnMount, Loose, OnFile
<1>5. d \in OnFile => d \notin Loose \cup OnMount
  BY DEF OnMount, Loose, OnFile
<1>6. d \in OnMount => fs.mounted
  BY <1>3, <1>4 DEF Allowed
<1>7. d \in OnFile => HasHeader
  BY <1>3, <1>5 DEF Allowed
<1>. QED BY <1>2, <1>3, <1>6, <1>7 DEF HasHeader

LEMMA MoreAllowed ==
  ASSUME fs.mounted => fs'.mounted, HasHeader => HasHeader'
  PROVE  Allowed \subseteq Allowed'
  BY DEF Allowed

LEMMA MountedAllows == fs.mounted => OnMount \subseteq Allowed
  BY DEF Allowed

LEMMA LooseAllowed == Loose \subseteq Allowed
  BY DEF Allowed

(* The blocks counted as free, when the step is not the entry of a page.     *)
LEMMA NoneTaken ==
  ASSUME Shape, NEW d, At(d), d \notin {"page", "entry"}
  PROVE  Taken = {}
  BY HeadOf DEF Taken, AtEntry

LEMMA BixesFinite ==
  ASSUME NEW S, S \subseteq Bixes
  PROVE  IsFiniteSet(S) /\ Cardinality(S) \in Nat
  BY Sizes, FS_Subset, FS_CardinalityType

LEMMA FewerBlocks ==
  ASSUME NEW S, NEW T, S \subseteq T, T \subseteq Bixes
  PROVE  Cardinality(S) <= Cardinality(T) /\ Cardinality(S) \in Nat /\ Cardinality(T) \in Nat
<1>1. IsFiniteSet(T) /\ Cardinality(T) \in Nat /\ Cardinality(S) \in Nat
  BY BixesFinite
<1>. QED BY <1>1, FS_Subset

LEMMA FreeBlocksAreBlocks == FreeBlocks \subseteq Bixes
  BY DEF FreeBlocks

LEMMA CountKept ==
  ASSUME FileInv, NEW d, At(d), d \notin {"page", "entry"},
         lu' = lu, fs'.mounted <=> fs.mounted, fs'.free_blocks = fs.free_blocks
  PROVE  CountSafe'
<1>. SUFFICES ASSUME fs.mounted
     PROVE  Cardinality(FreeBlocks' \ Taken') <= fs.free_blocks
  BY DEF CountSafe
<1>1. FreeBlocks' = FreeBlocks
  BY DEF FreeBlocks
<1>2. Taken = {}
  BY NoneTaken DEF FileInv
<1>3. Cardinality(FreeBlocks \ Taken) <= fs.free_blocks /\ FreeBlocks \ Taken = FreeBlocks
  BY <1>2 DEF FileInv, CountSafe
<1>4. FreeBlocks' \ Taken' \subseteq FreeBlocks
  BY <1>1
<1>5. Cardinality(FreeBlocks' \ Taken') <= Cardinality(FreeBlocks)
      /\ Cardinality(FreeBlocks' \ Taken') \in Nat /\ Cardinality(FreeBlocks) \in Nat
  BY <1>4, FreeBlocksAreBlocks, FewerBlocks
<1>6. fs.free_blocks \in Nat
  BY DEF FileInv, Typed, FsType
<1>. QED BY <1>3, <1>5, <1>6

(* A step that puts the list s before what is left, t.                       *)
LEMMA ProgressOn ==
  ASSUME FileInv, NEW d, d \notin Firsts \cup {"created", "fail", "page", "entry"}, At(d),
         NEW s, Body(s, Allowed' \ {"created"}), NEW t, Body(t, Allowed'),
         \A i \in 1..Len(t) : t[i].do = "created" => i > 2,
         Len(todo) > 1 => Len(t) >= 1 /\ t[Len(t)] = todo[Len(todo)],
         todo' = s \o t,
         Typed', CountSafe', phase' = phase
  PROVE  FileInv'
<1>1. /\ todo # <<>> /\ todo[1].do = d /\ Len(todo) \in Nat /\ Len(todo) >= 1
  BY HeadOf DEF FileInv
<1>2. /\ Body(todo', Allowed')
      /\ \A i \in 1..Len(todo') : todo'[i].do = "created" => i > 2
  BY JoinedBody
<1>3. Shape'
  BY <1>2 DEF Shape
<1>4. CreatedSafe'
  <2>1. Len(todo') \in Nat
    BY <1>2 DEF Body
  <2>. QED BY <1>2, <2>1 DEF CreatedSafe
<1>5. OpenSafe'
  <2>. SUFFICES ASSUME phase \in {"defaults", "save"}
       PROVE  todo' # <<>> /\ todo'[Len(todo')].do \in Enders
    BY DEF OpenSafe
  <2>1. todo[Len(todo)].do \in Enders
    BY <1>1 DEF FileInv, OpenSafe
  <2>2. Len(todo) # 1
    BY <1>1, <2>1 DEF Enders, Firsts
  <2>3. Len(t) >= 1 /\ t[Len(t)] = todo[Len(todo)]
    <3>1. \A n \in Nat : n >= 1 /\ n # 1 => n > 1
      OBVIOUS
    <3>2. Len(todo) > 1
      BY <1>1, <2>2, <3>1, Zenon
    <3>. QED BY <3>2, Zenon
  <2>4. PICK S, T : s \in Seq(S) /\ t \in Seq(T)
    BY DEF Body
  <2>5. s \in Seq(S \cup T) /\ t \in Seq(S \cup T)
    BY <2>4
  <2>6. Len(s \o t) = Len(s) + Len(t) /\ (s \o t)[Len(s) + Len(t)] = t[Len(t)] /\ Len(s) \in Nat
        /\ Len(t) \in Nat
    BY <2>3, <2>5
  <2>7. s \o t # <<>>
    BY <2>3, <2>6
  <2>. QED BY <2>1, <2>3, <2>6, <2>7
<1>. QED BY <1>3, <1>4, <1>5 DEF FileInv

LEMMA Progress ==
  ASSUME FileInv, NEW d, d \notin Firsts \cup {"created", "fail", "page", "entry"}, At(d),
         NEW s, Body(s, Allowed' \ {"created"}), Then(s),
         Typed', Allowed \subseteq Allowed', CountSafe', phase' = phase
  PROVE  FileInv'
<1>1. /\ todo # <<>> /\ todo[1].do = d
      /\ Len(todo) \in Nat /\ Len(todo) >= 1 /\ Body(todo, Allowed)
  BY HeadOf, AtStep DEF FileInv
<1>. DEFINE t == Tail(todo)
<1>2. /\ Body(t, Allowed') /\ Len(t) = Len(todo) - 1
      /\ \A i \in 1..(Len(todo) - 1) : t[i] = todo[i + 1]
      /\ \A i \in 1..Len(t) : t[i].do = "created" => i > 2
  BY <1>1, TailBody, WiderBody
<1>3. todo' = s \o t
  BY DEF Then
<1>. HIDE DEF t
<1>4. Len(todo) > 1 => Len(t) >= 1 /\ t[Len(t)] = todo[Len(todo)]
  BY <1>1, <1>2
<1>. QED BY <1>2, <1>3, <1>4, ProgressOn

LEMMA Popped ==
  ASSUME FileInv, NEW d, d \notin Firsts \cup {"created", "fail", "page", "entry"}, At(d), Then(<<>>),
         Typed', Allowed \subseteq Allowed', CountSafe', phase' = phase
  PROVE  FileInv'
  BY Progress, EmptyBody

(* A step that fails.                                                        *)
LEMMA FdsReturned ==
  ASSUME fds \in [Fds -> FdType], call \in CallType
  PROVE  /\ Returned(fds) \in [Fds -> FdType]
         /\ \A f \in Fds : Returned(fds)[f].hdr = fds[f].hdr
  BY DEF Returned, FdType

LEMMA FailKeeps ==
  ASSUME FileInv, NEW d, d \notin {"page", "entry"}, At(d), Fails, UNCHANGED nodeVars
  PROVE  FileInv'
<1>1. /\ todo' = <<>> /\ rc' = "failed" /\ fds' = Returned(fds)
      /\ fs' = [fs EXCEPT !.cleaning = FALSE]
      /\ UNCHANGED <<lu, page, magic, count, work, dst, call, phase, config, stored>>
  BY DEF Fails, flash, nodeVars
<1>2. Typed
  BY DEF FileInv
<1>3. fs' \in FsType /\ (fs'.mounted <=> fs.mounted) /\ fs'.free_blocks = fs.free_blocks
  BY <1>1, <1>2 DEF Typed, FsType
<1>4. Typed'
  BY <1>1, <1>2, <1>3, FdsReturned DEF Typed, FlashTyped
<1>5. Shape'
  <2>1. Body(todo', Allowed')
    BY <1>1, EmptyBody
  <2>. QED BY <2>1 DEF Shape
<1>6. CreatedSafe'
  <2>1. Len(todo') = 0
    BY <1>1
  <2>. QED BY <2>1 DEF CreatedSafe
<1>7. OpenSafe'
  BY <1>1 DEF OpenSafe
<1>8. CountSafe'
  BY <1>1, <1>3, CountKept
<1>. QED BY <1>4, <1>5, <1>6, <1>7, <1>8 DEF FileInv

-----------------------------------------------------------------------------
(* Steps that leave the lookup and the count of free blocks alone. *)

LEMMA AwayFromLookup ==
  ASSUME FileInv, NEW d, d \notin Firsts \cup {"created", "fail", "page", "entry"}, At(d),
         NEW s, Body(s, Allowed \ {"created"}), Then(s),
         lu' = lu, page' \in [Objects -> Page], magic' \subseteq Bixes, count' \in [Bixes -> Words],
         fs' \in FsType, fs'.mounted <=> fs.mounted, fs'.free_blocks = fs.free_blocks,
         fds' \in [Fds -> FdType],
         fds[call.fd].hdr \in Objects => fds'[call.fd].hdr \in Objects,
         work' \in Page, dst' = dst, call' = call, UNCHANGED nodeVars
  PROVE  FileInv'
<1>1. UNCHANGED <<phase, config, stored>>
  BY DEF nodeVars
<1>2. Typed'
  BY <1>1 DEF FileInv, Typed, FlashTyped
<1>3. Allowed \subseteq Allowed'
  BY MoreAllowed DEF HasHeader
<1>4. Body(s, Allowed' \ {"created"})
  BY <1>3, WiderBody
<1>5. CountSafe'
  BY CountKept
<1>. QED BY <1>1, <1>2, <1>3, <1>4, <1>5, Progress

LEMMA OnlyTodo ==
  ASSUME FileInv, NEW d, d \notin Firsts \cup {"created", "fail", "page", "entry"}, At(d),
         NEW s, Body(s, Allowed \ {"created"}), Then(s), work' \in Page,
         UNCHANGED <<flash, fds, dst, call>>, UNCHANGED nodeVars,
         fs' \in FsType, fs'.mounted <=> fs.mounted, fs'.free_blocks = fs.free_blocks
  PROVE  FileInv'
<1>1. /\ lu' = lu /\ page' \in [Objects -> Page] /\ magic' \subseteq Bixes
      /\ count' \in [Bixes -> Words] /\ fds' \in [Fds -> FdType] /\ fds' = fds
      /\ dst' = dst /\ call' = call
  BY DEF flash, FileInv, Typed, FlashTyped
<1>. QED BY <1>1, AwayFromLookup

LEMMA SameFs ==
  ASSUME FileInv, fs' = fs
  PROVE  fs' \in FsType /\ (fs'.mounted <=> fs.mounted) /\ fs'.free_blocks = fs.free_blocks
  BY DEF FileInv, Typed

LEMMA FollowedTypes ==
  ASSUME Typed, NEW id, NEW new \in {0} \cup Objects, NEW size \in Words
  PROVE  /\ Followed(id, new, size) \in [Fds -> FdType]
         /\ \A f \in Fds : Followed(id, new, size)[f].hdr \in {fds[f].hdr, new}
<1>1. ASSUME NEW f \in Fds
      PROVE  /\ Followed(id, new, size)[f] \in FdType
             /\ Followed(id, new, size)[f].hdr \in {fds[f].hdr, new}
  <2>1. fds[f] \in FdType
    BY DEF Typed
  <2>2. CASE fds[f].obj # id \/ ~fds[f].named
    <3>1. Followed(id, new, size)[f] = fds[f]
      BY <2>2 DEF Followed
    <3>. QED BY <2>1, <3>1
  <2>3. CASE ~(fds[f].obj # id \/ ~fds[f].named)
    <3>1. Followed(id, new, size)[f] =
            [fds[f] EXCEPT !.hdr = new, !.size = IF size = 0 THEN @ ELSE size]
      BY <2>3 DEF Followed
    <3>. QED BY <2>1, <3>1 DEF FdType
  <2>. QED BY <2>2, <2>3
<1>2. Followed(id, new, size) = [f \in Fds |-> Followed(id, new, size)[f]]
  BY DEF Followed
<1>. QED BY <1>1, <1>2

LEMMA DroppedTypes ==
  ASSUME Typed, NEW id
  PROVE  /\ Dropped(id) \in [Fds -> FdType]
         /\ \A f \in Fds : Dropped(id)[f].hdr = fds[f].hdr
<1>1. ASSUME NEW f \in Fds
      PROVE  Dropped(id)[f] \in FdType /\ Dropped(id)[f].hdr = fds[f].hdr
  <2>1. fds[f] \in FdType
    BY DEF Typed
  <2>2. CASE fds[f].obj = id
    <3>1. Dropped(id)[f] = [fds[f] EXCEPT !.open = FALSE, !.obj = DELETED]
      BY <2>2 DEF Dropped
    <3>2. DELETED \in 0..(ONES - 1)
      BY DEF DELETED, ONES
    <3>. QED BY <2>1, <3>1, <3>2 DEF FdType
  <2>3. CASE fds[f].obj # id
    <3>1. Dropped(id)[f] = fds[f]
      BY <2>3 DEF Dropped
    <3>. QED BY <2>1, <3>1
  <2>. QED BY <2>2, <2>3
<1>2. Dropped(id) = [f \in Fds |-> Dropped(id)[f]]
  BY DEF Dropped
<1>. QED BY <1>1, <1>2

LEMMA ImageWritten ==
  ASSUME Typed, NEW p, NEW image \in Page
  PROVE  [page EXCEPT ![p] = Overlaid(@, image)] \in [Objects -> Page]
<1>1. p \in Objects => Overlaid(page[p], image) \in Page
  BY OverlaidPage DEF Typed, FlashTyped
<1>. QED BY <1>1 DEF Typed, FlashTyped

LEMMA FlagsWritten ==
  ASSUME Typed, NEW p, NEW f \in SUBSET Flags
  PROVE  [page EXCEPT ![p].flags = @ \cup f] \in [Objects -> Page]
<1>1. p \in Objects => [page[p] EXCEPT !.flags = @ \cup f] \in Page
  <2>. SUFFICES ASSUME p \in Objects PROVE [page[p] EXCEPT !.flags = @ \cup f] \in Page
    OBVIOUS
  <2>1. page[p] \in Page
    BY DEF Typed, FlashTyped
  <2>. QED BY <2>1 DEF Page
<1>. QED BY <1>1 DEF Typed, FlashTyped

-----------------------------------------------------------------------------
(* Steps that are only taken off the list. *)

LEMMA CountTyped == ASSUME FileInv, WriteCount, UNCHANGED nodeVars PROVE FileInv'
<1>1. /\ At("count") /\ Then(<<>>) /\ lu' = lu /\ page' = page /\ magic' = magic
      /\ count' = [count EXCEPT ![Step.b] = And(@, fs.max_erase_count)]
      /\ UNCHANGED <<fs, fds, work, dst, call>>
  BY DEF WriteCount
<1>2. Typed
  BY DEF FileInv
<1>3. count' \in [Bixes -> Words]
  <2>1. \A v \in Words : And(v, fs.max_erase_count) \in Words
    BY <1>2, Conjunction DEF Typed, FsType
  <2>. QED BY <1>1, <1>2, <2>1 DEF Typed, FlashTyped
<1>4. page' \in [Objects -> Page] /\ magic' \subseteq Bixes /\ fds' \in [Fds -> FdType] /\ work' \in Page
      /\ fds' = fds /\ dst' = dst /\ call' = call
  BY <1>1, <1>2 DEF Typed, FlashTyped
<1>5. fs' \in FsType /\ (fs'.mounted <=> fs.mounted) /\ fs'.free_blocks = fs.free_blocks
  BY <1>1, SameFs
<1>6. "count" \notin Firsts \cup {"created", "fail", "page", "entry"}
  BY DEF Firsts
<1>. QED BY <1>1, <1>3, <1>4, <1>5, <1>6, EmptyBody, AwayFromLookup

LEMMA MagicTyped == ASSUME FileInv, WriteMagic, UNCHANGED nodeVars PROVE FileInv'
<1>1. /\ At("magic") /\ Then(<<>>) /\ lu' = lu /\ page' = page /\ count' = count
      /\ magic' = magic \cup {Step.b}
      /\ fs' = [fs EXCEPT !.max_erase_count = IF @ + 1 = IX_FLAG THEN 0 ELSE (@ + 1) % (ONES + 1)]
      /\ UNCHANGED <<fds, work, dst, call>>
  BY DEF WriteMagic
<1>2. Typed
  BY DEF FileInv
<1>3. Step.b \in Bixes
  <2>1. StepTyped(Step) /\ Step.do = "magic"
    BY <1>1, AtStep, HeadOf DEF FileInv, Firsts
  <2>. QED BY <2>1 DEF StepTyped
<1>4. page' \in [Objects -> Page] /\ magic' \subseteq Bixes /\ fds' \in [Fds -> FdType] /\ work' \in Page
      /\ fds' = fds /\ dst' = dst /\ call' = call /\ count' \in [Bixes -> Words]
  BY <1>1, <1>2, <1>3 DEF Typed, FlashTyped
<1>5. fs' \in FsType /\ (fs'.mounted <=> fs.mounted) /\ fs'.free_blocks = fs.free_blocks
  <2>1. fs \in FsType
    BY <1>2 DEF Typed
  <2>2. PICK n \in Words : n = IF fs.max_erase_count + 1 = IX_FLAG THEN 0
                               ELSE (fs.max_erase_count + 1) % (ONES + 1)
    <3>1. fs.max_erase_count \in Nat
      BY <2>1 DEF FsType, Words, ONES
    <3>2. (fs.max_erase_count + 1) % 32 \in 0..31
      BY <3>1
    <3>. QED BY <3>2 DEF Words, ONES
  <2>3. fs' = [fs EXCEPT !.max_erase_count = n]
    BY <1>1, <2>2
  <2>. QED BY <2>1, <2>3 DEF FsType
<1>6. "magic" \notin Firsts \cup {"created", "fail", "page", "entry"}
  BY DEF Firsts
<1>. QED BY <1>1, <1>4, <1>5, <1>6, EmptyBody, AwayFromLookup

(* Flags are written to the page found, to one left behind, or to a header.  *)
LEMMA FlagStep ==
  ASSUME FileInv, NEW d \in {"final", "scrap", "mark"}, At(d), Then(<<>>),
         NEW p, NEW f \in SUBSET Flags, WriteFlags(p, f),
         UNCHANGED <<lu, magic, count, fs, fds, work, dst, call>>, UNCHANGED nodeVars
  PROVE  FileInv'
<1>1. Typed
  BY DEF FileInv
<1>2. page' \in [Objects -> Page]
  BY <1>1, FlagsWritten DEF WriteFlags
<1>3. magic' \subseteq Bixes /\ fds' \in [Fds -> FdType] /\ work' \in Page
      /\ fds' = fds /\ dst' = dst /\ call' = call /\ count' \in [Bixes -> Words] /\ lu' = lu
  BY <1>1 DEF Typed, FlashTyped
<1>4. fs' \in FsType /\ (fs'.mounted <=> fs.mounted) /\ fs'.free_blocks = fs.free_blocks
  BY SameFs
<1>5. d \notin Firsts \cup {"created", "fail", "page", "entry"}
  BY DEF Firsts
<1>. QED BY <1>2, <1>3, <1>4, <1>5, EmptyBody, AwayFromLookup

LEMMA FlagsKeep ==
  ASSUME FileInv, Finalize \/ Scrap \/ Mark, UNCHANGED nodeVars
  PROVE  FileInv'
<1>1. /\ {"used", "final"} \in SUBSET Flags /\ {"used", "delet"} \in SUBSET Flags
      /\ {"used", "final", "index", "ixdele"} \in SUBSET Flags
  BY DEF Flags
<1>2. CASE Finalize
  BY <1>1, <1>2, FlagStep DEF Finalize
<1>3. CASE Scrap
  BY <1>1, <1>3, FlagStep DEF Scrap
<1>4. CASE Mark
  BY <1>1, <1>4, FlagStep DEF Mark
<1>. QED BY <1>2, <1>3, <1>4

LEMMA ReferKeeps == ASSUME FileInv, Refer, UNCHANGED nodeVars PROVE FileInv'
<1>1. /\ At("refer") /\ Then(<<>>) /\ work' = [work EXCEPT !.ref = dst]
      /\ UNCHANGED <<flash, fds, dst, call>> /\ fs' = fs
  BY DEF Refer
<1>2. work' \in Page
  <2>1. work \in Page /\ dst \in 0..ONES
    BY PageBlock DEF FileInv, Typed, Words
  <2>. QED BY <1>1, <2>1 DEF Page
<1>3. "refer" \notin Firsts \cup {"created", "fail", "page", "entry"}
  BY DEF Firsts
<1>. QED BY <1>1, <1>2, <1>3, SameFs, EmptyBody, OnlyTodo

(* Descriptors that follow a header, or are closed with it or by the call.   *)
LEMMA FdsKeep ==
  ASSUME FileInv, HeaderMoved \/ HeaderDeleted \/ CloseFd, UNCHANGED nodeVars
  PROVE  FileInv'
<1>1. PICK d \in {"update", "move", "delete", "close"} :
        At(d) /\ Then(<<>>) /\ UNCHANGED <<flash, fs, work, dst, call>>
  BY DEF HeaderMoved, HeaderDeleted, CloseFd
<1>2. Typed
  BY DEF FileInv
<1>3. fds' \in [Fds -> FdType] /\ (fds[call.fd].hdr \in Objects => fds'[call.fd].hdr \in Objects)
  <2>1. call.fd \in Fds
    BY <1>2 DEF Typed, CallType
  <2>2. CASE HeaderMoved
    <3>1. PICK size \in Words : fds' = Followed(Step.id, dst, size)
      <4>1. work.size \in Words /\ 0 \in Words
        BY <1>2 DEF Typed, Page, Words, ONES
      <4>. QED BY <2>2, <4>1 DEF HeaderMoved
    <3>2. dst \in {0} \cup Objects
      BY <1>2 DEF Typed
    <3>3. fds'[call.fd].hdr \in {fds[call.fd].hdr, dst} /\ fds' \in [Fds -> FdType]
      BY <1>2, <2>1, <3>1, <3>2, FollowedTypes
    <3>. QED BY <1>2, <3>3 DEF Typed
  <2>3. CASE HeaderDeleted
    <3>1. fds' = Dropped(Step.id)
      BY <2>3 DEF HeaderDeleted
    <3>. QED BY <1>2, <2>1, <3>1, DroppedTypes
  <2>4. CASE CloseFd
    BY <1>2, <2>1, <2>4 DEF CloseFd, Close, Typed, FdType
  <2>. QED BY <2>2, <2>3, <2>4
<1>4. /\ page' \in [Objects -> Page] /\ magic' \subseteq Bixes /\ work' \in Page
      /\ dst' = dst /\ call' = call /\ count' \in [Bixes -> Words] /\ lu' = lu
  BY <1>1, <1>2 DEF Typed, FlashTyped, flash
<1>5. fs' \in FsType /\ (fs'.mounted <=> fs.mounted) /\ fs'.free_blocks = fs.free_blocks
  BY <1>1, SameFs
<1>6. d \notin Firsts \cup {"created", "fail", "page", "entry"}
  BY DEF Firsts
<1>. QED BY <1>1, <1>3, <1>4, <1>5, <1>6, EmptyBody, AwayFromLookup

LEMMA GcEraseKeeps == ASSUME FileInv, GcErase, UNCHANGED nodeVars PROVE FileInv'
<1>1. At("gc_erase") /\ Then(<<>>) /\ UNCHANGED <<flash, fds, work, dst, call>>
  BY DEF GcErase
<1>. DEFINE deleted == Cardinality({p \in Block(Step.b) : lu[p] = DELETED})
            allocated == Cardinality({p \in Block(Step.b) : InUse(p)})
<1>2. fs' = [fs EXCEPT !.cleaning = FALSE, !.deleted = @ - deleted, !.allocated = @ - allocated]
  BY DEF GcErase
<1>3. Step.b \in Bixes
  <2>1. StepTyped(Step) /\ Step.do = "gc_erase"
    BY <1>1, AtStep, HeadOf DEF FileInv, Firsts
  <2>. QED BY <2>1 DEF StepTyped
<1>4. deleted \in Int /\ allocated \in Int
  <2>1. /\ {p \in Block(Step.b) : lu[p] = DELETED} \subseteq Block(Step.b)
        /\ {p \in Block(Step.b) : InUse(p)} \subseteq Block(Step.b)
    OBVIOUS
  <2>. QED BY <1>3, <2>1, BlockCounts
<1>. HIDE DEF deleted, allocated
<1>5. fs \in FsType /\ work \in Page
  BY DEF FileInv, Typed
<1>6. fs' \in FsType /\ (fs'.mounted <=> fs.mounted) /\ fs'.free_blocks = fs.free_blocks
  <2>1. fs.deleted - deleted \in Int /\ fs.allocated - allocated \in Int
    BY <1>4, <1>5 DEF FsType
  <2>2. PICK d \in Int, a \in Int : fs' = [fs EXCEPT !.cleaning = FALSE, !.deleted = d, !.allocated = a]
    BY <1>2, <2>1
  <2>. QED BY <1>5, <2>2 DEF FsType
<1>7. "gc_erase" \notin Firsts \cup {"created", "fail", "page", "entry"} /\ work' \in Page
  BY <1>1, <1>5 DEF Firsts
<1>. QED BY <1>1, <1>6, <1>7, EmptyBody, OnlyTodo

LEMMA ReadKeeps == ASSUME FileInv, Read, UNCHANGED nodeVars PROVE FileInv'
<1>1. At("read")
  BY DEF Read
<1>2. CASE Fails
  BY <1>1, <1>2, FailKeeps
<1>3. CASE ~Fails
  <2>1. Then(<<>>) /\ UNCHANGED <<flash, fs, work, dst, call>> /\ Close
    BY <1>3 DEF Read
  <2>2. Typed /\ call.fd \in Fds
    BY DEF FileInv, Typed, CallType
  <2>3. fds' \in [Fds -> FdType] /\ (fds[call.fd].hdr \in Objects => fds'[call.fd].hdr \in Objects)
    BY <2>1, <2>2 DEF Close, Typed, FdType
  <2>4. /\ page' \in [Objects -> Page] /\ magic' \subseteq Bixes /\ work' \in Page
        /\ dst' = dst /\ call' = call /\ count' \in [Bixes -> Words] /\ lu' = lu
    BY <2>1, <2>2 DEF Typed, FlashTyped, flash
  <2>5. fs' \in FsType /\ (fs'.mounted <=> fs.mounted) /\ fs'.free_blocks = fs.free_blocks
    BY <2>1, SameFs
  <2>6. "read" \notin Firsts \cup {"created", "fail", "page", "entry"}
    BY DEF Firsts
  <2>. QED BY <1>1, <2>1, <2>3, <2>4, <2>5, <2>6, EmptyBody, AwayFromLookup
<1>. QED BY <1>2, <1>3

-----------------------------------------------------------------------------
(* Steps that put others in their place. *)

Later == Firsts \cup {"created", "fail", "page", "entry"}

LEMMA JustTodo ==
  ASSUME FileInv, NEW d, d \notin Later, At(d), NEW s, Body(s, Allowed \ {"created"}), Then(s),
         UNCHANGED <<flash, fs, fds, work, dst, call>>, UNCHANGED nodeVars
  PROVE  FileInv'
<1>1. work' \in Page /\ UNCHANGED <<flash, fds, dst, call>>
  BY DEF FileInv, Typed
<1>. QED BY <1>1, SameFs, OnlyTodo DEF Later

LEMMA JustPopped ==
  ASSUME FileInv, NEW d, d \notin Later, At(d), Then(<<>>),
         UNCHANGED <<flash, fs, fds, work, dst, call>>, UNCHANGED nodeVars
  PROVE  FileInv'
  BY JustTodo, EmptyBody

LEMMA RunningAllowed ==
  ASSUME fs.mounted, NEW len, NEW tries
  PROVE  Body(<<Running(len, tries)>>, Allowed \ {"created"})
<1>1. Quiet(Running(len, tries), Allowed)
  BY UntypedSteps, MountedAllows DEF Quiet, Running, OnMount
<1>. QED BY <1>1, QuietOne

LEMMA GcCheckKeeps == ASSUME FileInv, GcCheck, UNCHANGED nodeVars PROVE FileInv'
<1>1. At("gc_check") /\ "gc_check" \notin Later /\ "gc_check" \in OnMount
  BY DEF GcCheck, Later, Firsts, OnMount
<1>2. fs.mounted
  BY <1>1, AtStep DEF FileInv, Later
<1>3. CASE Fails
  BY <1>1, <1>3, FailKeeps DEF Later
<1>4. CASE Then(<<>>) /\ UNCHANGED <<flash, fs, fds, work, dst, call>>
  BY <1>1, <1>4, JustPopped
<1>5. CASE Then(<<Running(Step.len, 1)>>) /\ UNCHANGED <<flash, fs, fds, work, dst, call>>
  <2>1. Body(<<Running(Step.len, 1)>>, Allowed \ {"created"})
    BY <1>2, RunningAllowed
  <2>. QED BY <1>1, <1>5, <2>1, JustTodo
<1>. QED BY <1>3, <1>4, <1>5 DEF GcCheck

LEMMA GcNextKeeps == ASSUME FileInv, GcNext, UNCHANGED nodeVars PROVE FileInv'
<1>1. At("gc_next") /\ "gc_next" \notin Later /\ "gc_next" \in OnMount
  BY DEF GcNext, Later, Firsts, OnMount
<1>2. fs.mounted
  BY <1>1, AtStep DEF FileInv, Later
<1>3. CASE Fails
  BY <1>1, <1>3, FailKeeps DEF Later
<1>4. CASE Then(<<>>) /\ UNCHANGED <<flash, fs, fds, work, dst, call>>
  BY <1>1, <1>4, JustPopped
<1>5. CASE Then(<<Running(Step.len, Step.tries + 1)>>) /\ UNCHANGED <<flash, fs, fds, work, dst, call>>
  <2>1. Body(<<Running(Step.len, Step.tries + 1)>>, Allowed \ {"created"})
    BY <1>2, RunningAllowed
  <2>. QED BY <1>1, <1>5, <2>1, JustTodo
<1>. QED BY <1>3, <1>4, <1>5 DEF GcNext

LEMMA StoreHeaderKeeps == ASSUME FileInv, StoreHeader, UNCHANGED nodeVars PROVE FileInv'
<1>1. At("store") /\ "store" \notin Later /\ "store" \in OnMount
  BY DEF StoreHeader, Later, Firsts, OnMount
<1>2. fs.mounted /\ StepTyped(Step) /\ Step.do = "store"
  BY <1>1, AtStep, HeadOf DEF FileInv, Later
<1>3. CASE Fails
  BY <1>1, <1>3, FailKeeps DEF Later
<1>4. CASE ~Fails
  <2>. DEFINE s == MovingHeader(Step.id, Step.p)
              u == Event("update", Step.id)
  <2>1. Then(s \o <<u>>) /\ UNCHANGED <<flash, fs, fds, work, dst, call>>
    BY <1>4 DEF StoreHeader
  <2>2. Step.id \in Id /\ work \in Page /\ OnMount \subseteq Allowed
    BY <1>2, MountedAllows DEF StepTyped, FileInv, Typed
  <2>3. Body(s, Allowed \ {"created"})
    BY <2>2, MovingHeaderBody
  <2>4. Quiet(u, Allowed)
    BY <2>2, UntypedSteps DEF Quiet, Event, OnMount
  <2>. HIDE DEF s, u
  <2>5. Body(s \o <<u>>, Allowed \ {"created"})
    BY <2>3, <2>4, QuietOne, Joined2
  <2>. QED BY <1>1, <2>1, <2>5, JustTodo
<1>. QED BY <1>3, <1>4

LEMMA RestIn ==
  ASSUME FileInv, NEW b \in Bixes, NEW from, NEW index \in BOOLEAN
  PROVE  \A p \in Rest(b, from, index) :
           /\ p \in Objects /\ lu[p] \in Id /\ page[p] \in Page
           /\ ~index => lu[p] + IX_FLAG \in Id
<1>. TAKE p \in Rest(b, from, index)
<1>1. p \in Block(b) /\ InUse(p) /\ IsIndex(lu[p]) = index
  BY DEF Rest
<1>2. p \in Objects
  BY <1>1, BlockPages
<1>3. lu[p] \in Id \cup {FREE} /\ page[p] \in Page
  BY <1>2 DEF FileInv, Typed, FlashTyped
<1>4. lu[p] \in Id /\ lu[p] # 0
  BY <1>1, <1>3 DEF InUse, DELETED
<1>5. ~IsIndex(lu[p]) => lu[p] + IX_FLAG \in Id
  BY <1>4 DEF IsIndex, Id, Words, IX_FLAG, ONES
<1>6. ~index => ~IsIndex(lu[p])
  BY <1>1
<1>. QED BY <1>2, <1>3, <1>4, <1>5, <1>6

LEMMA LeastRest ==
  ASSUME FileInv, NEW b \in Bixes, NEW from, NEW index \in BOOLEAN, NEW S, S \subseteq Rest(b, from, index), S # {}
  PROVE  Min(S) \in S /\ Min(S) \in Objects
<1>1. S \subseteq Objects
  BY RestIn
<1>. QED BY <1>1, SubsetOfObjects

LEMMA FindingAllowed ==
  ASSUME fs.mounted, NEW b \in Bixes, NEW p
  PROVE  /\ Body(<<Finding(b, p)>>, Allowed \ {"created"})
         /\ Body(<<MovingIndex(b, p)>>, Allowed \ {"created"})
<1>1. Quiet(Finding(b, p), Allowed) /\ Quiet(MovingIndex(b, p), Allowed)
  BY TypedSteps, MountedAllows DEF Quiet, Finding, MovingIndex, OnMount
<1>. QED BY <1>1, QuietOne

LEMMA GcMoveIndexKeeps == ASSUME FileInv, GcMoveIndex, UNCHANGED nodeVars PROVE FileInv'
<1>. DEFINE rest == Rest(Step.b, Step.from, TRUE)
            p == Min(rest)
            told(e) == IF page[p].id = ONES THEN <<>> ELSE <<Event(e, lu[p])>>
            next == MovingIndex(Step.b, p + 1)
<1>1. At("gc_index") /\ "gc_index" \notin Later /\ "gc_index" \in OnMount
  BY DEF GcMoveIndex, Later, Firsts, OnMount
<1>2. fs.mounted /\ StepTyped(Step) /\ Step.do = "gc_index"
  BY <1>1, AtStep, HeadOf DEF FileInv, Later
<1>3. Step.b \in Bixes /\ OnMount \subseteq Allowed
  BY <1>2, MountedAllows DEF StepTyped
<1>4. UNCHANGED <<flash, fs, fds, work, dst, call>>
  BY DEF GcMoveIndex
<1>5. \/ Then(<<>>)
      \/ rest # {} /\ Then(Moving(page[p], lu[p], p) \o told("move") \o <<next>>)
      \/ rest # {} /\ Then(Deleting(p) \o told("delete") \o <<next>>)
  BY DEF GcMoveIndex
<1>6. Body(<<next>>, Allowed \ {"created"})
  BY <1>2, <1>3, FindingAllowed
<1>7. ASSUME NEW e \in {"move", "delete"}
      PROVE  Body(told(e), Allowed \ {"created"})
  <2>1. Quiet(Event(e, lu[p]), Allowed)
    BY <1>3, UntypedSteps DEF Quiet, Event, OnMount
  <2>2. Body(<<Event(e, lu[p])>>, Allowed \ {"created"})
    BY <2>1, QuietOne
  <2>. QED BY <2>2, EmptyBody
<1>8. rest # {} => page[p] \in Page /\ lu[p] \in Id
  <2>. SUFFICES ASSUME rest # {} PROVE page[p] \in Page /\ lu[p] \in Id
    OBVIOUS
  <2>1. p \in rest
    BY <1>3, LeastRest
  <2>. QED BY <1>3, <2>1, RestIn
<1>9. Body(Deleting(p), Allowed \ {"created"})
  BY <1>3, DeletingBody
<1>10. rest # {} => Body(Moving(page[p], lu[p], p), Allowed \ {"created"})
  BY <1>3, <1>8, MovingBody
<1>11. Body(told("move"), Allowed \ {"created"}) /\ Body(told("delete"), Allowed \ {"created"})
  BY <1>7
<1>. HIDE DEF rest, p, told, next
<1>12. Body(Deleting(p) \o told("delete") \o <<next>>, Allowed \ {"created"})
  BY <1>6, <1>9, <1>11, Joined2
<1>13. rest # {} => Body(Moving(page[p], lu[p], p) \o told("move") \o <<next>>, Allowed \ {"created"})
  BY <1>6, <1>10, <1>11, Joined2
<1>. QED BY <1>1, <1>4, <1>5, <1>12, <1>13, JustTodo, JustPopped

LEMMA GcRunKeeps == ASSUME FileInv, GcRun, UNCHANGED nodeVars PROVE FileInv'
<1>. DEFINE b == Candidate
            erase == [do |-> "gc_erase", b |-> b]
            next == [do |-> "gc_next", len |-> Step.len, tries |-> Step.tries, prev |-> FreePages]
            front == <<Finding(b, FirstPage(b)), erase>>
            c == IF CursorBlock(fs.free_cursor) = b THEN FirstPage((b + 1) % Blocks) ELSE fs.free_cursor
<1>1. At("gc_run") /\ "gc_run" \notin Later /\ "gc_run" \in OnMount
  BY DEF GcRun, Later, Firsts, OnMount
<1>2. fs.mounted /\ Typed
  BY <1>1, AtStep DEF FileInv, Later
<1>3. b \in Bixes /\ OnMount \subseteq Allowed /\ Loose \subseteq Allowed
  BY <1>2, CandidateIsBlock, MountedAllows, LooseAllowed
<1>4. /\ UNCHANGED <<flash, fds, work, dst, call>>
      /\ fs' = [fs EXCEPT !.cleaning = TRUE, !.free_cursor = c]
      /\ Then(front \o Erasing(b) \o <<next>>)
  BY DEF GcRun
<1>5. c \in 1..Pages
  <2>1. (b + 1) % Blocks \in Bixes
    BY <1>3, Sizes DEF Bixes
  <2>2. FirstPage((b + 1) % Blocks) \in Objects
    BY <2>1, BlockPages
  <2>3. FirstPage((b + 1) % Blocks) \in 1..Pages
    <3>1. \A p \in Objects : p \in 1..Pages
      BY Sizes
    <3>. QED BY <2>2, <3>1, Zenon
  <2>4. fs.free_cursor \in 1..Pages
    BY <1>2 DEF Typed, FsType
  <2>. QED BY <2>3, <2>4
<1>. HIDE DEF c
<1>6. fs' \in FsType /\ (fs'.mounted <=> fs.mounted) /\ fs'.free_blocks = fs.free_blocks
  BY <1>2, <1>4, <1>5 DEF Typed, FsType
<1>7. work' \in Page
  BY <1>2, <1>4 DEF Typed
<1>8. Quiet(Finding(b, FirstPage(b)), Allowed) /\ Quiet(erase, Allowed) /\ Quiet(next, Allowed)
  BY <1>3, TypedSteps, UntypedSteps DEF Quiet, Finding, OnMount
<1>. HIDE DEF b, erase, next
<1>9. Body(front, Allowed \ {"created"}) /\ Body(<<next>>, Allowed \ {"created"})
      /\ Body(Erasing(b), Allowed \ {"created"})
  BY <1>3, <1>8, QuietOne, QuietTwo, ErasingBody
<1>. HIDE DEF front
<1>10. Body(front \o Erasing(b) \o <<next>>, Allowed \ {"created"})
  BY <1>9, Joined2
<1>. QED BY <1>1, <1>4, <1>6, <1>7, <1>10, OnlyTodo DEF Later

LEMMA FormatBlockTyped == ASSUME FileInv, FormatBlock, UNCHANGED nodeVars PROVE FileInv'
<1>1. /\ At("format") /\ "format" \notin Later
      /\ Then(Erasing(Step.b)) /\ fs' = [fs EXCEPT !.max_erase_count = 0]
      /\ UNCHANGED <<flash, fds, work, dst, call>>
  BY DEF FormatBlock, Later, Firsts
<1>2. StepTyped(Step) /\ Step.do = "format"
  BY <1>1, AtStep, HeadOf DEF FileInv, Later
<1>3. Step.b \in Bixes
  BY <1>2 DEF StepTyped
<1>4. Body(Erasing(Step.b), Allowed \ {"created"})
  BY <1>3, ErasingBody, LooseAllowed
<1>5. fs' \in FsType /\ (fs'.mounted <=> fs.mounted) /\ fs'.free_blocks = fs.free_blocks
  BY <1>1 DEF FileInv, Typed, FsType, Words, ONES
<1>6. work' \in Page
  BY <1>1 DEF FileInv, Typed
<1>. QED BY <1>1, <1>4, <1>5, <1>6, OnlyTodo DEF Later

LEMMA ScanTyped == ASSUME FileInv, Scan, UNCHANGED nodeVars PROVE FileInv'
<1>. DEFINE unerased == Bixes \ magic
<1>1. At("scan") /\ "scan" \notin Later
  BY DEF Scan, Later, Firsts
<1>2. CASE Fails
  BY <1>1, <1>2, FailKeeps DEF Later
<1>3. CASE ~Fails
  <2>1. /\ fs' = [fs EXCEPT !.max_erase_count = NextEraseCount]
        /\ Then(IF unerased = {} THEN <<>> ELSE Erasing(Min(unerased)))
        /\ UNCHANGED <<flash, fds, work, dst, call>>
    BY <1>3 DEF Scan
  <2>2. Typed /\ NextEraseCount \in Words
    BY NextCountIsWord DEF FileInv
  <2>3. fs' \in FsType /\ (fs'.mounted <=> fs.mounted) /\ fs'.free_blocks = fs.free_blocks
    BY <2>1, <2>2 DEF Typed, FsType
  <2>4. work' \in Page
    BY <2>1, <2>2 DEF Typed
  <2>5. CASE unerased = {}
    BY <1>1, <2>1, <2>3, <2>4, <2>5, EmptyBody, OnlyTodo DEF Later
  <2>6. CASE unerased # {}
    <3>1. Min(unerased) \in Bixes
      BY <2>6, SubsetOfBixes
    <3>2. Body(Erasing(Min(unerased)), Allowed \ {"created"})
      BY <3>1, ErasingBody, LooseAllowed
    <3>3. Then(Erasing(Min(unerased)))
      BY <2>1, <2>6
    <3>. QED BY <1>1, <2>1, <2>3, <2>4, <3>2, <3>3, OnlyTodo DEF Later
  <2>. QED BY <2>5, <2>6
<1>. QED BY <1>2, <1>3

LEMMA FlushKeeps == ASSUME FileInv, Flush, UNCHANGED nodeVars PROVE FileInv'
<1>. DEFINE u == Checking(LEN + DATA_PAGE_SIZE)
            v == Do(IF Holds(Fd.size) THEN "modify" ELSE "append")
<1>1. /\ At("flush") /\ "flush" \notin Later /\ "flush" \in OnFile
      /\ Then(<<u, v>>) /\ UNCHANGED <<flash, fs, fds, work, dst, call>>
  BY DEF Flush, Unused, Later, Firsts, OnFile
<1>2. HasHeader
  BY <1>1, AtStep DEF FileInv, Later
<1>3. OnMount \subseteq Allowed /\ OnFile \subseteq Allowed
  BY <1>2 DEF Allowed, HasHeader
<1>4. Quiet(u, Allowed) /\ Quiet(v, Allowed)
  BY <1>3, UntypedSteps DEF Quiet, Checking, Do, OnMount, OnFile
<1>. HIDE DEF u, v
<1>5. Body(<<u, v>>, Allowed \ {"created"})
  BY <1>4, QuietTwo
<1>. QED BY <1>1, <1>5, JustTodo

(* spiffs_gc_quick keeps the search for a page, after the erasure.           *)
LEMMA TakenBody ==
  ASSUME NEW D, Body(todo, D), todo # <<>>, todo[1].do \in {"find_free", "take_free"},
         NEW x, x.do = "take_free", x.do \in D, StepTyped(x)
  PROVE  /\ Body(<<x>> \o Tail(todo), D)
         /\ \A i \in 1..Len(<<x>> \o Tail(todo)) : (<<x>> \o Tail(todo))[i].do = "created" => i > 2
         /\ Len(<<x>> \o Tail(todo)) = Len(todo)
         /\ \A i \in 2..Len(todo) : (<<x>> \o Tail(todo))[i] = todo[i]
<1>. DEFINE t == <<x>> \o Tail(todo)
<1>1. PICK S : todo \in Seq(S)
  BY DEF Body
<1>2. todo \in Seq(S \cup {x}) /\ <<x>> \in Seq(S \cup {x}) /\ Tail(todo) \in Seq(S \cup {x})
      /\ Len(todo) \in Nat /\ Len(todo) >= 1 /\ Len(Tail(todo)) = Len(todo) - 1
      /\ \A i \in 1..(Len(todo) - 1) : Tail(todo)[i] = todo[i + 1]
  BY <1>1
<1>3. t \in Seq(S \cup {x}) /\ Len(t) = Len(todo) /\ t[1] = x
      /\ \A i \in 2..Len(todo) : t[i] = todo[i]
  BY <1>2
<1>. HIDE DEF t
<1>4. \A i \in 1..Len(todo) : todo[i].do \in D /\ StepTyped(todo[i]) /\ Seated(todo, i)
  BY DEF Body
<1>5. ASSUME NEW i \in 2..Len(todo), todo[i].do = "created"
      PROVE  i > 2
  <2>1. i \in 1..Len(todo) /\ i \in Nat /\ i > 1
    BY <1>2
  <2>2. todo[i - 1].do = "page"
    BY <1>4, <1>5, <2>1 DEF Seated
  <2>3. i # 2
    <3>. SUFFICES ASSUME i = 2 PROVE FALSE
      OBVIOUS
    <3>1. todo[1].do = "page"
      BY <2>2
    <3>. QED BY <3>1
  <2>. QED BY <2>1, <2>3
<1>6. ASSUME NEW i \in 1..Len(t)
      PROVE  t[i].do \in D /\ StepTyped(t[i]) /\ Seated(t, i)
  <2>1. CASE i = 1
    <3>1. Seated(todo, 1)
      BY <1>2, <1>4
    <3>2. /\ 1 < Len(todo)
          /\ \/ todo[2].do = "entry"
             \/ todo[2].do = "page" /\ 2 < Len(todo) /\ todo[3].do = "entry"
      BY <3>1 DEF Seated
    <3>3. t[2] = todo[2] /\ (2 < Len(todo) => t[3] = todo[3])
      BY <1>2, <1>3, <3>2
    <3>4. Seated(t, 1)
      BY <1>3, <3>2, <3>3 DEF Seated
    <3>. QED BY <1>3, <2>1, <3>4
  <2>2. CASE i # 1
    <3>1. i \in 2..Len(todo) /\ i \in Nat /\ t[i] = todo[i]
      BY <1>2, <1>3, <2>2
    <3>2. (i < Len(todo) => t[i + 1] = todo[i + 1]) /\ (i + 1 < Len(todo) => t[i + 2] = todo[i + 2])
      BY <1>2, <1>3, <3>1
    <3>3. i > 2 => t[i - 1] = todo[i - 1]
      BY <1>2, <1>3, <3>1
    <3>4. i > 3 => t[i - 2] = todo[i - 2]
      BY <1>2, <1>3, <3>1
    <3>5. todo[i].do \in D /\ StepTyped(todo[i]) /\ Seated(todo, i)
      BY <1>4, <3>1
    <3>6. ASSUME todo[i].do = "created"
          PROVE  i > 3 /\ i = Len(todo)
      <4>1. i > 2 /\ todo[i - 2].do = "entry"
        BY <1>5, <3>1, <3>5, <3>6 DEF Seated
      <4>2. i # 3
        <5>. SUFFICES ASSUME i = 3 PROVE FALSE
          OBVIOUS
        <5>1. todo[1].do = "entry"
          BY <4>1
        <5>. QED BY <5>1
      <4>3. i = Len(todo)
        BY <3>5, <3>6 DEF Seated
      <4>. QED BY <3>1, <4>1, <4>2, <4>3
    <3>7. Seated(t, i)
      BY <1>3, <3>1, <3>2, <3>3, <3>4, <3>5, <3>6 DEF Seated
    <3>. QED BY <3>1, <3>5, <3>7
  <2>. QED BY <2>1, <2>2
<1>7. Body(t, D)
  BY <1>3, <1>6 DEF Body
<1>8. \A i \in 1..Len(t) : t[i].do = "created" => i > 2
  <2>. SUFFICES ASSUME NEW i \in 1..Len(t), t[i].do = "created" PROVE i > 2
    OBVIOUS
  <2>1. i # 1
    BY <1>3
  <2>2. i \in 2..Len(todo)
    BY <1>2, <1>3, <2>1
  <2>. QED BY <1>3, <1>5, <2>2
<1>. QED BY <1>3, <1>7, <1>8 DEF t

LEMMA GcQuickKeeps == ASSUME FileInv, GcQuick, UNCHANGED nodeVars PROVE FileInv'
<1>. DEFINE b == Min(FullyDeleted)
            x == [do |-> "take_free", full |-> Step.full]
            t == <<x>> \o Tail(todo)
<1>1. /\ At("find_free") /\ "find_free" \notin Later /\ "find_free" \in OnMount /\ FullyDeleted # {}
      /\ Then(Erasing(b) \o <<x>>)
      /\ fs' = [fs EXCEPT !.deleted = @ - Entries]
      /\ UNCHANGED <<flash, fds, work, dst, call>>
  BY DEF GcQuick, Later, Firsts, OnMount
<1>2. fs.mounted /\ StepTyped(Step) /\ Step.do = "find_free" /\ Body(todo, Allowed)
      /\ todo # <<>> /\ Step = todo[1] /\ Len(todo) \in Nat
  BY <1>1, AtStep, HeadOf DEF FileInv, Later
<1>3. b \in Bixes
  BY <1>1, SubsetOfBixes DEF FullyDeleted
<1>4. x.do = "take_free" /\ x.do \in Allowed /\ StepTyped(x)
  <2>1. Step.full \in {<<>>, <<Indexing(0)>>}
    BY <1>2 DEF StepTyped
  <2>. QED BY <1>2, <2>1, MountedAllows DEF StepTyped, OnMount
<1>. HIDE DEF b, x
<1>5. fs' \in FsType /\ (fs'.mounted <=> fs.mounted) /\ fs'.free_blocks = fs.free_blocks
  <2>1. fs \in FsType
    BY DEF FileInv, Typed
  <2>2. PICK n \in Int : n = fs.deleted - Entries
    BY <2>1, Sizes DEF FsType
  <2>3. fs' = [fs EXCEPT !.deleted = n]
    BY <1>1, <2>2
  <2>. QED BY <2>1, <2>3 DEF FsType
<1>6. Typed'
  BY <1>1, <1>5 DEF FileInv, Typed, FlashTyped, flash, nodeVars
<1>7. CountSafe'
  <2>1. lu' = lu /\ "find_free" \notin {"page", "entry"}
    BY <1>1 DEF flash
  <2>. QED BY <1>1, <1>5, <2>1, CountKept
<1>8. Allowed \subseteq Allowed'
  BY <1>1, <1>5, MoreAllowed DEF HasHeader
<1>9. /\ Body(t, Allowed)
      /\ \A i \in 1..Len(t) : t[i].do = "created" => i > 2
      /\ Len(t) = Len(todo)
      /\ \A i \in 2..Len(todo) : t[i] = todo[i]
  BY <1>2, <1>4, TakenBody
<1>10. todo' = Erasing(b) \o t
  <2>1. PICK S : todo \in Seq(S)
    BY <1>2 DEF Body
  <2>2. PICK T : Erasing(b) \in Seq(T)
    BY <1>3, ErasingBody, LooseAllowed DEF Body
  <2>. DEFINE U == (S \cup T) \cup {x}
  <2>3. Erasing(b) \in Seq(U) /\ <<x>> \in Seq(U) /\ Tail(todo) \in Seq(U)
    BY <1>2, <2>1, <2>2
  <2>4. (Erasing(b) \o <<x>>) \o Tail(todo) = Erasing(b) \o (<<x>> \o Tail(todo))
    BY <2>3, ConcatAssociative
  <2>. QED BY <1>1, <2>4 DEF Then
<1>. HIDE DEF t
<1>11. Body(t, Allowed')
  BY <1>8, <1>9, WiderBody
<1>12. Body(Erasing(b), Allowed' \ {"created"})
  <2>1. Loose \subseteq Allowed'
    BY <1>8, LooseAllowed
  <2>. QED BY <1>3, <2>1, ErasingBody
<1>13. Len(todo) > 1 => Len(t) >= 1 /\ t[Len(t)] = todo[Len(todo)]
  BY <1>2, <1>9
<1>14. phase' = phase
  BY DEF nodeVars
<1>. QED BY <1>1, <1>6, <1>7, <1>9, <1>10, <1>11, <1>12, <1>13, <1>14, ProgressOn DEF Later

LEMMA GcFindKeeps == ASSUME FileInv, GcFind, UNCHANGED nodeVars PROVE FileInv'
<1>. DEFINE b == Step.b
            rest == Rest(b, Step.from, FALSE)
            p == Min(rest)
            headers == IF page[p].id = ONES THEN {} ELSE HeadersOf(lu[p] + IX_FLAG)
            h == FirstFrom(fs.cursor, headers)
<1>1. At("gc_find") /\ "gc_find" \notin Later /\ "gc_find" \in OnMount
  BY DEF GcFind, Later, Firsts, OnMount
<1>2. fs.mounted /\ StepTyped(Step) /\ Step.do = "gc_find" /\ Typed
  BY <1>1, AtStep, HeadOf DEF FileInv, Later
<1>3. b \in Bixes /\ OnMount \subseteq Allowed
  BY <1>2, MountedAllows DEF StepTyped
<1>4. CASE Fails
  BY <1>1, <1>4, FailKeeps DEF Later
<1>5. CASE rest = {}
  <2>1. Then(<<MovingIndex(b, FirstPage(b))>>) /\ UNCHANGED <<flash, fs, fds, work, dst, call>>
    BY <1>5 DEF GcFind
  <2>2. Body(<<MovingIndex(b, FirstPage(b))>>, Allowed \ {"created"})
    BY <1>2, <1>3, FindingAllowed
  <2>. HIDE DEF b
  <2>. QED BY <1>1, <2>1, <2>2, JustTodo
<1>6. CASE rest # {} /\ headers = {}
  <2>1. Then(Deleting(p) \o <<Finding(b, p + 1)>>) /\ UNCHANGED <<flash, fs, fds, work, dst, call>>
    BY <1>6 DEF GcFind
  <2>2. Body(Deleting(p), Allowed \ {"created"}) /\ Body(<<Finding(b, p + 1)>>, Allowed \ {"created"})
    BY <1>2, <1>3, FindingAllowed, DeletingBody
  <2>. HIDE DEF b, p
  <2>3. Body(Deleting(p) \o <<Finding(b, p + 1)>>, Allowed \ {"created"})
    BY <2>2, Joined2
  <2>. QED BY <1>1, <2>1, <2>3, JustTodo
<1>7. CASE rest # {} /\ headers # {} /\ ~Fails
  <2>1. /\ fs' = [fs EXCEPT !.cursor = h] /\ work' = page[h]
        /\ Then(<<MovingData(b, FirstPage(b), lu[p], h, p + 1)>>)
        /\ UNCHANGED <<flash, fds, dst, call>>
    BY <1>7 DEF GcFind
  <2>2. p \in rest
    BY <1>3, <1>7, LeastRest
  <2>3. lu[p] \in Id /\ lu[p] + IX_FLAG \in Id
    <3>1. \A q \in rest : lu[q] \in Id /\ lu[q] + IX_FLAG \in Id
      BY <1>3, RestIn
    <3>. HIDE DEF rest, p
    <3>. QED BY <2>2, <3>1
  <2>4. h \in Objects
    <3>1. headers \subseteq Objects
      BY DEF HeadersOf, WithId
    <3>2. fs.cursor \in Int
      BY <1>2 DEF Typed, FsType
    <3>. QED BY <1>7, <3>1, <3>2, NearestIn
  <2>5. h \in Int
    <3>1. \A q \in Objects : q \in Int
      BY PageBlock
    <3>. QED BY <2>4, <3>1, Zenon
  <2>. DEFINE u == MovingData(b, FirstPage(b), lu[p], h, p + 1)
  <2>6. Quiet(u, Allowed)
    <3>1. StepTyped(u)
      BY <1>3, <2>3, TypedSteps
    <3>2. u.do = "gc_data"
      BY DEF MovingData
    <3>. QED BY <1>3, <3>1, <3>2 DEF Quiet, OnMount
  <2>. HIDE DEF h, u
  <2>7. fs' \in FsType /\ (fs'.mounted <=> fs.mounted) /\ fs'.free_blocks = fs.free_blocks
    BY <1>2, <2>1, <2>5 DEF Typed, FsType
  <2>8. work' \in Page
    BY <1>2, <2>1, <2>4 DEF Typed, FlashTyped
  <2>9. Then(<<u>>)
    BY <2>1 DEF u
  <2>. QED BY <1>1, <2>1, <2>6, <2>7, <2>8, <2>9, QuietOne, OnlyTodo DEF Later
<1>. QED BY <1>4, <1>5, <1>6, <1>7

LEMMA GcMoveDataKeeps == ASSUME FileInv, GcMoveData, UNCHANGED nodeVars PROVE FileInv'
<1>. DEFINE rest == {p \in Rest(Step.b, Step.from, FALSE) : lu[p] = Step.id /\ page[p].id # ONES}
            p == Min(rest)
            next == MovingData(Step.b, p + 1, Step.id, Step.hdr, Step.back)
            store == [do |-> "store", id |-> Step.id + IX_FLAG, p |-> Step.hdr]
            back == Finding(Step.b, Step.back)
            image == page[p]
<1>1. At("gc_data") /\ "gc_data" \notin Later /\ "gc_data" \in OnMount
  BY DEF GcMoveData, Later, Firsts, OnMount
<1>2. fs.mounted /\ StepTyped(Step) /\ Step.do = "gc_data" /\ Typed
  BY <1>1, AtStep, HeadOf DEF FileInv, Later
<1>3. Step.b \in Bixes /\ Step.id \in Id /\ Step.id + IX_FLAG \in Id /\ OnMount \subseteq Allowed
  BY <1>2, MountedAllows DEF StepTyped
<1>4. UNCHANGED <<flash, fs, fds, dst, call>>
  BY DEF GcMoveData
<1>5. \/ Then(<<store, back>>) /\ work' = work
      \/ rest # {} /\ Then(Moving(image, Step.id, p) \o <<Do("refer"), next>>) /\ work' = work
      \/ Then(Deleting(p) \o <<next>>) /\ work' = [work EXCEPT !.ref = ONES]
  BY DEF GcMoveData
<1>6. work' \in Page
  <2>1. work \in Page
    BY <1>2 DEF Typed
  <2>2. ONES \in 0..ONES
    BY DEF ONES
  <2>. QED BY <1>5, <2>1, <2>2 DEF Page
<1>7. Quiet(next, Allowed)
  <2>1. StepTyped(next) /\ next.do = "gc_data"
    BY <1>3, TypedSteps DEF MovingData
  <2>. QED BY <1>3, <2>1 DEF Quiet, OnMount
<1>8. Quiet(store, Allowed) /\ Quiet(back, Allowed) /\ Quiet(Do("refer"), Allowed)
  <2>1. StepTyped(store) /\ StepTyped(back) /\ StepTyped(Do("refer"))
    BY <1>3, TypedSteps, UntypedSteps
  <2>2. store.do = "store" /\ back.do = "gc_find" /\ Do("refer").do = "refer"
    BY DEF Finding, Do
  <2>. QED BY <1>3, <2>1, <2>2 DEF Quiet, OnMount
<1>9. rest # {} => image \in Page
  <2>. SUFFICES ASSUME rest # {} PROVE image \in Page
    OBVIOUS
  <2>1. rest \subseteq Rest(Step.b, Step.from, FALSE)
    OBVIOUS
  <2>2. Min(rest) \in rest
    <3>. HIDE DEF rest
    <3>. QED BY <1>3, <2>1, LeastRest
  <2>3. p \in Rest(Step.b, Step.from, FALSE)
    BY <2>1, <2>2
  <2>. HIDE DEF rest, p
  <2>. QED BY <1>3, <2>3, RestIn
<1>10. rest # {} => Body(Moving(image, Step.id, p), Allowed \ {"created"})
  <2>. HIDE DEF rest, p, image
  <2>. QED BY <1>3, <1>9, MovingBody
<1>11. Body(Deleting(p), Allowed \ {"created"})
  BY <1>3, DeletingBody
<1>. HIDE DEF rest, p, next, store, back, image
<1>12. Body(<<store, back>>, Allowed \ {"created"})
  BY <1>8, QuietTwo
<1>13. Body(<<Do("refer"), next>>, Allowed \ {"created"}) /\ Body(<<next>>, Allowed \ {"created"})
  BY <1>7, <1>8, QuietOne, QuietTwo
<1>14. rest # {} => Body(Moving(image, Step.id, p) \o <<Do("refer"), next>>, Allowed \ {"created"})
  BY <1>10, <1>13, Joined2
<1>15. Body(Deleting(p) \o <<next>>, Allowed \ {"created"})
  BY <1>11, <1>13, Joined2
<1>16. PICK s : Body(s, Allowed \ {"created"}) /\ Then(s)
  BY <1>5, <1>12, <1>14, <1>15
<1>17. fs' \in FsType /\ (fs'.mounted <=> fs.mounted) /\ fs'.free_blocks = fs.free_blocks
  BY <1>4, SameFs
<1>. QED BY <1>1, <1>4, <1>6, <1>16, <1>17, OnlyTodo DEF Later

-----------------------------------------------------------------------------
(* Writes to the file. *)

LEMMA FileIds ==
  ASSUME Typed
  PROVE  /\ Fd.hdr \in {0} \cup Objects /\ Fd.obj \in Words
         /\ IsIndex(Fd.obj) => Fd.obj \in Id /\ Fd.obj - IX_FLAG \in Id
<1>1. Fd \in FdType
  BY DEF Fd, Typed, CallType
<1>. QED BY <1>1 DEF FdType, IsIndex, Id, Words, IX_FLAG, ONES

LEMMA DataPages ==
  ASSUME Typed, IsIndex(Fd.obj)
  PROVE  /\ DataPage({"used"}) \in Page /\ DataPage({"used", "final"}) \in Page
         /\ [ErasedPage EXCEPT !.data = call.value] \in Page
<1>1. Fd.obj - IX_FLAG \in 0..ONES /\ call.value \in Contents \cup {Erased, Mixed}
  BY FileIds DEF Id, Words, Typed, CallType
<1>2. {"used"} \in SUBSET Flags /\ {"used", "final"} \in SUBSET Flags
  BY DEF Flags
<1>3. DataPage({"used"}) \in Page
  BY <1>1, <1>2, ErasedIsPage DEF DataPage, Page
<1>4. DataPage({"used", "final"}) \in Page
  BY <1>1, <1>2, ErasedIsPage DEF DataPage, Page
<1>5. [ErasedPage EXCEPT !.data = call.value] \in Page
  BY <1>1, ErasedIsPage DEF Page
<1>. QED BY <1>3, <1>4, <1>5

LEMMA ModifyKeeps == ASSUME FileInv, Modify, UNCHANGED nodeVars PROVE FileInv'
<1>. DEFINE hdr == page[Fd.hdr]
            id == Fd.obj - IX_FLAG
            u == FindingFree
            v == Linking(id)
            w == Putting(DataPage({"used"}))
            x == Writing(call.value)
            y == Do("final")
            s == <<u, v, w, x, y>>
            store == [do |-> "store", id |-> Fd.obj, p |-> Fd.hdr]
            t == <<Do("refer"), store, Do("close")>>
<1>1. At("modify") /\ "modify" \notin Later /\ "modify" \in OnFile
  BY DEF Modify, Later, Firsts, OnFile
<1>2. HasHeader /\ fs.mounted /\ Typed
  BY <1>1, AtStep DEF FileInv, Later
<1>3. CASE Fails
  BY <1>1, <1>3, FailKeeps DEF Later
<1>4. CASE ~Fails
  <2>1. /\ work' = hdr /\ IsIndex(Fd.obj)
        /\ Then(s \o Deleting(hdr.ref) \o t) /\ UNCHANGED <<flash, fs, fds, dst, call>>
    BY <1>4 DEF Modify, ValidHeader
  <2>2. work' \in Page
    BY <1>2, <2>1 DEF HasHeader, Fd, Typed, FlashTyped
  <2>3. OnMount \subseteq Allowed /\ "close" \in Allowed /\ "find_free" \in Allowed
    BY <1>2, MountedAllows, LooseAllowed DEF Loose, OnMount
  <2>4. /\ StepTyped(u) /\ StepTyped(v) /\ StepTyped(w) /\ StepTyped(x) /\ StepTyped(y)
        /\ StepTyped(store) /\ StepTyped(Do("refer")) /\ StepTyped(Do("close"))
    BY <1>2, <2>1, FileIds, DataPages, TypedSteps, UntypedSteps DEF Writing
  <2>5. /\ u.do = "find_free" /\ v.do = "entry" /\ w.do = "page" /\ x.do = "page" /\ y.do = "final"
        /\ store.do = "store" /\ Do("refer").do = "refer" /\ Do("close").do = "close"
    BY DEF FindingFree, FindingOr, Linking, Putting, Writing, Do
  <2>. HIDE DEF u, v, w, x, y, store
  <2>6. /\ Quiet(v, Allowed) /\ Quiet(w, Allowed) /\ Quiet(x, Allowed) /\ Quiet(y, Allowed)
        /\ Quiet(store, Allowed) /\ Quiet(Do("refer"), Allowed) /\ Quiet(Do("close"), Allowed)
    BY <2>3, <2>4, <2>5 DEF Quiet, OnMount
  <2>7. /\ s \in Seq({u, v, w, x, y}) /\ Len(s) = 5
        /\ s[1] = u /\ s[2] = v /\ s[3] = w /\ s[4] = x /\ s[5] = y
    OBVIOUS
  <2>. HIDE DEF s
  <2>8. \A i \in 2..Len(s) : i = 2 \/ i = 3 \/ i = 4 \/ i = 5
    BY <2>7
  <2>9. \A i \in 2..Len(s) : Quiet(s[i], Allowed)
    BY <2>6, <2>7, <2>8
  <2>10. /\ Len(s) > 1 /\ s[1].do \in Allowed \cap {"find_free", "take_free"} /\ StepTyped(s[1])
         /\ \/ s[2].do = "entry"
            \/ s[2].do = "page" /\ Len(s) > 2 /\ s[3].do = "entry"
    BY <2>3, <2>4, <2>5, <2>7
  <2>11. Body(s, Allowed \ {"created"})
    BY <2>7, <2>9, <2>10, FoundBody, Zenon
  <2>12. Body(t, Allowed \ {"created"}) /\ Body(Deleting(hdr.ref), Allowed \ {"created"})
    BY <2>3, <2>6, QuietThree, DeletingBody
  <2>. HIDE DEF t, hdr
  <2>13. Body(s \o Deleting(hdr.ref) \o t, Allowed \ {"created"})
    BY <2>11, <2>12, Joined2
  <2>. QED BY <1>1, <2>1, <2>2, <2>13, SameFs, OnlyTodo DEF Later
<1>. QED BY <1>3, <1>4

LEMMA AppendToKeeps == ASSUME FileInv, AppendTo, UNCHANGED nodeVars PROVE FileInv'
<1>. DEFINE hdr == page[Fd.hdr]
            id == Fd.obj - IX_FLAG
            u == FindingOr(<<Indexing(0)>>)
            v == Linking(id)
            w == Putting(DataPage({"used", "final"}))
            x == Writing(call.value)
            y == Do("refer")
            z == Indexing(LEN)
            c == Do("close")
            s == <<u, v, w, x, y, z, c>>
<1>1. At("append") /\ "append" \notin Later /\ "append" \in OnFile
  BY DEF AppendTo, Later, Firsts, OnFile
<1>2. HasHeader /\ fs.mounted /\ Typed
  BY <1>1, AtStep DEF FileInv, Later
<1>3. CASE Fails
  BY <1>1, <1>3, FailKeeps DEF Later
<1>4. CASE ~Fails
  <2>1. /\ work' = hdr /\ IsIndex(Fd.obj)
        /\ Then(s) /\ UNCHANGED <<flash, fs, fds, dst, call>>
    BY <1>4 DEF AppendTo, ValidHeader
  <2>2. work' \in Page
    BY <1>2, <2>1 DEF HasHeader, Fd, Typed, FlashTyped
  <2>3. OnMount \subseteq Allowed /\ "close" \in Allowed /\ "find_free" \in Allowed
    BY <1>2, MountedAllows, LooseAllowed DEF Loose, OnMount
  <2>4. LEN \in Words
    BY DEF LEN, Words, ONES
  <2>5. /\ StepTyped(u) /\ StepTyped(v) /\ StepTyped(w) /\ StepTyped(x) /\ StepTyped(y)
        /\ StepTyped(z) /\ StepTyped(c)
    BY <1>2, <2>1, <2>4, FileIds, DataPages, TypedSteps, UntypedSteps DEF Writing
  <2>6. /\ u.do = "find_free" /\ v.do = "entry" /\ w.do = "page" /\ x.do = "page" /\ y.do = "refer"
        /\ z.do = "index" /\ c.do = "close"
    BY DEF FindingOr, Linking, Putting, Writing, Indexing, Do
  <2>. HIDE DEF u, v, w, x, y, z, c
  <2>7. /\ Quiet(v, Allowed) /\ Quiet(w, Allowed) /\ Quiet(x, Allowed) /\ Quiet(y, Allowed)
        /\ Quiet(z, Allowed) /\ Quiet(c, Allowed)
    BY <2>3, <2>5, <2>6 DEF Quiet, OnMount
  <2>8. /\ s \in Seq({u, v, w, x, y, z, c}) /\ Len(s) = 7
        /\ s[1] = u /\ s[2] = v /\ s[3] = w /\ s[4] = x /\ s[5] = y /\ s[6] = z /\ s[7] = c
    OBVIOUS
  <2>. HIDE DEF s
  <2>9. \A i \in 2..Len(s) : i = 2 \/ i = 3 \/ i = 4 \/ i = 5 \/ i = 6 \/ i = 7
    BY <2>8
  <2>10. \A i \in 2..Len(s) : Quiet(s[i], Allowed)
    BY <2>7, <2>8, <2>9
  <2>11. /\ Len(s) > 1 /\ s[1].do \in Allowed \cap {"find_free", "take_free"} /\ StepTyped(s[1])
         /\ \/ s[2].do = "entry"
            \/ s[2].do = "page" /\ Len(s) > 2 /\ s[3].do = "entry"
    BY <2>3, <2>5, <2>6, <2>8
  <2>12. Body(s, Allowed \ {"created"})
    BY <2>8, <2>10, <2>11, FoundBody, Zenon
  <2>. HIDE DEF hdr
  <2>. QED BY <1>1, <2>1, <2>2, <2>12, SameFs, OnlyTodo DEF Later
<1>. QED BY <1>3, <1>4

LEMMA StoreIndexKeeps == ASSUME FileInv, StoreIndex, UNCHANGED nodeVars PROVE FileInv'
<1>1. At("index") /\ "index" \notin Later
  BY DEF StoreIndex, Later, Firsts
<1>2. StepTyped(Step) /\ Step.do = "index" /\ Typed
  BY <1>1, AtStep, HeadOf DEF FileInv, Later
<1>3. CASE Fails
  BY <1>1, <1>3, FailKeeps DEF Later
<1>4. CASE ~Fails
  <2>. DEFINE image == [work EXCEPT !.size = Step.size]
  <2>1. /\ work' = image /\ page' = [page EXCEPT ![Fd.hdr] = Overlaid(@, image)]
        /\ fds' = Followed(Fd.obj, Fd.hdr, Step.size)
        /\ Then(<<>>) /\ UNCHANGED <<lu, magic, count, fs, dst, call>>
    BY <1>4 DEF StoreIndex, WritePage
  <2>2. Step.size \in Words
    BY <1>2 DEF StepTyped
  <2>3. image \in Page
    BY <1>2, <2>2 DEF Typed, Page, Words
  <2>. HIDE DEF image
  <2>4. page' \in [Objects -> Page]
    BY <1>2, <2>1, <2>3, ImageWritten
  <2>5. Fd.hdr \in {0} \cup Objects /\ call.fd \in Fds
    BY <1>2, FileIds DEF Typed, CallType
  <2>6. /\ fds' \in [Fds -> FdType]
        /\ \A f \in Fds : fds'[f].hdr \in {fds[f].hdr, Fd.hdr}
    BY <1>2, <2>1, <2>2, <2>5, FollowedTypes
  <2>7. fds[call.fd].hdr \in Objects => fds'[call.fd].hdr \in Objects
    BY <2>5, <2>6 DEF Fd
  <2>8. fs' \in FsType /\ (fs'.mounted <=> fs.mounted) /\ fs'.free_blocks = fs.free_blocks
    BY <2>1, SameFs
  <2>9. /\ magic' \subseteq Bixes /\ work' \in Page /\ dst' = dst /\ call' = call
        /\ count' \in [Bixes -> Words] /\ lu' = lu
    BY <1>2, <2>1, <2>3 DEF Typed, FlashTyped
  <2>. QED BY <1>1, <2>1, <2>4, <2>6, <2>7, <2>8, <2>9, EmptyBody, AwayFromLookup DEF Later
<1>. QED BY <1>3, <1>4

LEMMA TruncateKeeps == ASSUME FileInv, Truncate, UNCHANGED nodeVars PROVE FileInv'
<1>. DEFINE hdr == page[Fd.hdr]
            event == Event("delete", Fd.obj)
            gone == Deleting(Fd.hdr) \o <<event>>
            store == [do |-> "store", id |-> Fd.obj, p |-> Fd.hdr]
<1>1. At("truncate") /\ "truncate" \notin Later /\ "truncate" \in OnFile
  BY DEF Truncate, Later, Firsts, OnFile
<1>2. HasHeader /\ fs.mounted /\ Typed
  BY <1>1, AtStep DEF FileInv, Later
<1>3. CASE Fails
  BY <1>1, <1>3, FailKeeps DEF Later
<1>4. CASE ~Fails
  <2>1. /\ IsIndex(Fd.obj)
        /\ work' = [hdr EXCEPT !.ref = ONES] \/ work' = work
        /\ Then(gone) \/ Then(Deleting(hdr.ref) \o gone) \/ Then(<<store>>)
        /\ UNCHANGED <<flash, fs, fds, dst, call>>
    BY <1>4 DEF Truncate, ValidHeader
  <2>2. work' \in Page
    <3>1. hdr \in Page /\ work \in Page
      BY <1>2 DEF HasHeader, Fd, Typed, FlashTyped
    <3>2. ONES \in 0..ONES
      BY DEF ONES
    <3>. QED BY <2>1, <3>1, <3>2 DEF Page
  <2>3. OnMount \subseteq Allowed
    BY <1>2, MountedAllows
  <2>4. Quiet(event, Allowed) /\ Quiet(store, Allowed)
    <3>1. StepTyped(event) /\ StepTyped(store)
      BY <1>2, <2>1, FileIds, TypedSteps, UntypedSteps
    <3>2. event.do = "delete" /\ store.do = "store"
      BY DEF Event
    <3>. QED BY <2>3, <3>1, <3>2 DEF Quiet, OnMount
  <2>. HIDE DEF event, store
  <2>5. Body(<<event>>, Allowed \ {"created"}) /\ Body(<<store>>, Allowed \ {"created"})
    BY <2>4, QuietOne
  <2>6. Body(gone, Allowed \ {"created"})
    BY <2>3, <2>5, DeletingBody, Joined2
  <2>7. Body(Deleting(hdr.ref), Allowed \ {"created"})
    BY <2>3, DeletingBody
  <2>. HIDE DEF gone, hdr
  <2>8. Body(Deleting(hdr.ref) \o gone, Allowed \ {"created"})
    BY <2>6, <2>7, Joined2
  <2>9. PICK s : Body(s, Allowed \ {"created"}) /\ Then(s)
    BY <2>1, <2>5, <2>6, <2>8
  <2>. QED BY <1>1, <2>1, <2>2, <2>9, SameFs, OnlyTodo DEF Later
<1>. QED BY <1>3, <1>4

-----------------------------------------------------------------------------
(* Steps that write the lookup, or the page found. *)

LEMMA CountShrinks ==
  ASSUME FileInv, fs'.mounted => fs.mounted, fs'.free_blocks = fs.free_blocks,
         FreeBlocks' \ Taken' \subseteq FreeBlocks \ Taken
  PROVE  CountSafe'
<1>. SUFFICES ASSUME fs.mounted
     PROVE  Cardinality(FreeBlocks' \ Taken') <= fs.free_blocks
  BY DEF CountSafe
<1>1. FreeBlocks \ Taken \subseteq Bixes
  BY FreeBlocksAreBlocks
<1>2. /\ Cardinality(FreeBlocks' \ Taken') <= Cardinality(FreeBlocks \ Taken)
      /\ Cardinality(FreeBlocks' \ Taken') \in Nat /\ Cardinality(FreeBlocks \ Taken) \in Nat
  BY <1>1, FewerBlocks
<1>3. Cardinality(FreeBlocks \ Taken) <= fs.free_blocks
  BY DEF FileInv, CountSafe
<1>4. fs.free_blocks \in Nat
  BY DEF FileInv, Typed, FsType
<1>. QED BY <1>2, <1>3, <1>4

LEMMA Advances ==
  ASSUME FileInv, NEW d \in {"page", "entry"}, At(d), Then(<<>>),
         d = "entry" => lu'[dst'] # FREE, d = "page" => lu'[dst'] = lu[dst],
         Typed', Allowed \subseteq Allowed', CountSafe', phase' = phase
  PROVE  FileInv'
<1>1. /\ todo # <<>> /\ todo[1].do = d
      /\ Len(todo) \in Nat /\ Len(todo) >= 1 /\ Body(todo, Allowed)
  BY HeadOf, AtStep DEF FileInv, Firsts
<1>. DEFINE t == Tail(todo)
<1>2. /\ Body(t, Allowed') /\ Len(t) = Len(todo) - 1
      /\ \A i \in 1..(Len(todo) - 1) : t[i] = todo[i + 1]
  BY <1>1, TailBody, WiderBody
<1>3. todo' = t
  <2>1. PICK S : todo \in Seq(S)
    BY <1>1 DEF Body
  <2>2. t \in Seq(S) /\ todo' = <<>> \o t
    BY <1>1, <2>1 DEF Then
  <2>. HIDE DEF t
  <2>. QED BY <2>2
<1>. HIDE DEF t
<1>4. Shape'
  BY <1>2, <1>3 DEF Shape
<1>5. CreatedSafe'
  <2>. SUFFICES ASSUME NEW i \in 1..Len(t), i <= 2, t[i].do = "created"
       PROVE  lu'[dst'] # FREE
    BY <1>3 DEF CreatedSafe
  <2>1. CASE d = "entry"
    BY <2>1
  <2>2. CASE d = "page"
    <3>1. i + 1 \in 1..Len(todo) /\ todo[i + 1].do = "created" /\ i \in Nat /\ i >= 1
      BY <1>1, <1>2
    <3>2. i + 1 > 2 => todo[(i + 1) - 2].do = "entry"
      BY <1>1, <3>1 DEF Body, Seated
    <3>3. i # 2
      <4>. SUFFICES ASSUME i = 2 PROVE FALSE
        OBVIOUS
      <4>1. todo[1].do = "entry"
        BY <3>2
      <4>. QED BY <1>1, <2>2, <4>1
    <3>4. i + 1 <= 2
      BY <3>1, <3>3
    <3>5. lu[dst] # FREE
      BY <3>1, <3>4 DEF FileInv, CreatedSafe
    <3>. QED BY <2>2, <3>5
  <2>. QED BY <2>1, <2>2
<1>6. OpenSafe'
  <2>. SUFFICES ASSUME phase \in {"defaults", "save"}
       PROVE  t # <<>> /\ t[Len(t)].do \in Enders
    BY <1>3 DEF OpenSafe
  <2>1. todo[Len(todo)].do \in Enders
    BY <1>1 DEF FileInv, OpenSafe
  <2>2. Len(todo) # 1
    BY <1>1, <2>1 DEF Enders
  <2>3. Len(t) >= 1 /\ Len(t) \in 1..(Len(todo) - 1) /\ Len(t) + 1 = Len(todo)
    BY <1>1, <1>2, <2>2
  <2>4. t[Len(t)] = todo[Len(todo)]
    BY <1>2, <2>3
  <2>5. t # <<>>
    BY <2>3
  <2>. QED BY <2>1, <2>4, <2>5
<1>. QED BY <1>4, <1>5, <1>6 DEF FileInv

LEMMA WriteLuKeeps == ASSUME FileInv, WriteLu, UNCHANGED nodeVars PROVE FileInv'
<1>1. /\ At("entry") /\ Then(<<>>) /\ WriteEntry(dst, Step.id)
      /\ fs' = [fs EXCEPT !.allocated = @ + 1]
      /\ UNCHANGED <<page, magic, count, fds, work, dst, call>>
  BY DEF WriteLu
<1>2. Typed /\ StepTyped(Step) /\ Step.do = "entry" /\ todo # <<>> /\ todo[1].do = "entry"
  BY <1>1, AtStep, HeadOf DEF FileInv, Firsts
<1>3. Step.id \in Id /\ dst \in Objects
  BY <1>2 DEF StepTyped, Typed
<1>4. And(lu[dst], Step.id) \in Id
  BY <1>2, <1>3, EntryStaysId DEF Typed, FlashTyped
<1>5. lu' = [lu EXCEPT ![dst] = And(lu[dst], Step.id)]
  BY <1>1 DEF WriteEntry
<1>6. lu' \in [Objects -> Id \cup {FREE}] /\ lu'[dst] \in Id /\ lu'[dst] # FREE
      /\ \A p \in Objects : p # dst => lu'[p] = lu[p]
  <2>1. FREE \notin Id
    BY DEF Id, FREE
  <2>. QED BY <1>2, <1>3, <1>4, <1>5, <2>1 DEF Typed, FlashTyped
<1>7. fs' \in FsType /\ (fs'.mounted <=> fs.mounted) /\ fs'.free_blocks = fs.free_blocks
  BY <1>1, <1>2 DEF Typed, FsType
<1>8. Typed'
  BY <1>1, <1>2, <1>6, <1>7 DEF Typed, FlashTyped, nodeVars
<1>9. CountSafe'
  <2>1. FreeBlocks' \subseteq FreeBlocks \ Taken
    <3>. SUFFICES ASSUME NEW b \in Bixes, lu'[FirstPage(b)] = FREE
         PROVE  b \in FreeBlocks /\ b \notin Taken
      BY DEF FreeBlocks
    <3>1. FirstPage(b) \in Objects
      BY BlockPages
    <3>2. FirstPage(b) # dst
      BY <1>6
    <3>. QED BY <1>6, <3>1, <3>2 DEF FreeBlocks, Taken
  <2>2. FreeBlocks' \ Taken' \subseteq FreeBlocks \ Taken
    BY <2>1
  <2>. QED BY <1>7, <2>2, CountShrinks
<1>10. Allowed \subseteq Allowed'
  BY <1>1, <1>7, MoreAllowed DEF HasHeader
<1>. QED BY <1>1, <1>6, <1>8, <1>9, <1>10, Advances DEF nodeVars

LEMMA WriteImageKeeps == ASSUME FileInv, WriteImage, UNCHANGED nodeVars PROVE FileInv'
<1>1. /\ At("page") /\ Then(<<>>) /\ WritePage(dst, Step.image)
      /\ UNCHANGED <<lu, magic, count, fs, fds, work, dst, call>>
  BY DEF WriteImage
<1>2. Typed /\ StepTyped(Step) /\ Step.do = "page" /\ todo # <<>> /\ todo[1].do = "page"
      /\ Len(todo) \in Nat /\ Len(todo) >= 1 /\ Body(todo, Allowed)
  BY <1>1, AtStep, HeadOf DEF FileInv, Firsts
<1>3. Step.image \in Page
  BY <1>2 DEF StepTyped
<1>4. page' \in [Objects -> Page]
  BY <1>1, <1>2, <1>3, ImageWritten DEF WritePage
<1>5. Typed'
  BY <1>1, <1>2, <1>4 DEF Typed, FlashTyped, nodeVars
<1>6. CountSafe'
  <2>1. FreeBlocks' = FreeBlocks
    BY <1>1 DEF FreeBlocks
  <2>2. CASE AtEntry
    <3>1. Len(todo) > 1 /\ todo[2].do = "entry"
      BY <1>2, <2>2 DEF AtEntry
    <3>2. PICK S : todo \in Seq(S)
      BY <1>2 DEF Body
    <3>3. todo' # <<>> /\ todo'[1] = todo[2]
      BY <1>1, <3>1, <3>2 DEF Then
    <3>4. AtEntry'
      BY <3>1, <3>3 DEF AtEntry
    <3>5. Taken' = Taken
      BY <1>1, <2>2, <3>4 DEF Taken
    <3>6. FreeBlocks' \ Taken' \subseteq FreeBlocks \ Taken
      BY <2>1, <3>5
    <3>. QED BY <1>1, <3>6, CountShrinks
  <2>3. CASE ~AtEntry
    <3>1. Taken = {}
      BY <2>3 DEF Taken
    <3>2. FreeBlocks' \ Taken' \subseteq FreeBlocks \ Taken
      BY <2>1, <3>1
    <3>. QED BY <1>1, <3>2, CountShrinks
  <2>. QED BY <2>2, <2>3
<1>7. Allowed \subseteq Allowed'
  BY <1>1, MoreAllowed DEF HasHeader
<1>. QED BY <1>1, <1>5, <1>6, <1>7, Advances DEF nodeVars

LEMMA UnlinkKeeps == ASSUME FileInv, Unlink, UNCHANGED nodeVars PROVE FileInv'
<1>1. /\ At("unlink") /\ Then(<<>>) /\ WriteEntry(Step.p, DELETED)
      /\ fs' = [fs EXCEPT !.deleted = @ + 1, !.allocated = @ - 1]
      /\ UNCHANGED <<page, magic, count, fds, work, dst, call>>
      /\ "unlink" \notin Later
  BY DEF Unlink, Later, Firsts
<1>2. Typed
  BY DEF FileInv
<1>. DEFINE p == Step.p
<1>3. lu' = [lu EXCEPT ![p] = And(lu[p], DELETED)]
  BY <1>1 DEF WriteEntry
<1>. HIDE DEF p
<1>4. p \in Objects => And(lu[p], DELETED) \in Id
  <2>1. DELETED \in Id
    BY DEF DELETED, Id, Words, ONES, IX_FLAG
  <2>. QED BY <1>2, <2>1, EntryStaysId DEF Typed, FlashTyped
<1>5. FREE \notin Id
  BY DEF Id, FREE
<1>6. lu' \in [Objects -> Id \cup {FREE}] /\ \A q \in Objects : lu'[q] = FREE => lu[q] = FREE
  <2>1. lu \in [Objects -> Id \cup {FREE}]
    BY <1>2 DEF Typed, FlashTyped
  <2>2. ASSUME NEW q \in Objects
        PROVE  lu'[q] \in Id \cup {FREE} /\ (lu'[q] = FREE => lu[q] = FREE)
    <3>1. CASE q = p
      <4>1. lu'[q] = And(lu[p], DELETED)
        BY <1>3, <2>1, <3>1
      <4>. QED BY <1>4, <1>5, <3>1, <4>1
    <3>2. CASE q # p
      <4>1. lu'[q] = lu[q]
        BY <1>3, <2>1, <3>2
      <4>. QED BY <2>1, <4>1
    <3>. QED BY <3>1, <3>2
  <2>3. lu' = [q \in Objects |-> lu'[q]]
    BY <1>3, <2>1
  <2>. QED BY <2>2, <2>3
<1>7. fs' \in FsType /\ (fs'.mounted <=> fs.mounted) /\ fs'.free_blocks = fs.free_blocks
  <2>1. fs \in FsType
    BY <1>2 DEF Typed
  <2>2. fs.deleted + 1 \in Int /\ fs.allocated - 1 \in Int
    BY <2>1 DEF FsType
  <2>3. PICK m \in Int, n \in Int : fs' = [fs EXCEPT !.deleted = m, !.allocated = n]
    BY <1>1, <2>2
  <2>. QED BY <2>1, <2>3 DEF FsType
<1>8. Typed'
  BY <1>1, <1>2, <1>6, <1>7 DEF Typed, FlashTyped, nodeVars
<1>9. CountSafe'
  <2>1. FreeBlocks' \subseteq FreeBlocks
    BY <1>6, BlockPages DEF FreeBlocks
  <2>2. Taken = {}
    BY <1>1, NoneTaken DEF FileInv
  <2>3. FreeBlocks' \ Taken' \subseteq FreeBlocks \ Taken
    BY <2>1, <2>2
  <2>. QED BY <1>7, <2>3, CountShrinks
<1>10. Allowed \subseteq Allowed'
  BY <1>1, <1>7, MoreAllowed DEF HasHeader
<1>. QED BY <1>1, <1>8, <1>9, <1>10, Popped DEF nodeVars, Later

LEMMA OneAfter ==
  ASSUME NEW u, NEW v
  PROVE  <<>> \o <<v>> = <<v>> /\ <<u>> \o <<v>> = <<u, v>>
<1>. DEFINE s == <<u>>
            t == <<v>>
            w == <<u, v>>
<1>1. s \in Seq({u, v}) /\ t \in Seq({u, v}) /\ w \in Seq({u, v})
  OBVIOUS
<1>2. Len(s) = 1 /\ Len(t) = 1 /\ Len(w) = 2 /\ s[1] = u /\ t[1] = v /\ w[1] = u /\ w[2] = v
  OBVIOUS
<1>. HIDE DEF s, t, w
<1>3. s \o t \in Seq({u, v}) /\ Len(s \o t) = 2 /\ (s \o t)[1] = u /\ (s \o t)[2] = v
  <2>1. s \o t \in Seq({u, v}) /\ Len(s \o t) = Len(s) + Len(t)
        /\ \A i \in 1..(Len(s) + Len(t)) :
             (s \o t)[i] = IF i <= Len(s) THEN s[i] ELSE t[i - Len(s)]
    BY <1>1, ConcatProperties
  <2>2. (s \o t)[1] = IF 1 <= 1 THEN s[1] ELSE t[1 - 1]
    BY <1>2, <2>1
  <2>3. (s \o t)[2] = IF 2 <= 1 THEN s[2] ELSE t[2 - 1]
    BY <1>2, <2>1
  <2>. QED BY <1>2, <2>1, <2>2, <2>3
<1>4. s \o t = w
  BY <1>1, <1>2, <1>3
<1>5. <<>> \o t = t
  BY <1>1
<1>. QED BY <1>4, <1>5 DEF s, t, w

LEMMA EraseTyped == ASSUME FileInv, Erase, UNCHANGED nodeVars PROVE FileInv'
<1>. DEFINE b == Step.b
<1>1. /\ At("erase") /\ Then(<<>>) /\ EraseBlock(b)
      /\ fs' = [fs EXCEPT !.free_blocks = @ + 1]
      /\ UNCHANGED <<fds, work, dst, call>> /\ "erase" \notin Later
  BY DEF Erase, Later, Firsts
<1>2. Typed /\ StepTyped(Step) /\ Step.do = "erase"
  BY <1>1, AtStep, HeadOf DEF FileInv, Later
<1>3. b \in Bixes
  BY <1>2 DEF StepTyped
<1>. HIDE DEF b
<1>4. /\ lu' = [p \in Objects |-> IF p \in Block(b) THEN FREE ELSE lu[p]]
      /\ page' = [p \in Objects |-> IF p \in Block(b) THEN ErasedPage ELSE page[p]]
      /\ magic' = magic \ {b} /\ count' = [count EXCEPT ![b] = ONES]
  BY <1>1 DEF EraseBlock
<1>5. /\ lu' \in [Objects -> Id \cup {FREE}] /\ page' \in [Objects -> Page]
      /\ magic' \subseteq Bixes /\ count' \in [Bixes -> Words]
  <2>1. ONES \in Words
    BY DEF Words, ONES
  <2>2. lu' \in [Objects -> Id \cup {FREE}]
    BY <1>2, <1>4 DEF Typed, FlashTyped
  <2>3. page' \in [Objects -> Page]
    BY <1>2, <1>4, ErasedIsPage DEF Typed, FlashTyped
  <2>4. magic' \subseteq Bixes /\ count' \in [Bixes -> Words]
    BY <1>2, <1>4, <2>1 DEF Typed, FlashTyped
  <2>. QED BY <2>2, <2>3, <2>4
<1>6. fs.free_blocks \in Nat /\ fs'.free_blocks = fs.free_blocks + 1
      /\ fs' \in FsType /\ (fs'.mounted <=> fs.mounted)
  BY <1>1, <1>2 DEF Typed, FsType
<1>7. Typed'
  BY <1>1, <1>2, <1>5, <1>6 DEF Typed, FlashTyped, nodeVars
<1>8. CountSafe'
  <2>. SUFFICES ASSUME fs.mounted
       PROVE  Cardinality(FreeBlocks' \ Taken') <= fs.free_blocks + 1
    BY <1>6 DEF CountSafe
  <2>1. FreeBlocks' \subseteq FreeBlocks \cup {b}
    <3>. SUFFICES ASSUME NEW c \in Bixes, lu'[FirstPage(c)] = FREE, c # b
         PROVE  lu[FirstPage(c)] = FREE
      BY DEF FreeBlocks
    <3>1. FirstPage(c) \in Objects /\ BlockOf(FirstPage(c)) = c
      BY BlockPages
    <3>2. FirstPage(c) \notin Block(b)
      BY <1>3, <3>1, BlockPages
    <3>. QED BY <1>4, <3>1, <3>2
  <2>2. Taken = {}
    BY <1>1, NoneTaken DEF FileInv, Later
  <2>3. Cardinality(FreeBlocks) <= fs.free_blocks
    <3>1. FreeBlocks \ Taken = FreeBlocks
      BY <2>2
    <3>. QED BY <3>1 DEF FileInv, CountSafe
  <2>4. IsFiniteSet(FreeBlocks) /\ Cardinality(FreeBlocks) \in Nat
    BY FreeBlocksAreBlocks, BixesFinite
  <2>5. Cardinality(FreeBlocks \cup {b}) <= Cardinality(FreeBlocks) + 1
    BY <2>4, FS_AddElement
  <2>6. FreeBlocks' \ Taken' \subseteq FreeBlocks \cup {b} /\ FreeBlocks \cup {b} \subseteq Bixes
    BY <1>3, <2>1, FreeBlocksAreBlocks
  <2>7. /\ Cardinality(FreeBlocks' \ Taken') <= Cardinality(FreeBlocks \cup {b})
        /\ Cardinality(FreeBlocks' \ Taken') \in Nat /\ Cardinality(FreeBlocks \cup {b}) \in Nat
    BY <2>6, FewerBlocks
  <2>. QED BY <1>6, <2>3, <2>4, <2>5, <2>7
<1>9. Allowed \subseteq Allowed'
  BY <1>1, <1>6, MoreAllowed DEF HasHeader
<1>10. "erase" \notin Firsts \cup {"created", "fail", "page", "entry"} /\ phase' = phase
  BY <1>1 DEF Later, nodeVars
<1>. QED BY <1>1, <1>7, <1>8, <1>9, <1>10, Popped, Zenon

LEMMA FullKeeps ==
  ASSUME FileInv, NEW d \in {"find_free", "take_free"}, At(d), todo' = Step.full \o <<Do("fail")>>,
         UNCHANGED <<flash, fs, fds, work, dst, call>>, UNCHANGED nodeVars
  PROVE  FileInv'
<1>. DEFINE u == Indexing(0)
            v == Do("fail")
<1>1. StepTyped(Step) /\ Step.do = d /\ fs.mounted
  BY AtStep, HeadOf DEF FileInv, Firsts, OnMount
<1>2. Step.full \in {<<>>, <<u>>}
  BY <1>1 DEF StepTyped
<1>3. Quiet(u, Allowed) /\ Quiet(v, Allowed) /\ v.do = "fail"
  <2>1. 0 \in Words
    BY DEF Words, ONES
  <2>2. StepTyped(u) /\ StepTyped(v)
    BY <2>1, TypedSteps, UntypedSteps
  <2>. QED BY <1>1, <2>2, MountedAllows DEF Quiet, OnMount, Indexing, Do
<1>4. todo' = Step.full \o <<v>>
  OBVIOUS
<1>. HIDE DEF u, v
<1>13. todo' = <<v>> \/ todo' = <<u, v>>
  BY <1>2, <1>4, OneAfter
<1>14. todo' # <<>> /\ todo'[Len(todo')] = v
  <2>1. <<v>> # <<>> /\ Len(<<v>>) = 1 /\ <<v>>[1] = v
    OBVIOUS
  <2>2. <<u, v>> # <<>> /\ Len(<<u, v>>) = 2 /\ <<u, v>>[2] = v
    OBVIOUS
  <2>. QED BY <1>13, <2>1, <2>2
<1>5. Body(<<v>>, Allowed \ {"created"}) /\ Body(<<u, v>>, Allowed \ {"created"})
  BY <1>3, QuietOne, QuietTwo
<1>6. Body(todo', Allowed \ {"created"})
  BY <1>5, <1>13
<1>7. Typed' /\ phase' = phase /\ fs' = fs /\ fds' = fds /\ call' = call /\ lu' = lu
  BY DEF FileInv, Typed, FlashTyped, flash, nodeVars
<1>8. Allowed' = Allowed
  BY <1>7 DEF Allowed, HasHeader
<1>9. Shape'
  <2>1. Body(todo', Allowed)
    BY <1>6, WiderBody
  <2>. QED BY <1>8, <2>1 DEF Shape
<1>10. CreatedSafe'
  BY <1>6 DEF Body, CreatedSafe
<1>11. OpenSafe'
  <2>1. todo' # <<>> /\ todo'[Len(todo')].do = "fail"
    BY <1>3, <1>14
  <2>. QED BY <2>1 DEF OpenSafe, Enders
<1>12. CountSafe'
  BY <1>7, CountKept
<1>. QED BY <1>7, <1>9, <1>10, <1>11, <1>12 DEF FileInv

LEMMA TakeFreeKeeps == ASSUME FileInv, TakeFree, UNCHANGED nodeVars PROVE FileInv'
<1>1. PICK d \in {"find_free", "take_free"} : At(d)
  BY DEF TakeFree, Taking
<1>2. d \notin Later /\ d \in OnMount
  BY DEF Later, Firsts, OnMount
<1>3. Typed /\ fs.mounted /\ Body(todo, Allowed) /\ todo # <<>> /\ todo[1].do = d
  BY <1>1, <1>2, AtStep, HeadOf DEF FileInv, Later
<1>4. CASE FewBlocks \/ WithId(FREE) = {}
  <2>1. /\ todo' = Step.full \o <<Do("fail")>>
        /\ UNCHANGED <<flash, fs, fds, work, dst, call>>
    BY <1>4 DEF TakeFree, NoPage
  <2>. QED BY <1>1, <2>1, FullKeeps
<1>5. CASE ~(FewBlocks \/ WithId(FREE) = {})
  <2>. DEFINE p == FirstFrom(Start(fs.free_cursor), WithId(FREE))
              b == BlockOf(p)
              n == IF p = FirstPage(b) THEN fs.free_blocks - 1 ELSE fs.free_blocks
  <2>1. /\ dst' = p
        /\ fs' = [fs EXCEPT !.free_cursor = p + 1,
                    !.free_blocks = IF p = FirstPage(BlockOf(p)) THEN @ - 1 ELSE @]
        /\ Then(<<>>) /\ UNCHANGED <<flash, fds, work, call>>
    BY <1>5 DEF TakeFree, NoPage
  <2>2. p \in WithId(FREE)
    <3>1. Start(fs.free_cursor) \in Int
      <4>1. fs.free_cursor \in Int
        BY <1>3, Sizes DEF Typed, FsType
      <4>. QED BY <4>1, StartIsNumber
    <3>2. WithId(FREE) \subseteq Objects /\ WithId(FREE) # {}
      BY <1>5 DEF WithId
    <3>. QED BY <3>1, <3>2, NearestIn
  <2>3. fs' = [fs EXCEPT !.free_cursor = p + 1, !.free_blocks = n]
    BY <2>1
  <2>. HIDE DEF p
  <2>4. p \in Objects /\ lu[p] = FREE
    BY <2>2 DEF WithId
  <2>5. b \in Bixes /\ p \in 1..(Pages - 1)
    BY <2>4, PageBlock, Sizes
  <2>. HIDE DEF b
  <2>6. Taken = {} /\ Cardinality(FreeBlocks) <= fs.free_blocks
    <3>1. Taken = {}
      BY <1>1, <1>2, NoneTaken DEF FileInv, Later
    <3>2. FreeBlocks \ Taken = FreeBlocks
      BY <3>1
    <3>. QED BY <1>3, <3>1, <3>2 DEF FileInv, CountSafe
  <2>7. IsFiniteSet(FreeBlocks) /\ Cardinality(FreeBlocks) \in Nat /\ fs.free_blocks \in Nat
    BY <1>3, FreeBlocksAreBlocks, BixesFinite DEF Typed, FsType
  <2>8. AtEntry'
    <3>1. PICK S : todo \in Seq(S)
      BY <1>3 DEF Body
    <3>2. Len(todo) \in Nat /\ Len(todo) >= 1 /\ Seated(todo, 1)
      BY <1>3, TailBody
    <3>3. /\ 1 < Len(todo)
          /\ \/ todo[2].do = "entry"
             \/ todo[2].do = "page" /\ 2 < Len(todo) /\ todo[3].do = "entry"
      BY <1>3, <3>2 DEF Seated
    <3>4. todo' \in Seq(S) /\ Len(todo') = Len(todo) - 1 /\ todo'[1] = todo[2]
          /\ (2 < Len(todo) => todo'[2] = todo[3])
      BY <2>1, <3>1, <3>3 DEF Then
    <3>. QED BY <3>2, <3>3, <3>4 DEF AtEntry
  <2>9. Taken' = {c \in Bixes : FirstPage(c) = p} /\ FreeBlocks' = FreeBlocks
    BY <2>1, <2>8 DEF Taken, FreeBlocks, flash
  <2>10. n \in Nat /\ Cardinality(FreeBlocks' \ Taken') <= n
    <3>1. CASE p = FirstPage(b)
      <4>1. b \in FreeBlocks /\ b \in Taken'
        BY <2>4, <2>5, <2>9, <3>1 DEF FreeBlocks
      <4>2. /\ Cardinality(FreeBlocks \ {b}) = Cardinality(FreeBlocks) - 1
            /\ Cardinality(FreeBlocks \ {b}) \in Nat
        BY <2>7, <4>1, FS_RemoveElement, FS_CardinalityType
      <4>3. FreeBlocks' \ Taken' \subseteq FreeBlocks \ {b} /\ FreeBlocks \ {b} \subseteq Bixes
        BY <2>9, <4>1, FreeBlocksAreBlocks
      <4>4. /\ Cardinality(FreeBlocks' \ Taken') <= Cardinality(FreeBlocks \ {b})
            /\ Cardinality(FreeBlocks' \ Taken') \in Nat
        BY <4>3, FewerBlocks
      <4>5. n = fs.free_blocks - 1
        BY <3>1
      <4>. HIDE DEF n
      <4>. QED BY <2>6, <2>7, <4>2, <4>4, <4>5
    <3>2. CASE p # FirstPage(b)
      <4>1. FreeBlocks' \ Taken' \subseteq FreeBlocks
        BY <2>9
      <4>2. /\ Cardinality(FreeBlocks' \ Taken') <= Cardinality(FreeBlocks)
            /\ Cardinality(FreeBlocks' \ Taken') \in Nat
        BY <4>1, FreeBlocksAreBlocks, FewerBlocks
      <4>3. n = fs.free_blocks
        BY <3>2
      <4>. HIDE DEF n
      <4>. QED BY <2>6, <2>7, <4>2, <4>3
    <3>. QED BY <3>1, <3>2
  <2>. HIDE DEF n
  <2>11. fs' \in FsType /\ (fs'.mounted <=> fs.mounted) /\ fs'.free_blocks = n
    <3>1. p + 1 \in 1..Pages
      BY <2>5, Sizes
    <3>. QED BY <1>3, <2>3, <2>10, <3>1 DEF Typed, FsType
  <2>12. Typed'
    BY <1>3, <2>1, <2>4, <2>11 DEF Typed, FlashTyped, flash, nodeVars
  <2>13. CountSafe'
    BY <2>10, <2>11 DEF CountSafe
  <2>14. Allowed \subseteq Allowed'
    BY <2>1, <2>11, MoreAllowed DEF HasHeader
  <2>. QED BY <1>1, <1>2, <2>1, <2>12, <2>13, <2>14, Popped DEF nodeVars, Later
<1>. QED BY <1>4, <1>5

-----------------------------------------------------------------------------
(* The steps that begin a call. *)

LEMMA Replaced ==
  ASSUME Typed', Shape', \A i \in 1..Len(todo') : i <= 2 => todo'[i].do # "created",
         OpenSafe', CountSafe'
  PROVE  FileInv'
  BY DEF FileInv, CreatedSafe

LEMMA FirstStep ==
  ASSUME Shape, NEW d \in Firsts, At(d)
  PROVE  /\ d = "forget" => todo = Mounting
         /\ d = "open" => todo = Opening(TRUE) \/ todo = Opening(FALSE)
         /\ d = "remove" => todo = <<Do("remove")>>
         /\ d = "by_page" =>
              /\ fs.mounted
              /\ \E p \in Objects :
                   /\ lu[p] # FREE
                   /\ todo = <<ByPage(p)>> \/ todo = <<ByPage(p), Do("mark"), Do("truncate")>>
<1>1. todo # <<>> /\ todo[1].do = d /\ Len(todo) \in Nat /\ Len(todo) >= 1
  BY HeadOf
<1>2. ~Body(todo, Allowed)
  <2>. SUFFICES ASSUME Body(todo, Allowed) PROVE FALSE
    OBVIOUS
  <2>1. d \in Allowed
    BY <1>1, TailBody
  <2>2. Firsts \cap Allowed = {}
    BY DEF Firsts, Allowed, Loose, OnMount, OnFile
  <2>. QED BY <2>1, <2>2
<1>3. todo = Opening(TRUE) \/ todo = Opening(FALSE) => d = "open"
  BY <1>1 DEF Opening
<1>4. todo = <<Do("remove")>> => d = "remove"
  BY <1>1 DEF Do
<1>5. todo = Mounting => d = "forget"
  BY <1>1 DEF Do, Mounting
<1>6. \A p : todo = <<ByPage(p)>> \/ todo = <<ByPage(p), Do("mark"), Do("truncate")>> => d = "by_page"
  BY <1>1 DEF ByPage
<1>. QED BY <1>2, <1>3, <1>4, <1>5, <1>6 DEF Shape

LEMMA ForgetTyped == ASSUME FileInv, Forget, UNCHANGED nodeVars PROVE FileInv'
<1>. DEFINE u == Do("scan")
            v == Do("tally")
<1>1. /\ At("forget") /\ "forget" \in Firsts /\ Then(<<>>) /\ fs' = FreshFs /\ fds' = FreshFds
      /\ UNCHANGED <<flash, work, dst, call>>
  BY DEF Forget, Firsts
<1>2. todo = <<Do("forget"), u, v>>
  BY <1>1, FirstStep DEF FileInv, Mounting
<1>3. u.do = "scan" /\ v.do = "tally" /\ StepTyped(u) /\ StepTyped(v)
  BY UntypedSteps DEF Do
<1>. HIDE DEF u, v
<1>4. todo' = <<u, v>>
  BY <1>1, <1>2 DEF Then
<1>5. Typed'
  BY <1>1, FreshTypes DEF FileInv, Typed, FlashTyped, flash, nodeVars
<1>6. Shape'
  <2>1. Quiet(u, Allowed') /\ Quiet(v, Allowed')
    BY <1>3 DEF Quiet, Allowed, Loose
  <2>2. Body(<<u, v>>, Allowed' \ {"created"})
    BY <2>1, QuietTwo
  <2>3. Body(<<u, v>>, Allowed')
    BY <2>2, WiderBody
  <2>. QED BY <1>4, <2>3 DEF Shape
<1>7. \A i \in 1..Len(todo') : todo'[i].do # "created"
  BY <1>3, <1>4
<1>8. phase \notin {"defaults", "save"}
  <2>1. todo # <<>> /\ Len(todo) = 3 /\ todo[3] = v
    BY <1>2
  <2>. QED BY <1>3, <2>1 DEF FileInv, OpenSafe, Enders
<1>9. OpenSafe'
  BY <1>8 DEF OpenSafe, nodeVars
<1>10. CountSafe'
  BY <1>1 DEF CountSafe, FreshFs
<1>. QED BY <1>5, <1>6, <1>7, <1>9, <1>10, Replaced

LEMMA ObjectsFinite ==
  ASSUME NEW S, S \subseteq Objects
  PROVE  Cardinality(S) \in Nat
<1>1. S \subseteq 1..(Pages - 1) /\ Pages - 1 \in Int
  BY Sizes
<1>2. IsFiniteSet(1..(Pages - 1))
  BY <1>1, FS_Interval
<1>. QED BY <1>1, <1>2, FS_Subset, FS_CardinalityType

LEMMA TallyTyped == ASSUME FileInv, Tally, UNCHANGED nodeVars PROVE FileInv'
<1>. DEFINE k == Cardinality(FreeBlocks)
            m == Cardinality({p \in Objects : InUse(p)})
            n == Cardinality(WithId(DELETED))
<1>1. /\ At("tally") /\ Then(<<>>) /\ UNCHANGED <<flash, fds, work, dst, call>>
      /\ fs' = [fs EXCEPT !.mounted = TRUE, !.free_blocks = k, !.allocated = m, !.deleted = n]
      /\ "tally" \notin Later
  BY DEF Tally, Later, Firsts
<1>2. k \in Nat /\ m \in Nat /\ n \in Nat
  <2>1. {p \in Objects : InUse(p)} \subseteq Objects /\ WithId(DELETED) \subseteq Objects
    BY DEF WithId
  <2>. QED BY <2>1, ObjectsFinite, FreeBlocksAreBlocks, BixesFinite
<1>3. FreeBlocks' = FreeBlocks
  BY <1>1 DEF FreeBlocks, flash
<1>4. Cardinality(FreeBlocks' \ Taken') <= k
  BY <1>3, FreeBlocksAreBlocks, FewerBlocks
<1>. HIDE DEF k, m, n
<1>5. fs \in FsType
  BY DEF FileInv, Typed
<1>6. fs' \in FsType /\ fs'.mounted /\ fs'.free_blocks = k
  <2>1. fs' = [fs EXCEPT !.mounted = TRUE, !.free_blocks = k, !.allocated = m, !.deleted = n]
    BY <1>1
  <2>2. fs' \in FsType
    <3>1. PICK a \in Nat : a = k
      BY <1>2
    <3>2. PICK b \in Int : b = m
      BY <1>2
    <3>3. PICK c \in Int : c = n
      BY <1>2
    <3>4. fs' = [fs EXCEPT !.mounted = TRUE, !.free_blocks = a, !.allocated = b, !.deleted = c]
      BY <2>1, <3>1, <3>2, <3>3
    <3>. QED BY <1>5, <3>4 DEF FsType
  <2>3. fs'.free_blocks = k
    BY <1>5, <2>1 DEF FsType
  <2>4. fs'.mounted = TRUE
    BY <1>5, <2>1 DEF FsType
  <2>. QED BY <2>2, <2>3, <2>4
<1>7. Typed'
  BY <1>1, <1>6 DEF FileInv, Typed, FlashTyped, flash, nodeVars
<1>8. CountSafe'
  BY <1>4, <1>6 DEF CountSafe
<1>9. Allowed \subseteq Allowed'
  BY <1>1, <1>6, MoreAllowed DEF HasHeader
<1>10. "tally" \notin Firsts \cup {"created", "fail", "page", "entry"} /\ phase' = phase
  BY <1>1 DEF Later, nodeVars
<1>. QED BY <1>1, <1>7, <1>8, <1>9, <1>10, Popped, Zenon

LEMMA CreatingBody ==
  ASSUME NEW D, OnMount \subseteq D, NEW id \in Id
  PROVE  /\ Body(Creating(id), D) /\ Creating(id) # <<>> /\ Creating(id)[Len(Creating(id))].do = "created"
         /\ \A i \in 1..Len(Creating(id)) : i <= 2 => Creating(id)[i].do # "created"
<1>. DEFINE u == Checking(DATA_PAGE_SIZE)
            v == FindingFree
            w == Linking(id)
            x == Putting(FreshHeader(id))
            y == Do("created")
            s == <<u, v, w, x, y>>
<1>1. FreshHeader(id) \in Page
  BY DEF FreshHeader, Page, Flags, Id, Words, ONES
<1>2. /\ StepTyped(u) /\ StepTyped(v) /\ StepTyped(w) /\ StepTyped(x) /\ StepTyped(y)
  BY <1>1, TypedSteps, UntypedSteps
<1>3. u.do = "gc_check" /\ v.do = "find_free" /\ w.do = "entry" /\ x.do = "page" /\ y.do = "created"
  BY DEF Checking, FindingFree, FindingOr, Linking, Putting, Do
<1>4. Creating(id) = s
  BY DEF Creating
<1>. HIDE DEF u, v, w, x, y
<1>5. /\ s \in Seq({u, v, w, x, y}) /\ Len(s) = 5 /\ s # <<>>
      /\ s[1] = u /\ s[2] = v /\ s[3] = w /\ s[4] = x /\ s[5] = y
  OBVIOUS
<1>. HIDE DEF s
<1>6. \A i \in 1..Len(s) : i = 1 \/ i = 2 \/ i = 3 \/ i = 4 \/ i = 5
  BY <1>5
<1>7. Seated(s, 1) /\ Seated(s, 2) /\ Seated(s, 3) /\ Seated(s, 4)
  BY <1>3, <1>5 DEF Seated
<1>8. Seated(s, 5)
  BY <1>3, <1>5 DEF Seated
<1>9. \A i \in 1..Len(s) : s[i].do \in D /\ StepTyped(s[i]) /\ Seated(s, i)
  <2>. SUFFICES ASSUME NEW i \in 1..Len(s) PROVE s[i].do \in D /\ StepTyped(s[i]) /\ Seated(s, i)
    OBVIOUS
  <2>1. {"gc_check", "find_free", "entry", "page", "created"} \subseteq D
    BY DEF OnMount
  <2>2. i = 1 \/ i = 2 \/ i = 3 \/ i = 4 \/ i = 5
    BY <1>6
  <2>. QED BY <1>2, <1>3, <1>5, <1>7, <1>8, <2>1, <2>2
<1>10. Body(s, D)
  BY <1>5, <1>9 DEF Body
<1>11. \A i \in 1..Len(s) : i <= 2 => s[i].do # "created"
  BY <1>3, <1>5, <1>6
<1>. QED BY <1>3, <1>4, <1>5, <1>10, <1>11

LEMMA NamedInUse ==
  ASSUME NEW s \in Int, Named # {}
  PROVE  FirstFrom(s, Named) \in Objects /\ lu[FirstFrom(s, Named)] # FREE /\ FirstFrom(s, Named) \in Int
<1>. DEFINE p == FirstFrom(s, Named)
<1>1. p \in Named
  BY NearestIn DEF Named
<1>. HIDE DEF p
<1>2. p \in Objects /\ lu[p] # FREE
  BY <1>1 DEF Named, NamedHeader, InUse
<1>3. p \in Int
  BY <1>2, PageBlock
<1>. QED BY <1>2, <1>3 DEF p

LEMMA NoneKeeps ==
  ASSUME FileInv, NEW d, d \notin {"page", "entry"}, At(d), NoDescriptor, UNCHANGED nodeVars
  PROVE  FileInv'
<1>1. /\ todo' = <<>> /\ rc' = "failed"
      /\ UNCHANGED <<lu, page, magic, count, fs, fds, work, dst, call, phase, config, stored>>
  BY DEF NoDescriptor, flash, nodeVars
<1>2. Typed'
  BY <1>1 DEF FileInv, Typed, FlashTyped
<1>3. Shape'
  BY <1>1, EmptyBody DEF Shape
<1>4. OpenSafe'
  BY <1>1 DEF OpenSafe
<1>5. CountSafe'
  BY <1>1, CountKept
<1>6. \A i \in 1..Len(todo') : i <= 2 => todo'[i].do # "created"
  BY <1>1
<1>. QED BY <1>2, <1>3, <1>4, <1>5, <1>6, Replaced

LEMMA ClosedFds ==
  /\ Closed \subseteq Fds /\ Known \subseteq Closed
  /\ Closed # {} => ForName \in Fds
  /\ \A f \in IF Closed = Known THEN Known ELSE {Min(Closed \ Known)} : Closed # {} => f \in Fds
<1>1. Closed \subseteq Fds /\ Known \subseteq Closed
  BY DEF Closed, Known
<1>2. Known # {} => Min(Known) \in Fds
  BY <1>1, SubsetOfFds
<1>3. Closed # {} => Min(Closed) \in Fds
  BY <1>1, SubsetOfFds
<1>4. Closed # Known => Min(Closed \ Known) \in Fds
  <2>. DEFINE S == Closed \ Known
  <2>1. S \subseteq Fds
    BY <1>1
  <2>2. Closed # Known => S # {}
    BY <1>1
  <2>. HIDE DEF S
  <2>3. S # {} => Min(S) \in Fds
    BY <2>1, SubsetOfFds
  <2>. QED BY <2>2, <2>3 DEF S
<1>. QED BY <1>1, <1>2, <1>3, <1>4 DEF ForName

LEMMA TailOfOne ==
  ASSUME NEW S, NEW s \in Seq(S), Len(s) = 1
  PROVE  Tail(s) = <<>>
<1>1. Tail(s) \in Seq(S) /\ Len(Tail(s)) = 0
  OBVIOUS
<1>. QED BY <1>1, EmptySeq

LEMMA HintIsNumber ==
  ASSUME Typed, NEW f \in Fds
  PROVE  Hint(f) \in Int
<1>1. fds[f].hdr \in {0} \cup Objects /\ fs.cursor \in Int
  BY DEF Typed, FdType, FsType
<1>2. \A p \in Objects : p \in Int
  BY PageBlock
<1>3. fds[f].hdr \in Int
  BY <1>1, <1>2
<1>4. Start(fds[f].hdr) \in Int
  BY <1>3, StartIsNumber
<1>. QED BY <1>1, <1>4 DEF Hint

LEMMA NewId ==
  ASSUME FreeIds # {}
  PROVE  Min(FreeIds) + IX_FLAG \in Id
<1>1. FreeIds \subseteq 1..14
  BY DEF FreeIds, Ids, IX_FLAG
<1>2. FreeIds \subseteq Nat
  BY <1>1
<1>3. Min(FreeIds) \in FreeIds
  BY <1>2, MinIn
<1>. DEFINE n == Min(FreeIds)
<1>4. n \in 1..14
  BY <1>1, <1>3
<1>. HIDE DEF n
<1>5. n + IX_FLAG \in Id
  BY <1>4 DEF Id, Words, ONES, IX_FLAG
<1>. QED BY <1>5 DEF n

LEMMA OpenTyped == ASSUME FileInv, Open, UNCHANGED nodeVars PROVE FileInv'
<1>1. At("open") /\ "open" \in Firsts
  BY DEF Open, Firsts
<1>2. Typed
  BY DEF FileInv
<1>3. CASE ~fs.mounted \/ Closed = {}
  <2>1. NoDescriptor
    BY <1>3 DEF Open
  <2>. QED BY <1>1, <2>1, NoneKeeps
<1>4. CASE ~(~fs.mounted \/ Closed = {})
  <2>. DEFINE f == ForName
              p == FirstFrom(Hint(f), Named)
              id == Min(FreeIds) + IX_FLAG
              c == IF Named # {} THEN p ELSE Hint(f)
              s == IF Named # {} THEN <<ByPage(p)>>
                   ELSE IF Step.create /\ FreeIds # {} THEN Creating(id) ELSE <<Do("fail")>>
  <2>1. /\ fds' = [fds EXCEPT ![f].open = TRUE, ![f].named = TRUE]
        /\ call' = [call EXCEPT !.fd = f]
        /\ fs' = [fs EXCEPT !.cursor = c]
        /\ Then(s) /\ UNCHANGED <<flash, work, dst>>
    BY <1>4 DEF Open, ByPage
  <2>2. f \in Fds /\ fs.mounted
    BY <1>4, ClosedFds
  <2>3. Hint(f) \in Int
    BY <1>2, <2>2, HintIsNumber
  <2>4. Named # {} => p \in Objects /\ lu[p] # FREE /\ p \in Int
    BY <2>3, NamedInUse
  <2>5. c \in Int
    BY <2>3, <2>4
  <2>. HIDE DEF f, c, p
  <2>6. fs' \in FsType /\ fs'.mounted /\ fs'.free_blocks = fs.free_blocks
    BY <1>2, <2>1, <2>2, <2>5 DEF Typed, FsType
  <2>7. call' \in CallType
    BY <1>2, <2>1, <2>2 DEF Typed, CallType
  <2>8. fds' \in [Fds -> FdType]
    BY <1>2, <2>1, <2>2 DEF Typed, FdType
  <2>9. Typed'
    BY <1>2, <2>1, <2>6, <2>7, <2>8 DEF Typed, FlashTyped, flash, nodeVars
  <2>10. todo' = s
    <3>1. PICK x : todo = <<x>>
      BY <1>1, FirstStep DEF FileInv, Opening
    <3>2. Tail(todo) = <<>>
      BY <3>1
    <3>3. \E S : s \in Seq(S)
      <4>1. <<ByPage(p)>> \in Seq({ByPage(p)}) /\ <<Do("fail")>> \in Seq({Do("fail")})
        OBVIOUS
      <4>2. \E S : Creating(id) \in Seq(S)
        <5>. DEFINE u == Checking(DATA_PAGE_SIZE)
                    v == FindingFree
                    w == Linking(id)
                    y == Putting(FreshHeader(id))
                    z == Do("created")
        <5>1. Creating(id) = <<u, v, w, y, z>>
          BY DEF Creating
        <5>. HIDE DEF u, v, w, y, z
        <5>2. <<u, v, w, y, z>> \in Seq({u, v, w, y, z})
          OBVIOUS
        <5>. QED BY <5>1, <5>2
      <4>. QED BY <4>1, <4>2
    <3>. HIDE DEF s
    <3>4. todo' = s \o <<>>
      BY <2>1, <3>2 DEF Then
    <3>. QED BY <3>3, <3>4, ConcatEmptySeq
  <2>11. OnMount \subseteq Allowed'
    BY <2>6 DEF Allowed
  <2>12. CountSafe'
    <3>1. lu' = lu /\ (fs'.mounted <=> fs.mounted) /\ "open" \notin {"page", "entry"}
      BY <2>1, <2>2, <2>6 DEF flash
    <3>. QED BY <1>1, <2>6, <3>1, CountKept
  <2>13. CASE Named # {}
    <3>1. todo' = <<ByPage(p)>>
      BY <2>10, <2>13
    <3>2. Shape'
      BY <2>1, <2>4, <2>6, <2>13, <3>1 DEF Shape, flash
    <3>3. OpenSafe'
      BY <3>1 DEF OpenSafe, ByPage, Enders
    <3>4. \A i \in 1..Len(todo') : i <= 2 => todo'[i].do # "created"
      BY <3>1 DEF ByPage
    <3>. QED BY <2>9, <2>12, <3>2, <3>3, <3>4, Replaced
  <2>14. CASE Named = {} /\ Step.create /\ FreeIds # {}
    <3>1. todo' = Creating(id)
      BY <2>10, <2>14
    <3>2. id \in Id
      BY <2>14, NewId
    <3>. HIDE DEF id
    <3>3. /\ Body(todo', Allowed') /\ todo' # <<>> /\ todo'[Len(todo')].do = "created"
          /\ \A i \in 1..Len(todo') : i <= 2 => todo'[i].do # "created"
      BY <2>11, <3>1, <3>2, CreatingBody
    <3>4. Shape'
      BY <3>3 DEF Shape
    <3>5. OpenSafe'
      BY <3>3 DEF OpenSafe, Enders
    <3>. QED BY <2>9, <2>12, <3>3, <3>4, <3>5, Replaced
  <2>15. CASE Named = {} /\ ~(Step.create /\ FreeIds # {})
    <3>. DEFINE u == Do("fail")
    <3>1. todo' = <<u>>
      BY <2>10, <2>15
    <3>2. Quiet(u, Allowed') /\ u.do = "fail"
      BY <2>11, UntypedSteps DEF Quiet, Do, OnMount
    <3>. HIDE DEF u
    <3>3. Body(todo', Allowed')
      <4>1. Body(<<u>>, Allowed' \ {"created"})
        BY <3>2, QuietOne
      <4>. QED BY <3>1, <4>1, WiderBody
    <3>4. Shape'
      BY <3>3 DEF Shape
    <3>5. OpenSafe'
      BY <3>1, <3>2 DEF OpenSafe, Enders
    <3>6. \A i \in 1..Len(todo') : i <= 2 => todo'[i].do # "created"
      BY <3>1, <3>2
    <3>. QED BY <2>9, <2>12, <3>4, <3>5, <3>6, Replaced
  <2>. QED BY <2>13, <2>14, <2>15
<1>. QED BY <1>3, <1>4

LEMMA CreatedTyped == ASSUME FileInv, Created, UNCHANGED nodeVars PROVE FileInv'
<1>1. /\ At("created") /\ "created" \notin Firsts /\ "created" \in OnMount
      /\ Then(<<ByPage(dst)>>) /\ fds' = Followed(lu[dst], dst, ONES)
      /\ UNCHANGED <<flash, fs, work, dst, call>>
  BY DEF Created, Firsts, OnMount, ByPage
<1>2. Typed /\ fs.mounted /\ Body(todo, Allowed) /\ todo # <<>> /\ todo[1].do = "created"
      /\ Len(todo) \in Nat /\ Len(todo) >= 1
  BY <1>1, AtStep, HeadOf DEF FileInv
<1>3. Len(todo) = 1
  <2>1. Seated(todo, 1)
    BY <1>2, TailBody
  <2>. QED BY <1>2, <2>1 DEF Seated
<1>4. lu[dst] # FREE /\ dst \in Objects
  BY <1>2, <1>3 DEF FileInv, CreatedSafe, Typed
<1>5. todo' = <<ByPage(dst)>>
  <2>1. PICK S : todo \in Seq(S)
    BY <1>2 DEF Body
  <2>2. Tail(todo) = <<>>
    BY <1>3, <2>1, TailOfOne
  <2>. DEFINE u == ByPage(dst)
  <2>3. todo' = <<u>> \o <<>>
    BY <1>1, <2>2 DEF Then
  <2>. HIDE DEF u
  <2>4. <<u>> \in Seq({u})
    OBVIOUS
  <2>5. todo' = <<u>>
    BY <2>3, <2>4
  <2>. QED BY <2>5 DEF u
<1>6. fds' \in [Fds -> FdType]
  <2>1. ONES \in Words /\ dst \in {0} \cup Objects
    BY <1>4 DEF Words, ONES
  <2>. QED BY <1>1, <1>2, <2>1, FollowedTypes
<1>7. Typed'
  BY <1>1, <1>2, <1>6 DEF Typed, FlashTyped, flash, nodeVars
<1>8. Shape'
  BY <1>1, <1>2, <1>4, <1>5 DEF Shape, flash
<1>9. OpenSafe'
  BY <1>5 DEF OpenSafe, ByPage, Enders
<1>10. CountSafe'
  BY <1>1, CountKept DEF flash
<1>11. \A i \in 1..Len(todo') : i <= 2 => todo'[i].do # "created"
  BY <1>5 DEF ByPage
<1>. QED BY <1>7, <1>8, <1>9, <1>10, <1>11, Replaced

LEMMA AfterPage ==
  ASSUME NEW u, NEW v, NEW w, todo = <<u>> \/ todo = <<u, v, w>>, Then(<<>>)
  PROVE  \/ todo = <<u>> /\ todo' = <<>>
         \/ todo = <<u, v, w>> /\ todo' = <<v, w>>
<1>1. CASE todo = <<u>>
  <2>1. <<u>> \in Seq({u}) /\ Len(<<u>>) = 1
    OBVIOUS
  <2>2. Tail(todo) = <<>>
    BY <1>1, <2>1, TailOfOne
  <2>3. <<>> \in Seq({u})
    OBVIOUS
  <2>. QED BY <1>1, <2>2, <2>3 DEF Then
<1>2. CASE todo = <<u, v, w>>
  <2>1. <<v, w>> \in Seq({v, w})
    OBVIOUS
  <2>2. Tail(todo) = <<v, w>>
    BY <1>2
  <2>. QED BY <1>2, <2>1, <2>2 DEF Then
<1>. QED BY <1>1, <1>2

LEMMA OpenByPageTyped == ASSUME FileInv, OpenByPage, UNCHANGED nodeVars PROVE FileInv'
<1>1. At("by_page") /\ "by_page" \in Firsts
  BY DEF OpenByPage, Firsts
<1>2. PICK p \in Objects :
        /\ fs.mounted /\ lu[p] # FREE
        /\ todo = <<ByPage(p)>> \/ todo = <<ByPage(p), Do("mark"), Do("truncate")>>
  BY <1>1, FirstStep DEF FileInv
<1>3. Typed /\ call.fd \in Fds
  BY DEF FileInv, Typed, CallType
<1>4. Step.p = p
  BY <1>2 DEF Step, ByPage
<1>. DEFINE ds == [fds EXCEPT ![call.fd].hdr = p, ![call.fd].size = page[p].size, ![call.fd].obj = lu[p]]
<1>5. ds \in [Fds -> FdType] /\ ds[call.fd].hdr = p
  <2>1. page[p].size \in Words
    BY <1>2, <1>3 DEF Typed, FlashTyped, Page, Words
  <2>2. lu[p] \in 0..(ONES - 1)
    <3>1. lu[p] \in Id
      BY <1>2, <1>3 DEF Typed, FlashTyped
    <3>. QED BY <3>1 DEF Id, Words, ONES
  <2>3. PICK n \in Words : n = page[p].size
    BY <2>1
  <2>4. PICK m \in 0..(ONES - 1) : m = lu[p]
    BY <2>2
  <2>5. ds = [fds EXCEPT ![call.fd].hdr = p, ![call.fd].size = n, ![call.fd].obj = m]
    BY <2>3, <2>4
  <2>. HIDE DEF ds
  <2>. QED BY <1>2, <1>3, <2>5 DEF Typed, FdType
<1>6. \/ Then(<<>>) /\ fds' = ds /\ UNCHANGED <<flash, fs, work, dst, call, rc>>
      \/ /\ todo' = <<>> /\ rc' = "failed" /\ fds' = Returned(ds)
         /\ UNCHANGED <<flash, fs, work, dst, call>>
  BY <1>4 DEF OpenByPage
<1>. HIDE DEF ds
<1>7. CountSafe'
  <2>1. lu' = lu /\ fs' = fs /\ "by_page" \notin {"page", "entry"}
    BY <1>6 DEF flash
  <2>. QED BY <1>1, <2>1, CountKept
<1>8. ASSUME Then(<<>>), fds' = ds, UNCHANGED <<flash, fs, work, dst, call, rc>>
      PROVE  FileInv'
  <2>1. Typed'
    BY <1>3, <1>5, <1>8 DEF Typed, FlashTyped, flash, nodeVars
  <2>2. HasHeader'
    BY <1>2, <1>5, <1>8 DEF HasHeader
  <2>. DEFINE u == ByPage(p)
              v == Do("mark")
              w == Do("truncate")
  <2>3. v.do = "mark" /\ w.do = "truncate" /\ StepTyped(v) /\ StepTyped(w)
    BY UntypedSteps DEF Do
  <2>4. todo = <<u>> \/ todo = <<u, v, w>>
    BY <1>2
  <2>. HIDE DEF u, v, w
  <2>5. \/ todo = <<u>> /\ todo' = <<>>
        \/ todo = <<u, v, w>> /\ todo' = <<v, w>>
    BY <1>8, <2>4, AfterPage
  <2>6. CASE todo' = <<>>
    <3>1. Shape'
      BY <2>6, EmptyBody DEF Shape
    <3>2. OpenSafe'
      BY <2>2, <2>6 DEF OpenSafe
    <3>3. \A i \in 1..Len(todo') : i <= 2 => todo'[i].do # "created"
      BY <2>6
    <3>. QED BY <1>7, <2>1, <3>1, <3>2, <3>3, Replaced
  <2>7. CASE todo = <<u, v, w>> /\ todo' = <<v, w>>
    <3>1. Quiet(v, Allowed') /\ Quiet(w, Allowed')
      BY <2>2, <2>3 DEF Quiet, Allowed, HasHeader, OnMount, OnFile
    <3>2. Body(<<v, w>>, Allowed' \ {"created"})
      BY <3>1, QuietTwo
    <3>3. Shape'
      <4>1. Body(<<v, w>>, Allowed')
        BY <3>2, WiderBody
      <4>. QED BY <2>7, <4>1 DEF Shape
    <3>4. OpenSafe'
      <4>1. todo # <<>> /\ Len(todo) = 3 /\ todo[3] = w
        BY <2>7
      <4>2. phase \notin {"defaults", "save"}
        BY <2>3, <4>1 DEF FileInv, OpenSafe, Enders
      <4>. QED BY <4>2 DEF OpenSafe, nodeVars
    <3>5. \A i \in 1..Len(todo') : i <= 2 => todo'[i].do # "created"
      BY <2>3, <2>7
    <3>. QED BY <1>7, <2>1, <3>3, <3>4, <3>5, Replaced
  <2>. QED BY <2>5, <2>6, <2>7
<1>9. ASSUME todo' = <<>>, rc' = "failed", fds' = Returned(ds), UNCHANGED <<flash, fs, work, dst, call>>
      PROVE  FileInv'
  <2>1. fds' \in [Fds -> FdType]
    BY <1>5, <1>9 DEF Returned, FdType
  <2>2. Typed'
    BY <1>3, <1>9, <2>1 DEF Typed, FlashTyped, flash, nodeVars
  <2>3. Shape'
    BY <1>9, EmptyBody DEF Shape
  <2>4. OpenSafe'
    BY <1>9 DEF OpenSafe
  <2>5. \A i \in 1..Len(todo') : i <= 2 => todo'[i].do # "created"
    BY <1>9
  <2>. QED BY <1>7, <2>2, <2>3, <2>4, <2>5, Replaced
<1>. QED BY <1>6, <1>8, <1>9

LEMMA RemoveTyped == ASSUME FileInv, Remove, UNCHANGED nodeVars PROVE FileInv'
<1>1. At("remove") /\ "remove" \in Firsts
  BY DEF Remove, Firsts
<1>2. Typed
  BY DEF FileInv
<1>3. CASE ~fs.mounted \/ Closed = {} \/ Named = {}
  <2>1. NoDescriptor
    BY <1>3 DEF Remove
  <2>. QED BY <1>1, <2>1, NoneKeeps
<1>4. CASE ~(~fs.mounted \/ Closed = {} \/ Named = {})
  <2>. DEFINE p == FirstFrom(fs.cursor, Named)
              u == ByPage(p)
              v == Do("mark")
              w == Do("truncate")
  <2>1. /\ fs' = [fs EXCEPT !.cursor = p]
        /\ \E f \in IF Closed = Known THEN Known ELSE {Min(Closed \ Known)} :
             /\ fds' = [fds EXCEPT ![f].open = TRUE]
             /\ call' = [call EXCEPT !.fd = f]
        /\ Then(<<u, v, w>>) /\ UNCHANGED <<flash, work, dst>>
    BY <1>4 DEF Remove, ByPage
  <2>2. PICK f \in Fds : fds' = [fds EXCEPT ![f].open = TRUE] /\ call' = [call EXCEPT !.fd = f]
    BY <1>4, <2>1, ClosedFds
  <2>3. p \in Objects /\ lu[p] # FREE /\ p \in Int
    <3>1. fs.cursor \in Int
      BY <1>2 DEF Typed, FsType
    <3>. QED BY <1>4, <3>1, NamedInUse
  <2>4. todo = <<Do("remove")>>
    BY <1>1, FirstStep DEF FileInv
  <2>5. todo' = <<u, v, w>>
    <3>. HIDE DEF u, v, w
    <3>1. Tail(todo) = <<>>
      BY <2>4
    <3>2. <<u, v, w>> \in Seq({u, v, w})
      OBVIOUS
    <3>3. Then(<<u, v, w>>)
      BY <2>1
    <3>4. todo' = <<u, v, w>> \o <<>>
      BY <3>1, <3>3 DEF Then
    <3>. QED BY <3>2, <3>4, ConcatEmptySeq
  <2>6. u.do = "by_page" /\ v.do = "mark"
    BY DEF ByPage, Do
  <2>7. todo' = <<ByPage(p), Do("mark"), Do("truncate")>>
    BY <2>5
  <2>. HIDE DEF u, v, w, p
  <2>8. fs' \in FsType /\ fs'.mounted /\ fs'.free_blocks = fs.free_blocks
    BY <1>2, <1>4, <2>1, <2>3 DEF Typed, FsType
  <2>9. call' \in CallType /\ fds' \in [Fds -> FdType]
    BY <1>2, <2>2 DEF Typed, CallType, FdType
  <2>10. Typed'
    BY <1>2, <2>1, <2>8, <2>9 DEF Typed, FlashTyped, flash, nodeVars
  <2>11. Shape'
    BY <2>1, <2>3, <2>7, <2>8 DEF Shape, flash
  <2>12. OpenSafe'
    <3>1. todo # <<>> /\ todo[Len(todo)].do = "remove"
      BY <2>4 DEF Do
    <3>2. phase \notin {"defaults", "save"}
      BY <3>1 DEF FileInv, OpenSafe, Enders
    <3>. QED BY <3>2 DEF OpenSafe, nodeVars
  <2>13. CountSafe'
    <3>1. lu' = lu /\ (fs'.mounted <=> fs.mounted) /\ "remove" \notin {"page", "entry"}
      BY <1>4, <2>1, <2>8 DEF flash
    <3>. QED BY <1>1, <2>8, <3>1, CountKept
  <2>14. \A i \in 1..Len(todo') : i <= 2 => todo'[i].do # "created"
    BY <2>5, <2>6
  <2>. QED BY <2>10, <2>11, <2>12, <2>13, <2>14, Replaced
<1>. QED BY <1>3, <1>4

LEMMA StepsTyped == ASSUME FileInv, Working PROVE FileInv'
<1>1. UNCHANGED nodeVars /\ SpiffsStep
  BY DEF Working
<1>2. CASE CallStep
  <2>1. FormatBlock \/ Forget \/ Scan \/ Tally \/ Open \/ Created \/ OpenByPage => FileInv'
    BY <1>1, FormatBlockTyped, ForgetTyped, ScanTyped, TallyTyped, OpenTyped, CreatedTyped,
       OpenByPageTyped
  <2>2. Read \/ Flush \/ Modify \/ AppendTo \/ StoreIndex \/ CloseFd \/ Remove \/ Mark \/ Truncate
          => FileInv'
    BY <1>1, ReadKeeps, FlushKeeps, ModifyKeeps, AppendToKeeps, StoreIndexKeeps, FdsKeep,
       RemoveTyped, FlagsKeep, TruncateKeeps
  <2>. QED BY <1>2, <2>1, <2>2 DEF CallStep
<1>3. CASE PageStep
  <2>1. Fail => FileInv'
    <3>1. "fail" \notin {"page", "entry"}
      OBVIOUS
    <3>. QED BY <1>1, <3>1, FailKeeps DEF Fail
  <2>2. Erase \/ WriteCount \/ WriteMagic \/ GcQuick \/ TakeFree \/ WriteLu \/ WriteImage => FileInv'
    BY <1>1, EraseTyped, CountTyped, MagicTyped, GcQuickKeeps, TakeFreeKeeps, WriteLuKeeps,
       WriteImageKeeps
  <2>3. Finalize \/ Unlink \/ Scrap \/ Refer \/ StoreHeader \/ HeaderMoved \/ HeaderDeleted => FileInv'
    BY <1>1, FlagsKeep, UnlinkKeeps, ReferKeeps, StoreHeaderKeeps, FdsKeep
  <2>. QED BY <1>3, <2>1, <2>2, <2>3 DEF PageStep
<1>4. CASE GcStep
  BY <1>1, <1>4, GcCheckKeeps, GcRunKeeps, GcNextKeeps, GcFindKeeps, GcMoveDataKeeps, GcMoveIndexKeeps,
     GcEraseKeeps DEF GcStep
<1>. QED BY <1>1, <1>2, <1>3, <1>4 DEF SpiffsStep

-----------------------------------------------------------------------------
(* What the node does between the steps. *)

Values == Contents \cup {Erased, Mixed}
Names == {"none", "mount", "open", "read", "format", "flush", "remove"}

LEMMA NodeKeeps ==
  ASSUME FileInv, todo = <<>>, Kept, call' \in CallType,
         config' \in Contents \cup {Mixed}, stored' \in Contents \cup {Mixed, NoFile},
         Shape', \A i \in 1..Len(todo') : i <= 2 => todo'[i].do # "created", OpenSafe'
  PROVE  FileInv'
<1>1. UNCHANGED <<lu, page, magic, count, fs, fds, work, dst>>
  BY DEF Kept, flash
<1>2. Typed'
  BY <1>1 DEF FileInv, Typed, FlashTyped
<1>3. CountSafe'
  <2>1. Taken = {}
    BY DEF Taken, AtEntry
  <2>2. FreeBlocks' = FreeBlocks
    BY <1>1 DEF FreeBlocks
  <2>3. FreeBlocks' \ Taken' \subseteq FreeBlocks \ Taken
    BY <2>1, <2>2
  <2>. QED BY <1>1, <2>3, CountShrinks
<1>. QED BY <1>2, <1>3, Replaced

LEMMA CalledNext ==
  ASSUME FileInv, NEW name \in Names, NEW value \in Values, NEW steps, NEW next,
         Calls(name, value, steps, next)
  PROVE  /\ todo = <<>> /\ Kept /\ call' \in CallType /\ todo' = steps /\ rc' = "ok" /\ phase' = next
         /\ Allowed' = Allowed /\ (HasHeader' <=> HasHeader)
<1>1. /\ todo = <<>> /\ Kept /\ todo' = steps /\ rc' = "ok" /\ phase' = next
      /\ call' = [call EXCEPT !.name = name, !.value = value]
  BY DEF Calls, Begins, Idle
<1>2. call \in CallType
  BY DEF FileInv, Typed
<1>3. call' \in CallType /\ call'.fd = call.fd
  BY <1>1, <1>2 DEF CallType, Names, Values
<1>4. fs' = fs /\ fds' = fds
  BY <1>1 DEF Kept
<1>5. Allowed' = Allowed /\ (HasHeader' <=> HasHeader)
  BY <1>3, <1>4 DEF Allowed, HasHeader
<1>. QED BY <1>1, <1>3, <1>5

(* The lists the calls begin with.                                           *)
LEMMA FirstLists ==
  /\ \A i \in 1..Len(Mounting) : Mounting[i].do # "created"
  /\ \A create : /\ Opening(create) # <<>> /\ Len(Opening(create)) = 1
                 /\ Opening(create)[1].do = "open"
  /\ \A d : <<Do(d)>> # <<>> /\ Len(<<Do(d)>>) = 1 /\ <<Do(d)>>[1].do = d
<1>1. \A i \in 1..Len(Mounting) : Mounting[i].do # "created"
  <2>. DEFINE u == Do("forget")
              v == Do("scan")
              w == Do("tally")
  <2>1. Mounting = <<u, v, w>>
    BY DEF Mounting
  <2>2. u.do # "created" /\ v.do # "created" /\ w.do # "created"
    BY DEF Do
  <2>. HIDE DEF u, v, w
  <2>3. \A i \in 1..3 : i = 1 \/ i = 2 \/ i = 3
    OBVIOUS
  <2>. QED BY <2>1, <2>2, <2>3
<1>2. \A create : /\ Opening(create) # <<>> /\ Len(Opening(create)) = 1
                  /\ Opening(create)[1].do = "open"
  BY DEF Opening
<1>3. \A d : <<Do(d)>> # <<>> /\ Len(<<Do(d)>>) = 1 /\ <<Do(d)>>[1].do = d
  BY DEF Do
<1>. QED BY <1>1, <1>2, <1>3

LEMMA FormattingBody ==
  /\ \A D : Loose \subseteq D => Body(Formatting, D)
  /\ \A i \in 1..Len(Formatting) : Formatting[i].do # "created"
<1>. DEFINE e(i) == [do |-> "format", b |-> i - 1]
            S == {e(i) : i \in 1..Blocks}
<1>1. Blocks \in Nat
  BY Sizes
<1>2. Formatting \in [1..Blocks -> S]
  BY DEF Formatting
<1>3. Formatting \in Seq(S) /\ Len(Formatting) = Blocks
  <2>. HIDE DEF S
  <2>. QED BY <1>1, <1>2, SeqDef
<1>4. ASSUME NEW i \in 1..Len(Formatting)
      PROVE  Formatting[i].do = "format" /\ StepTyped(Formatting[i]) /\ Seated(Formatting, i)
  <2>1. i - 1 \in Bixes /\ i \in 1..Blocks
    BY <1>1, <1>3 DEF Bixes
  <2>2. Formatting[i] = [do |-> "format", b |-> i - 1]
    BY <2>1 DEF Formatting
  <2>3. PICK b \in Bixes : Formatting[i] = [do |-> "format", b |-> b]
    BY <2>1, <2>2
  <2>4. StepTyped(Formatting[i])
    BY <2>3, TypedSteps
  <2>5. Formatting[i].do = "format"
    BY <2>3
  <2>. QED BY <2>4, <2>5 DEF Seated
<1>5. "format" \in Loose
  BY DEF Loose
<1>. QED BY <1>3, <1>4, <1>5 DEF Body

LEMMA Lists ==
  ASSUME FileInv, NEW name \in Names, NEW value \in Values, NEW steps, NEW next,
         Calls(name, value, steps, next),
         steps \in {Mounting, Formatting, Opening(TRUE), Opening(FALSE), <<Do("read")>>, <<Do("remove")>>}
           \/ (HasHeader /\ steps = <<Do("flush")>>),
         next \in {"defaults", "save"} => steps = Opening(TRUE),
         config' \in Contents \cup {Mixed}, stored' \in Contents \cup {Mixed, NoFile}
  PROVE  FileInv'
<1>1. /\ todo = <<>> /\ Kept /\ call' \in CallType /\ todo' = steps /\ rc' = "ok" /\ phase' = next
      /\ Allowed' = Allowed /\ (HasHeader' <=> HasHeader)
  BY CalledNext
<1>2. ASSUME NEW d \in {"read", "flush"}, d = "flush" => HasHeader, steps = <<Do(d)>>
      PROVE  Body(steps, Allowed)
  <2>1. Quiet(Do(d), Allowed)
    BY <1>2, UntypedSteps DEF Quiet, Do, Allowed, Loose, OnFile
  <2>. DEFINE u == Do(d)
  <2>2. steps = <<u>> /\ Quiet(u, Allowed)
    BY <1>2, <2>1
  <2>. HIDE DEF u
  <2>3. Body(<<u>>, Allowed \ {"created"})
    BY <2>2, QuietOne
  <2>4. Body(<<u>>, Allowed)
    BY <2>3, WiderBody
  <2>. QED BY <2>2, <2>4
<1>3. Shape'
  <2>1. CASE steps \in {Mounting, Opening(TRUE), Opening(FALSE), <<Do("remove")>>}
    BY <1>1, <2>1 DEF Shape
  <2>2. CASE steps = Formatting
    <3>1. Body(todo', Allowed')
      BY <1>1, <2>2, FormattingBody, LooseAllowed
    <3>. QED BY <3>1 DEF Shape
  <2>3. CASE steps = <<Do("read")>> \/ (HasHeader /\ steps = <<Do("flush")>>)
    <3>1. Body(steps, Allowed)
      BY <1>2, <2>3
    <3>. QED BY <1>1, <3>1 DEF Shape
  <2>. QED BY <2>1, <2>2, <2>3
<1>4. \A i \in 1..Len(todo') : i <= 2 => todo'[i].do # "created"
  <2>1. CASE steps = Mounting
    BY <1>1, <2>1, FirstLists
  <2>2. CASE steps = Formatting
    BY <1>1, <2>2, FormattingBody
  <2>3. CASE steps \in {Opening(TRUE), Opening(FALSE)}
    <3>1. Len(steps) = 1 /\ steps[1].do = "open"
      BY <2>3, FirstLists
    <3>. QED BY <1>1, <3>1
  <2>4. CASE \E d \in {"read", "remove", "flush"} : steps = <<Do(d)>>
    <3>1. PICK d \in {"read", "remove", "flush"} : Len(steps) = 1 /\ steps[1].do = d
      BY <2>4, FirstLists
    <3>. QED BY <1>1, <3>1
  <2>. QED BY <2>1, <2>2, <2>3, <2>4
<1>5. OpenSafe'
  <2>. SUFFICES ASSUME steps = Opening(TRUE)
       PROVE  todo' # <<>> /\ todo'[Len(todo')].do \in Enders
    BY <1>1 DEF OpenSafe
  <2>1. steps # <<>> /\ Len(steps) = 1 /\ steps[1].do = "open"
    BY FirstLists
  <2>. QED BY <1>1, <2>1 DEF Enders
<1>. QED BY <1>1, <1>3, <1>4, <1>5, NodeKeeps

LEMMA Rests ==
  ASSUME FileInv, todo = <<>>, NoCallNow, phase' = "up",
         config' \in Contents \cup {Mixed}, stored' \in Contents \cup {Mixed, NoFile}
  PROVE  FileInv'
<1>1. todo' = <<>> /\ Kept /\ call' \in CallType
  BY DEF NoCallNow, FileInv, Typed
<1>2. Shape'
  BY <1>1, EmptyBody DEF Shape
<1>3. OpenSafe'
  BY DEF OpenSafe
<1>4. \A i \in 1..Len(todo') : i <= 2 => todo'[i].do # "created"
  BY <1>1
<1>. QED BY <1>1, <1>2, <1>3, <1>4, NodeKeeps

LEMMA KeptTypes ==
  ASSUME FileInv
  PROVE  /\ UNCHANGED config => config' \in Contents \cup {Mixed}
         /\ UNCHANGED stored => stored' \in Contents \cup {Mixed, NoFile}
         /\ \A what \in Contents \cup {Mixed, NoFile} :
              Stored(what) => stored' \in Contents \cup {Mixed, NoFile}
  BY DEF FileInv, Typed, Stored

LEMMA WritesTyped ==
  ASSUME FileInv, NEW value \in Contents, NEW next, Writes(value, next),
         stored' \in Contents \cup {Mixed, NoFile}
  PROVE  FileInv'
<1>1. config' = value /\ Calls("open", value, Opening(TRUE), next)
  BY DEF Writes
<1>2. "open" \in Names /\ value \in Values /\ config' \in Contents \cup {Mixed}
  BY <1>1 DEF Names, Values
<1>. QED BY <1>1, <1>2, Lists

LEMMA ContinueTyped == ASSUME FileInv, Continue PROVE FileInv'
<1>1. Erased \in Values /\ Default \in Contents /\ {"mount", "open", "read", "format"} \subseteq Names
  BY ConfigFileAssumption DEF Values, Names
<1>2. CASE Boot
  <2>1. Calls("mount", Erased, Mounting, "mount") /\ UNCHANGED <<config, stored>>
    BY <1>2 DEF Boot
  <2>. QED BY <1>1, <2>1, KeptTypes, Lists
<1>3. CASE Mounted
  <2>1. /\ \/ Calls("open", Erased, Opening(FALSE), "open")
           \/ Calls("format", Erased, Formatting, "format")
        /\ UNCHANGED <<config, stored>>
    BY <1>3 DEF Mounted
  <2>. QED BY <1>1, <2>1, KeptTypes, Lists
<1>4. CASE Formatted
  <2>1. /\ Calls("mount", Erased, Mounting, "remount") /\ UNCHANGED config
        /\ stored' \in Contents \cup {Mixed, NoFile}
    BY <1>4, KeptTypes DEF Formatted
  <2>. QED BY <1>1, <2>1, KeptTypes, Lists
<1>5. CASE Remounted
  <2>1. Calls("open", Erased, Opening(FALSE), "open") /\ UNCHANGED <<config, stored>>
    BY <1>5 DEF Remounted
  <2>. QED BY <1>1, <2>1, KeptTypes, Lists
<1>6. CASE Opened
  <2>1. stored' \in Contents \cup {Mixed, NoFile}
    BY <1>6, KeptTypes DEF Opened
  <2>2. \/ Calls("read", Erased, <<Do("read")>>, "read") /\ UNCHANGED config
        \/ Writes(Default, "defaults")
    BY <1>6 DEF Opened
  <2>3. CASE Calls("read", Erased, <<Do("read")>>, "read") /\ UNCHANGED config
    BY <1>1, <2>1, <2>3, KeptTypes, Lists
  <2>4. CASE Writes(Default, "defaults")
    BY <1>1, <2>1, <2>4, WritesTyped
  <2>. QED BY <2>2, <2>3, <2>4
<1>7. CASE ReadIn
  <2>1. CASE rc \in Contents \cup {Mixed}
    <3>1. config' = rc /\ phase' = "up" /\ NoCallNow /\ stored' = rc /\ todo = <<>>
      BY <1>7, <2>1 DEF ReadIn, Returns, Idle
    <3>. QED BY <2>1, <3>1, Rests
  <2>2. CASE rc \notin Contents \cup {Mixed}
    <3>1. Writes(Default, "defaults") /\ UNCHANGED stored
      BY <1>7, <2>2 DEF ReadIn
    <3>. QED BY <1>1, <3>1, KeptTypes, WritesTyped
  <2>. QED BY <2>1, <2>2
<1>8. config \in Contents \cup {Mixed} /\ config \in Values
  BY DEF FileInv, Typed, Values
<1>9. CASE FileOpened
  <2>1. phase \in {"defaults", "save"} /\ todo = <<>> /\ UNCHANGED config
    BY <1>9 DEF FileOpened, Returns, Idle
  <2>2. CASE rc = "ok"
    <3>1. PICK next \in {"saving", "writing"} : Calls("flush", config, <<Do("flush")>>, next)
      BY <1>9, <2>2 DEF FileOpened
    <3>2. UNCHANGED stored /\ HasHeader
      BY <1>9, <2>1, <2>2 DEF FileOpened, FileInv, OpenSafe
    <3>3. "flush" \in Names /\ next \notin {"defaults", "save"}
      BY DEF Names
    <3>. QED BY <1>8, <2>1, <3>1, <3>2, <3>3, KeptTypes, Lists
  <2>3. CASE rc # "ok"
    <3>1. NoCallNow /\ phase' = "up" /\ Stored(config)
      BY <1>9, <2>3 DEF FileOpened, Ended
    <3>. QED BY <1>8, <2>1, <3>1, KeptTypes, Rests
  <2>. QED BY <2>2, <2>3
<1>10. CASE Written
  <2>1. todo = <<>> /\ NoCallNow /\ phase' = "up" /\ Stored(config) /\ UNCHANGED config
    BY <1>10 DEF Written, Returns, Idle, Ended
  <2>. QED BY <1>8, <2>1, KeptTypes, Rests
<1>11. CASE Removed
  <2>1. todo = <<>> /\ NoCallNow /\ phase' = "up" /\ Stored(NoFile) /\ UNCHANGED config
    BY <1>11 DEF Removed, Returns, Idle
  <2>. QED BY <2>1, KeptTypes, Rests
<1>12. CASE CmdFormatted
  <2>1. /\ Calls("mount", Erased, Mounting, "cmd_mount") /\ UNCHANGED config
        /\ stored' \in Contents \cup {Mixed, NoFile}
    BY <1>12, KeptTypes DEF CmdFormatted
  <2>. QED BY <1>1, <2>1, KeptTypes, Lists
<1>13. CASE CmdMounted
  <2>1. todo = <<>> /\ NoCallNow /\ phase' = "up" /\ UNCHANGED <<config, stored>>
    BY <1>13 DEF CmdMounted, Returns, Idle
  <2>. QED BY <2>1, KeptTypes, Rests
<1>. QED BY <1>2, <1>3, <1>4, <1>5, <1>6, <1>7, <1>9, <1>10, <1>11, <1>12, <1>13 DEF Continue

LEMMA CmdFormatTyped == ASSUME FileInv, CmdFormat PROVE FileInv'
<1>1. /\ todo = <<>> /\ todo' = Formatting /\ phase' = "cmd_format"
      /\ call' = [call EXCEPT !.name = "format", !.value = Erased]
      /\ fs' = [fs EXCEPT !.mounted = FALSE]
      /\ fds' = [f \in Fds |-> [fds[f] EXCEPT !.open = FALSE]]
      /\ UNCHANGED <<lu, page, magic, count, work, dst, config, stored>>
  BY DEF CmdFormat, Begins, Idle, flash
<1>2. Typed
  BY DEF FileInv
<1>3. fs' \in FsType /\ fs'.mounted = FALSE
  BY <1>1, <1>2 DEF Typed, FsType
<1>4. fds' \in [Fds -> FdType]
  <2>1. ASSUME NEW f \in Fds
        PROVE  [fds[f] EXCEPT !.open = FALSE] \in FdType
    <3>1. fds[f] \in FdType
      BY <1>2 DEF Typed
    <3>. QED BY <3>1 DEF FdType
  <2>. QED BY <1>1, <2>1
<1>5. call' \in CallType
  BY <1>1, <1>2 DEF Typed, CallType
<1>6. Typed'
  BY <1>1, <1>2, <1>3, <1>4, <1>5 DEF Typed, FlashTyped
<1>8. Shape'
  <2>1. Loose \subseteq Allowed'
    BY DEF Allowed
  <2>2. Body(Formatting, Allowed')
    BY <2>1, FormattingBody
  <2>. QED BY <1>1, <2>2 DEF Shape
<1>9. \A i \in 1..Len(todo') : i <= 2 => todo'[i].do # "created"
  BY <1>1, FormattingBody
<1>10. OpenSafe'
  BY <1>1 DEF OpenSafe
<1>11. CountSafe'
  BY <1>3 DEF CountSafe
<1>. QED BY <1>6, <1>8, <1>9, <1>10, <1>11, Replaced

LEMMA CommandTyped == ASSUME FileInv, Command PROVE FileInv'
<1>1. CASE \E value \in Contents : CmdSave(value)
  <2>1. PICK value \in Contents : Writes(value, "save") /\ UNCHANGED stored
    BY <1>1 DEF CmdSave
  <2>. QED BY <2>1, KeptTypes, WritesTyped
<1>2. CASE CmdRemove
  <2>1. Calls("remove", Erased, <<Do("remove")>>, "remove") /\ UNCHANGED <<config, stored>>
    BY <1>2 DEF CmdRemove
  <2>2. Erased \in Values /\ "remove" \in Names
    BY DEF Values, Names
  <2>. QED BY <2>1, <2>2, KeptTypes, Lists
<1>3. CASE CmdFormat
  BY <1>3, CmdFormatTyped
<1>. QED BY <1>1, <1>2, <1>3 DEF Command

(* When the node starts and nothing is mounted.                              *)
LEMMA StartsTyped ==
  ASSUME FlashTyped, fs = FreshFs, fds = FreshFds, work = ErasedPage, dst = 1, todo = <<>>,
         call = NoCall, phase = "off", config = Default, stored \in Contents \cup {Mixed, NoFile}
  PROVE  FileInv
<1>1. Typed
  BY FreshTypes, ErasedIsPage, FirstObject, ConfigFileAssumption DEF Typed
<1>2. Shape
  BY EmptyBody DEF Shape
<1>3. CreatedSafe
  BY DEF CreatedSafe
<1>4. OpenSafe
  BY DEF OpenSafe
<1>5. CountSafe
  BY DEF CountSafe, FreshFs
<1>. QED BY <1>1, <1>2, <1>3, <1>4, <1>5 DEF FileInv

LEMMA OffTyped == ASSUME FileInv, Off PROVE FileInv'
<1>1. /\ fs' = FreshFs /\ fds' = FreshFds /\ work' = ErasedPage /\ dst' = 1 /\ todo' = <<>>
      /\ call' = NoCall /\ phase' = "off" /\ config' = Default
      /\ UNCHANGED <<lu, page, magic, count, stored>>
  BY DEF Off, flash
<1>2. Typed'
  BY <1>1, FreshTypes, ErasedIsPage, FirstObject, ConfigFileAssumption DEF FileInv, Typed, FlashTyped
<1>3. Shape'
  BY <1>1, EmptyBody DEF Shape
<1>4. OpenSafe'
  BY <1>1 DEF OpenSafe
<1>5. CountSafe'
  BY <1>1 DEF CountSafe, FreshFs
<1>6. \A i \in 1..Len(todo') : i <= 2 => todo'[i].do # "created"
  BY <1>1
<1>. QED BY <1>2, <1>3, <1>4, <1>5, <1>6, Replaced

LEMMA StartTyped == Init => FileInv
<1>. SUFFICES ASSUME Init PROVE FileInv
  OBVIOUS
<1>1. FlashTyped
  <2>1. FREE \in Id \cup {FREE} /\ ONES \in Words
    BY DEF Words, ONES
  <2>. QED BY <2>1, ErasedIsPage DEF Init, FlashInit, FlashTyped
<1>. QED BY <1>1, StartsTyped DEF Init

LEMMA NextTyped == FileInv /\ [Next]_vars => FileInv'
<1>. SUFFICES ASSUME FileInv, [Next]_vars PROVE FileInv'
  OBVIOUS
<1>1. CASE Next
  BY <1>1, StepsTyped, ContinueTyped, CommandTyped, OffTyped DEF Next, Reset, Cut
<1>2. CASE UNCHANGED vars
  BY <1>2 DEF vars, flash, spiffsVars, nodeVars, FileInv, Typed, FlashTyped, Shape, CreatedSafe,
     OpenSafe, CountSafe, Allowed, HasHeader, Taken, AtEntry, FreeBlocks
<1>. QED BY <1>1, <1>2

(* Whatever is saved, removed, formatted and collected, and wherever power    *)
(* fails: pages and descriptors stay what the code takes them for, an entry   *)
(* of the lookup, which writes only clear bits of, is always an object id,    *)
(* free or deleted, and free_blocks, unsigned in the code, is never taken     *)
(* below zero by spiffs_obj_lu_find_free, which subtracts one where it finds  *)
(* the first page of a block free: it counts at least those blocks.           *)
THEOREM FilesTyped == Spec => []TypeOK
<1>1. FileInv => TypeOK
  BY TypedIsTypeOK DEF FileInv
<1>. QED BY <1>1, StartTyped, NextTyped, PTL DEF Spec

-----------------------------------------------------------------------------
(* Lists built from the front. *)

Listed(t) == \E S : t \in Seq(S)

LEMMA NilListed == Listed(<<>>)
<1>1. <<>> \in Seq({})
  OBVIOUS
<1>. QED BY <1>1 DEF Listed

LEMMA ConsFacts ==
  \A x, t : Listed(t) =>
    /\ Listed(Cons(x, t)) /\ Cons(x, t) # <<>>
    /\ Head(Cons(x, t)) = x /\ Tail(Cons(x, t)) = t
    /\ <<>> \o t = t
<1>. SUFFICES ASSUME NEW x, NEW t, Listed(t)
     PROVE  /\ Listed(Cons(x, t)) /\ Cons(x, t) # <<>>
            /\ Head(Cons(x, t)) = x /\ Tail(Cons(x, t)) = t
            /\ <<>> \o t = t
  OBVIOUS
<1>1. PICK S : t \in Seq(S)
  BY DEF Listed
<1>. DEFINE R == S \cup {x}
            u == <<x>> \o t
<1>2. t \in Seq(R) /\ <<x>> \in Seq(R)
  BY <1>1
<1>3. u \in Seq(R) /\ Len(u) = 1 + Len(t) /\ u[1] = x
  BY <1>2
<1>4. u # <<>> /\ Head(u) = x
  BY <1>2, <1>3
<1>5. Tail(u) \in Seq(R) /\ Len(Tail(u)) = Len(t) /\ \A i \in 1..Len(t) : Tail(u)[i] = t[i]
  BY <1>2, <1>3
<1>6. Tail(u) = t
  BY <1>2, <1>5, SeqEqual
<1>7. <<>> \o t = t
  BY <1>2, ConcatEmptySeq
<1>. QED BY <1>3, <1>4, <1>6, <1>7 DEF Cons, Listed

LEMMA ShortLists ==
  /\ \A x, y : <<x, y>> = <<x>> \o <<y>>
  /\ \A x, y, z : <<x, y, z>> = <<x, y>> \o <<z>>
<1>1. ASSUME NEW x, NEW y
      PROVE  <<x, y>> = <<x>> \o <<y>>
  <2>. DEFINE R == {x, y}
              u == <<x, y>>
              v == <<x>> \o <<y>>
  <2>1. u \in Seq(R) /\ Len(u) = 2 /\ u[1] = x /\ u[2] = y
    OBVIOUS
  <2>2. v \in Seq(R) /\ Len(v) = 2 /\ v[1] = x /\ v[2] = y
    OBVIOUS
  <2>. HIDE DEF u, v, R
  <2>3. \A i \in 1..2 : u[i] = v[i]
    BY <2>1, <2>2
  <2>4. u = v
    BY <2>1, <2>2, <2>3, SeqEqual
  <2>. QED BY <2>4 DEF u, v
<1>2. ASSUME NEW x, NEW y, NEW z
      PROVE  <<x, y, z>> = <<x, y>> \o <<z>>
  <2>. DEFINE R == {x, y, z}
              u == <<x, y, z>>
              v == <<x, y>> \o <<z>>
  <2>1. u \in Seq(R) /\ Len(u) = 3 /\ u[1] = x /\ u[2] = y /\ u[3] = z
    OBVIOUS
  <2>2. v \in Seq(R) /\ Len(v) = 3 /\ v[1] = x /\ v[2] = y /\ v[3] = z
    OBVIOUS
  <2>. HIDE DEF u, v, R
  <2>3. \A i \in 1..3 : u[i] = v[i]
    BY <2>1, <2>2
  <2>4. u = v
    BY <2>1, <2>2, <2>3, SeqEqual
  <2>. QED BY <2>4 DEF u, v
<1>. QED BY <1>1, <1>2

LEMMA Onto ==
  \A s, t, u : Listed(s) /\ Listed(t) /\ Listed(u) =>
    Listed(s \o t) /\ (s \o t) \o u = s \o (t \o u)
<1>. SUFFICES ASSUME NEW s, NEW t, NEW u, Listed(s), Listed(t), Listed(u)
     PROVE  Listed(s \o t) /\ (s \o t) \o u = s \o (t \o u)
  OBVIOUS
<1>1. PICK S : s \in Seq(S)
  BY DEF Listed
<1>2. PICK T : t \in Seq(T)
  BY DEF Listed
<1>3. PICK U : u \in Seq(U)
  BY DEF Listed
<1>. DEFINE R == S \cup (T \cup U)
<1>4. s \in Seq(R) /\ t \in Seq(R) /\ u \in Seq(R)
  BY <1>1, <1>2, <1>3
<1>. HIDE DEF R
<1>5. s \o t \in Seq(R) /\ (s \o t) \o u = s \o (t \o u)
  BY <1>4, ConcatAssociative, ConcatProperties
<1>. QED BY <1>5 DEF Listed

LEMMA OneListed == \A x : Listed(<<x>>)
<1>. TAKE x
<1>1. <<x>> \in Seq({x})
  OBVIOUS
<1>. QED BY <1>1 DEF Listed

LEMMA ConsPairs ==
  \A t : Listed(t) =>
    /\ \A x : <<x>> \o t = Cons(x, t)
    /\ \A x, y : <<x, y>> \o t = Cons(x, Cons(y, t))
    /\ \A x, y, z : <<x, y, z>> \o t = Cons(x, Cons(y, Cons(z, t)))
<1>. SUFFICES ASSUME NEW t, Listed(t)
     PROVE  /\ \A x : <<x>> \o t = Cons(x, t)
            /\ \A x, y : <<x, y>> \o t = Cons(x, Cons(y, t))
            /\ \A x, y, z : <<x, y, z>> \o t = Cons(x, Cons(y, Cons(z, t)))
  OBVIOUS
<1>1. ASSUME NEW x, NEW y
      PROVE  /\ Listed(<<x, y>>)
             /\ <<x, y>> \o t = <<x>> \o (<<y>> \o t)
  <2>. DEFINE a == <<x>>
              c == <<y>>
              d == <<x, y>>
  <2>1. Listed(a) /\ Listed(c) /\ d = a \o c
    BY OneListed, ShortLists
  <2>. HIDE DEF a, c, d
  <2>2. Listed(d) /\ d \o t = a \o (c \o t)
    BY <2>1, Onto
  <2>. QED BY <2>2 DEF a, c, d
<1>2. ASSUME NEW x, NEW y, NEW z
      PROVE  <<x, y, z>> \o t = <<x>> \o (<<y>> \o (<<z>> \o t))
  <2>. DEFINE a == <<x, y>>
              c == <<z>>
              d == <<x, y, z>>
  <2>1. Listed(a) /\ Listed(c) /\ d = a \o c
    <3>1. Listed(a)
      BY <1>1
    <3>2. Listed(c)
      BY OneListed
    <3>3. d = a \o c
      BY ShortLists
    <3>. QED BY <3>1, <3>2, <3>3
  <2>2. a \o (c \o t) = <<x>> \o (<<y>> \o (c \o t))
    <3>. HIDE DEF c
    <3>. DEFINE e == c \o t
                f == <<x>>
                g == <<y>>
    <3>1. Listed(e) /\ Listed(f) /\ Listed(g) /\ a = f \o g
      BY <2>1, Onto, OneListed, ShortLists
    <3>. HIDE DEF e, f, g, a
    <3>2. a \o e = f \o (g \o e)
      BY <3>1, Onto
    <3>. QED BY <3>2 DEF e, f, g
  <2>. HIDE DEF a, c, d
  <2>3. d \o t = a \o (c \o t)
    BY <2>1, Onto
  <2>. QED BY <2>2, <2>3 DEF a, c, d
<1>. QED BY <1>1, <1>2 DEF Cons

-----------------------------------------------------------------------------
(* The step on top of the list is the one taken. *)

LEMMA OnTop ==
  \A x, u : Listed(u) /\ todo = Cons(x, u) =>
    /\ Step = x /\ Tail(todo) = u /\ todo # <<>>
    /\ \A d : At(d) <=> x.do = d
    /\ \A s : Then(s) <=> todo' = s \o u
    /\ Then(<<>>) <=> todo' = u
<1>. SUFFICES ASSUME NEW x, NEW u, Listed(u), todo = Cons(x, u)
     PROVE  /\ Step = x /\ Tail(todo) = u /\ todo # <<>>
            /\ \A d : At(d) <=> x.do = d
            /\ \A s : Then(s) <=> todo' = s \o u
            /\ Then(<<>>) <=> todo' = u
  OBVIOUS
<1>1. Step = x /\ Tail(todo) = u /\ todo # <<>> /\ <<>> \o u = u
  BY ConsFacts DEF Step
<1>2. \A d : At(d) <=> x.do = d
  BY <1>1 DEF At, Step
<1>3. (\A s : Then(s) <=> todo' = s \o u) /\ (Then(<<>>) <=> todo' = u)
  BY <1>1 DEF Then
<1>. QED BY <1>1, <1>2, <1>3

LEMMA Heads ==
  /\ Erase => At("erase")
  /\ WriteCount => At("count")
  /\ WriteMagic => At("magic")
  /\ GcQuick => At("find_free")
  /\ TakeFree => At("find_free") \/ At("take_free")
  /\ Fail => At("fail")
  /\ WriteLu => At("entry")
  /\ WriteImage => At("page")
  /\ Finalize => At("final")
  /\ Unlink => At("unlink")
  /\ Scrap => At("scrap")
  /\ Refer => At("refer")
  /\ StoreHeader => At("store")
  /\ HeaderMoved => At("update") \/ At("move")
  /\ HeaderDeleted => At("delete")
  /\ GcCheck => At("gc_check")
  /\ GcRun => At("gc_run")
  /\ GcNext => At("gc_next")
  /\ GcFind => At("gc_find")
  /\ GcMoveData => At("gc_data")
  /\ GcMoveIndex => At("gc_index")
  /\ GcErase => At("gc_erase")
  /\ FormatBlock => At("format")
  /\ Forget => At("forget")
  /\ Scan => At("scan")
  /\ Tally => At("tally")
  /\ Open => At("open")
  /\ Created => At("created")
  /\ OpenByPage => At("by_page")
  /\ Read => At("read")
  /\ Flush => At("flush")
  /\ Modify => At("modify")
  /\ AppendTo => At("append")
  /\ StoreIndex => At("index")
  /\ CloseFd => At("close")
  /\ Remove => At("remove")
  /\ Mark => At("mark")
  /\ Truncate => At("truncate")
<1>1. Erase => At("erase")
  BY DEF Erase
<1>2. WriteCount => At("count")
  BY DEF WriteCount
<1>3. WriteMagic => At("magic")
  BY DEF WriteMagic
<1>4. GcQuick => At("find_free")
  BY DEF GcQuick
<1>5. TakeFree => At("find_free") \/ At("take_free")
  BY DEF TakeFree, Taking
<1>6. Fail => At("fail")
  BY DEF Fail
<1>7. WriteLu => At("entry")
  BY DEF WriteLu
<1>8. WriteImage => At("page")
  BY DEF WriteImage
<1>9. Finalize => At("final")
  BY DEF Finalize
<1>10. Unlink => At("unlink")
  BY DEF Unlink
<1>11. Scrap => At("scrap")
  BY DEF Scrap
<1>12. Refer => At("refer")
  BY DEF Refer
<1>13. StoreHeader => At("store")
  BY DEF StoreHeader
<1>14. HeaderMoved => At("update") \/ At("move")
  BY DEF HeaderMoved
<1>15. HeaderDeleted => At("delete")
  BY DEF HeaderDeleted
<1>16. GcCheck => At("gc_check")
  BY DEF GcCheck
<1>17. GcRun => At("gc_run")
  BY DEF GcRun
<1>18. GcNext => At("gc_next")
  BY DEF GcNext
<1>19. GcFind => At("gc_find")
  BY DEF GcFind
<1>20. GcMoveData => At("gc_data")
  BY DEF GcMoveData
<1>21. GcMoveIndex => At("gc_index")
  BY DEF GcMoveIndex
<1>22. GcErase => At("gc_erase")
  BY DEF GcErase
<1>23. FormatBlock => At("format")
  BY DEF FormatBlock
<1>24. Forget => At("forget")
  BY DEF Forget
<1>25. Scan => At("scan")
  BY DEF Scan
<1>26. Tally => At("tally")
  BY DEF Tally
<1>27. Open => At("open")
  BY DEF Open
<1>28. Created => At("created")
  BY DEF Created
<1>29. OpenByPage => At("by_page")
  BY DEF OpenByPage
<1>30. Read => At("read")
  BY DEF Read
<1>31. Flush => At("flush")
  BY DEF Flush
<1>32. Modify => At("modify")
  BY DEF Modify
<1>33. AppendTo => At("append")
  BY DEF AppendTo
<1>34. StoreIndex => At("index")
  BY DEF StoreIndex
<1>35. CloseFd => At("close")
  BY DEF CloseFd
<1>36. Remove => At("remove")
  BY DEF Remove
<1>37. Mark => At("mark")
  BY DEF Mark
<1>38. Truncate => At("truncate")
  BY DEF Truncate
<1>. QED BY <1>1, <1>2, <1>3, <1>4, <1>5, <1>6, <1>7, <1>8, <1>9, <1>10, <1>11, <1>12, <1>13,
   <1>14, <1>15, <1>16, <1>17, <1>18, <1>19, <1>20, <1>21, <1>22, <1>23, <1>24, <1>25, <1>26,
   <1>27, <1>28, <1>29, <1>30, <1>31, <1>32, <1>33, <1>34, <1>35, <1>36, <1>37, <1>38

LEMMA Dispatch ==
  ASSUME SpiffsStep
  PROVE
    /\ At("erase") => Erase
    /\ At("count") => WriteCount
    /\ At("magic") => WriteMagic
    /\ At("find_free") => GcQuick \/ TakeFree
    /\ At("take_free") => TakeFree
    /\ At("fail") => Fail
    /\ At("entry") => WriteLu
    /\ At("page") => WriteImage
    /\ At("final") => Finalize
    /\ At("unlink") => Unlink
    /\ At("scrap") => Scrap
    /\ At("refer") => Refer
    /\ At("store") => StoreHeader
    /\ At("update") => HeaderMoved
    /\ At("move") => HeaderMoved
    /\ At("delete") => HeaderDeleted
    /\ At("gc_check") => GcCheck
    /\ At("gc_run") => GcRun
    /\ At("gc_next") => GcNext
    /\ At("gc_find") => GcFind
    /\ At("gc_data") => GcMoveData
    /\ At("gc_index") => GcMoveIndex
    /\ At("gc_erase") => GcErase
    /\ At("format") => FormatBlock
    /\ At("forget") => Forget
    /\ At("scan") => Scan
    /\ At("tally") => Tally
    /\ At("open") => Open
    /\ At("created") => Created
    /\ At("by_page") => OpenByPage
    /\ At("read") => Read
    /\ At("flush") => Flush
    /\ At("modify") => Modify
    /\ At("append") => AppendTo
    /\ At("index") => StoreIndex
    /\ At("close") => CloseFd
    /\ At("remove") => Remove
    /\ At("mark") => Mark
    /\ At("truncate") => Truncate
<1>1. At("erase") => Erase
  BY Heads DEF SpiffsStep, CallStep, PageStep, GcStep, At
<1>2. At("count") => WriteCount
  BY Heads DEF SpiffsStep, CallStep, PageStep, GcStep, At
<1>3. At("magic") => WriteMagic
  BY Heads DEF SpiffsStep, CallStep, PageStep, GcStep, At
<1>4. At("find_free") => GcQuick \/ TakeFree
  BY Heads DEF SpiffsStep, CallStep, PageStep, GcStep, At
<1>5. At("take_free") => TakeFree
  BY Heads DEF SpiffsStep, CallStep, PageStep, GcStep, At
<1>6. At("fail") => Fail
  BY Heads DEF SpiffsStep, CallStep, PageStep, GcStep, At
<1>7. At("entry") => WriteLu
  BY Heads DEF SpiffsStep, CallStep, PageStep, GcStep, At
<1>8. At("page") => WriteImage
  BY Heads DEF SpiffsStep, CallStep, PageStep, GcStep, At
<1>9. At("final") => Finalize
  BY Heads DEF SpiffsStep, CallStep, PageStep, GcStep, At
<1>10. At("unlink") => Unlink
  BY Heads DEF SpiffsStep, CallStep, PageStep, GcStep, At
<1>11. At("scrap") => Scrap
  BY Heads DEF SpiffsStep, CallStep, PageStep, GcStep, At
<1>12. At("refer") => Refer
  BY Heads DEF SpiffsStep, CallStep, PageStep, GcStep, At
<1>13. At("store") => StoreHeader
  BY Heads DEF SpiffsStep, CallStep, PageStep, GcStep, At
<1>14. At("update") => HeaderMoved
  BY Heads DEF SpiffsStep, CallStep, PageStep, GcStep, At
<1>15. At("move") => HeaderMoved
  BY Heads DEF SpiffsStep, CallStep, PageStep, GcStep, At
<1>16. At("delete") => HeaderDeleted
  BY Heads DEF SpiffsStep, CallStep, PageStep, GcStep, At
<1>17. At("gc_check") => GcCheck
  BY Heads DEF SpiffsStep, CallStep, PageStep, GcStep, At
<1>18. At("gc_run") => GcRun
  BY Heads DEF SpiffsStep, CallStep, PageStep, GcStep, At
<1>19. At("gc_next") => GcNext
  BY Heads DEF SpiffsStep, CallStep, PageStep, GcStep, At
<1>20. At("gc_find") => GcFind
  BY Heads DEF SpiffsStep, CallStep, PageStep, GcStep, At
<1>21. At("gc_data") => GcMoveData
  BY Heads DEF SpiffsStep, CallStep, PageStep, GcStep, At
<1>22. At("gc_index") => GcMoveIndex
  BY Heads DEF SpiffsStep, CallStep, PageStep, GcStep, At
<1>23. At("gc_erase") => GcErase
  BY Heads DEF SpiffsStep, CallStep, PageStep, GcStep, At
<1>24. At("format") => FormatBlock
  BY Heads DEF SpiffsStep, CallStep, PageStep, GcStep, At
<1>25. At("forget") => Forget
  BY Heads DEF SpiffsStep, CallStep, PageStep, GcStep, At
<1>26. At("scan") => Scan
  BY Heads DEF SpiffsStep, CallStep, PageStep, GcStep, At
<1>27. At("tally") => Tally
  BY Heads DEF SpiffsStep, CallStep, PageStep, GcStep, At
<1>28. At("open") => Open
  BY Heads DEF SpiffsStep, CallStep, PageStep, GcStep, At
<1>29. At("created") => Created
  BY Heads DEF SpiffsStep, CallStep, PageStep, GcStep, At
<1>30. At("by_page") => OpenByPage
  BY Heads DEF SpiffsStep, CallStep, PageStep, GcStep, At
<1>31. At("read") => Read
  BY Heads DEF SpiffsStep, CallStep, PageStep, GcStep, At
<1>32. At("flush") => Flush
  BY Heads DEF SpiffsStep, CallStep, PageStep, GcStep, At
<1>33. At("modify") => Modify
  BY Heads DEF SpiffsStep, CallStep, PageStep, GcStep, At
<1>34. At("append") => AppendTo
  BY Heads DEF SpiffsStep, CallStep, PageStep, GcStep, At
<1>35. At("index") => StoreIndex
  BY Heads DEF SpiffsStep, CallStep, PageStep, GcStep, At
<1>36. At("close") => CloseFd
  BY Heads DEF SpiffsStep, CallStep, PageStep, GcStep, At
<1>37. At("remove") => Remove
  BY Heads DEF SpiffsStep, CallStep, PageStep, GcStep, At
<1>38. At("mark") => Mark
  BY Heads DEF SpiffsStep, CallStep, PageStep, GcStep, At
<1>39. At("truncate") => Truncate
  BY Heads DEF SpiffsStep, CallStep, PageStep, GcStep, At
<1>. QED BY <1>1, <1>2, <1>3, <1>4, <1>5, <1>6, <1>7, <1>8, <1>9, <1>10, <1>11, <1>12, <1>13,
   <1>14, <1>15, <1>16, <1>17, <1>18, <1>19, <1>20, <1>21, <1>22, <1>23, <1>24, <1>25, <1>26,
   <1>27, <1>28, <1>29, <1>30, <1>31, <1>32, <1>33, <1>34, <1>35, <1>36, <1>37, <1>38, <1>39

-----------------------------------------------------------------------------
(* What each step does, when it is on top of the list. *)

(* What a step of a call leaves to the steps after it and to the node; and   *)
(* a step x taken from a list that goes on with u.                           *)
Steady == UNCHANGED <<call, rc, phase, config, stored, cuts>>
Here(x, u) == Working /\ FileInv /\ Listed(u) /\ todo = Cons(x, u)
(* Parts of the state that a step leaves alone.                              *)
SameCursor == fs'.mounted = fs.mounted /\ fs'.free_cursor = fs.free_cursor
SameCounters == fs'.allocated = fs.allocated /\ fs'.deleted = fs.deleted
SameLookup == UNCHANGED <<lu, magic, fs, dst>>

LEMMA HereFacts ==
  \A x, u : Here(x, u) =>
    /\ Step = x /\ Tail(todo) = u
    /\ \A d : At(d) <=> x.do = d
    /\ \A s : Then(s) <=> todo' = s \o u
    /\ Then(<<>>) <=> todo' = u
    /\ SpiffsStep /\ UNCHANGED <<phase, config, stored, cuts>>
    /\ Typed /\ Listed(u)
<1>. SUFFICES ASSUME NEW x, NEW u, Here(x, u)
     PROVE  /\ Step = x /\ Tail(todo) = u
            /\ \A d : At(d) <=> x.do = d
            /\ \A s : Then(s) <=> todo' = s \o u
            /\ Then(<<>>) <=> todo' = u
            /\ SpiffsStep /\ UNCHANGED <<phase, config, stored, cuts>>
            /\ Typed /\ Listed(u)
  OBVIOUS
<1>1. Listed(u) /\ todo = Cons(x, u) /\ SpiffsStep /\ UNCHANGED <<phase, config, stored, cuts>> /\ Typed
  BY DEF Here, Working, nodeVars, FileInv
<1>. QED BY <1>1, OnTop

LEMMA DoErase ==
  ASSUME NEW b, NEW u, Here([do |-> "erase", b |-> b], u)
  PROVE  /\ todo' = u /\ EraseBlock(b) /\ SameCursor /\ SameCounters
         /\ Steady /\ UNCHANGED <<fds, work, dst>>
<1>1. Erase /\ Step = [do |-> "erase", b |-> b] /\ (Then(<<>>) <=> todo' = u) /\ Typed
      /\ UNCHANGED <<phase, config, stored, cuts>>
  BY HereFacts, Dispatch DEF Linking, Putting, Event, Do
<1>2. fs' = [fs EXCEPT !.free_blocks = @ + 1] /\ fs \in FsType
  BY <1>1 DEF Erase, Typed
<1>3. SameCursor /\ SameCounters
  BY <1>2 DEF FsType, SameCursor, SameCounters
<1>. QED BY <1>1, <1>3 DEF Erase, Steady

LEMMA DoCount ==
  ASSUME NEW b, NEW u, Here([do |-> "count", b |-> b], u)
  PROVE  /\ todo' = u
         /\ Steady /\ UNCHANGED <<lu, page, magic, fs, fds, work, dst>>
<1>1. WriteCount /\ Step = [do |-> "count", b |-> b] /\ (Then(<<>>) <=> todo' = u) /\ Typed
      /\ UNCHANGED <<phase, config, stored, cuts>>
  BY HereFacts, Dispatch DEF Linking, Putting, Event, Do
<1>. QED BY <1>1 DEF WriteCount, Steady

LEMMA DoMagic ==
  ASSUME NEW b, NEW u, Here([do |-> "magic", b |-> b], u)
  PROVE  /\ todo' = u /\ magic' = magic \cup {b} /\ SameCursor /\ SameCounters
         /\ Steady /\ UNCHANGED <<lu, page, fds, work, dst>>
<1>1. WriteMagic /\ Step = [do |-> "magic", b |-> b] /\ (Then(<<>>) <=> todo' = u) /\ Typed
      /\ UNCHANGED <<phase, config, stored, cuts>>
  BY HereFacts, Dispatch DEF Linking, Putting, Event, Do
<1>2. fs' = [fs EXCEPT !.max_erase_count = IF @ + 1 = IX_FLAG THEN 0 ELSE (@ + 1) % (ONES + 1)] /\ fs \in FsType
  BY <1>1 DEF WriteMagic, Typed
<1>3. SameCursor /\ SameCounters
  BY <1>2 DEF FsType, SameCursor, SameCounters
<1>. QED BY <1>1, <1>3 DEF WriteMagic, Steady

LEMMA DoEntry ==
  ASSUME NEW id, NEW u, Here(Linking(id), u)
  PROVE  /\ todo' = u /\ WriteEntry(dst, id) /\ SameCursor
         /\ fs'.allocated = fs.allocated + 1 /\ fs'.deleted = fs.deleted
         /\ Steady /\ UNCHANGED <<page, magic, fds, work, dst>>
<1>1. WriteLu /\ Step = Linking(id) /\ (Then(<<>>) <=> todo' = u) /\ Typed
      /\ UNCHANGED <<phase, config, stored, cuts>>
  BY HereFacts, Dispatch DEF Linking, Putting, Event, Do
<1>2. fs' = [fs EXCEPT !.allocated = @ + 1] /\ fs \in FsType
  BY <1>1 DEF WriteLu, Typed
<1>3. SameCursor /\ fs'.allocated = fs.allocated + 1 /\ fs'.deleted = fs.deleted
  BY <1>2 DEF FsType, SameCursor, SameCounters
<1>. QED BY <1>1, <1>3 DEF WriteLu, Steady, Linking

LEMMA DoPage ==
  ASSUME NEW image, NEW u, Here(Putting(image), u)
  PROVE  /\ todo' = u /\ WritePage(dst, image)
         /\ Steady /\ SameLookup /\ UNCHANGED <<fds, work>>
<1>1. WriteImage /\ Step = Putting(image) /\ (Then(<<>>) <=> todo' = u) /\ Typed
      /\ UNCHANGED <<phase, config, stored, cuts>>
  BY HereFacts, Dispatch DEF Linking, Putting, Event, Do
<1>. QED BY <1>1 DEF WriteImage, Steady, Putting, SameLookup

LEMMA DoFinal ==
  ASSUME NEW u, Here(Do("final"), u)
  PROVE  /\ todo' = u /\ WriteFlags(dst, {"used", "final"})
         /\ Steady /\ SameLookup /\ UNCHANGED <<fds, work>>
<1>1. Finalize /\ Step = Do("final") /\ (Then(<<>>) <=> todo' = u) /\ Typed
      /\ UNCHANGED <<phase, config, stored, cuts>>
  BY HereFacts, Dispatch DEF Linking, Putting, Event, Do
<1>. QED BY <1>1 DEF Finalize, Steady, SameLookup

LEMMA DoUnlink ==
  ASSUME NEW p, NEW u, Here([do |-> "unlink", p |-> p], u)
  PROVE  /\ todo' = u /\ WriteEntry(p, DELETED) /\ SameCursor
         /\ fs'.allocated = fs.allocated - 1 /\ fs'.deleted = fs.deleted + 1
         /\ Steady /\ UNCHANGED <<page, magic, fds, work, dst>>
<1>1. Unlink /\ Step = [do |-> "unlink", p |-> p] /\ (Then(<<>>) <=> todo' = u) /\ Typed
      /\ UNCHANGED <<phase, config, stored, cuts>>
  BY HereFacts, Dispatch DEF Linking, Putting, Event, Do
<1>2. fs' = [fs EXCEPT !.deleted = @ + 1, !.allocated = @ - 1] /\ fs \in FsType
  BY <1>1 DEF Unlink, Typed
<1>3. SameCursor /\ fs'.allocated = fs.allocated - 1 /\ fs'.deleted = fs.deleted + 1
  BY <1>2 DEF FsType, SameCursor, SameCounters
<1>. QED BY <1>1, <1>3 DEF Unlink, Steady

LEMMA DoScrap ==
  ASSUME NEW p, NEW u, Here([do |-> "scrap", p |-> p], u)
  PROVE  /\ todo' = u /\ WriteFlags(p, {"used", "delet"})
         /\ Steady /\ SameLookup /\ UNCHANGED <<fds, work>>
<1>1. Scrap /\ Step = [do |-> "scrap", p |-> p] /\ (Then(<<>>) <=> todo' = u) /\ Typed
      /\ UNCHANGED <<phase, config, stored, cuts>>
  BY HereFacts, Dispatch DEF Linking, Putting, Event, Do
<1>. QED BY <1>1 DEF Scrap, Steady, SameLookup

LEMMA DoRefer ==
  ASSUME NEW u, Here(Do("refer"), u)
  PROVE  /\ todo' = u /\ work' = [work EXCEPT !.ref = dst]
         /\ Steady /\ SameLookup /\ UNCHANGED <<page, fds>>
<1>1. Refer /\ Step = Do("refer") /\ (Then(<<>>) <=> todo' = u) /\ Typed
      /\ UNCHANGED <<phase, config, stored, cuts>>
  BY HereFacts, Dispatch DEF Linking, Putting, Event, Do
<1>. QED BY <1>1 DEF Refer, Steady, SameLookup, flash

LEMMA DoMoved ==
  ASSUME NEW id, NEW u, Here(Event("move", id), u)
  PROVE  /\ todo' = u /\ fds' = Followed(id, dst, 0)
         /\ Steady /\ SameLookup /\ UNCHANGED <<page, work>>
<1>1. Event("move", id).do = "move" /\ Event("move", id).id = id
  BY DEF Event
<1>2. HeaderMoved /\ Step.id = id /\ (At("update") <=> "move" = "update") /\ (Then(<<>>) <=> todo' = u)
      /\ UNCHANGED <<phase, config, stored, cuts>>
  BY <1>1, HereFacts, Dispatch
<1>. QED BY <1>2 DEF HeaderMoved, Steady, SameLookup, flash

LEMMA DoUpdated ==
  ASSUME NEW id, NEW u, Here(Event("update", id), u)
  PROVE  /\ todo' = u /\ fds' = Followed(id, dst, work.size)
         /\ Steady /\ SameLookup /\ UNCHANGED <<page, work>>
<1>1. Event("update", id).do = "update" /\ Event("update", id).id = id
  BY DEF Event
<1>2. HeaderMoved /\ Step.id = id /\ (At("update") <=> "update" = "update") /\ (Then(<<>>) <=> todo' = u)
      /\ UNCHANGED <<phase, config, stored, cuts>>
  BY <1>1, HereFacts, Dispatch
<1>. QED BY <1>2 DEF HeaderMoved, Steady, SameLookup, flash

LEMMA DoDeleted ==
  ASSUME NEW id, NEW u, Here(Event("delete", id), u)
  PROVE  /\ todo' = u /\ fds' = Dropped(id)
         /\ Steady /\ SameLookup /\ UNCHANGED <<page, work>>
<1>1. HeaderDeleted /\ Step = Event("delete", id) /\ (Then(<<>>) <=> todo' = u) /\ Typed
      /\ UNCHANGED <<phase, config, stored, cuts>>
  BY HereFacts, Dispatch DEF Linking, Putting, Event, Do
<1>. QED BY <1>1 DEF HeaderDeleted, Steady, SameLookup, flash, Event

LEMMA DoGcErase ==
  ASSUME NEW b, NEW u, Here([do |-> "gc_erase", b |-> b], u)
  PROVE  /\ todo' = u /\ SameCursor
         /\ fs'.allocated = fs.allocated - Cardinality({p \in Block(b) : InUse(p)})
         /\ fs'.deleted = fs.deleted - Cardinality({p \in Block(b) : lu[p] = DELETED})
         /\ Steady /\ UNCHANGED <<lu, page, magic, fds, work, dst>>
<1>. DEFINE deleted == Cardinality({p \in Block(b) : lu[p] = DELETED})
            used == Cardinality({p \in Block(b) : InUse(p)})
<1>1. GcErase /\ Step.b = b /\ (Then(<<>>) <=> todo' = u) /\ Typed /\ UNCHANGED <<phase, config, stored, cuts>>
  BY HereFacts, Dispatch DEF Linking, Putting, Event, Do
<1>2. fs' = [fs EXCEPT !.cleaning = FALSE, !.deleted = @ - deleted, !.allocated = @ - used] /\ fs \in FsType
  BY <1>1 DEF GcErase, Typed
<1>. HIDE DEF deleted, used
<1>3. SameCursor /\ fs'.deleted = fs.deleted - deleted /\ fs'.allocated = fs.allocated - used
  BY <1>2 DEF FsType, SameCursor
<1>. QED BY <1>1, <1>3 DEF GcErase, Steady, flash, deleted, used

LEMMA DoClose ==
  ASSUME NEW u, Here(Do("close"), u)
  PROVE  /\ todo' = u /\ fds' = [fds EXCEPT ![call.fd].open = FALSE]
         /\ Steady /\ SameLookup /\ UNCHANGED <<page, work>>
<1>1. CloseFd /\ Step = Do("close") /\ (Then(<<>>) <=> todo' = u) /\ Typed
      /\ UNCHANGED <<phase, config, stored, cuts>>
  BY HereFacts, Dispatch DEF Linking, Putting, Event, Do
<1>. QED BY <1>1 DEF CloseFd, Steady, SameLookup, flash, Close

LEMMA DoMark ==
  ASSUME NEW u, Here(Do("mark"), u)
  PROVE  /\ todo' = u /\ WriteFlags(Fd.hdr, {"used", "final", "index", "ixdele"})
         /\ Steady /\ SameLookup /\ UNCHANGED <<fds, work>>
<1>1. Mark /\ Step = Do("mark") /\ (Then(<<>>) <=> todo' = u) /\ Typed
      /\ UNCHANGED <<phase, config, stored, cuts>>
  BY HereFacts, Dispatch DEF Linking, Putting, Event, Do
<1>. QED BY <1>1 DEF Mark, Steady, SameLookup

-----------------------------------------------------------------------------
(* Where the search for a free page starts. *)

LEMMA ObjectIsNumber ==
  \A p \in Objects : p \in Nat /\ p \in Int /\ p \in 1..Pages
<1>. TAKE p \in Objects
<1>1. p \in 1..(Pages - 1) /\ Pages \in Nat
  BY Sizes
<1>. QED BY <1>1

LEMMA PageInBlock ==
  \A p \in Objects, b \in Bixes : p \in Block(b) <=> BlockOf(p) = b
<1>. SUFFICES ASSUME NEW p \in Objects, NEW b \in Bixes
     PROVE  p \in Block(b) <=> BlockOf(p) = b
  OBVIOUS
<1>1. p \in Block(b) => BlockOf(p) = b
  BY BlockPages
<1>2. ASSUME BlockOf(p) = b PROVE p \in Block(b)
  <2>. DEFINE m == PagesPerBlock
              r == p % m
  <2>1. p \in Nat /\ m \in Nat /\ m > 1 /\ m = Entries + 1 /\ Entries \in Nat
    BY PageBlock, Sizes
  <2>2. p = ((p \div m) * m) + r /\ r \in 0..(m - 1) /\ p \div m = b
    BY <2>1, <1>2 DEF BlockOf
  <2>3. r # 0
    BY DEF Objects
  <2>4. b \in Nat /\ b * m \in Nat
    BY <2>1, Sizes
  <2>. HIDE DEF r, m
  <2>5. p = (b * m) + r
    BY <2>2
  <2>6. p >= (b * m) + 1 /\ p <= (b * m) + Entries
    BY <2>1, <2>2, <2>3, <2>4, <2>5
  <2>. QED BY <2>1, <2>4, <2>6 DEF Block, FirstPage, m
<1>. QED BY <1>1, <1>2

LEMMA FirstInBlock ==
  \A p \in Objects : FirstPage(BlockOf(p)) \in Objects /\ FirstPage(BlockOf(p)) <= p /\ p \in Int
<1>. SUFFICES ASSUME NEW p \in Objects
     PROVE  FirstPage(BlockOf(p)) \in Objects /\ FirstPage(BlockOf(p)) <= p /\ p \in Int
  OBVIOUS
<1>1. BlockOf(p) \in Bixes /\ p \in Nat
  BY PageBlock
<1>2. p \in Block(BlockOf(p)) /\ FirstPage(BlockOf(p)) \in Objects
  BY <1>1, PageInBlock, BlockPages
<1>. QED BY <1>1, <1>2 DEF Block

LEMMA StartAt ==
  ASSUME NEW c \in 1..Pages
  PROVE  /\ Start(c) \in Objects
         /\ IsFirst(Start(c)) \/ Start(c) = c
         /\ c \in Objects => Start(c) = c
         /\ c \notin Objects => Start(c) = IF c = Pages THEN 1 ELSE c + 1
<1>. DEFINE m == PagesPerBlock
            p == c % Pages
<1>1. /\ Pages \in Nat /\ Pages > 0 /\ m \in Nat /\ m > 1 /\ c \in Nat
      /\ Pages = Blocks * m /\ Blocks \in Nat
  BY Sizes, FirstObject
<1>2. p = (IF c = Pages THEN 0 ELSE c) /\ p \in 0..(Pages - 1)
  <2>1. CASE c = Pages
    <3>1. Pages % Pages = 0
      BY <1>1
    <3>. QED BY <1>1, <2>1, <3>1
  <2>2. CASE c # Pages
    <3>1. c \in 0..(Pages - 1)
      BY <1>1, <2>2
    <3>2. c % Pages = c
      BY <1>1, <3>1
    <3>. QED BY <2>2, <3>1, <3>2
  <2>. QED BY <2>1, <2>2
<1>3. Start(c) = IF p % m = 0 THEN p + 1 ELSE p
  BY DEF Start
<1>4. CASE p % m = 0
  <2>. DEFINE q == p \div m
  <2>1. q \in Nat /\ p = q * m
    <3>. HIDE DEF p
    <3>1. q \in Nat /\ p = (q * m) + (p % m)
      BY <1>1, <1>2
    <3>. QED BY <1>1, <1>4, <3>1
  <2>. HIDE DEF q, p, m
  <2>2. q < Blocks
    <3>. SUFFICES ASSUME ~(q < Blocks) PROVE FALSE
      OBVIOUS
    <3>1. q = Blocks \/ Blocks < q
      BY <1>1, <2>1
    <3>2. Blocks * m <= q * m
      BY <1>1, <2>1, <3>1, Products
    <3>. QED BY <1>1, <1>2, <2>1, <3>2
  <2>3. q \in Bixes /\ FirstPage(q) = p + 1
    BY <1>1, <2>1, <2>2 DEF Bixes, FirstPage, m
  <2>4. p + 1 \in Objects /\ IsFirst(p + 1)
    BY <2>3, BlockPages DEF IsFirst
  <2>5. c \notin Objects
    <3>1. CASE c = Pages
      BY <1>1, <3>1, Sizes
    <3>2. CASE c # Pages
      BY <1>2, <1>4, <3>2 DEF Objects, m
    <3>. QED BY <3>1, <3>2
  <2>. QED BY <1>1, <1>2, <1>3, <1>4, <2>4, <2>5
<1>5. CASE p % m # 0
  <2>1. p \in Objects
    BY <1>2, <1>5 DEF Objects
  <2>2. c = p
    <3>1. p # 0
      BY <2>1, Sizes
    <3>. QED BY <1>2, <3>1
  <2>. QED BY <1>3, <1>5, <2>1, <2>2
<1>. QED BY <1>4, <1>5

LEMMA NextTop ==
  ASSUME NEW p \in Objects
  PROVE  /\ p + 1 \in 1..Pages /\ Start(p + 1) \in Objects /\ Start(p + 1) # p
         /\ \/ IsFirst(Start(p + 1))
            \/ Start(p + 1) = p + 1 /\ SameBlock(p + 1, p)
<1>. DEFINE c == p + 1
            m == PagesPerBlock
<1>1. p \in 1..(Pages - 1) /\ Pages \in Nat /\ m \in Nat /\ m > 1 /\ Blocks \in Nat /\ Blocks > 2 /\ Pages = Blocks * m
  BY Sizes
<1>2. c \in 1..Pages
  BY <1>1
<1>3. Pages > 2
  <2>1. 2 * m <= Blocks * m
    BY <1>1, Products
  <2>. QED BY <1>1, <2>1
<1>4. Start(c) \in Objects /\ (IsFirst(Start(c)) \/ Start(c) = c)
      /\ (c \in Objects => Start(c) = c)
      /\ (c \notin Objects => Start(c) = IF c = Pages THEN 1 ELSE c + 1)
  BY <1>2, StartAt
<1>5. Start(c) # p
  BY <1>1, <1>3, <1>4
<1>6. ASSUME ~IsFirst(Start(c)) PROVE SameBlock(c, p)
  <2>1. c \in Objects /\ ~IsFirst(c)
    BY <1>4, <1>6
  <2>2. FirstPage(BlockOf(c)) \in Objects /\ FirstPage(BlockOf(c)) <= c /\ c \in Int /\ FirstPage(BlockOf(c)) # c
        /\ BlockOf(c) \in Bixes
    BY <2>1, FirstInBlock, PageBlock DEF IsFirst
  <2>3. FirstPage(BlockOf(c)) \in Int
    BY <2>2, ObjectIsNumber, Zenon
  <2>4. c \in Block(BlockOf(c))
    BY <2>1, <2>2, PageInBlock
  <2>5. p \in Block(BlockOf(c))
    BY <1>1, <2>2, <2>3, <2>4, Sizes DEF Block
  <2>. QED BY <2>2, <2>5, BlockPages DEF SameBlock
<1>. QED BY <1>2, <1>4, <1>5, <1>6

LEMMA CursorElsewhere ==
  ASSUME NEW c \in 1..Pages, NEW b \in Bixes, CursorBlock(c) # b
  PROVE  BlockOf(Start(c)) = b => IsFirst(Start(c))
<1>. DEFINE m == PagesPerBlock
<1>1. Start(c) \in Objects /\ (IsFirst(Start(c)) \/ Start(c) = c)
  BY StartAt
<1>2. ASSUME ~IsFirst(Start(c)) PROVE BlockOf(Start(c)) # b
  <2>1. c \in Objects
    BY <1>1, <1>2
  <2>2. c \in Nat /\ m \in Nat /\ m > 1
    BY <2>1, PageBlock, Sizes
  <2>. DEFINE q == c \div m
              r == c % m
  <2>3. q \in Nat /\ r \in 0..(m - 1) /\ c = (q * m) + r /\ r # 0
    BY <2>1, <2>2 DEF Objects
  <2>. HIDE DEF q, r, m
  <2>4. r - 1 \in 0..(m - 1) /\ c - 1 = (q * m) + (r - 1)
    <3>1. q * m \in Nat
      BY <2>2, <2>3
    <3>. QED BY <2>2, <2>3, <3>1
  <2>5. (c - 1) \div m = q
    BY <2>2, <2>3, <2>4, Division
  <2>6. CursorBlock(c) = BlockOf(c)
    BY <2>5 DEF CursorBlock, BlockOf, q, m
  <2>. QED BY <1>1, <1>2, <2>6
<1>. QED BY <1>2

LEMMA FirstIsStart ==
  ASSUME NEW b \in Bixes
  PROVE  FirstPage(b) \in 1..Pages /\ Start(FirstPage(b)) = FirstPage(b) /\ IsFirst(FirstPage(b))
<1>1. FirstPage(b) \in Objects /\ BlockOf(FirstPage(b)) = b
  BY BlockPages
<1>2. FirstPage(b) \in 1..Pages
  BY <1>1, ObjectIsNumber, Zenon
<1>. QED BY <1>1, <1>2, StartAt DEF IsFirst

-----------------------------------------------------------------------------
(* The nearest page. *)

LEMMA Distances ==
  \A s, p \in Objects : Distance(s, p) = IF p >= s THEN p - s ELSE (p - s) + Pages
<1>. SUFFICES ASSUME NEW s \in Objects, NEW p \in Objects
     PROVE  Distance(s, p) = IF p >= s THEN p - s ELSE (p - s) + Pages
  OBVIOUS
<1>1. s \in 1..(Pages - 1) /\ p \in 1..(Pages - 1) /\ Pages \in Nat /\ Pages > 0
  BY Sizes
<1>2. Distance(s, p) = ((p - s) + Pages) % Pages
  BY DEF Distance
<1>3. CASE p >= s
  <2>1. p - s \in 0..(Pages - 1) /\ (p - s) + Pages = (1 * Pages) + (p - s)
    BY <1>1, <1>3
  <2>2. ((1 * Pages) + (p - s)) % Pages = p - s
    BY <1>1, <2>1, Division
  <2>. QED BY <1>2, <1>3, <2>1, <2>2
<1>4. CASE ~(p >= s)
  <2>1. (p - s) + Pages \in 0..(Pages - 1) /\ (p - s) + Pages = (0 * Pages) + ((p - s) + Pages)
    BY <1>1, <1>4
  <2>2. ((0 * Pages) + ((p - s) + Pages)) % Pages = (p - s) + Pages
    BY <1>1, <2>1, Division
  <2>. QED BY <1>2, <1>4, <2>1, <2>2
<1>. QED BY <1>3, <1>4

LEMMA NearestFirst ==
  ASSUME NEW s \in Objects, NEW S, S \subseteq Objects, S # {}
  PROVE  /\ FirstFrom(s, S) \in S
         /\ \A q \in S : Distance(s, FirstFrom(s, S)) <= Distance(s, q)
<1>. DEFINE T == {Distance(s, p) : p \in S}
<1>1. ASSUME NEW p \in S
      PROVE  Distance(s, p) \in Nat
  <2>1. s \in 1..(Pages - 1) /\ p \in 1..(Pages - 1) /\ Pages \in Nat /\ p \in Objects
    BY Sizes
  <2>. QED BY <2>1, Distances
<1>2. T \subseteq Nat /\ T # {}
  BY <1>1
<1>3. PICK d \in T : \A e \in T : ~(e < d)
  <2>. HIDE DEF T
  <2>. QED BY <1>2, LeastNatural
<1>4. PICK p \in S : d = Distance(s, p)
  BY <1>3
<1>5. \A q \in S : Distance(s, p) <= Distance(s, q)
  BY <1>1, <1>3, <1>4
<1>. QED BY <1>5 DEF FirstFrom

LEMMA OnlyOne ==
  \A s \in Int, h \in Objects : FirstFrom(s, {h}) = h
<1>. SUFFICES ASSUME NEW s \in Int, NEW h \in Objects PROVE FirstFrom(s, {h}) = h
  OBVIOUS
<1>1. FirstFrom(s, {h}) \in {h}
  BY NearestIn
<1>. QED BY <1>1

-----------------------------------------------------------------------------
(* Free space: the pages of a block are used in order, from the cursor on.   *)

(* The pages in use, and what they hold, are left alone; Same, below, says   *)
(* so of some of them.                                                       *)
Untouched == Live' = Live /\ \A p \in Live : lu'[p] = lu[p] /\ page'[p] = page[p]

LEMMA LiveSets ==
  /\ Live \subseteq Objects /\ Gone \subseteq Objects /\ Live \cap Gone = {}
  /\ \A S : S \subseteq Objects => IsFiniteSet(S) /\ Cardinality(S) \in Nat
  /\ \A p \in Objects : p \in Live <=> lu[p] # FREE /\ lu[p] # DELETED
  /\ \A p \in Objects : p \in Gone <=> lu[p] = DELETED
<1>1. /\ Live \subseteq Objects /\ Gone \subseteq Objects /\ Live \cap Gone = {}
      /\ \A p \in Objects : p \in Live <=> lu[p] # FREE /\ lu[p] # DELETED
      /\ \A p \in Objects : p \in Gone <=> lu[p] = DELETED
  BY DEF Live, Gone, WithId, InUse
<1>2. IsFiniteSet(Objects)
  <2>1. Objects \subseteq 1..(Pages - 1) /\ Pages - 1 \in Int
    BY Sizes
  <2>2. IsFiniteSet(1..(Pages - 1))
    BY <2>1, FS_Interval
  <2>. QED BY <2>1, <2>2, FS_Subset
<1>. QED BY <1>1, <1>2, FS_Subset, FS_CardinalityType

LEMMA SameLive == ASSUME lu' = lu PROVE Live' = Live /\ Gone' = Gone
  BY DEF Live, Gone, WithId, InUse

LEMMA SameTop == ASSUME SameCursor PROVE Top' = Top /\ \A b : InBlock(b)' <=> InBlock(b)
  BY DEF SameCursor, Top, InBlock, IsFirst

LEMMA FlatKept ==
  ASSUME NEW X, NEW M, Flat(X, M), lu' = lu, magic' = magic, SameCursor, SameCounters,
         \A p \in Objects : lu[p] = FREE => page'[p] = page[p]
  PROVE  Flat(X, M)'
<1>1. Live' = Live /\ Gone' = Gone /\ Top' = Top
  BY SameLive, SameTop
<1>2. Space({})'
  BY <1>1 DEF Flat, Space, Clean, Suffix, Lowest, OnFree, IsFirst, SameBlock
<1>3. Counting(X)' /\ fs'.mounted
  BY <1>1 DEF Flat, Counting, SameCursor, SameCounters
<1>. QED BY <1>2, <1>3 DEF Flat

LEMMA FoundKept ==
  ASSUME Found, UNCHANGED <<lu, magic, fs, dst>>,
         \A p \in Objects : lu[p] = FREE /\ p # dst => page'[p] = page[p]
  PROVE  Found'
<1>1. Live' = Live /\ Gone' = Gone /\ Top' = Top
  BY SameLive DEF Top
<1>2. Space({dst})'
  BY <1>1 DEF Found, Space, Clean, Suffix, Lowest, OnFree, IsFirst, SameBlock
<1>3. Counting({})' /\ fs'.mounted
  BY <1>1 DEF Found, Counting
<1>4. Fresh' /\ Near'
  BY <1>1 DEF Found, Fresh, Near, InBlock, IsFirst, SameBlock
<1>. QED BY <1>2, <1>3, <1>4 DEF Found

-----------------------------------------------------------------------------
(* A page is taken and entered in the lookup. *)

LEMMA Wholly ==
  \A v \in Words : And(ONES, v) = v /\ And(v, ONES) = v /\ And(v, 0) = 0 /\ And(v, v) = v
<1>. SUFFICES ASSUME NEW v \in Words
     PROVE  And(ONES, v) = v /\ And(v, ONES) = v /\ And(v, 0) = 0 /\ And(v, v) = v
  OBVIOUS
<1>. DEFINE a(n) == Bit(v, n)
<1>1. /\ a(1) \in {0, 1} /\ a(2) \in {0, 1} /\ a(4) \in {0, 1} /\ a(8) \in {0, 1} /\ a(16) \in {0, 1}
      /\ v = a(1) + (2 * a(2)) + (4 * a(4)) + (8 * a(8)) + (16 * a(16))
  BY Bits
<1>2. Bit(ONES, 1) = 1 /\ Bit(ONES, 2) = 1 /\ Bit(ONES, 4) = 1 /\ Bit(ONES, 8) = 1 /\ Bit(ONES, 16) = 1
  BY DEF Bit, ONES
<1>3. Bit(0, 1) = 0 /\ Bit(0, 2) = 0 /\ Bit(0, 4) = 0 /\ Bit(0, 8) = 0 /\ Bit(0, 16) = 0
  BY DEF Bit
<1>. DEFINE c(n) == IF a(n) = 1 THEN n ELSE 0
<1>4. And(ONES, v) = c(1) + c(2) + c(4) + c(8) + c(16)
  BY <1>2 DEF And
<1>5. And(v, ONES) = c(1) + c(2) + c(4) + c(8) + c(16)
  BY <1>2 DEF And
<1>6. And(v, v) = c(1) + c(2) + c(4) + c(8) + c(16)
  BY DEF And
<1>7. And(v, 0) = 0 + 0 + 0 + 0 + 0
  BY <1>3 DEF And
<1>. HIDE DEF a
<1>. QED BY <1>1, <1>4, <1>5, <1>6, <1>7

LEMMA PageIsTaken ==
  ASSUME Flat({}, {}), WithId(FREE) # {}, dst' = FirstFrom(Top, WithId(FREE)),
         UNCHANGED <<lu, page, magic>>, fs'.mounted = fs.mounted, fs'.free_cursor = dst' + 1, SameCounters,
         magic \subseteq Bixes
  PROVE  Found' /\ page'[dst'] = ErasedPage /\ lu'[dst'] = FREE
<1>. DEFINE S == WithId(FREE)
            d == dst'
<1>1. S \subseteq Objects /\ Top \in Objects /\ \A p \in Objects : p \in S <=> lu[p] = FREE
  BY DEF WithId, Flat, Space, OnFree
<1>2. d \in S /\ \A q \in S : Distance(Top, d) <= Distance(Top, q)
  <2>. HIDE DEF S
  <2>. QED BY <1>1, NearestFirst DEF S
<1>3. d \in Objects /\ lu[d] = FREE
  BY <1>1, <1>2
<1>. HIDE DEF S, d
<1>4. ASSUME NEW q \in Objects, SameBlock(q, d), lu[q] = FREE
      PROVE  q >= d
  <2>1. q \in S /\ Distance(Top, d) <= Distance(Top, q)
    BY <1>1, <1>2, <1>4
  <2>2. /\ Distance(Top, d) = (IF d >= Top THEN d - Top ELSE (d - Top) + Pages)
        /\ Distance(Top, q) = (IF q >= Top THEN q - Top ELSE (q - Top) + Pages)
    BY <1>1, <1>3, Distances
  <2>3. d \in 1..(Pages - 1) /\ q \in 1..(Pages - 1) /\ Top \in 1..(Pages - 1) /\ Pages \in Nat
    BY <1>1, <1>3, Sizes
  <2>4. CASE BlockOf(d) = BlockOf(Top)
    <3>1. d >= Top /\ q >= Top
      BY <1>3, <1>4, <2>4 DEF Flat, Space, Lowest, SameBlock
    <3>. QED BY <2>1, <2>2, <2>3, <3>1
  <2>5. CASE BlockOf(d) # BlockOf(Top)
    <3>. DEFINE b == BlockOf(d)
                first == FirstPage(b)
    <3>1. b \in Bixes /\ d \in Block(b) /\ q \in Block(b) /\ Top \notin Block(b)
      BY <1>1, <1>3, <1>4, <2>5, PageBlock, PageInBlock DEF SameBlock
    <3>2. first \in Int
      BY <3>1, BlockPages, ObjectIsNumber
    <3>3. ~(first <= Top /\ Top <= first + Entries - 1) /\ first <= d /\ d <= first + Entries - 1
          /\ first <= q /\ q <= first + Entries - 1 /\ Entries \in Nat
      BY <2>3, <3>1, <3>2, Sizes DEF Block
    <3>. HIDE DEF first, b
    <3>. QED BY <2>1, <2>2, <2>3, <3>2, <3>3
  <2>. QED BY <2>4, <2>5
<1>5. /\ Top' = Start(d + 1) /\ Top' \in Objects /\ Top' # d
      /\ IsFirst(Top') \/ (Top' = d + 1 /\ SameBlock(d + 1, d))
  <2>1. Top' = Start(d + 1)
    BY DEF Top, d
  <2>. QED BY <1>3, <2>1, NextTop
<1>6. d \in Int
  BY <1>3, ObjectIsNumber
<1>7. OnFree'
  <2>1. CASE IsFirst(Top')
    BY <1>5, <2>1 DEF OnFree, IsFirst
  <2>2. CASE Top' = d + 1 /\ SameBlock(d + 1, d)
    <3>1. d + 1 \in Objects /\ d < d + 1 /\ SameBlock(d, d + 1)
      BY <1>5, <1>6, <2>2 DEF SameBlock
    <3>2. lu[d + 1] = FREE
      BY <1>3, <3>1 DEF Flat, Space, Suffix
    <3>. QED BY <1>5, <2>2, <3>2 DEF OnFree
  <2>. QED BY <1>5, <2>1, <2>2
<1>8. ASSUME NEW q \in Objects, q # d, BlockOf(q) = BlockOf(Top'), lu[q] = FREE
      PROVE  q >= Top'
  <2>1. CASE IsFirst(Top')
    BY <1>8, <2>1, FirstInBlock DEF IsFirst
  <2>2. CASE Top' = d + 1 /\ SameBlock(d + 1, d)
    <3>1. q >= d /\ q \in Int
      BY <1>4, <1>8, <2>2, ObjectIsNumber DEF SameBlock
    <3>. QED BY <1>6, <1>8, <2>2, <3>1
  <2>. QED BY <1>5, <2>1, <2>2
<1>9. Lowest({dst})'
  BY <1>8 DEF Lowest, SameBlock, d
<1>10. Clean({dst})' /\ Suffix'
  BY DEF Flat, Space, Clean, Suffix, SameBlock
<1>11. Counting({})' /\ magic' = Bixes /\ fs'.mounted
  <2>1. Live' = Live /\ Gone' = Gone
    BY SameLive
  <2>. QED BY <2>1 DEF Flat, Counting, SameCounters
<1>12. Fresh'
  BY <1>3, <1>4, <1>5 DEF Fresh, SameBlock, d
<1>13. Near'
  <2>1. ASSUME NEW b \in Bixes, BlockOf(Top') = b, ~IsFirst(Top') PROVE BlockOf(d) = b
    BY <1>5, <2>1 DEF SameBlock
  <2>. QED BY <2>1 DEF Near, InBlock, d, IsFirst
<1>14. page'[d] = ErasedPage
  BY <1>3 DEF Flat, Space, Clean
<1>. QED BY <1>3, <1>7, <1>9, <1>10, <1>11, <1>12, <1>13, <1>14 DEF Found, Space, d

LEMMA PageIsEntered ==
  ASSUME Found, Typed, NEW id \in Words \ {FREE, DELETED}, WriteEntry(dst, id),
         UNCHANGED <<page, magic, dst>>, SameCursor,
         fs'.allocated = fs.allocated + 1, fs'.deleted = fs.deleted
  PROVE  /\ Flat({}, {})' /\ Near' /\ Live' = Live \cup {dst} /\ dst \notin Live /\ dst \in Objects
         /\ lu'[dst] = id /\ \A p \in Objects : p # dst => lu'[p] = lu[p]
         /\ \A p \in Live : Above(p)
<1>1. dst \in Objects /\ lu[dst] = FREE /\ Top # dst /\ \A p \in Objects : SameBlock(p, dst) /\ lu[p] = FREE => p >= dst
  BY DEF Found, Fresh
<1>2. DOMAIN lu = Objects
  BY DEF Typed, FlashTyped
<1>3. lu'[dst] = id /\ lu' = [lu EXCEPT ![dst] = id]
  BY <1>1, <1>2, Wholly DEF WriteEntry, FREE
<1>4. \A p \in Objects : p # dst => lu'[p] = lu[p]
  BY <1>2, <1>3
<1>5. Live' = Live \cup {dst} /\ dst \notin Live /\ Gone' = Gone
  <2>1. \A p \in Objects : p \in Live' <=> p \in Live \/ p = dst
    BY <1>1, <1>3, <1>4 DEF Live, InUse
  <2>2. \A p \in Objects : p \in Gone' <=> p \in Gone
    BY <1>1, <1>3, <1>4 DEF Gone, WithId, FREE, DELETED, ONES
  <2>3. Live' \subseteq Objects /\ Gone' \subseteq Objects /\ Gone \subseteq Objects /\ Live \subseteq Objects
    BY DEF Live, Gone, WithId
  <2>4. dst \notin Live
    BY <1>1 DEF Live, InUse
  <2>. QED BY <1>1, <2>1, <2>2, <2>3, <2>4
<1>6. Top' = Top /\ \A b : InBlock(b)' <=> InBlock(b)
  BY SameTop
<1>7. Clean({})'
  BY <1>3, <1>4 DEF Found, Space, Clean
<1>8. Suffix'
  <2>. SUFFICES ASSUME NEW p \in Objects, NEW q \in Objects, SameBlock(p, q), p < q, lu'[p] = FREE
       PROVE  lu'[q] = FREE
    BY DEF Suffix, SameBlock
  <2>1. p # dst /\ lu[p] = FREE /\ lu[q] = FREE
    BY <1>3, <1>4 DEF Found, Space, Suffix
  <2>2. q # dst
    <3>1. q = dst => p >= dst /\ p < dst /\ p \in Int /\ dst \in Int
      BY <1>1, <2>1, ObjectIsNumber
    <3>. QED BY <3>1
  <2>. QED BY <1>4, <2>1, <2>2
<1>9. Lowest({})'
  BY <1>3, <1>4, <1>6 DEF Found, Space, Lowest, SameBlock
<1>10. OnFree'
  BY <1>1, <1>4, <1>6 DEF Found, Space, OnFree, IsFirst
<1>11. Counting({})'
  <2>1. fs.allocated = Cardinality(Live) /\ fs.deleted = Cardinality(Gone)
    BY DEF Found, Counting
  <2>2. Cardinality(Live \cup {dst}) = Cardinality(Live) + 1
    BY <1>5, LiveSets, FS_AddElement
  <2>3. fs'.allocated = Cardinality(Live') /\ fs'.deleted = Cardinality(Gone')
    BY <1>5, <2>1, <2>2
  <2>. QED BY <2>3 DEF Counting
<1>12. Near' /\ magic' = Bixes /\ fs'.mounted
  BY <1>6 DEF Found, Near, SameCursor
<1>13. ASSUME NEW p \in Live PROVE Above(p)
  <2>1. p \in Objects /\ lu[p] # FREE /\ p # dst
    BY <1>5 DEF Live, InUse
  <2>2. SameBlock(dst, p) /\ dst < p => lu[p] = FREE
    BY <1>1, <2>1 DEF Found, Space, Suffix
  <2>3. dst \in Int /\ p \in Int
    BY <1>1, <2>1, ObjectIsNumber
  <2>. QED BY <2>1, <2>2, <2>3 DEF Above
<1>. QED BY <1>1, <1>3, <1>4, <1>5, <1>7, <1>8, <1>9, <1>10, <1>11, <1>12, <1>13 DEF Flat, Space

-----------------------------------------------------------------------------
(* A page is given up, a block is erased. *)

LEMMA PageIsUnlinked ==
  ASSUME Flat({}, {}), Typed, NEW p \in Live, WriteEntry(p, DELETED), UNCHANGED <<page, magic>>, SameCursor,
         fs'.allocated = fs.allocated - 1, fs'.deleted = fs.deleted + 1
  PROVE  /\ Flat({}, {})' /\ Live' = Live \ {p} /\ p \in Objects /\ lu'[p] = DELETED
         /\ \A q \in Objects : q # p => lu'[q] = lu[q]
<1>1. p \in Objects /\ lu[p] # FREE /\ lu[p] # DELETED /\ lu[p] \in Words
  <2>1. FREE \in Words
    BY DEF Words, FREE, ONES
  <2>. QED BY <2>1 DEF Live, InUse, Typed, FlashTyped, Id
<1>2. DOMAIN lu = Objects
  BY DEF Typed, FlashTyped
<1>3. lu'[p] = DELETED /\ lu' = [lu EXCEPT ![p] = DELETED]
  BY <1>1, <1>2, Wholly DEF WriteEntry, DELETED
<1>4. \A q \in Objects : q # p => lu'[q] = lu[q]
  BY <1>2, <1>3
<1>5. Live' = Live \ {p} /\ Gone' = Gone \cup {p} /\ p \notin Gone
  <2>1. \A q \in Objects : q \in Live' <=> q \in Live /\ q # p
    BY <1>1, <1>3, <1>4 DEF Live, InUse
  <2>2. \A q \in Objects : q \in Gone' <=> q \in Gone \/ q = p
    BY <1>1, <1>3, <1>4 DEF Gone, WithId
  <2>3. Live' \subseteq Objects /\ Gone' \subseteq Objects /\ Gone \subseteq Objects /\ Live \subseteq Objects
    BY DEF Live, Gone, WithId
  <2>4. p \notin Gone
    BY <1>1 DEF Gone, WithId
  <2>. QED BY <1>1, <2>1, <2>2, <2>3, <2>4
<1>6. Top' = Top
  BY SameTop
<1>7. DELETED # FREE
  BY DEF DELETED, FREE, ONES
<1>8. \A q \in Objects : lu'[q] = FREE <=> lu[q] = FREE
  BY <1>1, <1>3, <1>4, <1>7
<1>9. Space({})'
  BY <1>6, <1>8 DEF Flat, Space, Clean, Suffix, Lowest, OnFree, SameBlock, IsFirst
<1>10. Counting({})'
  <2>1. fs.allocated = Cardinality(Live) /\ fs.deleted = Cardinality(Gone)
    BY DEF Flat, Counting
  <2>2. Cardinality(Gone \cup {p}) = Cardinality(Gone) + 1
    BY <1>5, LiveSets, FS_AddElement
  <2>3. Cardinality(Live \ {p}) = Cardinality(Live) - 1
    BY LiveSets, FS_RemoveElement
  <2>4. fs'.allocated = Cardinality(Live') /\ fs'.deleted = Cardinality(Gone')
    BY <1>5, <2>1, <2>2, <2>3
  <2>. QED BY <2>4 DEF Counting
<1>11. fs'.mounted /\ Bixes \subseteq magic'
  BY DEF Flat, SameCursor
<1>. QED BY <1>1, <1>3, <1>4, <1>5, <1>9, <1>10, <1>11 DEF Flat

LEMMA ErasedBlock ==
  ASSUME NEW b \in Bixes, EraseBlock(b)
  PROVE  /\ \A p \in Objects : BlockOf(p) = b => lu'[p] = FREE /\ page'[p] = ErasedPage
         /\ \A p \in Objects : BlockOf(p) # b => lu'[p] = lu[p] /\ page'[p] = page[p]
         /\ Live' = Live \ Block(b) /\ Gone' = Gone \ Block(b)
<1>1. \A p \in Objects : BlockOf(p) = b => lu'[p] = FREE /\ page'[p] = ErasedPage
  BY PageInBlock DEF EraseBlock
<1>2. \A p \in Objects : BlockOf(p) # b => lu'[p] = lu[p] /\ page'[p] = page[p]
  BY PageInBlock DEF EraseBlock
<1>3. FREE # DELETED
  BY DEF FREE, DELETED, ONES
<1>4. \A p \in Objects : p \in Live' <=> p \in Live /\ p \notin Block(b)
  BY <1>1, <1>2, PageInBlock DEF Live, InUse
<1>5. \A p \in Objects : p \in Gone' <=> p \in Gone /\ p \notin Block(b)
  BY <1>1, <1>2, <1>3, PageInBlock DEF Gone, WithId
<1>6. Live \subseteq Objects /\ Gone \subseteq Objects /\ Live' \subseteq Objects /\ Gone' \subseteq Objects
  BY DEF Live, Gone, WithId
<1>. QED BY <1>1, <1>2, <1>4, <1>5, <1>6

LEMMA BlockIsErased ==
  ASSUME NEW b \in Bixes, Flat(Block(b), {}), EraseBlock(b), SameCursor, SameCounters,
         ~InBlock(b), Live \cap Block(b) = {}
  PROVE  Flat({}, {b})' /\ Untouched
<1>1. /\ \A p \in Objects : BlockOf(p) = b => lu'[p] = FREE /\ page'[p] = ErasedPage
      /\ \A p \in Objects : BlockOf(p) # b => lu'[p] = lu[p] /\ page'[p] = page[p]
      /\ Live' = Live \ Block(b) /\ Gone' = Gone \ Block(b)
  BY ErasedBlock
<1>2. Top' = Top
  BY SameTop
<1>3. Clean({})' /\ Suffix'
  BY <1>1 DEF Flat, Space, Clean, Suffix, SameBlock
<1>4. Lowest({})'
  <2>. SUFFICES ASSUME NEW p \in Objects, BlockOf(p) = BlockOf(Top), lu'[p] = FREE PROVE p >= Top
    BY <1>2 DEF Lowest, SameBlock
  <2>1. CASE BlockOf(p) # b
    BY <1>1, <2>1 DEF Flat, Space, Lowest, SameBlock
  <2>2. CASE BlockOf(p) = b
    BY <2>2, FirstInBlock DEF InBlock, IsFirst
  <2>. QED BY <2>1, <2>2
<1>5. OnFree'
  BY <1>1, <1>2 DEF Flat, Space, OnFree, IsFirst
<1>6. Counting({})'
  BY <1>1 DEF Flat, Counting, SameCounters
<1>7. Untouched
  <2>1. Live' = Live
    BY <1>1
  <2>2. \A p \in Live : p \in Objects /\ BlockOf(p) # b
    BY LiveSets, PageInBlock
  <2>. QED BY <1>1, <2>1, <2>2 DEF Untouched
<1>8. fs'.mounted /\ Bixes \ {b} \subseteq magic'
  BY DEF Flat, SameCursor, EraseBlock
<1>. QED BY <1>3, <1>4, <1>5, <1>6, <1>7, <1>8 DEF Flat, Space

LEMMA WithoutBlock ==
  ASSUME NEW b \in Bixes
  PROVE  /\ Cardinality(Live \ Block(b)) = Cardinality(Live) - Cardinality({p \in Block(b) : InUse(p)})
         /\ Cardinality(Gone \ Block(b)) = Cardinality(Gone) - Cardinality({p \in Block(b) : lu[p] = DELETED})
<1>1. Block(b) \subseteq Objects
  BY BlockPages
<1>2. Live \cap Block(b) = {p \in Block(b) : InUse(p)}
  BY <1>1 DEF Live
<1>3. Gone \cap Block(b) = {p \in Block(b) : lu[p] = DELETED}
  BY <1>1 DEF Gone, WithId
<1>4. Cardinality(Live \ Block(b)) = Cardinality(Live) - Cardinality(Live \cap Block(b))
  BY LiveSets, FS_Difference
<1>5. Cardinality(Gone \ Block(b)) = Cardinality(Gone) - Cardinality(Gone \cap Block(b))
  BY LiveSets, FS_Difference
<1>. QED BY <1>2, <1>3, <1>4, <1>5

LEMMA BlockIsUncounted ==
  ASSUME NEW b \in Bixes, Flat({}, {}), UNCHANGED <<lu, page, magic>>, SameCursor,
         fs'.allocated = fs.allocated - Cardinality({p \in Block(b) : InUse(p)}),
         fs'.deleted = fs.deleted - Cardinality({p \in Block(b) : lu[p] = DELETED})
  PROVE  Flat(Block(b), {})'
<1>1. Live' = Live /\ Gone' = Gone /\ Top' = Top
  BY SameLive, SameTop
<1>2. Space({})'
  BY <1>1 DEF Flat, Space, Clean, Suffix, Lowest, OnFree, IsFirst, SameBlock
<1>3. fs.allocated = Cardinality(Live) /\ fs.deleted = Cardinality(Gone)
  BY DEF Flat, Counting
<1>4. Counting(Block(b))'
  BY <1>1, <1>3, WithoutBlock DEF Counting
<1>. QED BY <1>2, <1>4 DEF Flat, SameCursor

LEMMA DeletedBlock ==
  ASSUME NEW b \in FullyDeleted, Flat({}, {})
  PROVE  /\ b \in Bixes /\ Live \cap Block(b) = {} /\ ~InBlock(b)
         /\ Cardinality({p \in Block(b) : InUse(p)}) = 0
         /\ Cardinality({p \in Block(b) : lu[p] = DELETED}) = Entries
<1>1. b \in Bixes /\ \A p \in Block(b) : lu[p] = DELETED
  BY DEF FullyDeleted
<1>2. Live \cap Block(b) = {} /\ {p \in Block(b) : InUse(p)} = {} /\ {p \in Block(b) : lu[p] = DELETED} = Block(b)
  BY <1>1 DEF Live, InUse
<1>3. ~InBlock(b)
  <2>. SUFFICES ASSUME InBlock(b) PROVE FALSE
    OBVIOUS
  <2>1. Top \in Objects /\ lu[Top] = FREE /\ BlockOf(Top) = b
    BY DEF InBlock, Flat, Space, OnFree
  <2>2. lu[Top] = DELETED
    BY <1>1, <2>1, PageInBlock
  <2>. QED BY <2>1, <2>2 DEF FREE, DELETED, ONES
<1>4. Cardinality(Block(b)) = Entries
  <2>1. FirstPage(b) \in Int /\ Entries \in Nat /\ Entries > 0
    BY <1>1, BlockPages, ObjectIsNumber, Sizes
  <2>. DEFINE f == FirstPage(b)
  <2>2. Cardinality(f..(f + Entries - 1)) = Entries
    <3>1. f + Entries - 1 \in Int /\ ~(f > f + Entries - 1) /\ (f + Entries - 1) - f + 1 = Entries
      BY <2>1
    <3>. HIDE DEF f
    <3>. QED BY <2>1, <3>1, FS_Interval DEF f
  <2>. QED BY <2>2 DEF Block
<1>. QED BY <1>1, <1>2, <1>3, <1>4, FS_EmptySet

LEMMA CursorIsMoved ==
  ASSUME NEW b \in Bixes, Flat({}, {}), UNCHANGED <<lu, page, magic>>, SameCounters,
         fs.free_cursor \in 1..Pages, fs'.mounted = fs.mounted,
         fs'.free_cursor = IF CursorBlock(fs.free_cursor) = b THEN FirstPage((b + 1) % Blocks) ELSE fs.free_cursor
  PROVE  Flat({}, {})' /\ ~InBlock(b)'
<1>1. Live' = Live /\ Gone' = Gone
  BY SameLive
<1>2. Counting({})'
  BY <1>1 DEF Flat, Counting, SameCounters
<1>3. CASE CursorBlock(fs.free_cursor) = b
  <2>1. (b + 1) % Blocks \in Bixes
    <3>1. Blocks \in Nat /\ Blocks > 0 /\ b \in Nat
      BY Sizes
    <3>. QED BY <3>1 DEF Bixes
  <2>. DEFINE c == (b + 1) % Blocks
  <2>. HIDE DEF c
  <2>2. Top' = FirstPage(c) /\ IsFirst(FirstPage(c)) /\ FirstPage(c) \in Objects
    BY <1>3, <2>1, FirstIsStart, BlockPages DEF Top, c
  <2>3. OnFree'
    BY <2>2 DEF OnFree, IsFirst
  <2>4. Lowest({})'
    BY <2>2, FirstInBlock DEF Lowest, IsFirst, SameBlock
  <2>5. Clean({})' /\ Suffix'
    BY DEF Flat, Space, Clean, Suffix, SameBlock
  <2>6. ~InBlock(b)'
    BY <2>2 DEF InBlock, IsFirst
  <2>. QED BY <1>2, <2>3, <2>4, <2>5, <2>6 DEF Flat, Space
<1>4. CASE CursorBlock(fs.free_cursor) # b
  <2>1. SameCursor
    BY <1>4 DEF SameCursor
  <2>2. Top' = Top /\ (InBlock(b)' <=> InBlock(b))
    BY <2>1, SameTop
  <2>3. ~InBlock(b)
    BY <1>4, CursorElsewhere DEF InBlock, Top
  <2>4. Flat({}, {})'
    BY <2>1, FlatKept
  <2>. QED BY <2>2, <2>3, <2>4
<1>. QED BY <1>3, <1>4

-----------------------------------------------------------------------------
(* A block is erased, step by step. *)

LEMMA SameIsUntouched == ASSUME UNCHANGED <<lu, page>> PROVE Untouched
  BY SameLive DEF Untouched

LEMMA ClearingStep ==
  ASSUME NEW b \in Bixes, NEW u, Listed(u), Clearing(b, u), Working, FileInv
  PROVE  /\ Untouched /\ Steady /\ UNCHANGED <<fds, work, dst>>
         /\ Clearing(b, u)' \/ (todo' = u /\ Flat({}, {})')
<1>. DEFINE v == Cons([do |-> "magic", b |-> b], u)
            w == Cons([do |-> "count", b |-> b], v)
<1>1. Listed(v) /\ Listed(w)
  BY ConsFacts
<1>2. CASE todo = Erasure(b, u) /\ Flat(Block(b), {}) /\ Live \cap Block(b) = {} /\ ~InBlock(b)
  <2>1. Here([do |-> "erase", b |-> b], w)
    BY <1>1, <1>2 DEF Here, Erasure
  <2>2. /\ todo' = w /\ EraseBlock(b) /\ SameCursor /\ SameCounters
        /\ Steady /\ UNCHANGED <<fds, work, dst>>
    BY <2>1, DoErase
  <2>3. Flat({}, {b})' /\ Untouched
    BY <1>2, <2>2, BlockIsErased
  <2>. QED BY <2>2, <2>3 DEF Clearing
<1>3. CASE todo = w /\ Flat({}, {b})
  <2>1. Here([do |-> "count", b |-> b], v)
    BY <1>1, <1>3 DEF Here
  <2>2. todo' = v /\ Steady /\ UNCHANGED <<lu, page, magic, fs, fds, work, dst>>
    BY <2>1, DoCount
  <2>3. Flat({}, {b})'
    BY <1>3, <2>2, FlatKept DEF SameCursor, SameCounters
  <2>. QED BY <2>2, <2>3, SameIsUntouched DEF Clearing
<1>4. CASE todo = v /\ Flat({}, {b})
  <2>1. Here([do |-> "magic", b |-> b], u)
    BY <1>4 DEF Here
  <2>2. /\ todo' = u /\ magic' = magic \cup {b} /\ SameCursor /\ SameCounters
        /\ Steady /\ UNCHANGED <<lu, page, fds, work, dst>>
    BY <2>1, DoMagic
  <2>3. Top' = Top /\ Live' = Live /\ Gone' = Gone
    BY <2>2, SameTop, SameLive
  <2>4. Space({})'
    BY <1>4, <2>2, <2>3 DEF Flat, Space, Clean, Suffix, Lowest, OnFree, IsFirst, SameBlock
  <2>5. Counting({})' /\ fs'.mounted /\ Bixes \subseteq magic'
    BY <1>4, <2>2, <2>3 DEF Flat, Counting, SameCounters, SameCursor
  <2>6. Flat({}, {})'
    BY <2>4, <2>5 DEF Flat
  <2>. QED BY <2>2, <2>6, SameIsUntouched
<1>. QED BY <1>2, <1>3, <1>4 DEF Clearing, Erasure

-----------------------------------------------------------------------------
(* A free page is looked for, perhaps after a block of deleted pages is      *)
(* erased.                                                                   *)

LEMMA FreeTaken ==
  ASSUME NEW x, NEW t, Here(x, t), x.do \in {"find_free", "take_free"}, TakeFree, ~NoPage, Flat({}, {})
  PROVE  /\ Untouched /\ Steady /\ UNCHANGED <<fds, work>>
         /\ todo' = t /\ Found' /\ page'[dst'] = ErasedPage
<1>. DEFINE p == FirstFrom(Top, WithId(FREE))
<1>1. (Then(<<>>) <=> todo' = t) /\ Typed /\ UNCHANGED <<phase, config, stored, cuts>>
  BY HereFacts
<1>2. WithId(FREE) # {}
  BY DEF NoPage
<1>3. /\ dst' = p
      /\ fs' = [fs EXCEPT !.free_cursor = p + 1,
                   !.free_blocks = IF p = FirstPage(BlockOf(p)) THEN @ - 1 ELSE @]
      /\ todo' = t /\ UNCHANGED <<lu, page, magic, fds, work, call, rc>>
  BY <1>1 DEF TakeFree, flash, Top
<1>. HIDE DEF p
<1>4. fs \in FsType /\ magic \subseteq Bixes
  BY <1>1 DEF Typed, FlashTyped
<1>5. fs'.mounted = fs.mounted /\ fs'.free_cursor = p + 1 /\ SameCounters
  BY <1>3, <1>4 DEF FsType, SameCounters
<1>6. Found' /\ page'[dst'] = ErasedPage
  BY <1>2, <1>3, <1>4, <1>5, PageIsTaken DEF p
<1>. QED BY <1>1, <1>3, <1>6, SameIsUntouched DEF Steady

LEMMA QuickList ==
  \A b, x, t : Listed(t) => (Erasing(b) \o <<x>>) \o t = Erasure(b, Cons(x, t))
<1>. SUFFICES ASSUME NEW b, NEW x, NEW t, Listed(t)
     PROVE  (Erasing(b) \o <<x>>) \o t = Erasure(b, Cons(x, t))
  OBVIOUS
<1>1. Listed(Erasing(b)) /\ Listed(<<x>>)
  BY ErasingList, OneListed DEF List, Listed
<1>2. (Erasing(b) \o <<x>>) \o t = Erasing(b) \o (<<x>> \o t)
  BY <1>1, Onto
<1>3. <<x>> \o t = Cons(x, t) /\ Listed(Cons(x, t))
  BY ConsFacts, ConsPairs
<1>4. Erasing(b) \o Cons(x, t) = Erasure(b, Cons(x, t))
  BY <1>3, ConsPairs DEF Erasing, Erasure
<1>. QED BY <1>2, <1>3, <1>4, Zenon

LEMMA SeekingStep ==
  ASSUME NEW t, Listed(t), Seeking(t), Working, FileInv, ~Full
  PROVE  /\ Untouched /\ Steady /\ UNCHANGED <<fds, work>>
         /\ Seeking(t)' \/ (todo' = t /\ Found' /\ page'[dst'] = ErasedPage)
<1>1. PICK e : \/ todo \in {Cons(FindingOr(e), t), Cons(TakingOr(e), t)} /\ Flat({}, {})
               \/ \E b \in Bixes : Clearing(b, Cons(TakingOr(e), t))
  BY DEF Seeking
<1>. DEFINE v == Cons(TakingOr(e), t)
<1>2. Listed(v)
  BY ConsFacts
<1>3. CASE todo = Cons(FindingOr(e), t) /\ Flat({}, {})
  <2>1. Here(FindingOr(e), t)
    BY <1>3 DEF Here
  <2>2. /\ At("find_free") /\ ~At("take_free") /\ Step = FindingOr(e) /\ Typed
        /\ \A s : Then(s) <=> todo' = s \o t
        /\ GcQuick \/ TakeFree
        /\ UNCHANGED <<phase, config, stored, cuts>>
    BY <2>1, HereFacts, Dispatch DEF FindingOr
  <2>3. CASE GcQuick
    <3>1. PICK b \in FullyDeleted : b = Min(FullyDeleted)
      <4>1. FullyDeleted \subseteq Bixes /\ FullyDeleted # {}
        BY <2>3 DEF GcQuick, FullyDeleted
      <4>. QED BY <4>1, SubsetOfBixes
    <3>2. /\ todo' = (Erasing(b) \o <<TakingOr(e)>>) \o t
          /\ fs' = [fs EXCEPT !.deleted = @ - Entries]
          /\ UNCHANGED <<lu, page, magic, fds, work, dst, call, rc>>
      BY <2>2, <2>3, <3>1 DEF GcQuick, TakingOr, FindingOr, flash
    <3>3. todo' = Erasure(b, v)
      <4>1. (Erasing(b) \o <<TakingOr(e)>>) \o t = Erasure(b, Cons(TakingOr(e), t))
        BY QuickList
      <4>. QED BY <3>2, <4>1, Zenon
    <3>4. fs \in FsType
      BY <2>2 DEF Typed
    <3>5. SameCursor /\ fs'.allocated = fs.allocated /\ fs'.deleted = fs.deleted - Entries
          /\ fs.allocated \in Int
      BY <3>2, <3>4 DEF FsType, SameCursor
    <3>6. b \in Bixes /\ Live \cap Block(b) = {} /\ ~InBlock(b)
          /\ Cardinality({p \in Block(b) : InUse(p)}) = 0
          /\ Cardinality({p \in Block(b) : lu[p] = DELETED}) = Entries
      BY <1>3, <3>1, DeletedBlock
    <3>7. Flat(Block(b), {})'
      <4>1. fs'.allocated = fs.allocated - Cardinality({p \in Block(b) : InUse(p)})
            /\ fs'.deleted = fs.deleted - Cardinality({p \in Block(b) : lu[p] = DELETED})
        BY <3>5, <3>6
      <4>. QED BY <1>3, <3>2, <3>5, <3>6, <4>1, BlockIsUncounted
    <3>8. (Live \cap Block(b) = {})' /\ ~InBlock(b)'
      BY <3>2, <3>5, <3>6, SameLive, SameTop
    <3>9. Clearing(b, v)'
      BY <3>3, <3>7, <3>8 DEF Clearing
    <3>10. Seeking(t)'
      BY <3>6, <3>9 DEF Seeking
    <3>. QED BY <2>2, <3>2, <3>10, SameIsUntouched DEF Steady
  <2>4. CASE TakeFree
    <3>1. ~NoPage
      BY <2>4 DEF TakeFree, Full
    <3>2. FindingOr(e).do \in {"find_free", "take_free"}
      BY DEF FindingOr
    <3>. QED BY <1>3, <2>1, <2>4, <3>1, <3>2, FreeTaken
  <2>. QED BY <2>2, <2>3, <2>4
<1>4. CASE todo = v /\ Flat({}, {})
  <2>1. Here(TakingOr(e), t)
    BY <1>4 DEF Here
  <2>2. TakeFree
    BY <2>1, HereFacts, Dispatch DEF TakingOr
  <2>3. ~NoPage
    BY <2>2 DEF TakeFree, Full
  <2>4. TakingOr(e).do \in {"find_free", "take_free"}
    BY DEF TakingOr
  <2>. QED BY <1>4, <2>1, <2>2, <2>3, <2>4, FreeTaken
<1>5. ASSUME NEW b \in Bixes, Clearing(b, v)
      PROVE  Untouched /\ Steady /\ UNCHANGED <<fds, work>> /\ Seeking(t)'
  <2>1. /\ Untouched /\ Steady /\ UNCHANGED <<fds, work, dst>>
        /\ Clearing(b, v)' \/ (todo' = v /\ Flat({}, {})')
    BY <1>2, <1>5, ClearingStep
  <2>. QED BY <2>1 DEF Seeking
<1>. QED BY <1>1, <1>3, <1>4, <1>5
=============================================================================
