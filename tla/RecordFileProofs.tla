-------------------------- MODULE RecordFileProofs --------------------------
(***************************************************************************)
(* Proofs about SlottedPage, RecordFile and IndexCatalog: the inductive    *)
(* invariant IInv of a record file, the properties that follow from it,    *)
(* and that Load finds the newest version of every index in one.           *)
(***************************************************************************)
EXTENDS IndexCatalog, SequenceTheorems, TLAPS

-----------------------------------------------------------------------------
(* Slotted pages. *)

\* A packed page passes Validate and every slot of it reads back its record.
LEMMA PackedReads ==
    ASSUME NEW page, Packed(page)
    PROVE  /\ Validate(page)
           /\ \A i \in DOMAIN page.slots : Intact(page, i)
           /\ \A i, r : Reads(page, i, r) <=> Has(page, i, r)
<1>. DEFINE n == Len(page.slots)
            taken == n * SlotBytes
<1>1. /\ page.free_start \in Nat /\ page.free_end \in Nat
      /\ page.slots \in Seq(Slot)
      /\ n \in Nat /\ DOMAIN page.slots = 1 .. n
      /\ \A i \in DOMAIN page.slots : page.slots[i] \in Slot
  BY ElementOfSeq, LenProperties DEF Packed, Page
<1>2. taken \in Nat
  BY <1>1, SlottedConstants
<1>3. /\ DataStart <= page.free_start /\ page.free_start <= page.free_end
      /\ page.free_end + taken = PageBytes
      /\ \A i \in DOMAIN page.slots :
            /\ DataStart <= page.slots[i].offset
            /\ page.slots[i].offset + page.slots[i].length <= page.free_start
      /\ \A i, j \in DOMAIN page.slots :
            i < j => page.slots[i].offset + page.slots[i].length <= page.slots[j].offset
  BY DEF Packed
<1>4. \A i \in DOMAIN page.slots :
         page.slots[i].offset \in Nat /\ page.slots[i].length \in Nat
  BY <1>1 DEF Slot
<1>5. Validate(page)
  <2>. HIDE DEF taken
  <2>1. /\ DataStart <= page.free_start /\ page.free_start <= page.free_end
        /\ page.free_end <= PageBytes /\ taken <= PageBytes - page.free_end
    BY <1>1, <1>2, <1>3, SlottedConstants
  <2>2. ASSUME NEW i \in DOMAIN page.slots
        PROVE  /\ DataStart <= page.slots[i].offset
               /\ page.slots[i].offset <= page.free_start
               /\ page.slots[i].length <= page.free_start - page.slots[i].offset
    BY <1>1, <1>3, <1>4, SlottedConstants
  <2>. QED BY <2>1, <2>2 DEF Validate, taken
<1>6. ASSUME NEW i \in DOMAIN page.slots PROVE Intact(page, i)
  <2>. DEFINE end == page.slots[i].offset + page.slots[i].length
  <2>1. end <= PageBytes - taken
    <3>. HIDE DEF taken
    <3>1. end \in Nat /\ PageBytes \in Nat
      BY <1>4, SlottedConstants
    <3>2. end <= page.free_start
      BY <1>3
    <3>3. page.free_start <= PageBytes - taken
      BY <1>1, <1>2, <1>3, <3>1
    <3>. HIDE DEF end
    <3>. QED BY <1>1, <1>2, <3>1, <3>2, <3>3
  <2>2. \A j \in DOMAIN page.slots : j > i => end <= page.slots[j].offset
    BY <1>1, <1>3
  <2>. QED BY <2>1, <2>2 DEF Intact
<1>. QED BY <1>5, <1>6 DEF Reads, Has

\* A page just initialized is packed and has no slot.
LEMMA EmptyPagePacked == Packed(EmptyPage) /\ \A i, r : ~Has(EmptyPage, i, r)
<1>1. << >> \in Seq(Slot) /\ Len(<< >>) = 0 /\ DOMAIN << >> = {}
  BY EmptySeq
<1>2. EmptyPage \in Page
  BY <1>1, SlottedConstants DEF EmptyPage, Page
<1>3. EmptyPage.free_end + 0 * SlotBytes = PageBytes
  BY SlottedConstants DEF EmptyPage
<1>. QED BY <1>1, <1>2, <1>3, SlottedConstants DEF EmptyPage, Packed, Has

\* A page AllocatePage has just added is no slotted page, and holds no record.
LEMMA BlankPageProperties ==
    /\ BlankPage \in Page /\ BlankPage # Corrupt /\ ~Validate(BlankPage)
    /\ \A i, r : ~Has(BlankPage, i, r) /\ ~Reads(BlankPage, i, r)
<1>1. << >> \in Seq(Slot) /\ DOMAIN << >> = {}
  BY EmptySeq
<1>2. BlankPage \in Page
  BY <1>1 DEF BlankPage, Page
<1>3. ~Validate(BlankPage)
  BY SlottedConstants DEF BlankPage, Validate
<1>. QED BY <1>1, <1>2, <1>3, RecordFileConstants DEF BlankPage, Has, Reads

\* Inserting a record that fits keeps a page packed and every record of it where
\* it was, and adds the record in the next slot and nothing else.
LEMMA InsertedProperties ==
    ASSUME NEW page, Packed(page), NEW r \in Records, Fits(page, r)
    PROVE  /\ Packed(Inserted(page, r))
           /\ \A i, s : Has(Inserted(page, r), i, s) <=>
                 Has(page, i, s) \/ (i = Len(page.slots) + 1 /\ s = r)
           /\ \A s : ~Has(page, Len(page.slots) + 1, s)
<1>. DEFINE n == Len(page.slots)
            slot == [offset |-> page.free_start, length |-> Size[r], record |-> r]
            new == Inserted(page, r)
<1>1. /\ page.free_start \in Nat /\ page.free_end \in Nat
      /\ page.slots \in Seq(Slot)
      /\ n \in Nat /\ DOMAIN page.slots = 1 .. n
      /\ \A i \in DOMAIN page.slots : page.slots[i] \in Slot
  BY ElementOfSeq, LenProperties DEF Packed, Page
<1>2. /\ Size[r] \in Nat /\ SlotBytes \in Nat /\ DataStart \in Nat /\ PageBytes \in Nat
  BY SlottedConstants
<1>3. page.free_start + Size[r] <= page.free_end - SlotBytes
  BY <1>1, <1>2 DEF Fits, FreeBytes, Packed
<1>4. slot \in Slot
  BY <1>1, <1>2 DEF Slot
<1>5. /\ new.free_start = page.free_start + Size[r]
      /\ new.free_end = page.free_end - SlotBytes
      /\ new.slots = Append(page.slots, slot)
  BY DEF Inserted
<1>6. /\ new.slots \in Seq(Slot) /\ Len(new.slots) = n + 1
      /\ DOMAIN new.slots = 1 .. (n + 1)
      /\ new.slots[n + 1] = slot
      /\ \A i \in 1 .. n : new.slots[i] = page.slots[i]
  BY <1>1, <1>4, <1>5, AppendProperties, LenProperties
<1>7. new \in Page
  BY <1>1, <1>2, <1>3, <1>6 DEF Page, Inserted
<1>8. new.free_end + Len(new.slots) * SlotBytes = PageBytes
  <2>1. (n + 1) * SlotBytes = n * SlotBytes + SlotBytes /\ n * SlotBytes \in Nat
    BY <1>1, <1>2
  <2>2. page.free_end + n * SlotBytes = PageBytes
    BY DEF Packed
  <2>. DEFINE taken == n * SlotBytes
  <2>3. (page.free_end - SlotBytes) + (taken + SlotBytes) = PageBytes
    <3>1. taken \in Nat /\ page.free_end + taken = PageBytes
      BY <2>1, <2>2
    <3>. HIDE DEF taken
    <3>. QED BY <3>1, <1>1, <1>2
  <2>. QED BY <2>1, <2>3, <1>5, <1>6
<1>9. /\ DataStart <= page.free_start
      /\ \A i \in DOMAIN page.slots :
            /\ DataStart <= page.slots[i].offset
            /\ page.slots[i].offset + page.slots[i].length <= page.free_start
      /\ \A i, j \in DOMAIN page.slots :
            i < j => page.slots[i].offset + page.slots[i].length <= page.slots[j].offset
  BY DEF Packed
<1>. HIDE DEF new, n
<1>10. ASSUME NEW i \in 1 .. (n + 1)
       PROVE  /\ DataStart <= new.slots[i].offset
              /\ new.slots[i].offset + new.slots[i].length <= new.free_start
  <2>1. CASE i = n + 1
    <3>1. new.slots[i].offset = page.free_start /\ new.slots[i].length = Size[r]
      BY <2>1, <1>6
    <3>. QED BY <3>1, <1>1, <1>2, <1>5, <1>9
  <2>2. CASE i \in 1 .. n
    <3>. DEFINE old == page.slots[i]
    <3>1. old.offset \in Nat /\ old.length \in Nat
      BY <2>2, <1>1 DEF Slot
    <3>2. DataStart <= old.offset /\ old.offset + old.length <= page.free_start
      BY <2>2, <1>1, <1>9
    <3>3. new.slots[i] = old
      BY <2>2, <1>6
    <3>. HIDE DEF old
    <3>4. old.offset + old.length <= page.free_start + Size[r]
      BY <3>1, <3>2, <1>1, <1>2
    <3>. QED BY <3>2, <3>3, <3>4, <1>5
  <2>. QED BY <2>1, <2>2, <1>1
<1>11. ASSUME NEW i \in 1 .. (n + 1), NEW j \in 1 .. (n + 1), i < j
       PROVE  new.slots[i].offset + new.slots[i].length <= new.slots[j].offset
  <2>1. i \in 1 .. n
    BY <1>11, <1>1
  <2>2. CASE j = n + 1
    <3>1. new.slots[i] = page.slots[i] /\ new.slots[j] = slot
      BY <2>1, <2>2, <1>6
    <3>2. page.slots[i].offset + page.slots[i].length <= page.free_start
      BY <2>1, <1>1, <1>9
    <3>3. slot.offset = page.free_start
      OBVIOUS
    <3>. QED BY <3>1, <3>2, <3>3
  <2>3. CASE j \in 1 .. n
    <3>1. new.slots[i] = page.slots[i] /\ new.slots[j] = page.slots[j]
      BY <2>1, <2>3, <1>6
    <3>2. page.slots[i].offset + page.slots[i].length <= page.slots[j].offset
      BY <2>1, <2>3, <1>1, <1>9, <1>11
    <3>. QED BY <3>1, <3>2
  <2>. QED BY <2>2, <2>3, <1>1
<1>12. new.free_start <= new.free_end /\ DataStart <= new.free_start
  BY <1>1, <1>2, <1>3, <1>5, <1>9
<1>13. Packed(new)
  BY <1>6, <1>7, <1>8, <1>10, <1>11, <1>12 DEF Packed
<1>14. \A i, s : Has(new, i, s) <=> Has(page, i, s) \/ (i = n + 1 /\ s = r)
  <2>1. 1 .. (n + 1) = (1 .. n) \cup {n + 1} /\ n + 1 \notin 1 .. n
    BY <1>1
  <2>2. new.slots[n + 1].record = r
    BY <1>6
  <2>. QED BY <2>1, <2>2, <1>1, <1>6 DEF Has
<1>15. \A s : ~Has(page, n + 1, s)
  BY <1>1 DEF Has
<1>. QED BY <1>13, <1>14, <1>15 DEF new, n

-----------------------------------------------------------------------------
(* Files of pages. *)

AnyPage == Page \cup {Corrupt}

\* Overwriting one page of a file changes that page only.
LEMMA Overwritten ==
    ASSUME NEW f \in Seq(AnyPage), NEW p \in DOMAIN f, NEW v \in AnyPage
    PROVE  LET g == [f EXCEPT ![p] = v]
           IN  /\ g \in Seq(AnyPage) /\ Len(g) = Len(f) /\ DOMAIN g = DOMAIN f
               /\ g[p] = v /\ \A q \in DOMAIN f : q # p => g[q] = f[q]
BY ExceptSeq, LenProperties

\* Adding a page to a file leaves those before it alone.
LEMMA Appended ==
    ASSUME NEW f \in Seq(AnyPage), NEW v \in AnyPage
    PROVE  LET g == Append(f, v)
           IN  /\ g \in Seq(AnyPage) /\ Len(g) = Len(f) + 1
               /\ DOMAIN g = DOMAIN f \cup {Len(f) + 1} /\ Len(f) + 1 \notin DOMAIN f
               /\ g[Len(f) + 1] = v /\ \A q \in DOMAIN f : g[q] = f[q]
<1>1. /\ Len(f) \in Nat /\ DOMAIN f = 1 .. Len(f)
      /\ Append(f, v) \in Seq(AnyPage) /\ Len(Append(f, v)) = Len(f) + 1
      /\ DOMAIN Append(f, v) = 1 .. (Len(f) + 1)
      /\ Append(f, v)[Len(f) + 1] = v
      /\ \A q \in 1 .. Len(f) : Append(f, v)[q] = f[q]
  BY AppendProperties, LenProperties
<1>2. 1 .. (Len(f) + 1) = (1 .. Len(f)) \cup {Len(f) + 1} /\ Len(f) + 1 \notin 1 .. Len(f)
  BY <1>1
<1>. QED BY <1>1, <1>2

\* The invariant, said of one file: its pages are good, and it holds records A.
GoodFile(f) == f \in Seq(AnyPage) /\ \A p \in DOMAIN f : Good(f[p])

HoldsAt(f, a) == f[a.page] = Corrupt \/ Has(f[a.page], a.slot, a.record)
Holds(f, A) == \A a \in A : a.page \in DOMAIN f /\ HoldsAt(f, a)

\* The pages readers see and the file are good and hold what was acknowledged.
LEMMA IInvByFile ==
    IInv <=> /\ GoodFile(pages) /\ Holds(pages, acked)
             /\ GoodFile(stored) /\ Holds(stored, acked)
             /\ Len(stored) = Len(pages) /\ Len(pages) <= MaxPages
             /\ ragged \in BOOLEAN
             /\ acked \subseteq [page : Nat, slot : Nat, record : Records]
             /\ last \in [op : Calls, code : Codes]
<1>1. ASSUME TypeOK PROVE DOMAIN stored = DOMAIN pages
  BY <1>1, LenProperties DEF TypeOK
<1>2. ASSUME GoodFile(pages), GoodFile(stored), Len(stored) = Len(pages)
      PROVE  DOMAIN stored = DOMAIN pages
  BY <1>2, LenProperties DEF GoodFile
<1>. QED BY <1>1, <1>2 DEF IInv, TypeOK, PagesGood, AckedPresent, GoodFile, Holds, HoldsAt, AnyPage

\* The same facts of the next state establish the invariant there.
LEMMA IInvNext ==
    ASSUME GoodFile(pages'), Holds(pages', acked'),
           GoodFile(stored'), Holds(stored', acked'),
           Len(stored') = Len(pages'), Len(pages') <= MaxPages,
           ragged' \in BOOLEAN,
           acked' \subseteq [page : Nat, slot : Nat, record : Records],
           last' \in [op : Calls, code : Codes]
    PROVE  IInv'
<1>1. DOMAIN stored' = DOMAIN pages'
  BY LenProperties DEF GoodFile
<1>. QED BY <1>1 DEF IInv, TypeOK, PagesGood, AckedPresent, GoodFile, Holds, HoldsAt, AnyPage

\* Overwriting a page with a good one that has the records A puts there.
LEMMA OverwrittenGood ==
    ASSUME NEW f, GoodFile(f), NEW p \in DOMAIN f, NEW v \in AnyPage, Good(v),
           NEW A, Holds(f, A),
           \A a \in A : a.page = p => v = Corrupt \/ Has(v, a.slot, a.record)
    PROVE  LET g == [f EXCEPT ![p] = v]
           IN  /\ GoodFile(g) /\ Holds(g, A) /\ Len(g) = Len(f)
               /\ DOMAIN g = DOMAIN f /\ g[p] = v
BY Overwritten DEF GoodFile, Holds, HoldsAt

\* Adding a good page.
LEMMA AppendedGood ==
    ASSUME NEW f, GoodFile(f), NEW v \in AnyPage, Good(v), NEW A, Holds(f, A)
    PROVE  LET g == Append(f, v)
           IN  GoodFile(g) /\ Holds(g, A) /\ Len(g) = Len(f) + 1
<1>. DEFINE g == Append(f, v)
<1>1. /\ g \in Seq(AnyPage) /\ Len(g) = Len(f) + 1
      /\ DOMAIN g = DOMAIN f \cup {Len(f) + 1}
      /\ g[Len(f) + 1] = v /\ \A q \in DOMAIN f : g[q] = f[q]
  BY Appended DEF GoodFile
<1>. HIDE DEF g
<1>. QED BY <1>1 DEF GoodFile, Holds, HoldsAt, g

\* A page a reader accepts is packed.
LEMMA ReadableIsPacked ==
    ASSUME IInv, NEW p \in DOMAIN pages, Readable(p)
    PROVE  Packed(pages[p]) /\ pages[p] \in AnyPage /\ pages[p] # Corrupt
<1>1. Good(pages[p]) /\ pages[p] # Corrupt /\ pages[p] # BlankPage
  BY BlankPageProperties DEF IInv, PagesGood, Readable
<1>. QED BY <1>1 DEF Good, Packed, AnyPage

\* What a failed write leaves is what was there, or a corrupt page.
LEMMA SpoilsEither == \A old, v : v \in Spoils(old) => v = old \/ v = Corrupt
BY DEF Spoils

\* Pages of a file are good pages.
LEMMA PagesAreGood ==
    ASSUME NEW f, GoodFile(f), NEW p \in DOMAIN f
    PROVE  f[p] \in AnyPage /\ Good(f[p])
BY ElementOfSeq, LenProperties DEF GoodFile

\* A page that fails its checksum breaks no promise about its slots.
LEMMA CorruptIsGood == Corrupt \in AnyPage /\ Good(Corrupt)
BY DEF AnyPage, Good

\* Neither does a page NewPage has just added.
LEMMA BlankIsGood == BlankPage \in AnyPage /\ Good(BlankPage)
BY BlankPageProperties DEF AnyPage, Good

\* What a page file's first insert writes to a new page.
LEMMA FirstInserted ==
    ASSUME NEW r \in Records, FitsEmptyPage(r)
    PROVE  /\ Inserted(EmptyPage, r) \in AnyPage /\ Good(Inserted(EmptyPage, r))
           /\ Packed(Inserted(EmptyPage, r))
           /\ \A i, s : Has(Inserted(EmptyPage, r), i, s) <=> i = 1 /\ s = r
<1>1. Len(EmptyPage.slots) + 1 = 1
  BY EmptySeq DEF EmptyPage
<1>2. /\ Packed(Inserted(EmptyPage, r))
      /\ \A i, s : Has(Inserted(EmptyPage, r), i, s) <=> i = 1 /\ s = r
  BY <1>1, EmptyPagePacked, InsertedProperties DEF FitsEmptyPage
<1>. QED BY <1>2 DEF Good, Packed, AnyPage

\* Where an insert goes, the page is packed and takes the record.
LEMMA InsertsWell ==
    ASSUME IInv, NEW p \in DOMAIN pages, NEW r \in Records, CanInsert(p, r)
    PROVE  LET new == Inserted(pages[p], r)
               i == Len(pages[p].slots) + 1
           IN  /\ Packed(pages[p]) /\ pages[p] # Corrupt
               /\ Packed(new) /\ new \in AnyPage /\ Good(new)
               /\ i \in Nat
               /\ \A j, s : Has(new, j, s) <=> Has(pages[p], j, s) \/ (j = i /\ s = r)
               /\ \A s : ~Has(pages[p], i, s)
<1>1. Readable(p) /\ Fits(pages[p], r)
  BY DEF CanInsert, FirstStop, Stops
<1>2. Packed(pages[p]) /\ pages[p] # Corrupt
  BY <1>1, ReadableIsPacked
<1>3. Len(pages[p].slots) + 1 \in Nat
  BY <1>2, LenProperties DEF Packed, Page
<1>. QED BY <1>1, <1>2, <1>3, InsertedProperties DEF Good, Packed, AnyPage
-----------------------------------------------------------------------------
(* The steps. *)

\* An insert into a page with room.
LEMMA InsertStep ==
    ASSUME IInv, NEW r \in Records, NEW p \in DOMAIN pages,
           Insert(p, r) \/ InsertFlushFails(p, r)
    PROVE  IInv'
<1>. DEFINE new == Inserted(pages[p], r)
            i == Len(pages[p].slots) + 1
            ack == [page |-> p, slot |-> i, record |-> r]
<1>1. CanInsert(p, r)
  BY DEF Insert, InsertFlushFails
<1>2. /\ Packed(pages[p]) /\ pages[p] # Corrupt
      /\ Packed(new) /\ new \in AnyPage /\ Good(new) /\ i \in Nat
      /\ \A j, s : Has(new, j, s) <=> Has(pages[p], j, s) \/ (j = i /\ s = r)
  BY <1>1, InsertsWell
<1>3. /\ GoodFile(pages) /\ Holds(pages, acked)
      /\ GoodFile(stored) /\ Holds(stored, acked)
      /\ Len(stored) = Len(pages) /\ Len(pages) <= MaxPages
      /\ ragged \in BOOLEAN
      /\ acked \subseteq [page : Nat, slot : Nat, record : Records]
  BY IInvByFile
<1>4. p \in DOMAIN stored /\ p \in Nat
  BY <1>3, LenProperties DEF GoodFile
<1>5. \A a \in acked : a.page = p => Has(new, a.slot, a.record)
  BY <1>2, <1>3 DEF Holds, HoldsAt
<1>. HIDE DEF new, i
<1>6. /\ GoodFile([pages EXCEPT ![p] = new]) /\ Holds([pages EXCEPT ![p] = new], acked)
      /\ Len([pages EXCEPT ![p] = new]) = Len(pages)
      /\ DOMAIN [pages EXCEPT ![p] = new] = DOMAIN pages
      /\ [pages EXCEPT ![p] = new][p] = new
  <2>1. p \in DOMAIN pages /\ new \in AnyPage /\ Good(new)
    BY <1>2, <1>3, <1>4
  <2>2. GoodFile(pages) /\ Holds(pages, acked)
    BY <1>3
  <2>3. \A a \in acked : a.page = p => new = Corrupt \/ Has(new, a.slot, a.record)
    BY <1>5
  <2>. QED BY <2>1, <2>2, <2>3, OverwrittenGood
<1>7. CASE Insert(p, r)
  <2>1. /\ pages' = [pages EXCEPT ![p] = new] /\ stored' = [stored EXCEPT ![p] = new]
        /\ acked' = acked \cup {ack}
        /\ ragged' = ragged /\ last' = [op |-> "Insert", code |-> "ok"]
    BY <1>7 DEF Insert, Acknowledge, Returns, new, i
  <2>2. /\ GoodFile(stored') /\ Holds(stored', acked) /\ Len(stored') = Len(stored)
        /\ DOMAIN stored' = DOMAIN stored /\ stored'[p] = new
    BY <2>1, <1>2, <1>3, <1>4, <1>5, OverwrittenGood
  <2>3. Has(new, i, r) /\ ack.page = p /\ ack.slot = i /\ ack.record = r
    BY <1>2
  <2>4. Holds(pages', acked') /\ Holds(stored', acked')
    BY <2>1, <2>2, <2>3, <1>4, <1>6 DEF Holds, HoldsAt
  <2>5. acked' \subseteq [page : Nat, slot : Nat, record : Records]
    BY <2>1, <1>2, <1>3, <1>4
  <2>6. last' \in [op : Calls, code : Codes]
    BY <2>1 DEF Calls, Codes
  <2>. QED BY <2>1, <2>2, <2>4, <2>5, <2>6, <1>3, <1>6, IInvNext
<1>8. CASE InsertFlushFails(p, r)
  <2>1. PICK v \in Spoils(stored[p]) : stored' = [stored EXCEPT ![p] = v]
    BY <1>8 DEF InsertFlushFails
  <2>2. /\ pages' = [pages EXCEPT ![p] = new]
        /\ acked' = acked /\ ragged' = ragged /\ last' = [op |-> "Insert", code |-> "io"]
    BY <1>8 DEF InsertFlushFails, Returns, new
  <2>3. v \in AnyPage /\ Good(v) /\ \A a \in acked : a.page = p => v = Corrupt \/ Has(v, a.slot, a.record)
    BY <1>3, <1>4, SpoilsEither, PagesAreGood, CorruptIsGood DEF Holds, HoldsAt
  <2>4. GoodFile(stored') /\ Holds(stored', acked) /\ Len(stored') = Len(stored)
    BY <2>1, <2>3, <1>3, <1>4, OverwrittenGood
  <2>5. last' \in [op : Calls, code : Codes]
    BY <2>2 DEF Calls, Codes
  <2>. QED BY <2>2, <2>4, <2>5, <1>3, <1>6, IInvNext
<1>. QED BY <1>7, <1>8
\* An insert into a page allocated for the record.
LEMMA InsertInNewPageStep ==
    ASSUME IInv, NEW r \in Records, InsertInNewPage(r) \/ NewPageFlushFails(r)
    PROVE  IInv'
<1>. DEFINE new == Inserted(EmptyPage, r)
            n == Len(pages) + 1
            ack == [page |-> n, slot |-> 1, record |-> r]
<1>1. /\ FitsEmptyPage(r) /\ Len(pages) < MaxPages
      /\ pages' = Append(pages, new)
  BY DEF InsertInNewPage, NewPageFlushFails, CanAllocate
<1>2. /\ new \in AnyPage /\ Good(new) /\ Has(new, 1, r)
  BY <1>1, FirstInserted
<1>3. /\ GoodFile(pages) /\ Holds(pages, acked)
      /\ GoodFile(stored) /\ Holds(stored, acked)
      /\ Len(stored) = Len(pages)
      /\ ragged \in BOOLEAN
      /\ acked \subseteq [page : Nat, slot : Nat, record : Records]
  BY IInvByFile
<1>4. Len(pages) \in Nat /\ n \in Nat /\ n <= MaxPages
  BY <1>1, <1>3, LenProperties, RecordFileConstants DEF GoodFile
<1>. HIDE DEF new
<1>5. /\ GoodFile(pages') /\ Holds(pages', acked) /\ Len(pages') = n
      /\ n \in DOMAIN pages' /\ pages'[n] = new
  BY <1>1, <1>2, <1>3, AppendedGood
<1>6. last' \in [op : Calls, code : Codes]
  BY DEF InsertInNewPage, NewPageFlushFails, Returns, Calls, Codes
<1>7. CASE InsertInNewPage(r)
  <2>1. stored' = Append(stored, new) /\ acked' = acked \cup {ack} /\ ragged' = ragged
    BY <1>7 DEF InsertInNewPage, Acknowledge, new
  <2>2. /\ GoodFile(stored') /\ Holds(stored', acked) /\ Len(stored') = n
        /\ n \in DOMAIN stored' /\ stored'[n] = new
    BY <2>1, <1>2, <1>3, AppendedGood
  <2>3. Holds(pages', acked') /\ Holds(stored', acked')
    BY <2>1, <2>2, <1>2, <1>5 DEF Holds, HoldsAt
  <2>4. acked' \subseteq [page : Nat, slot : Nat, record : Records]
    BY <2>1, <1>3, <1>4
  <2>. QED BY <2>1, <2>2, <2>3, <2>4, <1>3, <1>4, <1>5, <1>6, IInvNext
<1>8. CASE NewPageFlushFails(r)
  <2>1. PICK v \in Spoils(BlankPage) : stored' = Append(stored, v)
    BY <1>8 DEF NewPageFlushFails
  <2>2. acked' = acked /\ ragged' = ragged
    BY <1>8 DEF NewPageFlushFails
  <2>3. v \in AnyPage /\ Good(v)
    BY SpoilsEither, BlankIsGood, CorruptIsGood
  <2>4. GoodFile(stored') /\ Holds(stored', acked) /\ Len(stored') = n
    BY <2>1, <2>3, <1>3, AppendedGood
  <2>. QED BY <2>2, <2>4, <1>3, <1>4, <1>5, <1>6, IInvNext
<1>. QED BY <1>7, <1>8

\* A blank page is left in the file: the record fits no page, or the process
\* died before it was written.
LEMMA BlankPageStep ==
    ASSUME IInv, NEW r \in Records, InsertOversized(r) \/ CrashAfterAllocate(r)
    PROVE  IInv'
<1>1. /\ GoodFile(pages) /\ Holds(pages, acked)
      /\ GoodFile(stored) /\ Holds(stored, acked)
      /\ Len(stored) = Len(pages)
      /\ ragged \in BOOLEAN
      /\ acked \subseteq [page : Nat, slot : Nat, record : Records]
  BY IInvByFile
<1>2. Len(pages) + 1 <= MaxPages
  <2>1. Len(pages) \in Nat /\ Len(pages) < MaxPages
    BY <1>1, LenProperties DEF GoodFile, InsertOversized, CrashAfterAllocate, CanAllocate
  <2>. QED BY <2>1, RecordFileConstants
<1>3. /\ GoodFile(Append(pages, BlankPage)) /\ Holds(Append(pages, BlankPage), acked)
      /\ Len(Append(pages, BlankPage)) = Len(pages) + 1
  BY <1>1, BlankIsGood, AppendedGood
<1>4. /\ GoodFile(Append(stored, BlankPage)) /\ Holds(Append(stored, BlankPage), acked)
      /\ Len(Append(stored, BlankPage)) = Len(pages) + 1
  BY <1>1, BlankIsGood, AppendedGood
<1>5. /\ pages' \in {Append(pages, BlankPage), Append(stored, BlankPage)}
      /\ stored' = Append(stored, BlankPage)
      /\ ragged' = ragged /\ acked' = acked
  BY DEF InsertOversized, CrashAfterAllocate
<1>6. last' \in [op : Calls, code : Codes]
  BY DEF InsertOversized, CrashAfterAllocate, Returns, Calls, Codes
<1>. QED BY <1>1, <1>2, <1>3, <1>4, <1>5, <1>6, IInvNext

\* A call that fails without touching a page.
LEMMA NoPageStep ==
    ASSUME IInv, NEW r \in Records, InsertRefused(r) \/ AllocateFails(r)
    PROVE  IInv'
<1>1. pages' = pages /\ stored' = stored /\ acked' = acked
  BY DEF InsertRefused, AllocateFails
<1>2. ragged' \in BOOLEAN
  BY DEF InsertRefused, AllocateFails, IInv, TypeOK
<1>3. last' \in [op : Calls, code : Codes]
  <2>1. InsertRefusals(r) \subseteq Codes
    BY DEF InsertRefusals, WalkErrors, Codes
  <2>2. PICK code \in Codes : last' = [op |-> "Insert", code |-> code]
    BY <2>1 DEF InsertRefused, AllocateFails, Returns, Codes
  <2>. QED BY <2>2 DEF Calls
<1>. QED BY <1>1, <1>2, <1>3, IInvByFile, IInvNext

\* A dirty page is written back, or spoils the stored one.
LEMMA WriteBackStep ==
    ASSUME IInv, NEW p \in DOMAIN pages, WriteBack(p)
    PROVE  IInv'
<1>1. /\ GoodFile(pages) /\ Holds(pages, acked)
      /\ GoodFile(stored) /\ Holds(stored, acked)
      /\ Len(stored) = Len(pages) /\ Len(pages) <= MaxPages
      /\ ragged \in BOOLEAN
      /\ acked \subseteq [page : Nat, slot : Nat, record : Records]
  BY IInvByFile
<1>2. p \in DOMAIN stored
  BY <1>1, LenProperties DEF GoodFile
<1>3. PICK v \in {pages[p], stored[p], Corrupt} : stored' = [stored EXCEPT ![p] = v]
  BY SpoilsEither DEF WriteBack
<1>4. v \in AnyPage /\ Good(v)
  BY <1>1, <1>2, PagesAreGood, CorruptIsGood
<1>5. \A a \in acked : a.page = p => v = Corrupt \/ Has(v, a.slot, a.record)
  BY <1>1 DEF Holds, HoldsAt
<1>6. GoodFile(stored') /\ Holds(stored', acked) /\ Len(stored') = Len(stored)
  BY <1>1, <1>2, <1>3, <1>4, <1>5, OverwrittenGood
<1>7. pages' = pages /\ ragged' = ragged /\ acked' = acked
  BY DEF WriteBack
<1>8. last' \in [op : Calls, code : Codes]
  BY DEF WriteBack, Returns, Calls, Codes
<1>. QED BY <1>1, <1>6, <1>7, <1>8, IInvNext

\* The file is opened anew: each page is the one the pool had or the stored one.
LEMMA RestartStep ==
    ASSUME IInv, Restart
    PROVE  IInv'
<1>1. /\ GoodFile(pages) /\ Holds(pages, acked)
      /\ GoodFile(stored) /\ Holds(stored, acked)
      /\ Len(stored) = Len(pages) /\ Len(pages) <= MaxPages
      /\ ragged \in BOOLEAN
      /\ acked \subseteq [page : Nat, slot : Nat, record : Records]
  BY IInvByFile
<1>2. PICK flushed \in SUBSET Dirty :
         stored' = [p \in DOMAIN stored |-> IF p \in flushed THEN pages[p] ELSE stored[p]]
  BY DEF Restart
<1>3. /\ Len(pages) \in Nat /\ DOMAIN pages = 1 .. Len(pages) /\ DOMAIN stored = 1 .. Len(pages)
  BY <1>1, LenProperties DEF GoodFile
<1>4. \A p \in DOMAIN stored : stored'[p] \in {pages[p], stored[p]}
  BY <1>2
<1>5. \A p \in DOMAIN stored : stored'[p] \in AnyPage /\ Good(stored'[p])
  BY <1>1, <1>3, <1>4, PagesAreGood
<1>6. stored' \in [1 .. Len(pages) -> AnyPage]
  BY <1>2, <1>3, <1>5
<1>7. stored' \in Seq(AnyPage) /\ DOMAIN stored' = DOMAIN stored
  BY <1>2, <1>3, <1>6, SeqDef
<1>8. Len(stored') = Len(pages)
  BY <1>3, <1>7, LenProperties
<1>9. GoodFile(stored') /\ Holds(stored', acked)
  BY <1>1, <1>3, <1>4, <1>5, <1>7 DEF GoodFile, Holds, HoldsAt
<1>10. pages' = stored' /\ ragged' = ragged /\ acked' = acked
  BY DEF Restart
<1>11. last' \in [op : Calls, code : Codes]
  BY DEF Restart, Returns, Calls, Codes
<1>. QED BY <1>1, <1>8, <1>9, <1>10, <1>11, IInvNext

\* A file just created is empty.
LEMMA InitEstablishes == Init => IInv
<1>. SUFFICES ASSUME Init PROVE IInv
  OBVIOUS
<1>1. << >> \in Seq(Page \cup {Corrupt}) /\ Len(<< >>) = 0 /\ DOMAIN << >> = {}
  BY EmptySeq
<1>2. /\ pages = << >> /\ stored = << >> /\ ragged = FALSE /\ acked = {}
      /\ last \in [op : Calls, code : Codes]
  BY DEF Init, Calls, Codes
<1>3. TypeOK
  <2>1. pages \in Seq(Page \cup {Corrupt}) /\ stored \in Seq(Page \cup {Corrupt})
    BY <1>1, <1>2
  <2>2. Len(stored) = Len(pages) /\ Len(pages) <= MaxPages
    BY <1>1, <1>2, RecordFileConstants
  <2>. QED BY <2>1, <2>2, <1>2 DEF TypeOK
<1>4. PagesGood /\ AckedPresent
  BY <1>1, <1>2 DEF PagesGood, AckedPresent
<1>. QED BY <1>3, <1>4 DEF IInv

\* Every step of Next preserves IInv.
LEMMA StepPreserves == IInv /\ [Next]_vars => IInv'
<1>. SUFFICES ASSUME IInv, [Next]_vars PROVE IInv'
  OBVIOUS
<1>1. CASE UNCHANGED vars
  BY <1>1 DEF vars, IInv, TypeOK, PagesGood, AckedPresent
<1>2. CASE Restart
  BY <1>2, RestartStep
<1>3. ASSUME NEW p \in DOMAIN pages, WriteBack(p) PROVE IInv'
  BY <1>3, WriteBackStep
<1>4. ASSUME NEW r \in Records, InsertAny(r) PROVE IInv'
  BY <1>4, NoPageStep, InsertStep, InsertInNewPageStep, BlankPageStep DEF InsertAny
<1>. QED BY <1>1, <1>2, <1>3, <1>4 DEF Next, Background
-----------------------------------------------------------------------------
(* The invariant and what follows from it. *)

\* In every reachable state of a record file, for every number and size of pages
\* and records and every fault set, the pages are well-typed and well-packed and
\* hold the acknowledged records.
THEOREM Invariant == Spec => []IInv
BY InitEstablishes, StepPreserves, PTL DEF Spec

\* Every reachable state has the declared types, and no file outgrows MaxPages.
THEOREM TypeCorrect == Spec => []TypeOK
<1>1. IInv => TypeOK
  BY DEF IInv
<1>. QED BY <1>1, Invariant, PTL

\* The records of a page never overlap each other or the slot directory.
THEOREM SlotsAlwaysIntact == Spec => []SlotsIntact
<1>1. IInv => SlotsIntact
  BY PackedReads DEF IInv, PagesGood, Good, SlotsIntact
<1>. QED BY <1>1, Invariant, PTL

\* A record whose insert returned ok stays readable at its record id through
\* every later call, fault, eviction, restart and crash, unless a failed
\* overwrite spoils its page.
THEOREM AckedAlwaysKept == Spec => []AckedRecordsKept
<1>1. ASSUME IInv PROVE AckedRecordsKept
  <2>1. SUFFICES ASSUME NEW a \in acked
                 PROVE  /\ a.page \in DOMAIN pages
                        /\ \A page \in {pages[a.page], stored[a.page]} :
                              page = Corrupt \/ Reads(page, a.slot, a.record)
    BY DEF AckedRecordsKept
  <2>2. /\ a.page \in DOMAIN pages /\ a.page \in DOMAIN stored
        /\ HoldsAt(pages, a) /\ Good(pages[a.page])
        /\ HoldsAt(stored, a) /\ Good(stored[a.page])
    BY <1>1, IInvByFile DEF Holds, GoodFile
  <2>3. ASSUME NEW page, Good(page), page = Corrupt \/ Has(page, a.slot, a.record)
        PROVE  page = Corrupt \/ Reads(page, a.slot, a.record)
    BY <2>3, PackedReads, BlankPageProperties DEF Good
  <2>. QED BY <2>2, <2>3 DEF HoldsAt
<1>. QED BY <1>1, Invariant, PTL

-----------------------------------------------------------------------------
(* What Read and a scan find. *)

\* Read finds the records the readable pages hold, each at its record id.
LEMMA RowsAreHeld ==
    ASSUME NEW f, GoodFile(f), NEW row
    PROVE  row \in Found(f) <=>
              /\ row = [page |-> row.page, slot |-> row.slot, record |-> row.record]
              /\ row.page \in DOMAIN f /\ f[row.page] # Corrupt
              /\ Has(f[row.page], row.slot, row.record)
<1>. DEFINE P == {q \in DOMAIN f : f[q] # Corrupt}
            Of(p) == {[page |-> p, slot |-> i, record |-> f[p].slots[i].record] :
                         i \in DOMAIN f[p].slots}
<1>1. ASSUME NEW p \in P, NEW i, NEW r
      PROVE  Reads(f[p], i, r) <=> Has(f[p], i, r)
  BY PackedReads, BlankPageProperties DEF GoodFile, Good
<1>2. ASSUME row \in Found(f)
      PROVE  /\ row = [page |-> row.page, slot |-> row.slot, record |-> row.record]
             /\ row.page \in P /\ Has(f[row.page], row.slot, row.record)
  <2>1. row \in UNION {Of(p) : p \in P} /\ Reads(f[row.page], row.slot, row.record)
    BY <1>2 DEF Found
  <2>2. PICK p \in P : row \in Of(p)
    BY <2>1
  <2>3. PICK i \in DOMAIN f[p].slots :
           row = [page |-> p, slot |-> i, record |-> f[p].slots[i].record]
    BY <2>2
  <2>. QED BY <2>1, <2>3, <1>1
<1>3. ASSUME row = [page |-> row.page, slot |-> row.slot, record |-> row.record],
             row.page \in P, Has(f[row.page], row.slot, row.record)
      PROVE  row \in Found(f)
  <2>1. row \in Of(row.page)
    BY <1>3 DEF Has
  <2>2. Reads(f[row.page], row.slot, row.record)
    BY <1>1, <1>3
  <2>. QED BY <2>1, <2>2, <1>3 DEF Found
<1>. QED BY <1>2, <1>3

\* Overwriting a page with one that keeps its records keeps what Read finds,
\* and a page that adds a record adds that row.
LEMMA OverwrittenRows ==
    ASSUME NEW f, GoodFile(f), NEW p \in DOMAIN f, f[p] # Corrupt,
           NEW v \in AnyPage, Good(v), v # Corrupt, NEW i, NEW r,
           \A j, s : Has(v, j, s) <=> Has(f[p], j, s) \/ (j = i /\ s = r)
    PROVE  Found([f EXCEPT ![p] = v]) = Found(f) \cup {[page |-> p, slot |-> i, record |-> r]}
<1>. DEFINE g == [f EXCEPT ![p] = v]
            new == [page |-> p, slot |-> i, record |-> r]
<1>1. GoodFile(g) /\ DOMAIN g = DOMAIN f /\ g[p] = v /\ \A q \in DOMAIN f : q # p => g[q] = f[q]
  BY Overwritten DEF GoodFile
<1>. HIDE DEF g
<1>2. ASSUME NEW row PROVE row \in Found(g) <=> row \in Found(f) \/ row = new
  <2>1. CASE row.page = p
    <3>1. new.page = p /\ new.slot = i /\ new.record = r
      OBVIOUS
    <3>. QED BY <2>1, <3>1, <1>1, RowsAreHeld
  <2>2. CASE row.page # p
    BY <2>2, <1>1, RowsAreHeld
  <2>. QED BY <2>1, <2>2
<1>. QED BY <1>2 DEF g

\* A new page adds the rows it holds.
LEMMA AppendedRows ==
    ASSUME NEW f, GoodFile(f), NEW v \in AnyPage, Good(v), v # Corrupt
    PROVE  /\ (\A j, s : ~Has(v, j, s)) => Found(Append(f, v)) = Found(f)
           /\ \A i, r : (\A j, s : Has(v, j, s) <=> j = i /\ s = r) =>
                 Found(Append(f, v)) =
                    Found(f) \cup {[page |-> Len(f) + 1, slot |-> i, record |-> r]}
<1>. DEFINE g == Append(f, v)
            n == Len(f) + 1
<1>1. /\ GoodFile(g) /\ DOMAIN g = DOMAIN f \cup {n} /\ n \notin DOMAIN f
      /\ g[n] = v /\ \A q \in DOMAIN f : g[q] = f[q]
  <2>1. /\ DOMAIN g = DOMAIN f \cup {n} /\ n \notin DOMAIN f /\ g \in Seq(AnyPage)
        /\ g[n] = v /\ \A q \in DOMAIN f : g[q] = f[q]
    BY Appended DEF GoodFile
  <2>. QED BY <2>1 DEF GoodFile
<1>. HIDE DEF g, n
<1>2. ASSUME NEW row
      PROVE  row \in Found(g) <=>
                \/ row \in Found(f)
                \/ /\ row = [page |-> n, slot |-> row.slot, record |-> row.record]
                   /\ Has(v, row.slot, row.record)
  <2>1. CASE row.page = n
    BY <2>1, <1>1, RowsAreHeld
  <2>2. CASE row.page # n
    <3>1. row # [page |-> n, slot |-> row.slot, record |-> row.record]
      BY <2>2
    <3>. QED BY <2>2, <3>1, <1>1, RowsAreHeld
  <2>. QED BY <2>1, <2>2
<1>3. ASSUME \A j, s : ~Has(v, j, s) PROVE Found(g) = Found(f)
  BY <1>2, <1>3
<1>4. ASSUME NEW i, NEW r, \A j, s : Has(v, j, s) <=> j = i /\ s = r
      PROVE  Found(g) = Found(f) \cup {[page |-> n, slot |-> i, record |-> r]}
  <2>. DEFINE new == [page |-> n, slot |-> i, record |-> r]
  <2>1. new.slot = i /\ new.record = r
    OBVIOUS
  <2>2. ASSUME NEW row PROVE row \in Found(g) <=> row \in Found(f) \/ row = new
    BY <2>1, <1>2, <1>4
  <2>. QED BY <2>2
<1>. QED BY <1>3, <1>4 DEF g, n
\* An insert into a page with room, flushed or not, adds one row.
LEMMA InsertRows ==
    ASSUME IInv, NEW r \in Records, NEW p \in DOMAIN pages, CanInsert(p, r)
    PROVE  LET row == [page |-> p, slot |-> Len(pages[p].slots) + 1, record |-> r]
           IN  /\ Found([pages EXCEPT ![p] = Inserted(pages[p], r)]) = Found(pages) \cup {row}
               /\ row \notin Found(pages) /\ row \notin acked
<1>. DEFINE new == Inserted(pages[p], r)
            i == Len(pages[p].slots) + 1
            row == [page |-> p, slot |-> i, record |-> r]
<1>1. /\ Packed(pages[p]) /\ pages[p] # Corrupt
      /\ Packed(new) /\ new \in AnyPage /\ Good(new)
      /\ \A j, s : Has(new, j, s) <=> Has(pages[p], j, s) \/ (j = i /\ s = r)
      /\ \A s : ~Has(pages[p], i, s)
  BY InsertsWell
<1>2. GoodFile(pages) /\ Holds(pages, acked)
  BY IInvByFile
<1>3. new # Corrupt
  BY <1>1, RecordFileConstants DEF Packed
<1>4. row.page = p /\ row.slot = i /\ row.record = r
  OBVIOUS
<1>. HIDE DEF new, i
<1>5. Found([pages EXCEPT ![p] = new]) = Found(pages) \cup {row}
  BY <1>1, <1>2, <1>3, OverwrittenRows
<1>6. row \notin Found(pages)
  BY <1>1, <1>2, <1>4, RowsAreHeld
<1>7. row \notin acked
  BY <1>1, <1>2, <1>4 DEF Holds, HoldsAt
<1>. QED BY <1>5, <1>6, <1>7 DEF new, i

\* An insert into a new page, flushed or not, adds one row.
LEMMA InsertInNewPageRows ==
    ASSUME IInv, NEW r \in Records, FitsEmptyPage(r)
    PROVE  LET row == [page |-> Len(pages) + 1, slot |-> 1, record |-> r]
           IN  /\ Found(Append(pages, Inserted(EmptyPage, r))) = Found(pages) \cup {row}
               /\ row \notin Found(pages) /\ row \notin acked
<1>. DEFINE new == Inserted(EmptyPage, r)
            row == [page |-> Len(pages) + 1, slot |-> 1, record |-> r]
<1>1. /\ new \in AnyPage /\ Good(new) /\ Packed(new)
      /\ \A j, s : Has(new, j, s) <=> j = 1 /\ s = r
  BY FirstInserted
<1>2. GoodFile(pages) /\ Holds(pages, acked)
  BY IInvByFile
<1>3. new # Corrupt
  BY <1>1, RecordFileConstants DEF Packed
<1>. HIDE DEF new
<1>4. Found(Append(pages, new)) = Found(pages) \cup {row}
  <2>1. GoodFile(pages) /\ new \in AnyPage /\ Good(new) /\ new # Corrupt
    BY <1>1, <1>2, <1>3
  <2>2. \A i, s : (\A j, t : Has(new, j, t) <=> j = i /\ t = s) =>
           Found(Append(pages, new)) =
              Found(pages) \cup {[page |-> Len(pages) + 1, slot |-> i, record |-> s]}
    BY <2>1, AppendedRows
  <2>3. \A j, t : Has(new, j, t) <=> j = 1 /\ t = r
    BY <1>1
  <2>. QED BY <2>2, <2>3
<1>5. row.page \notin DOMAIN pages
  BY <1>2, BlankIsGood, Appended DEF GoodFile
<1>6. row \notin Found(pages) /\ row \notin acked
  BY <1>2, <1>5, RowsAreHeld DEF Holds
<1>. QED BY <1>4, <1>6 DEF new

\* A page in order can be read, so that a scan which answered before a page of
\* the file was overwritten by one in order, or one was appended, answers after.
LEMMA ScanGoesOn ==
    ASSUME IInv, ScanAnswers, ragged' = ragged, NEW v, Packed(v), v \in AnyPage,
           \/ \E p \in DOMAIN pages : pages' = [pages EXCEPT ![p] = v]
           \/ pages' = Append(pages, v)
    PROVE  ScanAnswers'
<1>1. Validate(v) /\ v # Corrupt
  BY PackedReads, RecordFileConstants DEF Packed
<1>2. pages \in Seq(AnyPage)
  BY IInvByFile DEF GoodFile
<1>3. ASSUME NEW q \in DOMAIN pages' PROVE pages'[q] # Corrupt /\ Validate(pages'[q])
  <2>1. CASE \E p \in DOMAIN pages : pages' = [pages EXCEPT ![p] = v]
    <3>1. q \in DOMAIN pages /\ (pages'[q] = v \/ pages'[q] = pages[q])
      BY <2>1, <1>2, <1>3, Overwritten
    <3>. QED BY <3>1, <1>1 DEF ScanAnswers, Readable
  <2>2. CASE pages' = Append(pages, v)
    <3>1. \/ q \in DOMAIN pages /\ pages'[q] = pages[q]
          \/ pages'[q] = v
      BY <2>2, <1>2, <1>3, Appended
    <3>. QED BY <3>1, <1>1 DEF ScanAnswers, Readable
  <2>. QED BY <2>1, <2>2
<1>. QED BY <1>3 DEF ScanAnswers, Readable, Validate

\* What an insert does to what Read and a scan find.
InsertAdds ==
    LET new == Found(pages') \ Found(pages)
    IN  /\ last'.code = "ok" =>
              /\ new = acked' \ acked /\ new # {}
              /\ ScanAnswers => Scan' = [answers |-> TRUE, rows |-> Scan.rows \cup new]
        /\ last'.code = "io" => \A row, other \in new : row = other
        /\ last'.code \in {"corruption", "resource_exhausted"} =>
              /\ new = {}
              /\ Scan' # Scan => Len(pages') > Len(pages) /\ ~ScanAnswers'

\* A call that adds one row does what is expected of it.
LEMMA OneRowAdded ==
    ASSUME NEW row, row \notin Found(pages), row \notin acked,
           Found(pages') = Found(pages) \cup {row},
           last'.code \in {"ok", "io"},
           last'.code = "ok" => acked' = acked \cup {row},
           ScanAnswers => ScanAnswers'
    PROVE  InsertAdds
<1>1. Found(pages') \ Found(pages) = {row}
  OBVIOUS
<1>2. ASSUME last'.code = "ok"
      PROVE  acked' \ acked = {row} /\ last'.code # "io"
  BY <1>2
<1>3. ASSUME ScanAnswers
      PROVE  Scan' = [answers |-> TRUE, rows |-> Scan.rows \cup {row}]
  BY <1>3 DEF Scan
<1>4. last'.code \notin {"corruption", "resource_exhausted"}
  OBVIOUS
<1>. QED BY <1>1, <1>2, <1>3, <1>4 DEF InsertAdds

\* What each step does to what Read and a scan find.
LEMMA RowsOfStep ==
    ASSUME IInv, Next
    PROVE  /\ last'.op # "Restart" => Found(pages) \subseteq Found(pages')
           /\ last'.op = "Insert" => InsertAdds
<1>. DEFINE Kept == last'.op # "Restart" => Found(pages) \subseteq Found(pages')
            Added == last'.op = "Insert" => InsertAdds
<1>1. CASE Restart
  BY <1>1 DEF Restart, Returns
<1>2. ASSUME NEW p \in DOMAIN pages, WriteBack(p) PROVE Kept /\ Added
  BY <1>2 DEF WriteBack, Returns
<1>3. ASSUME NEW r \in Records, InsertAny(r) PROVE Kept /\ Added
  <2>1. CASE InsertRefused(r) \/ AllocateFails(r)
    <3>1. "ok" \notin InsertRefusals(r)
      BY DEF InsertRefusals, WalkErrors
    <3>2. /\ pages' = pages /\ last'.op = "Insert" /\ last'.code # "ok"
          /\ last'.code # "io" => ragged' = ragged
      <4>1. PICK code : /\ code # "ok" /\ last' = [op |-> "Insert", code |-> code]
                        /\ code # "io" => InsertRefused(r)
        BY <2>1, <3>1 DEF InsertRefused, AllocateFails, Returns
      <4>. QED BY <2>1, <4>1 DEF InsertRefused, AllocateFails
    <3>3. Found(pages') = Found(pages)
      BY <3>2
    <3>4. last'.code # "io" => Scan' = Scan
      <4>1. ASSUME ragged' = ragged PROVE ScanAnswers' <=> ScanAnswers
        BY <3>2, <4>1 DEF ScanAnswers, Readable, Validate
      <4>2. CASE last'.code = "io"
        BY <4>2
      <4>3. CASE ragged' = ragged
        <5>1. ScanAnswers' <=> ScanAnswers
          BY <4>1, <4>3
        <5>2. CASE ScanAnswers
          BY <3>3, <5>1, <5>2 DEF Scan
        <5>3. CASE ~ScanAnswers
          BY <5>1, <5>3, Zenon DEF Scan
        <5>. QED BY <5>2, <5>3
      <4>. QED BY <3>2, <4>2, <4>3
    <3>5. InsertAdds
      <4>1. Found(pages') \ Found(pages) = {}
        BY <3>3
      <4>2. last'.code \in {"corruption", "resource_exhausted"} => Scan' = Scan
        BY <3>4
      <4>. QED BY <3>2, <4>1, <4>2 DEF InsertAdds
    <3>. QED BY <3>3, <3>5
  <2>2. ASSUME NEW p \in DOMAIN pages, Insert(p, r) \/ InsertFlushFails(p, r)
        PROVE  Kept /\ Added
    <3>. DEFINE row == [page |-> p, slot |-> Len(pages[p].slots) + 1, record |-> r]
    <3>1. /\ CanInsert(p, r) /\ pages' = [pages EXCEPT ![p] = Inserted(pages[p], r)]
          /\ last'.op = "Insert" /\ last'.code \in {"ok", "io"} /\ ragged' = ragged
          /\ last'.code = "ok" => acked' = acked \cup {row}
      BY <2>2 DEF Insert, InsertFlushFails, Acknowledge, Returns
    <3>2. Found(pages') = Found(pages) \cup {row} /\ row \notin Found(pages) /\ row \notin acked
      BY <3>1, InsertRows
    <3>3. ScanAnswers => ScanAnswers'
      <4>1. Packed(Inserted(pages[p], r)) /\ Inserted(pages[p], r) \in AnyPage
        BY <3>1, InsertsWell
      <4>. QED BY <3>1, <4>1, ScanGoesOn
    <3>. HIDE DEF row
    <3>4. InsertAdds
      BY <3>1, <3>2, <3>3, OneRowAdded
    <3>. QED BY <3>2, <3>4
  <2>3. CASE InsertInNewPage(r) \/ NewPageFlushFails(r)
    <3>. DEFINE row == [page |-> Len(pages) + 1, slot |-> 1, record |-> r]
    <3>1. /\ FitsEmptyPage(r) /\ pages' = Append(pages, Inserted(EmptyPage, r))
          /\ last'.op = "Insert" /\ last'.code \in {"ok", "io"} /\ ragged' = ragged
          /\ last'.code = "ok" => acked' = acked \cup {row}
      BY <2>3 DEF InsertInNewPage, NewPageFlushFails, Acknowledge, Returns
    <3>2. Found(pages') = Found(pages) \cup {row} /\ row \notin Found(pages) /\ row \notin acked
      BY <3>1, InsertInNewPageRows
    <3>3. ScanAnswers => ScanAnswers'
      <4>1. Packed(Inserted(EmptyPage, r)) /\ Inserted(EmptyPage, r) \in AnyPage
        BY <3>1, FirstInserted
      <4>. QED BY <3>1, <4>1, ScanGoesOn
    <3>. HIDE DEF row
    <3>4. InsertAdds
      BY <3>1, <3>2, <3>3, OneRowAdded
    <3>. QED BY <3>2, <3>4
  <2>4. CASE InsertOversized(r)
    <3>1. pages' = Append(pages, BlankPage) /\ last'.code = "resource_exhausted"
      BY <2>4 DEF InsertOversized, Returns
    <3>2. Found(pages') = Found(pages)
      BY <3>1, IInvByFile, BlankIsGood, BlankPageProperties, AppendedRows
    <3>3. /\ Len(pages) \in Nat /\ Len(pages') = Len(pages) + 1
          /\ Len(pages') \in DOMAIN pages' /\ pages'[Len(pages')] = BlankPage
      BY <3>1, IInvByFile, BlankIsGood, Appended, LenProperties DEF GoodFile
    <3>4. ~ScanAnswers'
      <4>1. ~Validate(BlankPage)
        BY BlankPageProperties
      <4>. QED BY <3>3, <4>1 DEF ScanAnswers, Readable, Validate
    <3>. QED BY <3>1, <3>2, <3>3, <3>4 DEF InsertAdds
  <2>5. CASE CrashAfterAllocate(r)
    BY <2>5 DEF CrashAfterAllocate, Returns
  <2>. QED BY <1>3, <2>1, <2>2, <2>3, <2>4, <2>5 DEF InsertAny
<1>. QED BY <1>1, <1>2, <1>3 DEF Next, Background

\* Whatever record was found at a record id stays there until the file is
\* opened anew: inserts and failed writes never move or replace a row.
THEOREM RidsAlwaysStable == Spec => RidsStable
<1>1. IInv /\ [Next]_vars => [last'.op # "Restart" => Found(pages) \subseteq Found(pages')]_vars
  BY RowsOfStep
<1>. QED BY <1>1, Invariant, PTL DEF Spec, RidsStable

\* An insert that returns ok adds exactly the row it acknowledges, to what Read
\* finds and to a scan that answers; one that fails adds one row at most, and one
\* that is refused none.
THEOREM InsertAlwaysAddsOneRow == Spec => InsertAddsOneRow
<1>1. IInv /\ [Next]_vars => [last'.op = "Insert" => InsertAdds]_vars
  BY RowsOfStep
<1>. QED BY <1>1, Invariant, PTL DEF Spec, InsertAddsOneRow, InsertAdds

-----------------------------------------------------------------------------
(***************************************************************************)
(* The index catalog: Load finds the newest version of every index as long *)
(* as no write fails.                                                      *)
(*                                                                         *)
(* The argument: a version goes to the first page with room, so every page *)
(* before it was full for it, and stays so, since pages never regain room. *)
(* A newer version of the same index has the same size, so it cannot go to *)
(* an earlier page, and scan order is the order of the roots.  A failed    *)
(* write breaks this where it leaves the file with more room than readers  *)
(* saw.                                                                    *)
(***************************************************************************)

\* Without failing writes, readers see the file and every page can be read.
Settled ==
    /\ stored = pages /\ ~ragged
    /\ \A p \in DOMAIN pages : pages[p] # Corrupt

\* A page readers accept and that has no room for the record.
Full(page, r) == page # Corrupt /\ Validate(page) /\ ~TooLarge(r) /\ ~Fits(page, r)

FullBefore == \A a \in acked : \A q \in DOMAIN pages : q < a.page => Full(pages[q], a.record)

OrderedByRoot ==
    \A a, b \in acked :
        a.record.id = b.record.id /\ Before(a, b) => a.record.root < b.record.root

CInv == IInv /\ Settled /\ Found(pages) = acked /\ FullBefore /\ OrderedByRoot

\* A step of the catalog is a step of its record file.
LEMMA CatalogStep == [CatalogNext]_catalogVars => [Next]_vars
BY DEF CatalogNext, ReopenOrFlush, AppendVersion, Next, catalogVars, vars

\* The catalog file is a record file.
THEOREM CatalogIsRecordFile == CatalogSpec => Spec
BY CatalogStep, PTL DEF CatalogSpec, CatalogInit, Spec

\* A page that is full for a record stays so when another one is inserted.
LEMMA StaysFull ==
    ASSUME NEW page, Packed(page), NEW r \in Records, Fits(page, r),
           NEW s \in Records, ~TooLarge(s), ~Fits(page, s)
    PROVE  Full(Inserted(page, r), s)
<1>. DEFINE new == Inserted(page, r)
<1>1. Packed(new)
  BY InsertedProperties
<1>2. Validate(new) /\ new # Corrupt
  BY <1>1, PackedReads, RecordFileConstants DEF Packed
<1>3. page.free_start \in Nat /\ page.free_end \in Nat /\ page.free_start <= page.free_end
  BY DEF Packed, Page
<1>4. new.free_start = page.free_start + Size[r] /\ new.free_end = page.free_end - SlotBytes
  BY DEF Inserted
<1>5. Size[r] \in Nat /\ Size[s] \in Nat /\ SlotBytes \in Nat
  BY SlottedConstants
<1>6. ~Fits(new, s)
  BY <1>3, <1>4, <1>5 DEF Fits, FreeBytes
<1>. QED BY <1>2, <1>6 DEF Full

\* Versions of one index have one size, so a page full for one is full for all.
LEMMA FullForAll ==
    ASSUME NEW r \in Records, NEW s \in Records, r.id = s.id, NEW page
    PROVE  Full(page, r) <=> Full(page, s)
BY IndexCatalogConstants DEF Full, Fits, TooLarge

\* The walk of an insert passes pages that are full for the record.
LEMMA WalkPassesFull ==
    ASSUME NEW r, NEW q \in DOMAIN pages
    PROVE  ~Stops(q, r) <=> Full(pages[q], r)
BY DEF Stops, Readable, Full

\* What an acknowledged version is.
LEMMA AckedFacts ==
    ASSUME IInv, NEW a \in acked
    PROVE  /\ a.page \in Nat /\ a.slot \in Nat
           /\ a.record \in Records /\ a.record.root \in Nat
           /\ a.page \in DOMAIN pages /\ DOMAIN pages = 1 .. Len(pages) /\ Len(pages) \in Nat
BY IndexCatalogConstants, LenProperties DEF IInv, TypeOK, AckedPresent

\* Adding a version newer than the others of its index, and after them in scan
\* order, keeps that order.
LEMMA VersionAdded ==
    ASSUME IInv, OrderedByRoot, NEW r, IsNewVersion(r),
           NEW new, new.page \in Nat, new.slot \in Nat, new.record = r,
           acked' = acked \cup {new},
           \A a \in acked : a.record.id = r.id => Before(a, new)
    PROVE  OrderedByRoot'
<1>1. SUFFICES ASSUME NEW a \in acked', NEW b \in acked',
                      a.record.id = b.record.id, Before(a, b)
               PROVE  a.record.root < b.record.root
  BY DEF OrderedByRoot, Before
<1>2. CASE a \in acked /\ b \in acked
  BY <1>1, <1>2 DEF OrderedByRoot
<1>3. CASE a \in acked /\ b = new
  BY <1>1, <1>3 DEF IsNewVersion
<1>4. CASE a = new /\ b \in acked
  <2>1. Before(b, new)
    BY <1>1, <1>4
  <2>. QED BY <2>1, <1>1, <1>4, AckedFacts DEF Before
<1>5. CASE a = new /\ b = new
  BY <1>1, <1>5 DEF Before
<1>. QED BY <1>2, <1>3, <1>4, <1>5

\* Inserting a version into a page with room.
LEMMA VersionInserted ==
    ASSUME CInv, NEW r \in Records, IsNewVersion(r), NEW p \in DOMAIN pages, Insert(p, r)
    PROVE  FullBefore' /\ OrderedByRoot' /\ Settled' /\ Found(pages') = acked'
<1>. DEFINE v == Inserted(pages[p], r)
            i == Len(pages[p].slots) + 1
            new == [page |-> p, slot |-> i, record |-> r]
<1>1. /\ CanInsert(p, r) /\ pages' = [pages EXCEPT ![p] = v] /\ stored' = [stored EXCEPT ![p] = v]
      /\ acked' = acked \cup {new} /\ ragged' = ragged
  BY DEF Insert, Acknowledge
<1>2. IInv /\ GoodFile(pages) /\ Holds(pages, acked) /\ pages \in Seq(AnyPage)
  BY IInvByFile DEF CInv, GoodFile
<1>3. /\ Packed(pages[p]) /\ Packed(v) /\ v \in AnyPage /\ i \in Nat
      /\ \A s : ~Has(pages[p], i, s)
  BY <1>1, <1>2, InsertsWell
<1>4. DOMAIN pages = 1 .. Len(pages) /\ Len(pages) \in Nat /\ p \in Nat
  BY <1>2, LenProperties
<1>5. /\ DOMAIN pages' = DOMAIN pages /\ pages'[p] = v
      /\ \A q \in DOMAIN pages : q # p => pages'[q] = pages[q]
  BY <1>1, <1>2, <1>3, Overwritten
<1>6. Found(pages') = Found(pages) \cup {new}
  BY <1>1, <1>2, InsertRows
<1>7. new.page = p /\ new.slot = i /\ new.record = r
  OBVIOUS
<1>8. Readable(p) /\ ~TooLarge(r) /\ Fits(pages[p], r)
  BY <1>1 DEF CanInsert, FirstStop, Stops
<1>9. \A q \in DOMAIN pages : q < p => Full(pages[q], r)
  BY <1>1, WalkPassesFull DEF CanInsert, FirstStop
<1>10. ASSUME NEW q \in DOMAIN pages, NEW s \in Records, Full(pages[q], s)
       PROVE  Full(pages'[q], s)
  BY <1>3, <1>5, <1>8, <1>10, StaysFull DEF Full
<1>. HIDE DEF v, i
<1>11. FullBefore'
  <2>1. SUFFICES ASSUME NEW a \in acked', NEW q \in DOMAIN pages', q < a.page
                 PROVE  Full(pages'[q], a.record)
    BY DEF FullBefore, Full, Validate, TooLarge, Fits, FreeBytes
  <2>2. CASE a \in acked
    <3>1. a.record \in Records
      BY <1>2, <2>2, AckedFacts
    <3>2. Full(pages[q], a.record)
      BY <2>1, <2>2, <1>5 DEF CInv, FullBefore
    <3>. QED BY <3>1, <3>2, <2>1, <1>5, <1>10
  <2>3. CASE a = new
    BY <2>1, <2>3, <1>5, <1>7, <1>9, <1>10
  <2>. QED BY <2>2, <2>3, <1>1
<1>12. OrderedByRoot'
  <2>1. ASSUME NEW a \in acked, a.record.id = r.id PROVE Before(a, new)
    <3>1. a.page <= p
      <4>1. CASE p < a.page
        <5>1. Full(pages[p], a.record)
          BY <4>1 DEF CInv, FullBefore
        <5>2. Full(pages[p], r)
          BY <5>1, <2>1, <1>2, AckedFacts, FullForAll
        <5>. QED BY <5>2, <1>8 DEF Full
      <4>. QED BY <4>1, <1>2, <1>4, AckedFacts
    <3>2. CASE a.page = p
      <4>1. Has(pages[p], a.slot, a.record)
        BY <3>2, <1>2, <1>3, RecordFileConstants DEF Holds, HoldsAt, Packed
      <4>2. a.slot \in 1 .. Len(pages[p].slots) /\ Len(pages[p].slots) \in Nat
        BY <4>1, <1>3, LenProperties DEF Has, Packed, Page
      <4>. QED BY <3>2, <4>2, <1>7 DEF Before, i
    <3>. QED BY <3>1, <3>2, <1>2, <1>4, <1>7, AckedFacts DEF Before
  <2>. QED BY <2>1, <1>1, <1>2, <1>3, <1>4, <1>7, VersionAdded DEF CInv
<1>13. Settled'
  <2>1. v # Corrupt
    BY <1>3, RecordFileConstants DEF Packed
  <2>. QED BY <2>1, <1>1, <1>5 DEF CInv, Settled
<1>. QED BY <1>1, <1>6, <1>11, <1>12, <1>13 DEF CInv

\* Inserting a version into a new page.
LEMMA VersionInNewPage ==
    ASSUME CInv, NEW r \in Records, IsNewVersion(r), InsertInNewPage(r)
    PROVE  FullBefore' /\ OrderedByRoot' /\ Settled' /\ Found(pages') = acked'
<1>. DEFINE v == Inserted(EmptyPage, r)
            n == Len(pages) + 1
            new == [page |-> n, slot |-> 1, record |-> r]
<1>1. /\ FitsEmptyPage(r) /\ NoStop(r)
      /\ pages' = Append(pages, v) /\ stored' = Append(stored, v)
      /\ acked' = acked \cup {new} /\ ragged' = ragged
  BY DEF InsertInNewPage, Acknowledge, CanAllocate
<1>2. IInv /\ pages \in Seq(AnyPage)
  BY IInvByFile DEF CInv, GoodFile
<1>3. v \in AnyPage /\ v # Corrupt
  BY <1>1, FirstInserted, RecordFileConstants DEF Packed
<1>4. DOMAIN pages = 1 .. Len(pages) /\ Len(pages) \in Nat
  BY <1>2, LenProperties
<1>. HIDE DEF v
<1>5. /\ DOMAIN pages' = DOMAIN pages \cup {n} /\ pages'[n] = v
      /\ \A q \in DOMAIN pages : pages'[q] = pages[q]
  BY <1>1, <1>2, <1>3, Appended
<1>6. Found(pages') = Found(pages) \cup {new}
  BY <1>1, <1>2, InsertInNewPageRows DEF v
<1>7. new.page = n /\ new.slot = 1 /\ new.record = r
  OBVIOUS
<1>8. \A q \in DOMAIN pages : Full(pages[q], r)
  BY <1>1, WalkPassesFull DEF NoStop
<1>9. FullBefore'
  <2>1. SUFFICES ASSUME NEW a \in acked', NEW q \in DOMAIN pages', q < a.page
                 PROVE  Full(pages'[q], a.record)
    BY DEF FullBefore, Full, Validate, TooLarge, Fits, FreeBytes
  <2>2. CASE a \in acked
    <3>1. q \in DOMAIN pages
      BY <2>1, <2>2, <1>2, <1>4, <1>5, AckedFacts
    <3>. QED BY <3>1, <2>1, <2>2, <1>5 DEF CInv, FullBefore
  <2>3. CASE a = new
    <3>1. q \in DOMAIN pages
      BY <2>1, <2>3, <1>4, <1>5, <1>7
    <3>. QED BY <3>1, <2>3, <1>5, <1>7, <1>8
  <2>. QED BY <2>2, <2>3, <1>1
<1>10. OrderedByRoot'
  <2>1. ASSUME NEW a \in acked PROVE Before(a, new)
    BY <1>2, <1>4, <1>7, AckedFacts DEF Before
  <2>2. n \in Nat
    BY <1>4
  <2>. QED BY <2>1, <2>2, <1>1, <1>2, <1>7, VersionAdded DEF CInv
<1>11. Settled'
  BY <1>1, <1>3, <1>5 DEF CInv, Settled
<1>. QED BY <1>1, <1>6, <1>9, <1>10, <1>11 DEF CInv
\* A blank page is added by a crash or an oversized version.
LEMMA BlankAdded ==
    ASSUME CInv, NEW r \in Records, InsertOversized(r) \/ CrashAfterAllocate(r)
    PROVE  FullBefore' /\ OrderedByRoot' /\ Settled' /\ Found(pages') = acked'
<1>1. /\ pages' = Append(pages, BlankPage) /\ stored' = pages'
      /\ acked' = acked /\ ragged' = ragged
  BY DEF InsertOversized, CrashAfterAllocate, CInv, Settled
<1>2. IInv /\ GoodFile(pages) /\ pages \in Seq(AnyPage)
  BY IInvByFile DEF CInv, GoodFile
<1>3. DOMAIN pages = 1 .. Len(pages) /\ Len(pages) \in Nat
  BY <1>2, LenProperties
<1>4. /\ DOMAIN pages' = DOMAIN pages \cup {Len(pages) + 1} /\ pages'[Len(pages) + 1] = BlankPage
      /\ \A q \in DOMAIN pages : pages'[q] = pages[q]
  BY <1>1, <1>2, BlankIsGood, Appended
<1>5. Found(pages') = Found(pages)
  BY <1>1, <1>2, BlankIsGood, BlankPageProperties, AppendedRows
<1>6. FullBefore'
  <2>1. SUFFICES ASSUME NEW a \in acked, NEW q \in DOMAIN pages', q < a.page
                 PROVE  Full(pages'[q], a.record)
    BY <1>1 DEF FullBefore, Full, Validate, TooLarge, Fits, FreeBytes
  <2>2. q \in DOMAIN pages
    BY <2>1, <1>2, <1>3, <1>4, AckedFacts
  <2>. QED BY <2>1, <2>2, <1>4 DEF CInv, FullBefore
<1>7. OrderedByRoot'
  BY <1>1 DEF CInv, OrderedByRoot, Before
<1>8. Settled'
  BY <1>1, <1>4, BlankPageProperties DEF CInv, Settled
<1>. QED BY <1>1, <1>5, <1>6, <1>7, <1>8 DEF CInv

\* A step that leaves the pages readers see, the file and the history alone.
LEMMA NothingAdded ==
    ASSUME CInv, pages' = pages, stored' = stored, acked' = acked, ragged' = ragged
    PROVE  FullBefore' /\ OrderedByRoot' /\ Settled' /\ Found(pages') = acked'
<1>1. FullBefore'
  BY DEF CInv, FullBefore, Full, Validate, TooLarge, Fits, FreeBytes
<1>. QED BY <1>1 DEF CInv, OrderedByRoot, Before, Settled

\* Opening the file again shows the same pages: none was dirty.
LEMMA Reopened ==
    ASSUME CInv, Restart
    PROVE  FullBefore' /\ OrderedByRoot' /\ Settled' /\ Found(pages') = acked'
<1>1. pages \in Seq(AnyPage) /\ stored = pages
  BY IInvByFile DEF CInv, GoodFile, Settled
<1>2. PICK flushed \in SUBSET Dirty :
         stored' = [p \in DOMAIN stored |-> IF p \in flushed THEN pages[p] ELSE stored[p]]
  BY DEF Restart
<1>3. stored' = pages
  <2>1. stored' = [p \in DOMAIN pages |-> pages[p]]
    BY <1>1, <1>2
  <2>2. pages \in [1 .. Len(pages) -> AnyPage]
    BY <1>1, LenProperties
  <2>. QED BY <2>1, <2>2
<1>. QED BY <1>1, <1>3, NothingAdded DEF Restart

\* The catalog's invariant is inductive when no write fails.
LEMMA CInvStep ==
    ASSUME "write" \notin Faults, CInv, [CatalogNext]_catalogVars
    PROVE  CInv'
<1>1. IInv'
  BY CatalogStep, StepPreserves DEF CInv
<1>2. FullBefore' /\ OrderedByRoot' /\ Settled' /\ Found(pages') = acked'
  <2>1. CASE UNCHANGED catalogVars
    BY <2>1, NothingAdded DEF catalogVars, vars
  <2>2. CASE ReopenOrFlush
    <3>1. ASSUME NEW p \in DOMAIN pages PROVE ~WriteBack(p)
      BY DEF WriteBack, Dirty, CInv, Settled
    <3>. QED BY <2>2, <3>1, Reopened DEF ReopenOrFlush, Background
  <2>3. ASSUME NEW r \in Records, AppendVersion(r)
        PROVE  FullBefore' /\ OrderedByRoot' /\ Settled' /\ Found(pages') = acked'
    <3>1. IsNewVersion(r) /\ InsertAny(r)
      BY <2>3 DEF AppendVersion
    <3>2. ~AllocateFails(r) /\ ~NewPageFlushFails(r) /\ \A p : ~InsertFlushFails(p, r)
      BY DEF AllocateFails, NewPageFlushFails, InsertFlushFails
    <3>3. CASE InsertRefused(r)
      BY <3>3, NothingAdded DEF InsertRefused
    <3>. QED BY <3>1, <3>2, <3>3, VersionInserted, VersionInNewPage, BlankAdded DEF InsertAny
  <2>. QED BY <2>1, <2>2, <2>3 DEF CatalogNext
<1>. QED BY <1>1, <1>2 DEF CInv, Found, Reads, Validate, Intact

\* An empty catalog satisfies the invariant.
LEMMA CInvInit == CatalogInit => CInv
<1>. SUFFICES ASSUME CatalogInit PROVE CInv
  OBVIOUS
<1>1. pages = << >> /\ stored = << >> /\ acked = {} /\ ~ragged /\ DOMAIN << >> = {}
  BY EmptySeq DEF CatalogInit, Init
<1>2. IInv
  BY InitEstablishes DEF CatalogInit
<1>3. Found(pages) = {}
  BY <1>1 DEF Found
<1>. QED BY <1>1, <1>2, <1>3 DEF CInv, Settled, FullBefore, OrderedByRoot

\* As long as no write fails, Load finds every index that has an acknowledged
\* version, and the version it keeps is the newest: through any number of pages
\* and sizes of records, failed reads, crashes inside an append and restarts.
THEOREM NewestAlwaysLoaded == "write" \notin Faults => (CatalogSpec => []LoadReturnsNewest)
<1>. SUFFICES ASSUME "write" \notin Faults PROVE CatalogSpec => []LoadReturnsNewest
  OBVIOUS
<1>1. CInv /\ [CatalogNext]_catalogVars => CInv'
  BY CInvStep
<1>2. ASSUME CInv PROVE LoadReturnsNewest
  <2>1. Found(pages) = acked /\ OrderedByRoot /\ IInv
    BY <1>2 DEF CInv
  <2>2. SUFFICES ASSUME ScanAnswers, NEW a \in acked
                 PROVE  /\ Versions(a.record.id) # {}
                        /\ \A v \in Versions(a.record.id) :
                              Latest(a.record.id, v) => v.record.root >= a.record.root
    BY DEF LoadReturnsNewest
  <2>3. a \in Versions(a.record.id)
    BY <2>1, <2>2 DEF Versions, Scan
  <2>4. ASSUME NEW v \in Versions(a.record.id), Latest(a.record.id, v)
        PROVE  v.record.root >= a.record.root
    <3>1. v \in acked /\ v.record.id = a.record.id
      BY <2>1, <2>2 DEF Versions, Scan
    <3>2. a = v \/ Before(a, v)
      BY <2>3, <2>4 DEF Latest
    <3>3. a = v \/ a.record.root < v.record.root
      BY <2>1, <3>1, <3>2 DEF OrderedByRoot
    <3>4. a.record.root \in Nat /\ v.record.root \in Nat
      BY <2>1, <3>1, AckedFacts
    <3>. QED BY <3>3, <3>4
  <2>. QED BY <2>3, <2>4
<1>. QED BY <1>1, <1>2, CInvInit, PTL DEF CatalogSpec
=============================================================================
