---------------------------- MODULE SlottedPage ----------------------------
(***************************************************************************)
(* SlottedPage (src/storage/heap.cpp): one heap or catalog page as a slot  *)
(* directory with free-space bounds.  Record bytes grow up from DataStart, *)
(* directory entries grow down from the end of the page.                   *)
(*                                                                         *)
(* A slot remembers the record that was copied to its bytes; reading gives *)
(* it back as long as nothing written later covers those bytes.            *)
(***************************************************************************)
EXTENDS Integers, Sequences

CONSTANTS
    DataStart,  \* kRecordDataStart: first byte after both headers
    PageBytes,  \* kInitialPageSizeBytes
    SlotBytes,  \* kSlotSize
    MaxOffset,  \* the largest u16
    Records,    \* records a client may store, already encoded
    Size        \* Size[r]: the encoded length of r

ASSUME SlottedConstants ==
    /\ DataStart \in Nat \ {0} /\ SlotBytes \in Nat \ {0}
    /\ PageBytes \in Nat /\ MaxOffset \in Nat
    /\ DataStart <= PageBytes /\ PageBytes <= MaxOffset
    /\ Size \in [Records -> Nat \ {0}]

Slot == [offset : Nat, length : Nat, record : Records]
Page == [free_start : Nat, free_end : Nat, slots : Seq(Slot)]

\* A page as AllocatePage leaves it, all zero after the common header.
BlankPage == [free_start |-> 0, free_end |-> 0, slots |-> << >>]

\* SlottedPage::Initialize.
EmptyPage == [free_start |-> DataStart, free_end |-> PageBytes, slots |-> << >>]

Validate(page) ==
    /\ DataStart <= page.free_start
    /\ page.free_start <= page.free_end
    /\ page.free_end <= PageBytes
    /\ Len(page.slots) * SlotBytes <= PageBytes - page.free_end
    /\ \A i \in DOMAIN page.slots :
          /\ DataStart <= page.slots[i].offset
          /\ page.slots[i].offset <= page.free_start
          /\ page.slots[i].length <= page.free_start - page.slots[i].offset

FreeBytes(page) ==
    IF page.free_end < page.free_start THEN 0 ELSE page.free_end - page.free_start

FitsWithoutEntry(page, r) == Size[r] <= FreeBytes(page)
Fits(page, r) == Size[r] + SlotBytes <= FreeBytes(page)

\* Refused before the free space is looked at.
TooLarge(r) == Size[r] > MaxOffset

\* SlottedPage::Insert for a record that fits.
Inserted(page, r) ==
    [free_start |-> page.free_start + Size[r],
     free_end   |-> page.free_end - SlotBytes,
     slots      |-> Append(page.slots,
                       [offset |-> page.free_start, length |-> Size[r], record |-> r])]

\* The bytes of slot i are still those of its record: no slot filled later
\* reaches into them, and neither does the slot directory.
Intact(page, i) ==
    LET end == page.slots[i].offset + page.slots[i].length
    IN /\ \A j \in DOMAIN page.slots : j > i =>
             \/ end <= page.slots[j].offset
             \/ page.slots[j].offset + page.slots[j].length <= page.slots[i].offset
       /\ end <= PageBytes - Len(page.slots) * SlotBytes

\* SlottedPage::Read returns record r for slot i.
Reads(page, i, r) ==
    /\ Validate(page)
    /\ i \in DOMAIN page.slots
    /\ page.slots[i].record = r
    /\ Intact(page, i)

-----------------------------------------------------------------------------
(* Part of the inductive invariant of the modules built on this one. *)

\* Slot i of the page holds record r.
Has(page, i, r) == i \in DOMAIN page.slots /\ page.slots[i].record = r

\* Records lie one after the other from DataStart to free_start, and the slot
\* directory takes exactly the bytes after free_end.
Packed(page) ==
    /\ page \in Page
    /\ DataStart <= page.free_start /\ page.free_start <= page.free_end
    /\ page.free_end + Len(page.slots) * SlotBytes = PageBytes
    /\ \A i \in DOMAIN page.slots :
          /\ DataStart <= page.slots[i].offset
          /\ page.slots[i].offset + page.slots[i].length <= page.free_start
    /\ \A i, j \in DOMAIN page.slots :
          i < j => page.slots[i].offset + page.slots[i].length <= page.slots[j].offset
=============================================================================
