----------------------------- MODULE RecordFile -----------------------------
(***************************************************************************)
(* An append-only file of slotted pages: TableHeap (src/storage/heap.cpp), *)
(* CatalogStore and IndexCatalogStore, which share one protocol, over a    *)
(* PageManager.  Records go to the first page with room, or to a page      *)
(* allocated for them.                                                     *)
(*                                                                         *)
(* The buffer pool underneath is the abstract page store of PageStore:     *)
(* `pages` is what ReadPage yields, `stored` what the file holds.  They    *)
(* differ on a page only while the pool holds it dirty, after a write that *)
(* reached the cache and failed to reach the file.                         *)
(***************************************************************************)
EXTENDS SlottedPage

CONSTANTS
    MaxPages,   \* kInvalidValue of PageId: no file has more pages
    Corrupt,    \* a stored page that fails its checksum
    Faults      \* "read", "write": device errors; "tear": a failing write may
                \* leave part of itself; "crash": death inside an insert

ASSUME RecordFileConstants ==
    /\ MaxPages \in Nat
    /\ Corrupt \notin Page
    /\ Faults \subseteq {"read", "write", "tear", "crash"}
    /\ "tear" \in Faults => "write" \in Faults

VARIABLES
    pages,      \* the pages as a reader sees them, by position in the file
    stored,     \* the same pages in the file
    ragged,     \* the file ends in part of a page: PageCount reports corruption
    acked,      \* history: the records whose insert returned ok, and where
    last        \* the last call and the code it returned

vars == <<pages, stored, ragged, acked, last>>

Codes == {"ok", "io", "corruption", "resource_exhausted"}
Calls == {"Open", "Insert", "Flush", "Restart"}

TypeOK ==
    /\ pages \in Seq(Page \cup {Corrupt})
    /\ stored \in Seq(Page \cup {Corrupt})
    /\ Len(stored) = Len(pages) /\ Len(pages) <= MaxPages
    /\ ragged \in BOOLEAN
    /\ acked \subseteq [page : Nat, slot : Nat, record : Records]
    /\ last \in [op : Calls, code : Codes]

Init ==
    /\ pages = << >> /\ stored = << >>
    /\ ragged = FALSE
    /\ acked = {}
    /\ last = [op |-> "Open", code |-> "ok"]

Returns(op, code) == last' = [op |-> op, code |-> code]

Readable(p) == pages[p] # Corrupt /\ Validate(pages[p])

-----------------------------------------------------------------------------
(* TableHeap::Insert, CatalogStore::Append, IndexCatalogStore::Append.

   A definition whose name says what is wrong with it is a faulty variant of
   the definition after it, recording which mistake a property guards against. *)

\* The walk over the pages ends at the first one that cannot be read, that
\* refuses the record, or that has room for it.
Stops(p, r) == Readable(p) => TooLarge(r) \/ Fits(pages[p], r)
FirstStop(p, r) ==
    /\ p \in DOMAIN pages /\ Stops(p, r)
    /\ \A q \in DOMAIN pages : q < p => ~Stops(q, r)
NoStop(r) == \A p \in DOMAIN pages : ~Stops(p, r)

\* Whether an empty page takes the record, found out after allocating one.
FitsEmptyPageUnchecked(r) == TRUE
FitsEmptyPage(r) == ~TooLarge(r) /\ Fits(EmptyPage, r)

Acknowledge(p, i, r) == acked' = acked \cup {[page |-> p, slot |-> i, record |-> r]}

\* What a write that fails leaves in the file where `old` was.
Spoils(old) == {old} \cup (IF "tear" \in Faults THEN {Corrupt} ELSE {})

\* Reading the pages fails when the device does, or when the pool cannot write
\* back a dirty page to make room.
Dirty == {p \in DOMAIN pages : pages[p] # stored[p]}
WalkErrors ==
    IF "read" \in Faults \/ ("write" \in Faults /\ Dirty # {}) THEN {"io"} ELSE {}

InsertRefusals(r) ==
    WalkErrors
    \cup (IF ragged \/ \E p \in DOMAIN pages : FirstStop(p, r) /\ ~Readable(p)
          THEN {"corruption"} ELSE {})
    \cup (IF ~ragged /\ \/ \E p \in DOMAIN pages : FirstStop(p, r) /\ Readable(p) /\ TooLarge(r)
                        \/ NoStop(r) /\ Len(pages) = MaxPages
          THEN {"resource_exhausted"} ELSE {})

InsertRefused(r) ==
    /\ \E code \in InsertRefusals(r) : Returns("Insert", code)
    /\ UNCHANGED <<pages, stored, ragged, acked>>

CanInsert(p, r) == ~ragged /\ FirstStop(p, r) /\ Readable(p) /\ ~TooLarge(r)

InsertNotFlushed(p, r) ==
    /\ CanInsert(p, r)
    /\ pages' = [pages EXCEPT ![p] = Inserted(pages[p], r)]
    /\ Acknowledge(p, Len(pages[p].slots) + 1, r)
    /\ Returns("Insert", "ok")
    /\ UNCHANGED <<stored, ragged>>

\* PageManager::WritePage replaces the cached page and flushes it.
Insert(p, r) ==
    /\ CanInsert(p, r)
    /\ pages' = [pages EXCEPT ![p] = Inserted(pages[p], r)]
    /\ stored' = [stored EXCEPT ![p] = Inserted(pages[p], r)]
    /\ Acknowledge(p, Len(pages[p].slots) + 1, r)
    /\ Returns("Insert", "ok")
    /\ UNCHANGED ragged

InsertFlushFails(p, r) ==
    /\ CanInsert(p, r) /\ "write" \in Faults
    /\ pages' = [pages EXCEPT ![p] = Inserted(pages[p], r)]
    /\ \E v \in Spoils(stored[p]) : stored' = [stored EXCEPT ![p] = v]
    /\ Returns("Insert", "io")
    /\ UNCHANGED <<ragged, acked>>

(* No page has room: AllocatePage materializes a blank page in the file, which
   is then initialized in memory, filled and written. *)
CanAllocate(r) == ~ragged /\ NoStop(r) /\ Len(pages) < MaxPages

AllocateFails(r) ==
    /\ CanAllocate(r) /\ "write" \in Faults
    /\ ragged' \in (IF "tear" \in Faults THEN BOOLEAN ELSE {FALSE})
    /\ Returns("Insert", "io")
    /\ UNCHANGED <<pages, stored, acked>>

InsertInNewPage(r) ==
    /\ CanAllocate(r) /\ FitsEmptyPage(r)
    /\ pages' = Append(pages, Inserted(EmptyPage, r))
    /\ stored' = Append(stored, Inserted(EmptyPage, r))
    /\ Acknowledge(Len(pages) + 1, 1, r)
    /\ Returns("Insert", "ok")
    /\ UNCHANGED ragged

NewPageFlushFails(r) ==
    /\ CanAllocate(r) /\ FitsEmptyPage(r) /\ "write" \in Faults
    /\ pages' = Append(pages, Inserted(EmptyPage, r))
    /\ \E v \in Spoils(BlankPage) : stored' = Append(stored, v)
    /\ Returns("Insert", "io")
    /\ UNCHANGED <<ragged, acked>>

\* The record does not fit an empty page either: the call fails and the blank
\* page stays.
InsertOversized(r) ==
    /\ CanAllocate(r) /\ ~FitsEmptyPage(r)
    /\ pages' = Append(pages, BlankPage)
    /\ stored' = Append(stored, BlankPage)
    /\ Returns("Insert", "resource_exhausted")
    /\ UNCHANGED <<ragged, acked>>

-----------------------------------------------------------------------------
(* The pool and the process. *)

\* A later eviction or flush writes a dirty page back, or fails to and keeps it.
WriteBackOrLose(p) ==
    /\ p \in Dirty
    /\ \/ /\ stored' = [stored EXCEPT ![p] = pages[p]]
          /\ Returns("Flush", "ok")
          /\ UNCHANGED pages
       \/ /\ "write" \in Faults
          /\ \E v \in Spoils(stored[p]) : stored' = [stored EXCEPT ![p] = v]
          /\ pages' = stored'
          /\ Returns("Flush", "io")
    /\ UNCHANGED <<ragged, acked>>

WriteBack(p) ==
    /\ p \in Dirty
    /\ \/ /\ stored' = [stored EXCEPT ![p] = pages[p]]
          /\ Returns("Flush", "ok")
       \/ /\ "write" \in Faults
          /\ \E v \in Spoils(stored[p]) : stored' = [stored EXCEPT ![p] = v]
          /\ Returns("Flush", "io")
    /\ UNCHANGED <<pages, ragged, acked>>

\* The pool is destroyed and the file opened again.  The destructor's flush
\* writes some of the dirty pages and ignores an error; a crash writes none.
Restart ==
    /\ ~ragged
    /\ \E flushed \in SUBSET Dirty :
          stored' = [p \in DOMAIN stored |-> IF p \in flushed THEN pages[p] ELSE stored[p]]
    /\ pages' = stored'
    /\ Returns("Restart", "ok")
    /\ UNCHANGED <<ragged, acked>>

\* The process dies after AllocatePage and before WritePage.
CrashAfterAllocate(r) ==
    /\ CanAllocate(r) /\ "crash" \in Faults
    /\ stored' = Append(stored, BlankPage)
    /\ pages' = stored'
    /\ Returns("Restart", "ok")
    /\ UNCHANGED <<ragged, acked>>

InsertAny(r) ==
    \/ InsertRefused(r)
    \/ \E p \in DOMAIN pages : Insert(p, r) \/ InsertFlushFails(p, r)
    \/ AllocateFails(r) \/ InsertInNewPage(r) \/ NewPageFlushFails(r)
    \/ InsertOversized(r) \/ CrashAfterAllocate(r)

Background == Restart \/ \E p \in DOMAIN pages : WriteBack(p)

Next == Background \/ \E r \in Records : InsertAny(r)

Spec == Init /\ [][Next]_vars

-----------------------------------------------------------------------------
(* The inductive invariant behind the properties below (RecordFileProofs). *)

Good(page) == page \in {Corrupt, BlankPage} \/ Packed(page)

PagesGood ==
    /\ \A p \in DOMAIN pages : Good(pages[p])
    /\ \A p \in DOMAIN stored : Good(stored[p])

AckedPresent ==
    \A a \in acked :
        /\ a.page \in DOMAIN pages
        /\ pages[a.page] = Corrupt \/ Has(pages[a.page], a.slot, a.record)
        /\ stored[a.page] = Corrupt \/ Has(stored[a.page], a.slot, a.record)

IInv == TypeOK /\ PagesGood /\ AckedPresent

-----------------------------------------------------------------------------
(* Properties. *)

\* Every page a reader or a restart can find is blank, or fails its checksum, or
\* is a slotted page whose records do not overlap each other or the directory.
SlotsIntact ==
    \A f \in {pages, stored} : \A p \in DOMAIN f :
        \/ f[p] \in {Corrupt, BlankPage}
        \/ Validate(f[p]) /\ \A i \in DOMAIN f[p].slots : Intact(f[p], i)

\* A record whose insert returned ok is found at its record id by every reader,
\* and would be after any crash: later inserts, failed writes, evictions and
\* restarts neither move, cover nor lose it.  The one thing that can hide it is
\* a page spoiled by a failed overwrite.
AckedRecordsKept ==
    \A a \in acked :
        /\ a.page \in DOMAIN pages
        /\ \A page \in {pages[a.page], stored[a.page]} :
              page = Corrupt \/ Reads(page, a.slot, a.record)

\* The records that TableHeap::Read finds, each with the record id it is found at.
\* One call reads one page, whatever the others look like.
Found(f) ==
    {row \in UNION {{[page |-> p, slot |-> i, record |-> f[p].slots[i].record] :
                        i \in DOMAIN f[p].slots} : p \in {q \in DOMAIN f : f[q] # Corrupt}} :
        Reads(f[row.page], row.slot, row.record)}

\* A scan reads all pages and fails as a whole at the first that does not load;
\* the Load of a catalog does the same.
ScanAnswers == ~ragged /\ \A p \in DOMAIN pages : Readable(p)
Scan == [answers |-> ScanAnswers, rows |-> IF ScanAnswers THEN Found(pages) ELSE {}]

\* "A stored RID is stable for the records Phase 2 can create"
\* (docs/STORAGE_PHASE2.md): whatever record was ever found at a record id,
\* acknowledged or not, is found there until the file is opened anew.
RidsStable == [][last'.op # "Restart" => Found(pages) \subseteq Found(pages')]_vars

\* An insert that reports ok has added exactly its record: Read finds it, and a
\* scan that answered goes on answering, with that record and no other besides.
\* An insert that fails at the device leaves one record at most, and one that is
\* refused leaves none.  What a refusal can do is to end all scans: a record that
\* fits no page is refused after a page was added for it (EveryPageIsSlotted).
InsertAddsOneRow ==
    [][last'.op = "Insert" =>
        LET new == Found(pages') \ Found(pages)
        IN  /\ last'.code = "ok" =>
                  /\ new = acked' \ acked /\ new # {}
                  /\ ScanAnswers => Scan' = [answers |-> TRUE, rows |-> Scan.rows \cup new]
            /\ last'.code = "io" => \A row, other \in new : row = other
            /\ last'.code \in {"corruption", "resource_exhausted"} =>
                  /\ new = {}
                  /\ Scan' # Scan => Len(pages') > Len(pages) /\ ~ScanAnswers']_vars

\* "Catalog and heap pages use the same slotted-page layout after the common
\* header" (docs/STORAGE_PHASE2.md): no page of the file is left without it.
EveryPageIsSlotted ==
    \A p \in DOMAIN pages : pages[p] # Corrupt => Validate(pages[p])
=============================================================================
