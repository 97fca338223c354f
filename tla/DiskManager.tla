---------------------------- MODULE DiskManager ----------------------------
(***************************************************************************)
(* One fixed-page file, as DiskManager (src/storage/disk_manager.cpp) sees *)
(* it: `size` whole pages, the content of each, and whether the file ends  *)
(* in a partial page.  A page on disk is its payload when its header and   *)
(* checksum verify and Corrupt when Page::Deserialize rejects it.          *)
(*                                                                         *)
(* A page in memory is a record [id, data, sum]: `sum` is the payload the  *)
(* stored checksum was last computed for, so the page verifies exactly     *)
(* when sum = data.  Page::Finalize recomputes it.                         *)
(***************************************************************************)
EXTENDS Naturals, Sequences

CONSTANTS
    MaxPages,   \* kInvalidValue of PageId: valid page ids are 0 .. MaxPages-1
    Data,       \* payloads a client may store
    Blank,      \* the zeroed payload Page::Create makes
    Corrupt,    \* a stored page that fails verification
    Absent,     \* no page at this position of the file
    Faults      \* what the device may do: fail to "read", fail to "write",
                \* or "tear" a failing write, leaving part of it behind

ASSUME DiskConstants ==
    /\ MaxPages \in Nat \ {0}
    /\ Blank \in Data
    /\ Corrupt \notin Data
    /\ Absent \notin Data \cup {Corrupt}
    /\ Faults \subseteq {"read", "write", "tear"}
    /\ "tear" \in Faults => "write" \in Faults

VARIABLES
    disk,       \* disk[p]: what the file holds at page position p
    size,       \* number of whole pages in the file
    tail        \* TRUE when the file length is not a multiple of the page size

fileVars == <<disk, size, tail>>

InvalidPageId == MaxPages
PageId == 0 .. (MaxPages - 1)
MemPage == [id : PageId, data : Data, sum : Data]

FileTypeOK ==
    /\ disk \in [PageId -> Data \cup {Corrupt, Absent}]
    /\ size \in 0 .. MaxPages
    /\ tail \in BOOLEAN
    /\ \A p \in PageId : disk[p] = Absent <=> p >= size

\* DiskManager::Open with create_if_missing on a path that does not exist.
FileInit ==
    /\ disk = [p \in PageId |-> Absent]
    /\ size = 0
    /\ tail = FALSE

-----------------------------------------------------------------------------
(* Page::Create and Page::Finalize. *)
NewImage(p) == [id |-> p, data |-> Blank, sum |-> Blank]
FinalizeKeepsChecksum(page) == page
Finalize(page) == [page EXCEPT !.sum = page.data]
Verifies(page) == page.sum = page.data

(***************************************************************************)
(* The operations.  Each names the error code the call can return from the *)
(* present state; a call with an empty set of refusals can succeed.  An    *)
(* environment fault adds "io" where the corresponding stream can fail.    *)
(***************************************************************************)
CanFail(fault) == IF fault \in Faults THEN {"io"} ELSE {}

PageCountOk == ~tail

\* DiskManager::ReadPage: range check, stream read, Page::Deserialize.
ReadRefusal(p) ==
    IF p >= size THEN {"out_of_range"}
    ELSE IF disk[p] = Corrupt THEN {"corruption"}
    ELSE {}

ReadErrors(p) == ReadRefusal(p) \cup CanFail("read")

ReadOk(p) == ReadRefusal(p) = {}

\* DiskManager::WritePage: verify, PageCount, gap check, stream write.
WriteRefusal(page) ==
    IF ~Verifies(page) \/ ~PageCountOk THEN {"corruption"}
    ELSE IF page.id > size THEN {"out_of_range"}
    ELSE {}

WriteOk(page) == WriteRefusal(page) = {}

\* Errors of a write call, refusals and stream failures together.
WriteErrors(page) ==
    WriteRefusal(page) \cup CanFail("write")

\* What a failed overwrite of a page may leave at its position: a refused or
\* unstarted write leaves the old page, a short one a page that fails its
\* checksum.
FailedOverwrite(page) ==
    {disk[page.id]} \cup
        (IF WriteOk(page) /\ "tear" \in Faults THEN {Corrupt} ELSE {})

\* A failed append leaves no new page, and after a short write a partial one.
FailedAppendTail == IF "tear" \in Faults THEN BOOLEAN ELSE {FALSE}

\* DiskManager::DeletePage: only the final page, by truncation.
DeleteErrors(p) ==
    CanFail("write") \cup
        (IF ~PageCountOk THEN {"corruption"}
         ELSE IF p >= size THEN {"out_of_range"}
         ELSE IF p # size - 1 THEN {"unsupported"}
         ELSE {})

DeleteAnyOk(p) == PageCountOk /\ p < size
DeleteOk(p) == PageCountOk /\ p + 1 = size
=============================================================================
