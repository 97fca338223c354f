----------------------------- MODULE BufferPool -----------------------------
(***************************************************************************)
(* BufferPoolManager and its PinnedPage guards over one page file          *)
(* (src/storage/buffer_pool.cpp).  The pool is single threaded: a public   *)
(* call runs to completion, so a call is one action, with one disjunct per *)
(* way it can end.  What interleaves are the calls made through several    *)
(* live guards, device faults inside a call, and restarts between calls.   *)
(***************************************************************************)
EXTENDS DiskManager, SequencesExt

CONSTANTS
    FrameCount,   \* frames of the pool
    Guards,       \* PinnedPage objects the clients own
    NoPage,       \* an empty frame
    NoFrame       \* no page table entry

ASSUME PoolConstants ==
    /\ FrameCount \in Nat \ {0}
    /\ NoPage \notin MemPage
    /\ NoFrame \notin Nat
    /\ IsFiniteSet(Guards)

VARIABLES
    open,         \* the BufferPoolManager object exists
    frames,       \* frames_: cached page, pin count and dirty flag
    page_table,   \* page_table_: page id -> frame
    lru,          \* unpinned_lru_: evictable frames, oldest release first
    guards,       \* the PinnedPage objects: page id, frame pointer, dirty_
    last          \* the last call and the code it returned

poolVars == <<open, frames, page_table, lru, guards>>
vars == <<fileVars, poolVars, last>>

Frames == 0 .. (FrameCount - 1)
EmptyFrame == [page |-> NoPage, pin |-> 0, dirty |-> FALSE]
Released == [page |-> InvalidPageId, frame |-> NoFrame, dirty |-> FALSE]

Codes == {"ok", "invalid_argument", "out_of_range", "not_found",
          "resource_exhausted", "io", "corruption", "unsupported", "internal"}
Calls == {"Open", "Close", "Crash", "FetchPage", "NewPage", "mutable_page",
          "Release", "Move", "FlushPage", "FlushAllPages", "DeletePage"}

Returns(op, code) == last' = [op |-> op, code |-> code]

PoolTypeOK ==
    /\ open \in BOOLEAN
    /\ frames \in [Frames -> [page : MemPage \cup {NoPage}, pin : Nat, dirty : BOOLEAN]]
    /\ page_table \in [PageId -> Frames \cup {NoFrame}]
    /\ lru \in Seq(Frames)
    /\ guards \in [Guards -> [page : 0 .. MaxPages, frame : Frames \cup {NoFrame},
                              dirty : BOOLEAN]]

TypeOK ==
    /\ FileTypeOK
    /\ PoolTypeOK
    /\ last \in [op : Calls, code : Codes]

Init ==
    /\ FileInit
    /\ open = TRUE
    /\ frames = [f \in Frames |-> EmptyFrame]
    /\ page_table = [p \in PageId |-> NoFrame]
    /\ lru = << >>
    /\ guards = [g \in Guards |-> Released]
    /\ last = [op |-> "Open", code |-> "ok"]

-----------------------------------------------------------------------------
(* Frames, pages and guards.

   A definition whose name says what is wrong with it (RemoveFromReplacerForgotten,
   MoveWithoutRelease, ...) is a faulty variant of the definition after it.  Nothing uses
   it: it records which mistake in the code a property is there to catch. *)
Holds(f) == frames[f].page # NoPage
Resident(p) == p \in PageId /\ page_table[p] # NoFrame
Live(g) == guards[g].frame # NoFrame

(* The replacer: RemoveFromReplacer erases the first occurrence, if any, and
   AddToReplacer re-enters a frame at the newest end. *)
RemoveFromReplacerForgotten(q, f) == q
RemoveFromReplacer(q, f) == RemoveFirst(q, f)
AddToReplacerForgotten(q, f) == RemoveFromReplacer(q, f)
AddToReplacer(q, f) == Append(RemoveFromReplacer(q, f), f)

\* AcquireFrame: the first empty frame, otherwise the oldest evictable one.
AcquireFrame(f) ==
    IF \E e \in Frames : ~Holds(e)
    THEN f \in Frames /\ ~Holds(f) /\ \A e \in Frames : e < f => Holds(e)
    ELSE lru # << >> /\ f = Head(lru)

NoFrameAvailable == lru = << >> /\ \A e \in Frames : Holds(e)

-----------------------------------------------------------------------------
(* FlushFrame: nothing for an empty or clean frame; otherwise Finalize the
   page, write it, and only after a successful write clear the dirty flag.  A
   failed write leaves the frame dirty with a finalized page. *)
NeedsFlush(f) == Holds(f) /\ frames[f].dirty
FlushErrors(f) == IF NeedsFlush(f) THEN WriteErrors(Finalize(frames[f].page)) ELSE {}
CanFlush(f) == NeedsFlush(f) => WriteOk(Finalize(frames[f].page))

FinalizedAndClean(f) == [frames[f] EXCEPT !.page = Finalize(@), !.dirty = FALSE]
Finalized(f) == [frames[f] EXCEPT !.page = Finalize(@)]
Flushed(f) == IF NeedsFlush(f) THEN [Finalized(f) EXCEPT !.dirty = FALSE] ELSE frames[f]

\* The file once the frames in F have been flushed (no two frames hold the
\* same page, see PageTableExact, so the writer of a position is unique).
Writers(F, p) == {f \in F : NeedsFlush(f) /\ frames[f].page.id = p}
DiskWith(F) ==
    [p \in PageId |->
        IF Writers(F, p) = {} THEN disk[p]
        ELSE frames[CHOOSE f \in Writers(F, p) : TRUE].page.data]

\* What the file may be when the frames below k are flushed and k fails.
DiskAfterFailure(k) ==
    {[DiskWith(0 .. (k - 1)) EXCEPT ![frames[k].page.id] = v] :
        v \in FailedOverwrite(Finalize(frames[k].page))}

FlushFails(f, op) ==
    /\ \E code \in FlushErrors(f) : Returns(op, code)
    /\ frames' = [frames EXCEPT ![f] = Finalized(f)]
    /\ \E v \in FailedOverwrite(Finalize(frames[f].page)) :
          disk' = [disk EXCEPT ![frames[f].page.id] = v]
    /\ UNCHANGED <<size, tail, open, page_table, lru, guards>>

(* PrepareFrameForUse: an empty frame is ready; a frame in use is refused if
   pinned, flushed if dirty, and then evicted. *)
VictimPinned(f) == Holds(f) /\ frames[f].pin # 0
CanPrepare(f) == ~VictimPinned(f) /\ CanFlush(f)
TableWithout(f) ==
    IF Holds(f) THEN [page_table EXCEPT ![frames[f].page.id] = NoFrame] ELSE page_table
LruWithout(f) == IF Holds(f) THEN RemoveFromReplacer(lru, f) ELSE lru

PrepareFails(f, op) ==
    IF VictimPinned(f)
    THEN Returns(op, "internal") /\ UNCHANGED <<fileVars, poolVars>>
    ELSE FlushFails(f, op)

(* PinFrame: a new guard with a pointer to the frame and a clean flag. *)
PinFrame(g, f, p) ==
    guards' = [guards EXCEPT ![g] = [page |-> p, frame |-> f, dirty |-> FALSE]]

(* UnpinPage: looks the page up again by id; the dirty flag of the guard
   reaches the frame here and nowhere else. *)
UnpinCode(p) ==
    IF ~Resident(p) THEN "internal"
    ELSE IF frames[page_table[p]].pin = 0 THEN "internal"
    ELSE "ok"

UnpinPageOverwritesDirty(p, dirty) ==
    LET f == page_table[p]
    IN /\ frames' = [frames EXCEPT ![f] = [frames[f] EXCEPT !.pin = @ - 1, !.dirty = dirty]]
       /\ lru' = IF frames[f].pin = 1 THEN AddToReplacer(lru, f) ELSE lru

UnpinPage(p, dirty) ==
    IF UnpinCode(p) # "ok" THEN UNCHANGED <<frames, lru>>
    ELSE LET f == page_table[p]
         IN /\ frames' = [frames EXCEPT ![f] =
                    [frames[f] EXCEPT !.pin = @ - 1, !.dirty = IF dirty THEN TRUE ELSE @]]
            /\ lru' = IF frames[f].pin = 1 THEN AddToReplacer(lru, f) ELSE lru

-----------------------------------------------------------------------------
(* FetchPage. *)
FetchErrors(p) ==
    IF p = InvalidPageId THEN {"invalid_argument"}
    ELSE IF Resident(p) THEN (IF Holds(page_table[p]) THEN {} ELSE {"internal"})
    ELSE IF NoFrameAvailable THEN {"resource_exhausted"}
    ELSE ReadErrors(p)

FetchRefused(p) ==
    /\ open
    /\ \E code \in FetchErrors(p) : Returns("FetchPage", code)
    /\ UNCHANGED <<fileVars, poolVars>>

FetchHit(g, p) ==
    /\ open /\ ~Live(g)
    /\ Resident(p) /\ Holds(page_table[p])
    /\ frames' = [frames EXCEPT ![page_table[p]].pin = @ + 1]
    /\ lru' = RemoveFromReplacer(lru, page_table[p])
    /\ PinFrame(g, page_table[p], p)
    /\ Returns("FetchPage", "ok")
    /\ UNCHANGED <<fileVars, open, page_table>>

\* The page was read before the victim is touched, so a miss that fails here
\* has changed no more than the victim's checksum.
FetchEvictFails(p) ==
    /\ open
    /\ p \in PageId /\ ~Resident(p) /\ ReadOk(p)
    /\ \E f \in Frames : AcquireFrame(f) /\ PrepareFails(f, "FetchPage")

FetchMiss(g, p) ==
    /\ open /\ ~Live(g)
    /\ p \in PageId /\ ~Resident(p) /\ ReadOk(p)
    /\ \E f \in Frames :
          /\ AcquireFrame(f) /\ CanPrepare(f)
          /\ disk' = DiskWith({f})
          /\ frames' = [frames EXCEPT ![f] =
                [page |-> [id |-> p, data |-> disk[p], sum |-> disk[p]],
                 pin |-> 1, dirty |-> FALSE]]
          /\ page_table' = [TableWithout(f) EXCEPT ![p] = f]
          /\ lru' = LruWithout(f)
          /\ PinFrame(g, f, p)
    /\ Returns("FetchPage", "ok")
    /\ UNCHANGED <<size, tail, open>>

-----------------------------------------------------------------------------
(* NewPage: evicts first, then materializes the page in the file to reserve
   its id, then caches it clean. *)
NewPageErrors ==
    IF ~PageCountOk THEN {"corruption"}
    ELSE (IF size = InvalidPageId \/ NoFrameAvailable THEN {"resource_exhausted"}
          ELSE {}) \cup CanFail("read")

NewPageRefused ==
    /\ open
    /\ \E code \in NewPageErrors : Returns("NewPage", code)
    /\ UNCHANGED <<fileVars, poolVars>>

NewPageEvictFails ==
    /\ open /\ PageCountOk /\ size # InvalidPageId
    /\ \E f \in Frames : AcquireFrame(f) /\ PrepareFails(f, "NewPage")

NewPageWriteFails ==
    /\ open /\ PageCountOk /\ size # InvalidPageId
    /\ \E code \in WriteErrors(NewImage(size)) : Returns("NewPage", code)
    /\ \E f \in Frames :
          /\ AcquireFrame(f) /\ CanPrepare(f)
          /\ disk' = DiskWith({f})
          /\ frames' = [frames EXCEPT ![f] =
                [page |-> NoPage, pin |-> frames[f].pin, dirty |-> FALSE]]
          /\ page_table' = TableWithout(f)
          /\ lru' = LruWithout(f)
    /\ tail' \in FailedAppendTail
    /\ UNCHANGED <<size, open, guards>>

NewPage(g) ==
    /\ open /\ ~Live(g)
    /\ PageCountOk /\ size # InvalidPageId /\ WriteOk(NewImage(size))
    /\ \E f \in Frames :
          /\ AcquireFrame(f) /\ CanPrepare(f)
          /\ disk' = [DiskWith({f}) EXCEPT ![size] = Blank]
          /\ frames' = [frames EXCEPT ![f] =
                [page |-> NewImage(size), pin |-> 1, dirty |-> FALSE]]
          /\ page_table' = [TableWithout(f) EXCEPT ![size] = f]
          /\ lru' = LruWithout(f)
          /\ PinFrame(g, f, size)
    /\ size' = size + 1
    /\ Returns("NewPage", "ok")
    /\ UNCHANGED <<tail, open>>

-----------------------------------------------------------------------------
(* The guard: mutable_page, Release (also the destructor) and move. *)

\* The caller writes through the frame pointer.  Writing the payload leaves the
\* stored checksum alone; assigning a finalized page brings a matching one.
MutablePage(g, d) ==
    /\ open /\ Live(g)
    /\ guards' = [guards EXCEPT ![g].dirty = TRUE]
    /\ \E s \in {frames[guards[g].frame].page.sum, d} :
          frames' = [frames EXCEPT ![guards[g].frame].page =
                        [@ EXCEPT !.data = d, !.sum = s]]
    /\ Returns("mutable_page", "ok")
    /\ UNCHANGED <<fileVars, open, page_table, lru>>

Release(g) ==
    /\ open /\ Live(g)
    /\ UnpinPage(guards[g].page, guards[g].dirty)
    /\ guards' = [guards EXCEPT ![g] = Released]
    /\ Returns("Release", UnpinCode(guards[g].page))
    /\ UNCHANGED <<fileVars, open, page_table>>

MoveWithoutRelease(from, to) ==
    /\ open /\ Live(from) /\ from # to
    /\ guards' = [guards EXCEPT ![to] = guards[from], ![from] = Released]
    /\ Returns("Move", "ok")
    /\ UNCHANGED <<fileVars, open, frames, lru, page_table>>

\* `to = std::move(from)`: a pin that `to` still owns is released first.
Move(from, to) ==
    /\ open /\ Live(from) /\ from # to
    /\ IF Live(to) THEN UnpinPage(guards[to].page, guards[to].dirty)
                   ELSE UNCHANGED <<frames, lru>>
    /\ guards' = [guards EXCEPT ![to] = guards[from], ![from] = Released]
    /\ Returns("Move", IF Live(to) THEN UnpinCode(guards[to].page) ELSE "ok")
    /\ UNCHANGED <<fileVars, open, page_table>>

-----------------------------------------------------------------------------
(* Flushing and deletion. *)
FlushPageMissing(p) ==
    /\ open /\ ~Resident(p)
    /\ Returns("FlushPage", "not_found")
    /\ UNCHANGED <<fileVars, poolVars>>

FlushPageFails(p) ==
    /\ open /\ Resident(p)
    /\ FlushFails(page_table[p], "FlushPage")

FlushPage(p) ==
    /\ open /\ Resident(p) /\ CanFlush(page_table[p])
    /\ frames' = [frames EXCEPT ![page_table[p]] = Flushed(page_table[p])]
    /\ disk' = DiskWith({page_table[p]})
    /\ Returns("FlushPage", "ok")
    /\ UNCHANGED <<size, tail, open, page_table, lru, guards>>

\* Frames are flushed in index order; the first failure ends the loop.
FlushAllPagesFails(k) ==
    /\ open
    /\ \A f \in 0 .. (k - 1) : CanFlush(f)
    /\ \E code \in FlushErrors(k) : Returns("FlushAllPages", code)
    /\ frames' = [f \in Frames |-> IF f < k THEN Flushed(f)
                                   ELSE IF f = k THEN Finalized(f) ELSE frames[f]]
    /\ disk' \in DiskAfterFailure(k)
    /\ UNCHANGED <<size, tail, open, page_table, lru, guards>>

FlushUnpinnedPages ==
    LET F == {f \in Frames : frames[f].pin = 0}
    IN /\ open
       /\ \A f \in F : CanFlush(f)
       /\ frames' = [f \in Frames |-> IF f \in F THEN Flushed(f) ELSE frames[f]]
       /\ disk' = DiskWith(F)
       /\ Returns("FlushAllPages", "ok")
       /\ UNCHANGED <<size, tail, open, page_table, lru, guards>>

FlushAllPages ==
    /\ open
    /\ \A f \in Frames : CanFlush(f)
    /\ frames' = [f \in Frames |-> Flushed(f)]
    /\ disk' = DiskWith(Frames)
    /\ \E code \in {"ok"} \cup CanFail("read") : Returns("FlushAllPages", code)
    /\ UNCHANGED <<size, tail, open, page_table, lru, guards>>

InUseUnchecked(p) == FALSE
InUse(p) == Resident(p) /\ frames[page_table[p]].pin # 0

DeleteRefusals(p) ==
    IF p = InvalidPageId THEN {"invalid_argument"}
    ELSE IF InUse(p) THEN {"resource_exhausted"}
    ELSE DeleteErrors(p)

DeletePageRefused(p) ==
    /\ open
    /\ \E code \in DeleteRefusals(p) : Returns("DeletePage", code)
    /\ UNCHANGED <<fileVars, poolVars>>

DeletePage(p) ==
    /\ open /\ p \in PageId /\ DeleteOk(p)
    /\ ~InUse(p)
    /\ size' = p
    /\ disk' = [disk EXCEPT ![p] = Absent]
    /\ IF Resident(p)
       THEN /\ frames' = [frames EXCEPT ![page_table[p]] = EmptyFrame]
            /\ page_table' = [page_table EXCEPT ![p] = NoFrame]
            /\ lru' = RemoveFromReplacer(lru, page_table[p])
       ELSE UNCHANGED <<frames, page_table, lru>>
    /\ Returns("DeletePage", "ok")
    /\ UNCHANGED <<tail, open, guards>>

-----------------------------------------------------------------------------
(* The life of the pool object. *)
PoolGone ==
    /\ open' = FALSE
    /\ frames' = [f \in Frames |-> EmptyFrame]
    /\ page_table' = [p \in PageId |-> NoFrame]
    /\ lru' = << >>
    /\ guards' = [g \in Guards |-> Released]

\* The destructor flushes every page and ignores the outcome.  It runs after
\* the clients' guards are gone.
Close ==
    /\ open /\ \A g \in Guards : ~Live(g)
    /\ \A f \in Frames : CanFlush(f)
    /\ disk' = DiskWith(Frames)
    /\ PoolGone
    /\ Returns("Close", "ok")
    /\ UNCHANGED <<size, tail>>

CloseLosesPages(k) ==
    /\ open /\ \A g \in Guards : ~Live(g)
    /\ \A f \in 0 .. (k - 1) : CanFlush(f)
    /\ \E code \in FlushErrors(k) : Returns("Close", code)
    /\ disk' \in DiskAfterFailure(k)
    /\ PoolGone
    /\ UNCHANGED <<size, tail>>

\* The process dies.  Dying inside a call is the failed form of that call
\* followed by this step: the file has the writes made so far and the rest of
\* the call's effects were in memory.
Crash ==
    /\ open
    /\ PoolGone
    /\ Returns("Crash", "ok")
    /\ UNCHANGED fileVars

OpenPool ==
    /\ ~open /\ PageCountOk
    /\ open' = TRUE
    /\ Returns("Open", "ok")
    /\ UNCHANGED <<fileVars, frames, page_table, lru, guards>>

OpenPoolFails ==
    /\ ~open
    /\ \E code \in (IF PageCountOk THEN {} ELSE {"corruption"}) \cup CanFail("read") :
          Returns("Open", code)
    /\ UNCHANGED <<fileVars, poolVars>>

-----------------------------------------------------------------------------
AnyPageId == 0 .. MaxPages

Next ==
    \/ \E p \in AnyPageId :
          \/ FetchRefused(p) \/ FetchEvictFails(p)
          \/ FlushPageMissing(p) \/ FlushPageFails(p) \/ FlushPage(p)
          \/ DeletePageRefused(p) \/ DeletePage(p)
    \/ \E g \in Guards :
          \/ \E p \in PageId : FetchHit(g, p) \/ FetchMiss(g, p)
          \/ NewPage(g) \/ Release(g)
          \/ \E d \in Data : MutablePage(g, d)
          \/ \E to \in Guards : Move(g, to)
    \/ NewPageRefused \/ NewPageEvictFails \/ NewPageWriteFails
    \/ FlushAllPages \/ Close \/ Crash \/ OpenPool \/ OpenPoolFails
    \/ \E k \in Frames : FlushAllPagesFails(k) \/ CloseLosesPages(k)

Spec == Init /\ [][Next]_vars

-----------------------------------------------------------------------------
(* Properties. *)

\* page_table_ and the frames describe each other: an entry leads to a frame
\* holding that page, and a frame's page has an entry leading back to it, so no
\* page is cached twice.  Every operation edits the two in separate statements.
PageTableExact ==
    /\ \A p \in PageId : page_table[p] # NoFrame =>
          /\ Holds(page_table[p])
          /\ frames[page_table[p]].page.id = p
    /\ \A f \in Frames : Holds(f) => page_table[frames[f].page.id] = f

\* The frame pointer inside a live guard still refers to the guard's page,
\* whatever has been fetched, evicted, deleted or moved since it was pinned.
GuardsKeepTheirPage ==
    \A g \in Guards : Live(g) =>
        /\ guards[g].page \in PageId
        /\ page_table[guards[g].page] = guards[g].frame

\* A frame's pin count is the number of live guards on it: no release is lost
\* and none is counted twice, through moves and failed calls.
PinsAccounted ==
    \A f \in Frames :
        frames[f].pin = Cardinality({g \in Guards : guards[g].frame = f})

\* unpinned_lru_ lists exactly the frames that may be evicted, each once: no
\* pinned frame can be chosen and no unpinned one is forgotten.
ReplacerExact ==
    /\ IsInjective(lru)
    /\ \A f \in Frames : f \in ToSet(lru) <=> Holds(f) /\ frames[f].pin = 0

\* The three indexes of the pool agree at every return: page table, pin counts
\* and replacer describe one set of frames, whichever call failed half way
\* through an eviction, and in whatever order guards are moved and released.
BookkeepingExact == PageTableExact /\ PinsAccounted /\ ReplacerExact

\* A cached page that nothing marks as modified, neither its frame nor a guard
\* that is still to be released, is what the file holds: dropping the frame
\* without writing it, as eviction does, loses nothing.
NoLostUpdate ==
    \A f \in Frames :
        Holds(f) /\ ~frames[f].dirty
                 /\ (\A g \in Guards : guards[g].frame = f => ~guards[g].dirty)
        => disk[frames[f].page.id] = frames[f].page.data

\* A page that is cached exists in the file, so a flush never leaves a gap.
CachedPagesExist ==
    \A f \in Frames : Holds(f) => frames[f].page.id < size

\* No call reaches one of the pool's kInternal branches: "page table references
\* an empty frame", "selected a pinned frame for eviction", "pinned page is
\* absent", "pin count underflow".
NoInternalError == [][last'.code # "internal"]_vars

\* A call reports corruption only when the file is damaged.  In particular the
\* stale checksum that mutable_page leaves behind never makes the pool's own
\* write-back refuse a page.
CorruptionNeedsDamage ==
    [][last'.code = "corruption" => tail \/ \E p \in PageId : disk[p] = Corrupt]_vars

\* A call is refused for want of a frame, or because the page is pinned, only
\* while guards really hold the pool: frames are never leaked by failed calls.
ExhaustedNeedsPins ==
    [][last'.code = "resource_exhausted" =>
        \/ \A f \in Frames : \E g \in Guards : guards[g].frame = f
        \/ last'.op = "NewPage" /\ size = MaxPages
        \/ last'.op = "DeletePage" /\ \E g \in Guards : Live(g)]_vars

\* What a reader of the pool sees at each page.
Visible ==
    [p \in PageId |-> IF Resident(p) THEN frames[page_table[p]].page.data ELSE disk[p]]

\* When FlushAllPages or the destructor's flush succeeds and no guard holds an
\* unreleased write, the file holds exactly what readers saw.
FlushedMeansDurable ==
    [][/\ last'.op \in {"FlushAllPages", "Close"} /\ last'.code \in {"ok"}
       /\ \A g \in Guards : ~guards[g].dirty
       => disk' = Visible]_vars

\* The pool is a page store: caching, eviction, flushing and failing calls are
\* invisible to readers, a write reaches the file or stays visible, and only a
\* restart falls back to what the file holds.
PS == INSTANCE PageStore WITH store <- Visible, durable <- disk, op <- last.op
ImplementsPageStore == PS!Spec

\* The inductive invariant behind the safety properties.
IInv ==
    /\ FileTypeOK
    /\ PoolTypeOK
    /\ PageTableExact
    /\ GuardsKeepTheirPage
    /\ PinsAccounted
    /\ ReplacerExact
    /\ CachedPagesExist
    /\ NoLostUpdate
=============================================================================
