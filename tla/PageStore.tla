----------------------------- MODULE PageStore -----------------------------
(***************************************************************************)
(* What a buffer pool promises its clients, without frames, pins, dirty    *)
(* flags or replacement: a growing array of pages.  `store` is what a      *)
(* reader sees now, `durable` is what would be found after the pool is     *)
(* gone, `op` is the call that was last made.  Caching may move contents   *)
(* from store to durable in any call, and changes what a reader sees in    *)
(* none.  A failed device write may spoil a durable page, but a reader of  *)
(* the live pool still sees the right one.                                 *)
(***************************************************************************)
EXTENDS Naturals

CONSTANTS MaxPages, Data, Blank, Corrupt, Absent

VARIABLES
    store,      \* store[p]: the content a fetch of page p yields
    durable,    \* durable[p]: the content of page p in the file
    op          \* the call last made

storeVars == <<store, durable, op>>

StorePage == 0 .. (MaxPages - 1)
Calls == {"Open", "Close", "Crash", "FetchPage", "NewPage", "mutable_page",
          "Release", "Move", "FlushPage", "FlushAllPages", "DeletePage"}

Init ==
    /\ store = [p \in StorePage |-> Absent]
    /\ durable = store
    /\ op = "Open"

\* The durable image of each of these pages stays, catches up with what readers
\* see, or is spoiled by a failed write.
WriteBack(pages) ==
    \A p \in pages :
        durable'[p] \in
            {durable[p]} \cup (IF store[p] = Absent THEN {} ELSE {store[p], Corrupt})

\* A client overwrites a page it holds.
Put(p, d) ==
    /\ op' = "mutable_page"
    /\ store[p] \notin {Absent, Corrupt}
    /\ store' = [store EXCEPT ![p] = d]
    /\ UNCHANGED durable

\* A page is added after the last one, readable and durable at once; making
\* room for it may write others back.
Alloc(p) ==
    /\ op' = "NewPage"
    /\ store[p] = Absent
    /\ \A q \in StorePage : q < p => store[q] # Absent
    /\ store' = [store EXCEPT ![p] = Blank]
    /\ durable'[p] = Blank
    /\ WriteBack(StorePage \ {p})

\* The last page is removed.
DropLast(p) ==
    /\ op' = "DeletePage"
    /\ store[p] # Absent
    /\ \A q \in StorePage : q > p => store[q] = Absent
    /\ store' = [store EXCEPT ![p] = Absent]
    /\ durable' = [durable EXCEPT ![p] = Absent]

\* Any call may also fail, or only read or cache: invisible to readers.
Sync ==
    /\ op' \in Calls
    /\ UNCHANGED store
    /\ WriteBack(StorePage)

\* The pool goes away, orderly or not: readers are left with what is durable.
Restart ==
    /\ op' \in {"Close", "Crash"}
    /\ WriteBack(StorePage)
    /\ store' = durable'

Next ==
    \/ Sync
    \/ Restart
    \/ \E p \in StorePage :
          \/ \E d \in Data : Put(p, d)
          \/ Alloc(p)
          \/ DropLast(p)

Spec == Init /\ [][Next]_storeVars
=============================================================================
