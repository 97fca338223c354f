---------------------------- MODULE IndexCatalog ----------------------------
(***************************************************************************)
(* IndexCatalogStore (src/storage/index_catalog_store.cpp): the record     *)
(* file indexes/catalog.dat.  A record is one version of an index: its id  *)
(* and its root page.  A root split appends a version and replaces none;   *)
(* Load keeps, for each id, the last version in scan order.                *)
(*                                                                         *)
(* Versions are appended in the order of their roots: the pages of an      *)
(* index file are never freed, so each new root has a higher page id than  *)
(* every root before it.                                                   *)
(***************************************************************************)
EXTENDS RecordFile

CONSTANTS
    IndexIds,   \* ids of indexes
    Roots       \* root page ids

ASSUME IndexCatalogConstants ==
    /\ Records = [id : IndexIds, root : Roots]
    /\ Roots \subseteq Nat
    /\ \A r, s \in Records : r.id = s.id => Size[r] = Size[s]

VARIABLE
    unusable    \* indexes that refuse every INSERT since an append of theirs failed

catalogVars == <<vars, unusable>>

CatalogInit == Init /\ unusable = {}

-----------------------------------------------------------------------------
\* Scan order: by page, then by slot.
Before(v, w) == v.page < w.page \/ (v.page = w.page /\ v.slot < w.slot)

\* The records of an index that Load comes by; it fails when the scan does.
Versions(id) == {row \in Scan.rows : row.record.id = id}

\* latest_by_id after Load: each version overwrites the one before it.
FirstVersion(id, v) == v \in Versions(id) /\ \A w \in Versions(id) : w = v \/ Before(v, w)
Latest(id, v) == v \in Versions(id) /\ \A w \in Versions(id) : w = v \/ Before(w, v)

\* The caller appends a root allocated after every root of the index so far.  If
\* an append fails it keeps the old root, which by then has a parent, so that
\* opening the tree fails and no version follows until the database is reopened.
IsNewVersion(r) ==
    /\ r.id \notin unusable
    /\ \A v \in Found(pages) : v.record.id = r.id => v.record.root < r.root
    /\ \A a \in acked : a.record.id = r.id => a.record.root < r.root

AppendVersion(r) ==
    /\ IsNewVersion(r)
    /\ InsertAny(r)
    /\ unusable' = IF last'.op = "Restart" THEN {}
                   ELSE IF last'.code = "ok" THEN unusable ELSE unusable \cup {r.id}

ReopenOrFlush ==
    /\ Background
    /\ unusable' = IF last'.op = "Restart" THEN {} ELSE unusable

CatalogNext == ReopenOrFlush \/ \E r \in Records : AppendVersion(r)

CatalogSpec == CatalogInit /\ [][CatalogNext]_catalogVars

-----------------------------------------------------------------------------
(* Properties. *)

\* "Load returns the newest record per IndexId" (index_catalog_store.h): an index
\* with an acknowledged version is found by Load, and the version Load keeps is
\* at least as new.  Records are placed first-fit, so this rests on versions of
\* one index having one size and on pages never regaining room.
LoadReturnsNewest ==
    ScanAnswers => \A a \in acked :
        /\ Versions(a.record.id) # {}
        /\ \A v \in Versions(a.record.id) :
              Latest(a.record.id, v) => v.record.root >= a.record.root
=============================================================================
