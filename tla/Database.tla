------------------------------ MODULE Database ------------------------------
(***************************************************************************)
(* A persistent database: Database and Executor (src/database.cpp,         *)
(* src/execution/executor.cpp) over PersistentStorage                      *)
(* (src/storage/persistent_storage.cpp), which keeps the in-memory         *)
(* catalog, a heap file per table, a B+ tree file per index and the two    *)
(* catalog files in step.  A statement is a sequence of steps, one for     *)
(* each file it changes, and stops at the first that fails.                *)
(*                                                                         *)
(* The files are those of RecordFile, IndexCatalog and BPlusTree with      *)
(* their pages abstracted: the records of a file fit its first page, so    *)
(* that scan order is the order of the appends and a record id is a        *)
(* position, and a tree is the keys a descent finds.  A record too large   *)
(* for any page is one whose append is refused.  Refusals that change      *)
(* nothing are left out, as are reads the device fails.                    *)
(***************************************************************************)
EXTENDS Catalog, Sequences, FiniteSetsExt

CONSTANTS
    Keys,       \* values of the columns
    MaxRows,    \* bound on the rows of a table
    MaxInUse,   \* bound on the rows of all tables
    MaxFaults   \* bound on device errors and crashes

ASSUME DatabaseConstants ==
    MaxRows \in Nat /\ MaxInUse \in Nat /\ MaxFaults \in Nat

VARIABLES
    trees,       \* indexes_by_id_ of PersistentStorage
    metadata,    \* database.meta: "absent", "short" or "whole"
    catalogFile, \* catalog.dat: records of tables
    indexFile,   \* indexes/catalog.dat: versions of indexes
    heaps,       \* tables/<id>.dat: the rows of each table file
    treeFiles,   \* indexes/<id>.dat: the tree of each index file
    stmt,        \* the statement, or the opening, in progress
    acked,       \* history: the tables and rows of statements that returned ok
    faults       \* history: the number of faults so far

files == <<metadata, catalogFile, indexFile, heaps, treeFiles>>
vars == <<catalogVars, trees, files, stmt, acked, faults>>

Rows == [Columns -> Keys]

(* A file of records as readers see it, and how many of them it holds; they
   differ after a write that reached the cache and failed to reach the file.  The
   first page of a "spoiled" file is blank or fails its checksum, until the next
   write of it; a "blank" file has a blank page behind the first, and a "ragged"
   one is no multiple of the page size, for good. *)
Flaws == {"spoiled", "blank", "ragged"}
File(Rec) == [recs : Seq(Rec), stored : Nat, flaws : SUBSET Flaws]
EmptyFile == [recs |-> << >>, stored |-> 0, flaws |-> {}]

\* The first page can be read, from the cache if not from the file.
Readable(f) == f.recs = << >> => "spoiled" \notin f.flaws

\* A record that fits the first page is taken; a scan needs every page.
Takes(f) == Readable(f) /\ "ragged" \notin f.flaws
Loads(f) == Takes(f) /\ "blank" \notin f.flaws

Cached(f, r) == [f EXCEPT !.recs = Append(@, r)]
Flushed(f) ==
    [recs |-> f.recs, stored |-> Len(f.recs),
     flaws |-> IF f.recs = << >> THEN f.flaws ELSE f.flaws \ {"spoiled"}]
Lost(f) == [f EXCEPT !.recs = SubSeq(@, 1, f.stored)]
Spoiled(f) == [recs |-> f.recs, stored |-> 0, flaws |-> f.flaws \cup {"spoiled"}]
Flawed(f, flaw) == [f EXCEPT !.flaws = @ \cup {flaw}]

\* A write rewrites the page, with the records an earlier one left in the cache.
Written(f, r) == Flushed(Cached(f, r))

\* A record too large for an empty page leaves the page it was to go into, if all
\* the pages before can be read.
Refused(f) == IF Loads(f) THEN Flawed(f, IF f.recs = << >> THEN "spoiled" ELSE "blank") ELSE f

\* A write that fails: nothing written, the append of a page cut off or left
\* blank, or the record in the cache over the old page or over a torn one.
FailedWrites(f, r) ==
    {f, Refused(f), Spoiled(Cached(f, r))}
    \cup (IF Loads(f) THEN {Flawed(f, "ragged")} ELSE {})
    \cup (IF f.recs = << >> THEN {} ELSE {Cached(f, r)})

\* The destructor's write, which a ragged file refuses, and what can become of the
\* file when that write fails or is never made.
WrittenOut(f) == IF "ragged" \in f.flaws THEN Lost(f) ELSE Flushed(f)
Losses(f) ==
    {WrittenOut(f), Lost(f)}
    \cup (IF f.stored = Len(f.recs) \/ "ragged" \in f.flaws THEN {} ELSE {Lost(Spoiled(f))})

\* One of each of a family of sets.
OneOfEach(sets) ==
    {f \in [DOMAIN sets -> UNION {sets[x] : x \in DOMAIN sets}] :
        \A x \in DOMAIN sets : f[x] \in sets[x]}

(* A tree: the keys a descent from its root finds, its root, and its pages: all
   written, or some of them only in the cache, or "broken", of different ages or
   half changed, so that a descent may miss any key and found is not kept. *)
Tree == [found : UNION {[S -> 1 .. MaxRows] : S \in SUBSET Keys},
         root : Roots \cup {NoRoot},
         pages : {"written", "dirty", "broken"}]

BrokenTrees(roots) == {[found |-> Empty, root |-> r, pages |-> "broken"] : r \in roots}

\* An insert that fails has made a new root or not.
Damaged(tree) == BrokenTrees({tree.root, tree.root + 1} \cap Roots)

\* Dropping pages leaves older ones, with an older root or none.
Reverted(tree) == BrokenTrees({NoRoot} \cup {r \in Roots : r <= tree.root})

TableRecord == [id : Ids, name : TableNames]
TreeEntry == [name : IndexNames, table : Ids, column : Columns, root : Roots]
Version == [id : Ids, entry : TreeEntry]

Statement ==
    [phase : {"idle", "closed", "refused"}]
    \cup [phase : {"table_file", "table_record", "index_file", "index_record"}, id : Ids]
    \cup [phase : {"index_row", "version"}, table : Ids, rid : 1 .. MaxRows, todo : SUBSET Ids]
    \cup [phase : {"load_tables"}, next : Nat]
    \cup [phase : {"load_indexes"}, todo : SUBSET Ids]

DatabaseTypeOK ==
    /\ CatalogTypeOK
    /\ trees \in [DOMAIN trees -> TreeEntry]
    /\ metadata \in {"absent", "short", "whole"}
    /\ catalogFile \in File(TableRecord) /\ catalogFile.stored <= Len(catalogFile.recs)
    /\ indexFile \in File(Version) /\ indexFile.stored <= Len(indexFile.recs)
    /\ heaps \in [DOMAIN heaps -> File(Rows)] /\ DOMAIN heaps \subseteq Ids
    /\ \A t \in DOMAIN heaps : heaps[t].stored <= Len(heaps[t].recs)
    /\ treeFiles \in [DOMAIN treeFiles -> Tree] /\ DOMAIN treeFiles \subseteq Ids
    /\ stmt \in Statement
    /\ acked \in [tables : SUBSET TableNames,
                  rows : SUBSET [table : TableNames, rid : Nat, row : Rows]]
    /\ faults \in 0 .. MaxFaults

Init ==
    /\ CatalogInit /\ trees = Empty
    /\ metadata = "absent"
    /\ catalogFile = EmptyFile /\ indexFile = EmptyFile
    /\ heaps = Empty /\ treeFiles = Empty
    /\ stmt = [phase |-> "closed"]
    /\ acked = [tables |-> {}, rows |-> {}]
    /\ faults = 0

In(phase) == stmt.phase = phase
Goto(phase) == stmt' = [phase |-> phase]
Return == Goto("idle")
NoFault == UNCHANGED faults
Fault == faults < MaxFaults /\ faults' = faults + 1

-----------------------------------------------------------------------------
(* CREATE TABLE.  A definition whose name says what is wrong with it is a faulty
   variant of the definition after it, recording which mistake a property guards
   against. *)

BeginCreateTable(name) ==
    /\ In("idle") /\ CreateTable(name)
    /\ stmt' = [phase |-> "table_file", id |-> nextTable]
    /\ NoFault /\ UNCHANGED <<trees, files, acked>>

\* An error of the storage takes the table out of the catalog again.
KeepTable == UNCHANGED catalogVars
UndoTable == RemoveTable(stmt.id)

TableFileExists ==
    /\ In("table_file") /\ stmt.id \in DOMAIN heaps
    /\ UndoTable /\ Return
    /\ NoFault /\ UNCHANGED <<trees, files, acked>>

TableFileFails ==
    /\ In("table_file") /\ stmt.id \notin DOMAIN heaps
    /\ Fault
    /\ heaps' \in {heaps, Put(heaps, stmt.id, EmptyFile)}
    /\ UndoTable /\ Return
    /\ UNCHANGED <<trees, metadata, catalogFile, indexFile, treeFiles, acked>>

MakeTableFile ==
    /\ In("table_file") /\ stmt.id \notin DOMAIN heaps
    /\ heaps' = Put(heaps, stmt.id, EmptyFile)
    /\ stmt' = [stmt EXCEPT !.phase = "table_record"]
    /\ NoFault
    /\ UNCHANGED <<catalogVars, trees, metadata, catalogFile, indexFile, treeFiles, acked>>

NewTableRecord == [id |-> stmt.id, name |-> tables[stmt.id]]

AppendTable ==
    /\ In("table_record") /\ Takes(catalogFile)
    /\ catalogFile' = Written(catalogFile, NewTableRecord)
    /\ acked' = [acked EXCEPT !.tables = @ \cup {tables[stmt.id]}]
    /\ Return
    /\ NoFault
    /\ UNCHANGED <<catalogVars, trees, metadata, indexFile, heaps, treeFiles>>

\* The record is malformed or too large, or a page of the file cannot be read.
AppendTableRefused ==
    /\ In("table_record")
    /\ catalogFile' \in {catalogFile, Refused(catalogFile)}
    /\ heaps' = Without(heaps, stmt.id)
    /\ UndoTable /\ Return
    /\ NoFault /\ UNCHANGED <<trees, metadata, indexFile, treeFiles, acked>>

AppendTableFails ==
    /\ In("table_record") /\ Takes(catalogFile) /\ Fault
    /\ catalogFile' \in FailedWrites(catalogFile, NewTableRecord)
    /\ heaps' = Without(heaps, stmt.id)
    /\ UndoTable /\ Return
    /\ UNCHANGED <<trees, metadata, indexFile, treeFiles, acked>>

-----------------------------------------------------------------------------
(* CREATE INDEX. *)

BeginCreateIndex(name, t, c) ==
    /\ In("idle") /\ CreateIndex(name, t, c)
    /\ stmt' = [phase |-> "index_file", id |-> nextIndex]
    /\ NoFault /\ UNCHANGED <<trees, files, acked>>

KeepIndex == UNCHANGED catalogVars
UndoIndex == RemoveIndex(stmt.id)

IndexFileExists ==
    /\ In("index_file") /\ stmt.id \in DOMAIN treeFiles
    /\ UndoIndex /\ Return
    /\ NoFault /\ UNCHANGED <<trees, files, acked>>

\* The tree gets an entry for each row of the heap, and its splits give it a root.
IsUnique(rows, c) == \A i, j \in DOMAIN rows : rows[i][c] = rows[j][c] => i = j

NoEntries(rows, c) == Empty
Entries(rows, c) ==
    [k \in {rows[i][c] : i \in DOMAIN rows} |-> CHOOSE i \in DOMAIN rows : rows[i][c] = k]

NewTree(found, root) == [found |-> found, root |-> root, pages |-> "dirty"]

IndexedHeap == heaps[indexes[stmt.id].table]
IndexedRows == IndexedHeap.recs
IndexedColumn == indexes[stmt.id].column

BuildIndex ==
    /\ In("index_file") /\ stmt.id \notin DOMAIN treeFiles
    /\ Loads(IndexedHeap) /\ IsUnique(IndexedRows, IndexedColumn)
    /\ \E root \in Roots :
          treeFiles' = Put(treeFiles, stmt.id, NewTree(Entries(IndexedRows, IndexedColumn), root))
    /\ stmt' = [stmt EXCEPT !.phase = "index_record"]
    /\ NoFault
    /\ UNCHANGED <<catalogVars, trees, metadata, catalogFile, indexFile, heaps, acked>>

\* A page of the heap cannot be read, or two rows have one key: the file is
\* removed again.
BuildIndexRefused ==
    /\ In("index_file") /\ stmt.id \notin DOMAIN treeFiles
    /\ Loads(IndexedHeap) => ~IsUnique(IndexedRows, IndexedColumn)
    /\ UndoIndex /\ Return
    /\ NoFault /\ UNCHANGED <<trees, files, acked>>

\* The file is removed, unless the failure was in opening the one just created.
BuildIndexFails ==
    /\ In("index_file") /\ stmt.id \notin DOMAIN treeFiles
    /\ Fault
    /\ \/ UNCHANGED treeFiles
       \/ \E root \in Roots : treeFiles' = Put(treeFiles, stmt.id, NewTree(Empty, root))
    /\ UndoIndex /\ Return
    /\ UNCHANGED <<trees, metadata, catalogFile, indexFile, heaps, acked>>

EntryWithRoot(id) == [indexes[id] EXCEPT !.root = treeFiles[id].root]

AppendIndex ==
    /\ In("index_record") /\ Takes(indexFile)
    /\ LET entry == EntryWithRoot(stmt.id) IN
          /\ indexFile' = Written(indexFile, [id |-> stmt.id, entry |-> entry])
          /\ trees' = Put(trees, stmt.id, entry)
          /\ UpdateIndexRoot(stmt.id, entry.root)
    /\ Return
    /\ NoFault
    /\ UNCHANGED <<metadata, catalogFile, heaps, treeFiles, acked>>

AppendIndexRefused ==
    /\ In("index_record")
    /\ indexFile' \in {indexFile, Refused(indexFile)}
    /\ treeFiles' = Without(treeFiles, stmt.id)
    /\ UndoIndex /\ Return
    /\ NoFault /\ UNCHANGED <<trees, metadata, catalogFile, heaps, acked>>

AppendIndexFails ==
    /\ In("index_record") /\ Takes(indexFile) /\ Fault
    /\ indexFile' \in FailedWrites(indexFile, [id |-> stmt.id, entry |-> EntryWithRoot(stmt.id)])
    /\ treeFiles' = Without(treeFiles, stmt.id)
    /\ UndoIndex /\ Return
    /\ UNCHANGED <<trees, metadata, catalogFile, heaps, acked>>

-----------------------------------------------------------------------------
(* INSERT. *)

TableIndexes(t) == {i \in DOMAIN trees : trees[i].table = t}

\* BPlusTree::Open refuses a root that has got a parent.
Opens(i) == treeFiles[i].root = trees[i].root

NoDuplicateAccepting(t, row) == \A i \in TableIndexes(t) : Opens(i)
Misses(tree, k) == k \notin DOMAIN tree.found \/ tree.pages = "broken"
NoDuplicate(t, row) ==
    \A i \in TableIndexes(t) : Opens(i) /\ Misses(treeFiles[i], row[trees[i].column])

\* Where the rows of all tables are; only the bound on them counts these.
Places == UNION {{[table |-> t, rid |-> n] : n \in DOMAIN heaps[t].recs} : t \in DOMAIN heaps}

CanInsert(t, row) ==
    /\ In("idle") /\ t \in DOMAIN tables /\ NoDuplicate(t, row)
    /\ Takes(heaps[t]) /\ Len(heaps[t].recs) < MaxRows
    /\ Cardinality(Places) < MaxInUse

Acknowledge(t, rid, row) ==
    acked' = [acked EXCEPT !.rows = @ \cup {[table |-> tables[t], rid |-> rid, row |-> row]}]

\* The indexes of the table get their entries in the order of their ids.
Continue(t, rid, row, todo) ==
    IF todo = {}
    THEN Return /\ Acknowledge(t, rid, row)
    ELSE /\ stmt' = [phase |-> "index_row", table |-> t, rid |-> rid, todo |-> todo]
         /\ UNCHANGED acked

RowWrittenInCache(f, row) == Cached(f, row)
RowWritten(f, row) == Written(f, row)

InsertRow(t, row) ==
    /\ CanInsert(t, row)
    /\ heaps' = [heaps EXCEPT ![t] = RowWritten(heaps[t], row)]
    /\ Continue(t, Len(heaps[t].recs) + 1, row, TableIndexes(t))
    /\ NoFault
    /\ UNCHANGED <<catalogVars, trees, metadata, catalogFile, indexFile, treeFiles>>

\* The record of the row is too large.
InsertRowRefused(t, row) ==
    /\ CanInsert(t, row)
    /\ heaps' = [heaps EXCEPT ![t] = Refused(@)]
    /\ NoFault
    /\ UNCHANGED <<catalogVars, trees, metadata, catalogFile, indexFile, treeFiles, stmt, acked>>

InsertRowFails(t, row) ==
    /\ CanInsert(t, row) /\ Fault
    /\ \E f \in FailedWrites(heaps[t], row) : heaps' = [heaps EXCEPT ![t] = f]
    /\ UNCHANGED <<catalogVars, trees, metadata, catalogFile, indexFile, treeFiles, stmt, acked>>

CurrentIndex == Min(stmt.todo)
CurrentRow == heaps[stmt.table].recs[stmt.rid]
CurrentKey == CurrentRow[trees[CurrentIndex].column]

NextIndexOf == Continue(stmt.table, stmt.rid, CurrentRow, stmt.todo \ {CurrentIndex})

WithKey(tree) ==
    IF tree.pages = "broken"
    THEN tree
    ELSE [tree EXCEPT !.found = Put(@, CurrentKey, stmt.rid), !.pages = "dirty"]

IndexRow ==
    /\ In("index_row")
    /\ treeFiles' = [treeFiles EXCEPT ![CurrentIndex] = WithKey(@)]
    /\ NextIndexOf
    /\ NoFault
    /\ UNCHANGED <<catalogVars, trees, metadata, catalogFile, indexFile, heaps>>

\* The insert splits the root.
IndexRowGrows ==
    /\ In("index_row") /\ treeFiles[CurrentIndex].root + 1 \in Roots
    /\ treeFiles' = [treeFiles EXCEPT ![CurrentIndex] =
                        [WithKey(treeFiles[CurrentIndex]) EXCEPT !.root = @ + 1]]
    /\ stmt' = [stmt EXCEPT !.phase = "version"]
    /\ NoFault
    /\ UNCHANGED <<catalogVars, trees, metadata, catalogFile, indexFile, heaps, acked>>

\* An insert into a broken tree needs no fault to fail.
IndexRowFails ==
    /\ In("index_row")
    /\ Fault \/ (treeFiles[CurrentIndex].pages = "broken" /\ NoFault)
    /\ \E tree \in Damaged(treeFiles[CurrentIndex]) :
          treeFiles' = [treeFiles EXCEPT ![CurrentIndex] = tree]
    /\ Return
    /\ UNCHANGED <<catalogVars, trees, metadata, catalogFile, indexFile, heaps, acked>>

NewVersion == [id |-> CurrentIndex,
               entry |-> [trees[CurrentIndex] EXCEPT !.root = treeFiles[CurrentIndex].root]]

NoVersionWritten == indexFile
VersionWritten == Written(indexFile, NewVersion)

RootLeftInCatalog(i, root) == UNCHANGED catalogVars
MoveRoot(i, root) == UpdateIndexRoot(i, root)

AppendVersion ==
    /\ In("version") /\ Takes(indexFile)
    /\ indexFile' = VersionWritten
    /\ MoveRoot(CurrentIndex, NewVersion.entry.root)
    /\ trees' = Put(trees, CurrentIndex, NewVersion.entry)
    /\ NextIndexOf
    /\ NoFault
    /\ UNCHANGED <<metadata, catalogFile, heaps, treeFiles>>

\* A page of the file cannot be read; the record is as long as an earlier one.
AppendVersionRefused ==
    /\ In("version") /\ ~Takes(indexFile)
    /\ Return
    /\ NoFault
    /\ UNCHANGED <<catalogVars, trees, metadata, catalogFile, indexFile, heaps, treeFiles, acked>>

AppendVersionFails ==
    /\ In("version") /\ Takes(indexFile) /\ Fault
    /\ indexFile' \in FailedWrites(indexFile, NewVersion)
    /\ Return
    /\ UNCHANGED <<catalogVars, trees, metadata, catalogFile, heaps, treeFiles, acked>>

-----------------------------------------------------------------------------
(* SELECT: the rows of table t whose column c is k, by a sequential scan, and by the
   index of the column if it has one, which the planner takes whenever k is an INT. *)

SequentialScan(t, c, k) == {n \in DOMAIN heaps[t].recs : heaps[t].recs[n][c] = k}

IndexesFor(t, c) == {i \in TableIndexes(t) : trees[i].column = c}

IndexScan(t, c, k) ==
    IF IndexesFor(t, c) = {}
    THEN SequentialScan(t, c, k)
    ELSE LET found == treeFiles[Min(IndexesFor(t, c))].found
         IN IF k \in DOMAIN found THEN {found[k]} ELSE {}

-----------------------------------------------------------------------------
(* Closing and opening. *)

\* The objects of an open database are gone.
Forget ==
    /\ tables' = Empty /\ tableIds' = Empty /\ nextTable' = 1
    /\ indexes' = Empty /\ indexIds' = Empty /\ nextIndex' = 1
    /\ trees' = Empty

\* The destructors write every page back, but cannot if a ragged end of the file is
\* what broke a tree.
WrittenBack(tree) ==
    IF tree.pages = "broken" THEN Reverted(tree) ELSE {[tree EXCEPT !.pages = "written"]}

Close ==
    /\ In("idle")
    /\ catalogFile' = WrittenOut(catalogFile) /\ indexFile' = WrittenOut(indexFile)
    /\ heaps' = [t \in DOMAIN heaps |-> WrittenOut(heaps[t])]
    /\ treeFiles' \in OneOfEach([i \in DOMAIN treeFiles |-> WrittenBack(treeFiles[i])])
    /\ Forget /\ Goto("closed")
    /\ NoFault /\ UNCHANGED <<metadata, acked>>

\* The process dies, or a destructor's write fails.  A crash in the middle of a
\* write is that write failing and the crash.
CutOff(tree) == WrittenBack(tree) \cup IF tree.pages = "written" THEN {} ELSE Reverted(tree)

Lose ==
    /\ ~In("closed") /\ ~In("refused") /\ Fault
    /\ catalogFile' \in Losses(catalogFile) /\ indexFile' \in Losses(indexFile)
    /\ heaps' \in OneOfEach([t \in DOMAIN heaps |-> Losses(heaps[t])])
    /\ treeFiles' \in OneOfEach([i \in DOMAIN treeFiles |-> CutOff(treeFiles[i])])
    /\ Forget /\ Goto("closed")
    /\ UNCHANGED <<metadata, acked>>

\* The newest version of each index, as IndexCatalogStore::Load yields them.
Versions == {indexFile.recs[n] : n \in DOMAIN indexFile.recs}
Latest(id) ==
    LET n == Max({m \in DOMAIN indexFile.recs : indexFile.recs[m].id = id})
    IN indexFile.recs[n].entry

\* Versions of an index agree in all but the root, and no two indexes in the name.
HistoryOk ==
    \A v, w \in Versions :
        /\ v.id = w.id => [v.entry EXCEPT !.root = NoRoot] = [w.entry EXCEPT !.root = NoRoot]
        /\ v.entry.name = w.entry.name => v.id = w.id

BeginOpen ==
    /\ In("closed") \/ In("refused")
    /\ metadata # "short"
    /\ metadata' = "whole"
    /\ stmt' = [phase |-> "load_tables", next |-> 1]
    /\ NoFault /\ UNCHANGED <<catalogVars, trees, catalogFile, indexFile, heaps, treeFiles, acked>>

\* The creation of database.meta fails or is cut off by a crash.
MetadataFails ==
    /\ In("closed") \/ In("refused")
    /\ metadata = "absent" /\ Fault
    /\ metadata' \in {"absent", "short"}
    /\ Goto("refused")
    /\ UNCHANGED <<catalogVars, trees, catalogFile, indexFile, heaps, treeFiles, acked>>

TableToLoad == catalogFile.recs[stmt.next]

OpenTable ==
    /\ In("load_tables") /\ Loads(catalogFile) /\ stmt.next \in DOMAIN catalogFile.recs
    /\ TableToLoad.id \in DOMAIN heaps
    /\ LoadTable(TableToLoad.id, TableToLoad.name)
    /\ stmt' = [stmt EXCEPT !.next = @ + 1]
    /\ NoFault /\ UNCHANGED <<trees, files, acked>>

ReadIndexCatalog ==
    /\ In("load_tables") /\ Loads(catalogFile) /\ stmt.next \notin DOMAIN catalogFile.recs
    /\ Loads(indexFile) /\ HistoryOk
    /\ stmt' = [phase |-> "load_indexes", todo |-> {v.id : v \in Versions}]
    /\ NoFault /\ UNCHANGED <<catalogVars, trees, files, acked>>

IndexUsable(id, entry) ==
    /\ entry.table \in DOMAIN tables
    /\ id \in DOMAIN treeFiles /\ treeFiles[id].root = entry.root
    /\ CanLoadIndex(id, entry)

OpenIndex ==
    /\ In("load_indexes") /\ stmt.todo # {}
    /\ LET id == Min(stmt.todo) IN
          /\ IndexUsable(id, Latest(id))
          /\ LoadIndex(id, Latest(id))
          /\ trees' = Put(trees, id, Latest(id))
          /\ stmt' = [stmt EXCEPT !.todo = @ \ {id}]
    /\ NoFault /\ UNCHANGED <<files, acked>>

Opened ==
    /\ In("load_indexes") /\ stmt.todo = {}
    /\ Return
    /\ NoFault /\ UNCHANGED <<catalogVars, trees, files, acked>>

\* Open stops at the first file, table or index it cannot load.
OpenRefused ==
    /\ \/ /\ In("closed") \/ In("refused")
          /\ metadata = "short"
       \/ In("load_tables") /\ ~Loads(catalogFile)
       \/ /\ In("load_tables") /\ stmt.next \in DOMAIN catalogFile.recs
          /\ \/ TableToLoad.id \notin DOMAIN heaps
             \/ ~CanLoadTable(TableToLoad.id, TableToLoad.name)
       \/ /\ In("load_tables") /\ stmt.next \notin DOMAIN catalogFile.recs
          /\ ~Loads(indexFile) \/ ~HistoryOk
       \/ /\ In("load_indexes") /\ stmt.todo # {}
          /\ ~IndexUsable(Min(stmt.todo), Latest(Min(stmt.todo)))
    /\ Forget /\ Goto("refused")
    /\ NoFault /\ UNCHANGED <<files, acked>>

StatementStep ==
    \/ \E name \in TableNames : BeginCreateTable(name)
    \/ TableFileExists \/ TableFileFails \/ MakeTableFile
    \/ AppendTable \/ AppendTableRefused \/ AppendTableFails
    \/ \E name \in IndexNames, t \in Ids, c \in Columns : BeginCreateIndex(name, t, c)
    \/ IndexFileExists \/ BuildIndex \/ BuildIndexRefused \/ BuildIndexFails
    \/ AppendIndex \/ AppendIndexRefused \/ AppendIndexFails
    \/ \E t \in Ids, row \in Rows :
          InsertRow(t, row) \/ InsertRowRefused(t, row) \/ InsertRowFails(t, row)
    \/ IndexRow \/ IndexRowGrows \/ IndexRowFails
    \/ AppendVersion \/ AppendVersionRefused \/ AppendVersionFails

Next ==
    \/ StatementStep
    \/ Close \/ Lose
    \/ BeginOpen \/ MetadataFails \/ OpenTable \/ ReadIndexCatalog \/ OpenIndex \/ Opened
    \/ OpenRefused

Spec == Init /\ [][Next]_vars

-----------------------------------------------------------------------------
(* Properties. *)

\* Whether a SELECT uses an index or not makes no difference to its answer: every
\* tree opens and yields, for any key, the rows a sequential scan yields.  The scan
\* is of a table none of whose INSERTs was refused for a row too large: such a row
\* leaves a page that a scan cannot read and a lookup never visits.
LookupMatchesScan ==
    In("idle") => \A t \in DOMAIN tables, c \in Columns :
        /\ \A i \in IndexesFor(t, c) : Opens(i)
        /\ Loads(heaps[t]) => \A k \in Keys : IndexScan(t, c, k) = SequentialScan(t, c, k)

\* Between statements the catalog in memory is the one the records in the files
\* would yield, so that opening the database again, if it opens, changes nothing a
\* statement can see.
CatalogMatchesFiles ==
    In("idle") =>
        /\ {[id |-> id, name |-> tables[id]] : id \in DOMAIN tables}
             = {catalogFile.recs[n] : n \in 1 .. catalogFile.stored}
        /\ DOMAIN indexes = {v.id : v \in Versions}
        /\ \A id \in DOMAIN indexes : indexes[id] = Latest(id)
        /\ indexFile.stored = Len(indexFile.recs)

\* "A clean reopen reloads tables and rows" (docs/SQL_PHASE1.md): Open refuses a
\* database whose metadata file is whole only if one of the two catalog files has a
\* page that cannot be read.  Without faults that is the page left by a CREATE TABLE
\* or CREATE INDEX whose record was too large for any page.
Reopens ==
    In("refused") => metadata # "whole" \/ ~Loads(catalogFile) \/ ~Loads(indexFile)

\* The storage's own map of the indexes agrees with the catalog's, root by root,
\* and every table and index has its file, whichever steps of whichever statements
\* have failed since the database was opened.  Inside a statement only the types
\* are certain.
StorageAgrees ==
    /\ DatabaseTypeOK
    /\ In("idle") =>
          /\ trees = indexes
          /\ \A i \in DOMAIN trees : i \in DOMAIN treeFiles /\ trees[i].table \in DOMAIN tables
          /\ DOMAIN tables \subseteq DOMAIN heaps

\* A row whose INSERT returned ok stays at its place in its table, through failed
\* statements, crashes and restarts, in every database that opens.  The exception is
\* an overwrite of its page that was torn, by an INSERT that did not return ok: the
\* row is then in the cache, until the next write of the page restores it or, with
\* the cache lost, the page cannot be read and no row of it takes its place.  A scan
\* may still fail at a later page, one that a refused or failed INSERT left behind.
AckedRowsKept ==
    In("idle") => \A a \in acked.rows :
        /\ a.table \in DOMAIN tableIds
        /\ LET heap == heaps[tableIds[a.table]] IN
              \/ "spoiled" \notin heap.flaws /\ a.rid <= heap.stored /\ heap.recs[a.rid] = a.row
              \/ /\ "spoiled" \in heap.flaws
                 /\ Readable(heap) => a.rid \in DOMAIN heap.recs /\ heap.recs[a.rid] = a.row

\* An open database has the tables whose CREATE TABLE returned ok and no others: a
\* record left behind by a statement that failed never brings its table back. A
\* metadata file cut short by a crash, with which no database opens any more, can
\* only have cost a database that never held anything.
AckedTablesOnly ==
    /\ In("idle") => DOMAIN tableIds = acked.tables
    /\ metadata = "short" => acked.tables = {} /\ acked.rows = {}

\* The files hold relations, which change only as the statements say.
Records == {catalogFile.recs[n] : n \in DOMAIN catalogFile.recs}
NameOf(id) == (CHOOSE r \in Records : r.id = id).name
FileOf(name) == heaps[(CHOOSE r \in Records : r.name = name).id]

R == INSTANCE Relations WITH
        rel <- [name \in {r.name : r \in Records} |-> FileOf(name).recs],
        uniq <- {<<NameOf(v.entry.table), v.entry.column>> : v \in Versions}

\* Without faults the database is a set of relations with unique columns.
ImplementsRelations == R!Spec
=============================================================================
