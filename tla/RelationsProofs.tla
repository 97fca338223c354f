---------------------------- MODULE RelationsProofs ----------------------------
(***************************************************************************)
(* The database on its files when nothing fails, for any names, columns,   *)
(* rows and widths of ids: it opens again with the catalog it had, unless  *)
(* a record too large for a page has cost it a catalog file, an index      *)
(* answers as a scan does, and the files implement Relations.              *)
(***************************************************************************)
EXTENDS DatabaseProofs

(***************************************************************************)
(* The invariant, on top of DInv.  It speaks of the files, and of the      *)
(* memory as what is loaded of them, so that a restart is a step like any  *)
(* other.                                                                  *)
(***************************************************************************)
RecIds == {catalogFile.recs[n].id : n \in DOMAIN catalogFile.recs}
Versioned == {v.id : v \in Versions}

\* Files the statement in progress has made and not yet recorded.
NewFile == IF In("table_record") THEN {stmt.id} ELSE {}
NewTreeFile == IF In("index_record") THEN {stmt.id} ELSE {}

\* Trees that still have to learn of the row inserted last.
Pending ==
    IF In("index_row") THEN stmt.todo
    ELSE IF In("version") THEN stmt.todo \ {CurrentIndex} ELSE {}

\* A tree finds, for the key of each of the first n rows, that row, and nothing else.
Exact(found, rows, c, n) ==
    /\ DOMAIN found = {rows[m][c] : m \in 1 .. n}
    /\ \A m \in 1 .. n : found[rows[m][c]] = m

RowsOf(i) == heaps[Latest(i).table].recs
RowsIn(i) == IF i \in Pending THEN stmt.rid - 1 ELSE Len(RowsOf(i))

Stored ==
    /\ In("refused") => ~Loads(catalogFile) \/ ~Loads(indexFile)
    /\ metadata # "short"
    /\ catalogFile.stored = Len(catalogFile.recs) /\ indexFile.stored = Len(indexFile.recs)

TableRecords ==
    /\ \A m, n \in DOMAIN catalogFile.recs :
          \/ catalogFile.recs[m].id = catalogFile.recs[n].id
          \/ catalogFile.recs[m].name = catalogFile.recs[n].name
          => m = n
    /\ DOMAIN heaps = RecIds \cup NewFile
    /\ In("table_record") => heaps[stmt.id].recs = << >>

IndexRecords ==
    /\ HistoryOk
    /\ \A v, w \in Versions :
          v.entry.table = w.entry.table /\ v.entry.column = w.entry.column => v.id = w.id
    /\ \A v \in Versions : v.entry.table \in RecIds /\ v.entry.root \in Roots
    /\ DOMAIN treeFiles = Versioned \cup NewTreeFile
    /\ \A i \in Versioned :
          treeFiles[i].root = Latest(i).root \/ (In("version") /\ i = CurrentIndex)

TreesExact ==
    /\ \A i \in Versioned : Exact(treeFiles[i].found, RowsOf(i), Latest(i).column, RowsIn(i))
    /\ In("index_record") =>
          Exact(treeFiles[stmt.id].found, IndexedRows, IndexedColumn, Len(IndexedRows))
    /\ Inserting => stmt.rid = Len(heaps[stmt.table].recs)
    /\ \A i \in Pending : CurrentRow[Latest(i).column] \notin DOMAIN treeFiles[i].found

InMemory ==
    /\ DOMAIN indexes = IF Shut \/ Loading THEN {}
                        ELSE IF In("load_indexes") THEN Versioned \ stmt.todo
                        ELSE Versioned \cup NewIndex
    /\ NewIndex \cap Versioned = {}
    /\ \A i \in DOMAIN indexes \ NewIndex : indexes[i] = Latest(i)

Clean == Stored /\ TableRecords /\ IndexRecords /\ TreesExact /\ InMemory

\* Records too large leave whole pages, and only a fault breaks a tree.
Sound ==
    /\ "ragged" \notin catalogFile.flaws /\ "ragged" \notin indexFile.flaws
    /\ \A t \in DOMAIN heaps : "ragged" \notin heaps[t].flaws
    /\ \A i \in DOMAIN treeFiles : treeFiles[i].pages # "broken"

(***************************************************************************)
(* The versions of the indexes.                                            *)
(***************************************************************************)
LEMMA IndexFileFacts ==
    ASSUME Types
    PROVE  /\ indexFile.recs \in Seq(Version) /\ Len(indexFile.recs) \in Nat
           /\ DOMAIN indexFile.recs = 1 .. Len(indexFile.recs)
           /\ \A n \in DOMAIN indexFile.recs : indexFile.recs[n] \in Version
           /\ \A v \in Versions : v \in Version /\ v.entry \in IndexEntry
<1>1. indexFile.recs \in Seq(Version)
  BY DEF Types, Whole, File
<1>2. Len(indexFile.recs) \in Nat /\ DOMAIN indexFile.recs = 1 .. Len(indexFile.recs)
  BY <1>1
<1>3. \A n \in DOMAIN indexFile.recs : indexFile.recs[n] \in Version
  BY <1>1, <1>2
<1>4. \A v \in Version : v.entry \in IndexEntry
  BY DEF Version, TreeEntry, IndexEntry
<1>. QED BY <1>1, <1>2, <1>3, <1>4 DEF Versions

\* The newest version of an index is one of its versions.
LEMMA LatestIsVersion ==
    ASSUME Types, NEW i \in Versioned
    PROVE  /\ i \in Ids /\ Latest(i) \in IndexEntry
           /\ [id |-> i, entry |-> Latest(i)] \in Versions
<1>. DEFINE S == {m \in DOMAIN indexFile.recs : indexFile.recs[m].id = i}
<1>1. S \subseteq 1 .. Len(indexFile.recs) /\ S # {} /\ Len(indexFile.recs) \in Nat
  BY IndexFileFacts DEF Versioned, Versions
<1>2. PICK n \in DOMAIN indexFile.recs : n = Max(S) /\ indexFile.recs[n].id = i
  <2>1. Max(S) \in S
    BY <1>1, MaxIsMember
  <2>. QED BY <2>1
<1>3. Latest(i) = indexFile.recs[n].entry
  BY <1>2 DEF Latest
<1>4. indexFile.recs[n] \in Version
  BY IndexFileFacts
<1>5. indexFile.recs[n] = [id |-> i, entry |-> Latest(i)]
  BY <1>2, <1>3, <1>4 DEF Version
<1>6. indexFile.recs[n] \in Versions
  BY DEF Versions
<1>7. i \in Ids /\ Latest(i) \in IndexEntry
  <2>1. i \in Ids /\ Latest(i) \in TreeEntry
    BY <1>2, <1>3, <1>4 DEF Version
  <2>. QED BY <2>1 DEF TreeEntry, IndexEntry
<1>. QED BY <1>5, <1>6, <1>7

LEMMA VersionsQuiet ==
    ASSUME indexFile'.recs = indexFile.recs
    PROVE  Versions' = Versions /\ Versioned' = Versioned /\ \A i : Latest(i)' = Latest(i)
BY DEF Versions, Versioned, Latest

\* A sequence with an element more.
LEMMA Appended ==
    ASSUME NEW S, NEW s \in Seq(S), NEW e \in S
    PROVE  /\ Len(s) \in Nat /\ DOMAIN s = 1 .. Len(s)
           /\ Append(s, e) \in Seq(S) /\ Len(Append(s, e)) = Len(s) + 1
           /\ DOMAIN Append(s, e) = 1 .. (Len(s) + 1)
           /\ DOMAIN Append(s, e) = DOMAIN s \cup {Len(s) + 1}
           /\ Append(s, e)[Len(s) + 1] = e
           /\ \A m \in DOMAIN s : Append(s, e)[m] = s[m] /\ m # Len(s) + 1
<1>1. Len(s) \in Nat /\ DOMAIN s = 1 .. Len(s)
  OBVIOUS
<1>2. Append(s, e) \in Seq(S) /\ Len(Append(s, e)) = Len(s) + 1
  OBVIOUS
<1>3. DOMAIN Append(s, e) = 1 .. (Len(s) + 1)
  BY <1>2
<1>4. 1 .. (Len(s) + 1) = (1 .. Len(s)) \cup {Len(s) + 1}
  BY <1>1
<1>5. Append(s, e)[Len(s) + 1] = e
  OBVIOUS
<1>6. \A m \in 1 .. Len(s) : Append(s, e)[m] = s[m] /\ m # Len(s) + 1
  BY <1>1
<1>. QED BY <1>1, <1>2, <1>3, <1>4, <1>5, <1>6

\* A version appended is the newest of its index.
LEMMA VersionAdded ==
    ASSUME Types, NEW v \in Version, Takes(indexFile), indexFile' = Written(indexFile, v)
    PROVE  /\ Versions' = Versions \cup {v} /\ Versioned' = Versioned \cup {v.id}
           /\ Latest(v.id)' = v.entry
           /\ \A i \in Versioned : i # v.id => Latest(i)' = Latest(i)
           /\ indexFile'.stored = Len(indexFile'.recs)
<1>. DEFINE n == Len(indexFile.recs) + 1
<1>1. indexFile'.recs = Append(indexFile.recs, v) /\ indexFile'.stored = n
  <2>1. Whole(indexFile, Version)
    BY DEF Types
  <2>. QED BY <2>1, FileWrites
<1>2. /\ DOMAIN indexFile'.recs = 1 .. n /\ DOMAIN indexFile.recs = 1 .. Len(indexFile.recs)
      /\ Len(indexFile.recs) \in Nat /\ indexFile'.recs[n] = v /\ Len(indexFile'.recs) = n
      /\ \A m \in 1 .. Len(indexFile.recs) : indexFile'.recs[m] = indexFile.recs[m]
  <2>1. indexFile.recs \in Seq(Version)
    BY IndexFileFacts
  <2>. QED BY <1>1, <2>1, Appended
<1>3. DOMAIN indexFile'.recs = DOMAIN indexFile.recs \cup {n}
  BY <1>2
<1>4. Versions' = Versions \cup {v}
  <2>1. Versions' = {indexFile'.recs[m] : m \in DOMAIN indexFile.recs} \cup {v}
    BY <1>2, <1>3 DEF Versions
  <2>2. \A m \in DOMAIN indexFile.recs : indexFile'.recs[m] = indexFile.recs[m]
    BY <1>2
  <2>. QED BY <2>1, <2>2 DEF Versions
<1>5. Versioned' = Versioned \cup {v.id}
  BY <1>4 DEF Versioned
<1>6. Latest(v.id)' = v.entry
  <2>. DEFINE S == {m \in DOMAIN indexFile'.recs : indexFile'.recs[m].id = v.id}
  <2>1. S \subseteq 1 .. n /\ n \in S /\ n \in Nat
    BY <1>2, <1>3
  <2>2. Max(S) = n
    <3>1. \A x \in S : x \in Nat /\ x <= n
      BY <2>1
    <3>2. \A x \in S : (\A y \in S : x >= y) => x = n
      BY <2>1, <3>1
    <3>3. n \in S /\ \A y \in S : n >= y
      BY <2>1, <3>1
    <3>. QED BY <3>2, <3>3 DEF Max
  <2>. QED BY <1>2, <2>2 DEF Latest
<1>7. ASSUME NEW i \in Versioned, i # v.id PROVE Latest(i)' = Latest(i)
  <2>. DEFINE S == {m \in DOMAIN indexFile.recs : indexFile.recs[m].id = i}
              T == {m \in DOMAIN indexFile'.recs : indexFile'.recs[m].id = i}
  <2>1. T = S
    BY <1>2, <1>3, <1>7
  <2>2. S \subseteq 1 .. Len(indexFile.recs) /\ S # {}
    BY <1>2 DEF Versioned, Versions
  <2>3. Max(S) \in S
    BY <1>2, <2>2, MaxIsMember
  <2>4. Latest(i) = indexFile.recs[Max(S)].entry /\ Latest(i)' = indexFile'.recs[Max(T)].entry
    BY DEF Latest
  <2>. HIDE DEF S, T
  <2>. QED BY <1>2, <2>1, <2>2, <2>3, <2>4
<1>. QED BY <1>1, <1>2, <1>4, <1>5, <1>6, <1>7

(***************************************************************************)
(* Steps that leave the files alone.                                       *)
(***************************************************************************)
\* No file is made and not recorded, and no row inserted and not indexed.
Bare == NewFile = {} /\ NewTreeFile = {} /\ ~Inserting

LEMMA BareFacts ==
    /\ Bare => Pending = {} /\ ~In("version") /\ ~In("table_record") /\ ~In("index_record")
    /\ Bare' => Pending' = {} /\ ~In("version")' /\ ~In("table_record")' /\ ~In("index_record")'
BY DEF Bare, Pending, NewFile, NewTreeFile, Inserting

\* What the phases without a file of their own are.
LEMMA BarePhases ==
    /\ In("idle") \/ In("table_file") \/ In("index_file") \/ Loading \/ In("load_indexes") \/ Shut
          => Bare
    /\ In("idle")' \/ In("table_file")' \/ In("index_file")' \/ Loading' \/ In("load_indexes")'
       \/ Shut' => Bare'
BY DEF Bare, NewFile, NewTreeFile, Inserting, In, Loading, Shut

\* The rows of a recorded index are those of a file there is.
LEMMA RowsFacts ==
    ASSUME Types, TableRecords, IndexRecords, NEW i \in Versioned
    PROVE  /\ Latest(i).table \in RecIds /\ Latest(i).table \in DOMAIN heaps
           /\ Latest(i).column \in Columns /\ Latest(i).root \in Roots
           /\ RowsOf(i) \in Seq(Rows) /\ Len(RowsOf(i)) \in Nat /\ i \in DOMAIN treeFiles
<1>1. [id |-> i, entry |-> Latest(i)] \in Versions /\ Latest(i) \in IndexEntry
  BY LatestIsVersion
<1>2. Latest(i).table \in RecIds /\ Latest(i).root \in Roots
  BY <1>1 DEF IndexRecords
<1>3. Latest(i).table \in DOMAIN heaps
  BY <1>2 DEF TableRecords
<1>4. RowsOf(i) \in Seq(Rows) /\ Len(RowsOf(i)) \in Nat
  BY <1>3, HeapFacts DEF Types, RowsOf
<1>5. Latest(i).column \in Columns
  BY <1>1 DEF IndexEntry
<1>. QED BY <1>2, <1>3, <1>4, <1>5 DEF IndexRecords

\* A step that leaves indexes and rows alone.
LEMMA IndexesQuiet ==
    ASSUME Types, TableRecords, IndexRecords, TreesExact,
           NewTreeFile = {}, ~Inserting, NewTreeFile' = {}, ~Inserting',
           RecIds \subseteq RecIds', indexFile'.recs = indexFile.recs,
           \A t \in RecIds : heaps'[t].recs = heaps[t].recs,
           DOMAIN treeFiles' = DOMAIN treeFiles,
           \A i \in DOMAIN treeFiles :
              treeFiles'[i].found = treeFiles[i].found /\ treeFiles'[i].root = treeFiles[i].root
    PROVE  IndexRecords' /\ TreesExact'
<1>1. /\ Pending = {} /\ ~In("version") /\ Pending' = {} /\ ~In("version")'
      /\ ~In("index_record")'
  BY DEF NewTreeFile, Pending, Inserting
<1>2. Versions' = Versions /\ Versioned' = Versioned /\ \A i : Latest(i)' = Latest(i)
  BY VersionsQuiet
<1>3. HistoryOk' = HistoryOk
  BY <1>2 DEF HistoryOk
<1>4. IndexRecords'
  <2>1. \A i \in Versioned : i \in DOMAIN treeFiles
    BY DEF IndexRecords
  <2>. QED BY <1>1, <1>2, <1>3, <2>1 DEF IndexRecords
<1>5. ASSUME NEW i \in Versioned'
      PROVE  Exact(treeFiles[i].found, RowsOf(i), Latest(i).column, RowsIn(i))'
  <2>1. i \in Versioned /\ Latest(i)' = Latest(i)
    BY <1>2
  <2>2. RowsOf(i)' = RowsOf(i) /\ i \in DOMAIN treeFiles
    BY <2>1, RowsFacts DEF RowsOf
  <2>3. RowsIn(i)' = RowsIn(i)
    BY <1>1, <2>2 DEF RowsIn
  <2>4. treeFiles'[i].found = treeFiles[i].found
    BY <2>2
  <2>. QED BY <2>1, <2>2, <2>3, <2>4 DEF TreesExact, Exact
<1>6. TreesExact'
  BY <1>1, <1>5 DEF TreesExact
<1>. QED BY <1>4, <1>6

LEMMA FilesQuiet ==
    ASSUME Types, TableRecords, IndexRecords, TreesExact, Bare, Bare',
           catalogFile'.recs = catalogFile.recs, indexFile'.recs = indexFile.recs,
           DOMAIN heaps' = DOMAIN heaps,
           \A t \in DOMAIN heaps : heaps'[t].recs = heaps[t].recs,
           DOMAIN treeFiles' = DOMAIN treeFiles,
           \A i \in DOMAIN treeFiles :
              treeFiles'[i].found = treeFiles[i].found /\ treeFiles'[i].root = treeFiles[i].root
    PROVE  TableRecords' /\ IndexRecords' /\ TreesExact'
<1>1. /\ ~In("table_record")' /\ ~Inserting /\ ~Inserting'
      /\ NewFile = {} /\ NewTreeFile = {} /\ NewFile' = {} /\ NewTreeFile' = {}
  BY BareFacts DEF Bare
<1>2. RecIds' = RecIds
  BY DEF RecIds
<1>3. TableRecords'
  BY <1>1, <1>2 DEF TableRecords
<1>4. \A t \in RecIds : heaps'[t].recs = heaps[t].recs
  BY DEF TableRecords
<1>5. IndexRecords' /\ TreesExact'
  BY <1>1, <1>2, <1>4, IndexesQuiet
<1>. QED BY <1>3, <1>5

LEMMA StoredQuiet ==
    ASSUME Stored, UNCHANGED <<catalogFile, indexFile>>, metadata' # "short", ~In("refused")'
    PROVE  Stored'
BY DEF Stored

\* In memory are the indexes of the index file, once it is read.
LEMMA MemoryRunning ==
    ASSUME InMemory, Running, ~In("load_indexes")
    PROVE  DOMAIN indexes \ NewIndex = Versioned /\ DOMAIN indexes = Versioned \cup NewIndex
BY DEF InMemory, Running

\* Every table recorded is in memory, under its name.
LEMMA TablesInMemory ==
    ASSUME DInv, Clean, Running, NEW n \in DOMAIN catalogFile.recs
    PROVE  /\ catalogFile.recs[n].id \in Settled
           /\ tables[catalogFile.recs[n].id] = catalogFile.recs[n].name
<1>1. n \in Loaded
  BY DEF Loaded, Running
<1>2. Harmless(catalogFile.recs[n])
  BY <1>1 DEF DInv, RecordsInv
<1>3. catalogFile.recs[n].id \in DOMAIN heaps
  BY DEF Clean, TableRecords, RecIds
<1>. QED BY <1>2, <1>3 DEF Harmless, Settled

LEMMA SettledRecorded ==
    ASSUME DInv, Clean, Running
    PROVE  Settled = RecIds
<1>1. RecIds \subseteq Settled
  BY TablesInMemory DEF RecIds
<1>2. ASSUME NEW id \in Settled PROVE id \in RecIds
  <2>1. PICK n \in Loaded : catalogFile.recs[n] = [id |-> id, name |-> tables[id]]
    BY DEF DInv, RecordsInv, Recorded
  <2>2. catalogFile.recs[n].id = id /\ n \in DOMAIN catalogFile.recs
    BY <2>1 DEF Loaded, Running
  <2>. QED BY <2>2 DEF RecIds
<1>. QED BY <1>1, <1>2

\* Nothing fails.
LEMMA NoFaultLeft == ASSUME MaxFaults = 0, Types, Fault PROVE FALSE
BY DEF Types, Fault

\* The memory of a running database whose indexes and versions stay.
LEMMA MemoryQuiet ==
    ASSUME InMemory, Running, ~In("load_indexes"), Running', ~In("load_indexes")',
           UNCHANGED indexes, NewIndex' = NewIndex, indexFile'.recs = indexFile.recs
    PROVE  InMemory'
<1>1. Versioned' = Versioned /\ \A i : Latest(i)' = Latest(i)
  BY VersionsQuiet
<1>2. ~Shut /\ ~Loading /\ ~Shut' /\ ~Loading'
  BY DEF Running
<1>. QED BY <1>1, <1>2 DEF InMemory

LEMMA BeginCreateTableClean ==
    ASSUME DInv, Clean, NEW name \in TableNames, BeginCreateTable(name)
    PROVE  Clean'
<1>1. /\ In("idle") /\ CreateTable(name) /\ stmt' = [phase |-> "table_file", id |-> nextTable]
      /\ UNCHANGED <<metadata, catalogFile, indexFile, heaps, treeFiles>>
  BY DEF BeginCreateTable, files
<1>2. In("table_file")' /\ CreatingTable' /\ ~In("refused")' /\ UNCHANGED indexes
  BY <1>1 DEF In, CreatingTable, CreateTable
<1>3. /\ Running /\ Running' /\ ~In("load_indexes") /\ ~In("load_indexes")'
      /\ NewIndex = {} /\ NewIndex' = {} /\ Bare /\ Bare'
  BY <1>1, <1>2, Phases, BarePhases DEF PhaseFacts
<1>4. Types /\ Stored /\ TableRecords /\ IndexRecords /\ TreesExact /\ InMemory
  BY DEF DInv, Clean
<1>5. TableRecords' /\ IndexRecords' /\ TreesExact'
  BY <1>1, <1>3, <1>4, FilesQuiet
<1>6. Stored'
  BY <1>1, <1>2, <1>4, StoredQuiet DEF Stored
<1>7. InMemory'
  BY <1>1, <1>2, <1>3, <1>4, MemoryQuiet
<1>. QED BY <1>5, <1>6, <1>7 DEF Clean

\* A statement ends with nothing changed but its table or its index undone.
LEMMA ReturnClean ==
    ASSUME DInv, Clean, Running, ~In("load_indexes"), Bare, Return,
           UNCHANGED <<metadata, catalogFile, indexFile, heaps, treeFiles>>,
           \/ UNCHANGED indexes /\ NewIndex = {}
           \/ NewIndex = {stmt.id} /\ RemoveIndex(stmt.id)
    PROVE  Clean'
<1>1. Types /\ Stored /\ TableRecords /\ IndexRecords /\ TreesExact /\ InMemory
  BY DEF DInv, Clean
<1>2. In("idle")' /\ ~In("refused")'
  BY DEF Return, Goto, In
<1>3. Bare' /\ Running' /\ ~In("load_indexes")' /\ NewIndex' = {}
  BY <1>2, Phases, BarePhases DEF PhaseFacts
<1>4. TableRecords' /\ IndexRecords' /\ TreesExact'
  BY <1>1, <1>3, FilesQuiet
<1>5. Stored'
  BY <1>1, <1>2, StoredQuiet DEF Stored
<1>6. InMemory'
  <2>1. CASE UNCHANGED indexes /\ NewIndex = {}
    BY <1>1, <1>3, <2>1, MemoryQuiet
  <2>2. CASE NewIndex = {stmt.id} /\ RemoveIndex(stmt.id)
    <3>1. /\ DOMAIN indexes' = DOMAIN indexes \ {stmt.id}
          /\ \A i \in DOMAIN indexes' : indexes'[i] = indexes[i]
      <4>1. indexes' = Without(indexes, stmt.id)
        BY <2>2 DEF RemoveIndex
      <4>. QED BY <4>1 DEF Without, Restrict
    <3>2. DOMAIN indexes = Versioned \cup {stmt.id} /\ stmt.id \notin Versioned
      BY <1>1, <2>2, MemoryRunning DEF InMemory
    <3>3. \A i \in Versioned : indexes[i] = Latest(i)
      BY <1>1, <2>2, <3>2 DEF InMemory
    <3>4. Versioned' = Versioned /\ \A i : Latest(i)' = Latest(i)
      BY VersionsQuiet
    <3>5. ~Shut' /\ ~Loading'
      BY <1>3 DEF Running
    <3>. QED BY <1>3, <3>1, <3>2, <3>3, <3>4, <3>5 DEF InMemory
  <2>. QED BY <2>1, <2>2
<1>. QED BY <1>4, <1>5, <1>6 DEF Clean

LEMMA TableFileExistsClean == ASSUME DInv, Clean, TableFileExists PROVE Clean'
<1>1. /\ In("table_file") /\ Return /\ RemoveTable(stmt.id)
      /\ UNCHANGED <<metadata, catalogFile, indexFile, heaps, treeFiles>>
  BY DEF TableFileExists, UndoTable, files
<1>2. UNCHANGED indexes /\ CreatingTable
  BY <1>1 DEF RemoveTable, CreatingTable
<1>3. Running /\ ~In("load_indexes") /\ Bare /\ NewIndex = {}
  BY <1>1, <1>2, Phases, BarePhases DEF PhaseFacts
<1>. QED BY <1>1, <1>2, <1>3, ReturnClean

LEMMA IndexRefusedClean == ASSUME DInv, Clean, IndexFileExists \/ BuildIndexRefused PROVE Clean'
<1>1. /\ In("index_file") /\ Return /\ RemoveIndex(stmt.id)
      /\ UNCHANGED <<metadata, catalogFile, indexFile, heaps, treeFiles>>
  BY DEF IndexFileExists, BuildIndexRefused, UndoIndex, files
<1>2. CreatingIndex
  BY <1>1 DEF CreatingIndex
<1>3. Running /\ ~In("load_indexes") /\ Bare /\ NewIndex = {stmt.id}
  BY <1>1, <1>2, Phases, BarePhases DEF PhaseFacts
<1>. QED BY <1>1, <1>3, ReturnClean

LEMMA BeginCreateIndexClean ==
    ASSUME DInv, Clean, NEW name \in IndexNames, NEW t \in Ids, NEW c \in Columns,
           BeginCreateIndex(name, t, c)
    PROVE  Clean'
<1>1. /\ In("idle") /\ CreateIndex(name, t, c) /\ stmt' = [phase |-> "index_file", id |-> nextIndex]
      /\ UNCHANGED <<metadata, catalogFile, indexFile, heaps, treeFiles>>
  BY DEF BeginCreateIndex, files
<1>2. In("index_file")' /\ CreatingIndex' /\ ~In("refused")' /\ stmt'.id = nextIndex
  BY <1>1 DEF In, CreatingIndex
<1>3. /\ Running /\ Running' /\ ~In("load_indexes") /\ ~In("load_indexes")'
      /\ NewIndex = {} /\ NewIndex' = {nextIndex} /\ Bare /\ Bare'
  BY <1>1, <1>2, Phases, BarePhases DEF PhaseFacts
<1>4. CatInv /\ Types /\ Stored /\ TableRecords /\ IndexRecords /\ TreesExact /\ InMemory
  BY DEF DInv, Clean
<1>5. TableRecords' /\ IndexRecords' /\ TreesExact'
  BY <1>1, <1>3, <1>4, FilesQuiet
<1>6. Stored'
  BY <1>1, <1>2, <1>4, StoredQuiet DEF Stored
<1>7. InMemory'
  <2>1. /\ DOMAIN indexes' = DOMAIN indexes \cup {nextIndex}
        /\ \A i \in DOMAIN indexes : i # nextIndex => indexes'[i] = indexes[i]
    BY <1>1 DEF CreateIndex, Put
  <2>2. DOMAIN indexes = Versioned /\ \A i \in Versioned : indexes[i] = Latest(i)
    BY <1>3, <1>4, MemoryRunning DEF InMemory
  <2>3. nextIndex \notin Versioned
    <3>1. \A i \in Versioned : i \in Ids /\ i < nextIndex
      BY <1>4, <2>2, CatalogFacts
    <3>. QED BY <3>1 DEF Ids
  <2>4. Versioned' = Versioned /\ \A i : Latest(i)' = Latest(i)
    BY <1>1, VersionsQuiet
  <2>5. ~Shut' /\ ~Loading'
    BY <1>3 DEF Running
  <2>. QED BY <1>3, <2>1, <2>2, <2>3, <2>4, <2>5 DEF InMemory
<1>. QED BY <1>5, <1>6, <1>7 DEF Clean

LEMMA OpenedClean == ASSUME DInv, Clean, Opened PROVE Clean'
<1>1. /\ In("load_indexes") /\ stmt.todo = {} /\ stmt' = [phase |-> "idle"]
      /\ UNCHANGED <<catalogVars, metadata, catalogFile, indexFile, heaps, treeFiles>>
  BY DEF Opened, Return, Goto, files
<1>2. In("idle")' /\ ~In("refused")' /\ UNCHANGED indexes
  BY <1>1 DEF In, catalogVars
<1>3. /\ Running /\ Running' /\ ~In("load_indexes")'
      /\ NewIndex = {} /\ NewIndex' = {} /\ Bare /\ Bare'
  BY <1>1, <1>2, Phases, BarePhases DEF PhaseFacts
<1>4. Types /\ Stored /\ TableRecords /\ IndexRecords /\ TreesExact /\ InMemory
  BY DEF DInv, Clean
<1>5. TableRecords' /\ IndexRecords' /\ TreesExact'
  BY <1>1, <1>3, <1>4, FilesQuiet
<1>6. Stored'
  BY <1>1, <1>2, <1>4, StoredQuiet DEF Stored
<1>7. InMemory'
  <2>1. ~Shut /\ ~Loading /\ ~Shut' /\ ~Loading'
    BY <1>3 DEF Running
  <2>2. Versioned' = Versioned /\ \A i : Latest(i)' = Latest(i)
    BY <1>1, VersionsQuiet
  <2>. QED BY <1>1, <1>2, <1>3, <1>4, <2>1, <2>2 DEF InMemory
<1>. QED BY <1>5, <1>6, <1>7 DEF Clean

\* Trees whose pages are written back.
LEMMA WrittenTrees ==
    ASSUME \A i \in DOMAIN treeFiles : treeFiles[i] \in Tree /\ treeFiles[i].pages # "broken",
           treeFiles' \in OneOfEach([i \in DOMAIN treeFiles |-> WrittenBack(treeFiles[i])])
    PROVE  /\ DOMAIN treeFiles' = DOMAIN treeFiles
           /\ \A i \in DOMAIN treeFiles :
                 /\ treeFiles'[i].found = treeFiles[i].found
                 /\ treeFiles'[i].root = treeFiles[i].root /\ treeFiles'[i].pages = "written"
<1>1. /\ DOMAIN treeFiles' = DOMAIN treeFiles
      /\ \A i \in DOMAIN treeFiles : treeFiles'[i] \in WrittenBack(treeFiles[i])
  BY DEF OneOfEach
<1>2. \A tree \in Tree : /\ [tree EXCEPT !.pages = "written"].found = tree.found
                         /\ [tree EXCEPT !.pages = "written"].root = tree.root
                         /\ [tree EXCEPT !.pages = "written"].pages = "written"
  BY DEF Tree
<1>3. \A i \in DOMAIN treeFiles : treeFiles'[i] = [treeFiles[i] EXCEPT !.pages = "written"]
  BY <1>1 DEF WrittenBack
<1>4. ASSUME NEW i \in DOMAIN treeFiles
      PROVE  /\ treeFiles'[i].found = treeFiles[i].found
             /\ treeFiles'[i].root = treeFiles[i].root /\ treeFiles'[i].pages = "written"
  <2>1. PICK tree \in Tree : tree = treeFiles[i]
    OBVIOUS
  <2>2. treeFiles'[i] = [tree EXCEPT !.pages = "written"]
    BY <1>3, <2>1
  <2>. QED BY <1>2, <2>1, <2>2
<1>. QED BY <1>1, <1>4

LEMMA CloseClean == ASSUME DInv, Clean, Sound, Close PROVE Clean'
<1>1. /\ In("idle") /\ Forget /\ stmt' = [phase |-> "closed"]
      /\ catalogFile' = Flushed(catalogFile) /\ indexFile' = Flushed(indexFile)
      /\ heaps' = [t \in DOMAIN heaps |-> Flushed(heaps[t])]
      /\ treeFiles' \in OneOfEach([i \in DOMAIN treeFiles |-> WrittenBack(treeFiles[i])])
      /\ UNCHANGED metadata
  BY DEF Close, Goto, Sound, WrittenOut
<1>2. Shut' /\ ~In("refused")' /\ DOMAIN indexes' = {}
  BY <1>1, ForgetStep DEF In, Shut
<1>3. Bare /\ Bare' /\ NewIndex' = {} /\ ~In("load_indexes")'
  BY <1>1, <1>2, Phases, BarePhases DEF PhaseFacts
<1>4. Types /\ Stored /\ TableRecords /\ IndexRecords /\ TreesExact /\ InMemory
  BY DEF DInv, Clean
<1>5. /\ catalogFile'.recs = catalogFile.recs /\ catalogFile'.stored = Len(catalogFile.recs)
      /\ indexFile'.recs = indexFile.recs /\ indexFile'.stored = Len(indexFile.recs)
  BY <1>1 DEF Flushed
<1>6. DOMAIN heaps' = DOMAIN heaps /\ \A t \in DOMAIN heaps : heaps'[t].recs = heaps[t].recs
  BY <1>1 DEF Flushed
<1>7. /\ DOMAIN treeFiles' = DOMAIN treeFiles
      /\ \A i \in DOMAIN treeFiles :
            treeFiles'[i].found = treeFiles[i].found /\ treeFiles'[i].root = treeFiles[i].root
  <2>1. \A i \in DOMAIN treeFiles : treeFiles[i] \in Tree
    BY <1>4 DEF Types, TreeFilesOK
  <2>. QED BY <1>1, <2>1, WrittenTrees DEF Sound
<1>8. TableRecords' /\ IndexRecords' /\ TreesExact'
  BY <1>1, <1>3, <1>4, <1>5, <1>6, <1>7, FilesQuiet
<1>9. Stored'
  BY <1>1, <1>2, <1>4, <1>5 DEF Stored
<1>10. InMemory'
  BY <1>2, <1>3 DEF InMemory
<1>. QED BY <1>8, <1>9, <1>10 DEF Clean

LEMMA BeginOpenClean == ASSUME DInv, Clean, BeginOpen PROVE Clean'
<1>1. /\ Shut /\ metadata' = "whole" /\ stmt' = [phase |-> "load_tables", next |-> 1]
      /\ UNCHANGED <<catalogVars, catalogFile, indexFile, heaps, treeFiles>>
  BY DEF BeginOpen, Shut
<1>2. Loading' /\ ~In("refused")' /\ UNCHANGED indexes
  BY <1>1 DEF In, Loading, catalogVars
<1>3. Bare /\ Bare' /\ NewIndex' = {} /\ ~In("load_indexes")'
  BY <1>1, <1>2, Phases, BarePhases DEF PhaseFacts
<1>4. Types /\ Stored /\ TableRecords /\ IndexRecords /\ TreesExact /\ InMemory
  BY DEF DInv, Clean
<1>5. TableRecords' /\ IndexRecords' /\ TreesExact'
  BY <1>1, <1>3, <1>4, FilesQuiet
<1>6. Stored'
  BY <1>1, <1>2, <1>4, StoredQuiet
<1>7. InMemory'
  BY <1>1, <1>2, <1>3, <1>4 DEF InMemory
<1>. QED BY <1>5, <1>6, <1>7 DEF Clean

LEMMA OpenTableClean == ASSUME DInv, Clean, OpenTable PROVE Clean'
<1>1. /\ Loading /\ LoadTable(TableToLoad.id, TableToLoad.name)
      /\ stmt' = [stmt EXCEPT !.next = stmt.next + 1]
      /\ UNCHANGED <<metadata, catalogFile, indexFile, heaps, treeFiles>>
  BY DEF OpenTable, Loading, files
<1>2. stmt' = [phase |-> "load_tables", next |-> stmt.next + 1]
  BY <1>1, StmtShape DEF DInv, Types
<1>3. Loading' /\ ~In("refused")' /\ UNCHANGED indexes
  BY <1>1, <1>2 DEF In, Loading, LoadTable
<1>4. Bare /\ Bare' /\ NewIndex = {} /\ NewIndex' = {} /\ ~In("load_indexes")'
  BY <1>1, <1>3, Phases, BarePhases DEF PhaseFacts
<1>5. Types /\ Stored /\ TableRecords /\ IndexRecords /\ TreesExact /\ InMemory
  BY DEF DInv, Clean
<1>6. TableRecords' /\ IndexRecords' /\ TreesExact'
  BY <1>1, <1>4, <1>5, FilesQuiet
<1>7. Stored'
  BY <1>1, <1>3, <1>5, StoredQuiet DEF Stored
<1>8. InMemory'
  BY <1>1, <1>3, <1>4, <1>5 DEF InMemory
<1>. QED BY <1>6, <1>7, <1>8 DEF Clean

LEMMA ReadIndexCatalogClean == ASSUME DInv, Clean, ReadIndexCatalog PROVE Clean'
<1>1. /\ Loading /\ stmt' = [phase |-> "load_indexes", todo |-> Versioned]
      /\ UNCHANGED <<catalogVars, metadata, catalogFile, indexFile, heaps, treeFiles>>
  BY DEF ReadIndexCatalog, Loading, files, Versioned
<1>2. In("load_indexes")' /\ stmt'.todo = Versioned /\ ~In("refused")' /\ UNCHANGED indexes
  BY <1>1 DEF In, catalogVars
<1>3. Bare /\ Bare' /\ NewIndex' = {} /\ ~Shut' /\ ~Loading'
  BY <1>1, <1>2, Phases, BarePhases DEF PhaseFacts, Running
<1>4. Types /\ Stored /\ TableRecords /\ IndexRecords /\ TreesExact /\ InMemory
  BY DEF DInv, Clean
<1>5. TableRecords' /\ IndexRecords' /\ TreesExact'
  BY <1>1, <1>3, <1>4, FilesQuiet
<1>6. Stored'
  BY <1>1, <1>2, <1>4, StoredQuiet DEF Stored
<1>7. InMemory'
  <2>1. Versioned' = Versioned
    BY <1>1, VersionsQuiet
  <2>. QED BY <1>1, <1>2, <1>3, <1>4, <2>1 DEF InMemory
<1>. QED BY <1>5, <1>6, <1>7 DEF Clean

LEMMA OpenIndexClean == ASSUME DInv, Clean, OpenIndex PROVE Clean'
<1>. DEFINE id == Min(stmt.todo)
<1>1. /\ In("load_indexes") /\ stmt.todo # {} /\ LoadIndex(id, Latest(id))
      /\ stmt' = [stmt EXCEPT !.todo = stmt.todo \ {id}]
      /\ UNCHANGED <<metadata, catalogFile, indexFile, heaps, treeFiles>>
  BY DEF OpenIndex, files
<1>2. /\ stmt.todo \subseteq Ids /\ stmt.todo \subseteq Versioned
      /\ stmt' = [phase |-> "load_indexes", todo |-> stmt.todo \ {id}]
  BY <1>1, StmtShape DEF DInv, Types, StmtInv, Versioned
<1>3. id \in stmt.todo
  BY <1>1, <1>2, MinIsMember
<1>. HIDE DEF id
<1>4. In("load_indexes")' /\ stmt'.todo = stmt.todo \ {id} /\ ~In("refused")'
  BY <1>2 DEF In
<1>5. /\ Bare /\ Bare' /\ NewIndex = {} /\ NewIndex' = {}
      /\ ~Shut /\ ~Loading /\ ~Shut' /\ ~Loading'
  BY <1>1, <1>4, Phases, BarePhases DEF PhaseFacts, Running
<1>6. Types /\ Stored /\ TableRecords /\ IndexRecords /\ TreesExact /\ InMemory
  BY DEF DInv, Clean
<1>7. TableRecords' /\ IndexRecords' /\ TreesExact'
  BY <1>1, <1>5, <1>6, FilesQuiet
<1>8. Stored'
  BY <1>1, <1>4, <1>6, StoredQuiet DEF Stored
<1>9. InMemory'
  <2>1. Versioned' = Versioned /\ \A i : Latest(i)' = Latest(i)
    BY <1>1, VersionsQuiet
  <2>2. /\ DOMAIN indexes' = DOMAIN indexes \cup {id} /\ indexes'[id] = Latest(id)
        /\ \A i \in DOMAIN indexes : i # id => indexes'[i] = indexes[i]
    BY <1>1 DEF LoadIndex, Put
  <2>3. /\ DOMAIN indexes = Versioned \ stmt.todo
        /\ \A i \in DOMAIN indexes : indexes[i] = Latest(i)
    BY <1>1, <1>5, <1>6 DEF InMemory
  <2>4. DOMAIN indexes' = Versioned' \ stmt'.todo
    BY <1>2, <1>3, <1>4, <2>1, <2>2, <2>3
  <2>. QED BY <1>4, <1>5, <2>1, <2>2, <2>3, <2>4 DEF InMemory
<1>. QED BY <1>7, <1>8, <1>9 DEF Clean

(***************************************************************************)
(* Steps of CREATE TABLE and CREATE INDEX.                                 *)
(***************************************************************************)
LEMMA MakeTableFileClean == ASSUME DInv, Clean, MakeTableFile PROVE Clean'
<1>1. /\ In("table_file") /\ stmt.id \notin DOMAIN heaps
      /\ heaps' = Put(heaps, stmt.id, EmptyFile)
      /\ stmt' = [stmt EXCEPT !.phase = "table_record"]
      /\ UNCHANGED <<catalogVars, metadata, catalogFile, indexFile, treeFiles>>
  BY DEF MakeTableFile
<1>2. CreatingTable /\ stmt' = [phase |-> "table_record", id |-> stmt.id]
  BY <1>1, StmtShape DEF DInv, Types, CreatingTable
<1>3. In("table_record")' /\ CreatingTable' /\ stmt'.id = stmt.id /\ ~In("refused")'
      /\ UNCHANGED indexes
  BY <1>1, <1>2 DEF In, CreatingTable, catalogVars
<1>4. /\ Running /\ Running' /\ ~In("load_indexes") /\ ~In("load_indexes")'
      /\ NewIndex = {} /\ NewIndex' = {} /\ ~Inserting /\ ~Inserting'
      /\ ~CreatingIndex /\ ~CreatingIndex'
  BY <1>2, <1>3, Phases DEF PhaseFacts
<1>5. NewFile = {} /\ NewFile' = {stmt.id} /\ NewTreeFile = {} /\ NewTreeFile' = {}
  BY <1>1, <1>3, <1>4 DEF NewFile, NewTreeFile, CreatingIndex, In
<1>6. Types /\ Stored /\ TableRecords /\ IndexRecords /\ TreesExact /\ InMemory
  BY DEF DInv, Clean
<1>7. /\ DOMAIN heaps' = DOMAIN heaps \cup {stmt.id} /\ heaps'[stmt.id] = EmptyFile
      /\ \A t \in DOMAIN heaps : heaps'[t] = heaps[t]
  BY <1>1 DEF Put
<1>8. RecIds' = RecIds
  BY <1>1 DEF RecIds
<1>9. TableRecords'
  BY <1>1, <1>3, <1>5, <1>6, <1>7, <1>8 DEF TableRecords, EmptyFile
<1>10. \A t \in RecIds : heaps'[t].recs = heaps[t].recs
  BY <1>6, <1>7 DEF TableRecords
<1>11. IndexRecords' /\ TreesExact'
  BY <1>1, <1>4, <1>5, <1>6, <1>8, <1>10, IndexesQuiet
<1>12. Stored'
  BY <1>1, <1>3, <1>6, StoredQuiet DEF Stored
<1>13. InMemory'
  BY <1>1, <1>3, <1>4, <1>6, MemoryQuiet
<1>. QED BY <1>9, <1>11, <1>12, <1>13 DEF Clean

\* A record too large changes none of the records of its file.
LEMMA RefusedStored ==
    ASSUME NEW Rec, NEW f, Whole(f, Rec)
    PROVE  Refused(f).stored = f.stored
BY FileChanges DEF Refused

LEMMA AppendTableClean == ASSUME DInv, Clean, AppendTable PROVE Clean'
<1>1. /\ In("table_record") /\ Takes(catalogFile) /\ Return
      /\ catalogFile' = Written(catalogFile, NewTableRecord)
      /\ UNCHANGED <<catalogVars, metadata, indexFile, heaps, treeFiles>>
  BY DEF AppendTable
<1>2. In("idle")' /\ ~In("refused")' /\ CreatingTable /\ UNCHANGED indexes
  BY <1>1 DEF Return, Goto, In, CreatingTable, catalogVars
<1>3. /\ Running /\ Running' /\ ~In("load_indexes") /\ ~In("load_indexes")'
      /\ NewIndex = {} /\ NewIndex' = {} /\ ~Inserting /\ ~CreatingIndex /\ NewTable = {stmt.id}
      /\ Bare'
  BY <1>1, <1>2, Phases, BarePhases DEF PhaseFacts
<1>4. /\ NewFile = {stmt.id} /\ NewFile' = {} /\ NewTreeFile = {} /\ NewTreeFile' = {}
      /\ ~Inserting' /\ ~In("table_record")'
  BY <1>1, <1>3, BareFacts DEF NewFile, NewTreeFile, CreatingIndex, Bare
<1>5. /\ CatInv /\ Types /\ StmtInv
      /\ Stored /\ TableRecords /\ IndexRecords /\ TreesExact /\ InMemory
  BY DEF DInv, Clean
<1>. DEFINE name == tables[stmt.id]
            n == Len(catalogFile.recs) + 1
<1>6. stmt.id \in DOMAIN tables /\ stmt.id \in Ids /\ name \in TableNames
  BY <1>3, <1>5, CatalogFacts DEF StmtInv
<1>7. NewTableRecord = [id |-> stmt.id, name |-> name] /\ NewTableRecord \in TableRecord
  BY <1>6 DEF NewTableRecord, TableRecord
<1>8. /\ catalogFile'.recs = Append(catalogFile.recs, NewTableRecord) /\ catalogFile'.stored = n
  BY <1>1, <1>5, <1>7, FileWrites DEF Types
<1>9. /\ DOMAIN catalogFile'.recs = DOMAIN catalogFile.recs \cup {n} /\ Len(catalogFile'.recs) = n
      /\ catalogFile'.recs[n] = NewTableRecord
      /\ \A m \in DOMAIN catalogFile.recs : catalogFile'.recs[m] = catalogFile.recs[m] /\ m # n
  <2>1. catalogFile.recs \in Seq(TableRecord)
    BY <1>5, CatalogFileFacts
  <2>. QED BY <1>7, <1>8, <2>1, Appended
<1>10. ASSUME NEW m \in DOMAIN catalogFile.recs
       PROVE  catalogFile.recs[m].id # stmt.id /\ catalogFile.recs[m].name # name
  <2>1. /\ catalogFile.recs[m].id \in DOMAIN tables /\ catalogFile.recs[m].id # stmt.id
        /\ tables[catalogFile.recs[m].id] = catalogFile.recs[m].name
    BY <1>3, TablesInMemory DEF Settled
  <2>. QED BY <1>5, <1>6, <2>1, CatalogFacts
<1>11. RecIds' = RecIds \cup {stmt.id}
  BY <1>7, <1>9 DEF RecIds
<1>12. TableRecords'
  <2>1. ASSUME NEW i \in DOMAIN catalogFile'.recs, NEW j \in DOMAIN catalogFile'.recs,
               \/ catalogFile'.recs[i].id = catalogFile'.recs[j].id
               \/ catalogFile'.recs[i].name = catalogFile'.recs[j].name
        PROVE  i = j
    <3>1. NewTableRecord.id = stmt.id /\ NewTableRecord.name = name
      BY <1>7
    <3>2. CASE i = n /\ j # n
      BY <1>9, <1>10, <2>1, <3>1, <3>2
    <3>3. CASE i # n /\ j = n
      BY <1>9, <1>10, <2>1, <3>1, <3>3
    <3>4. CASE i # n /\ j # n
      <4>1. i \in DOMAIN catalogFile.recs /\ j \in DOMAIN catalogFile.recs
        BY <1>9, <3>4
      <4>. QED BY <1>5, <1>9, <2>1, <4>1 DEF TableRecords
    <3>. QED BY <3>2, <3>3, <3>4
  <2>. QED BY <1>1, <1>4, <1>5, <1>11, <2>1 DEF TableRecords
<1>13. IndexRecords' /\ TreesExact'
  BY <1>1, <1>3, <1>4, <1>5, <1>11, IndexesQuiet
<1>14. Stored'
  BY <1>1, <1>2, <1>5, <1>8, <1>9 DEF Stored
<1>15. InMemory'
  BY <1>1, <1>2, <1>3, <1>5, MemoryQuiet
<1>. QED BY <1>12, <1>13, <1>14, <1>15 DEF Clean

LEMMA AppendTableRefusedClean == ASSUME DInv, Clean, AppendTableRefused PROVE Clean'
<1>1. /\ In("table_record") /\ catalogFile' \in {catalogFile, Refused(catalogFile)}
      /\ heaps' = Without(heaps, stmt.id) /\ RemoveTable(stmt.id) /\ Return
      /\ UNCHANGED <<metadata, indexFile, treeFiles>>
  BY DEF AppendTableRefused, UndoTable
<1>2. In("idle")' /\ ~In("refused")' /\ CreatingTable /\ UNCHANGED indexes
  BY <1>1 DEF Return, Goto, In, CreatingTable, RemoveTable
<1>3. /\ Running /\ Running' /\ ~In("load_indexes") /\ ~In("load_indexes")'
      /\ NewIndex = {} /\ NewIndex' = {} /\ ~Inserting /\ ~CreatingIndex /\ NewTable = {stmt.id}
      /\ Bare'
  BY <1>1, <1>2, Phases, BarePhases DEF PhaseFacts
<1>4. /\ NewFile = {stmt.id} /\ NewFile' = {} /\ NewTreeFile = {} /\ NewTreeFile' = {}
      /\ ~Inserting' /\ ~In("table_record")'
  BY <1>1, <1>3, BareFacts DEF NewFile, NewTreeFile, CreatingIndex, Bare
<1>5. /\ Types /\ Stored /\ TableRecords /\ IndexRecords /\ TreesExact /\ InMemory
  BY DEF DInv, Clean
<1>6. catalogFile'.recs = catalogFile.recs /\ catalogFile'.stored = Len(catalogFile'.recs)
  BY <1>1, <1>5, FileRefused, RefusedStored DEF Types, Stored
<1>7. RecIds' = RecIds
  BY <1>6 DEF RecIds
<1>8. stmt.id \notin RecIds
  BY <1>3, SettledRecorded DEF Settled
<1>9. /\ DOMAIN heaps' = RecIds
      /\ \A t \in RecIds : heaps'[t] = heaps[t]
  <2>1. DOMAIN heaps = RecIds \cup {stmt.id}
    BY <1>4, <1>5 DEF TableRecords
  <2>. QED BY <1>1, <1>8, <2>1 DEF Without, Restrict
<1>10. TableRecords'
  BY <1>4, <1>5, <1>6, <1>7, <1>9 DEF TableRecords
<1>11. IndexRecords' /\ TreesExact'
  BY <1>1, <1>3, <1>4, <1>5, <1>7, <1>9, IndexesQuiet
<1>12. Stored'
  BY <1>1, <1>2, <1>5, <1>6 DEF Stored
<1>13. InMemory'
  BY <1>1, <1>2, <1>3, <1>5, MemoryQuiet
<1>. QED BY <1>10, <1>11, <1>12, <1>13 DEF Clean

\* The tree built from rows with distinct keys is exact.
LEMMA EntriesExact ==
    ASSUME NEW rows \in Seq(Rows), NEW c, IsUnique(rows, c)
    PROVE  Exact(Entries(rows, c), rows, c, Len(rows))
<1>1. DOMAIN rows = 1 .. Len(rows)
  OBVIOUS
<1>2. ASSUME NEW m \in DOMAIN rows PROVE (CHOOSE i \in DOMAIN rows : rows[i][c] = rows[m][c]) = m
  BY DEF IsUnique
<1>. QED BY <1>1, <1>2 DEF Entries, Exact

LEMMA BuildIndexClean == ASSUME DInv, Clean, BuildIndex PROVE Clean'
<1>1. PICK root \in Roots :
         /\ In("index_file") /\ stmt.id \notin DOMAIN treeFiles
         /\ IsUnique(IndexedRows, IndexedColumn)
         /\ treeFiles' = Put(treeFiles, stmt.id, NewTree(Entries(IndexedRows, IndexedColumn), root))
         /\ stmt' = [stmt EXCEPT !.phase = "index_record"]
         /\ UNCHANGED <<catalogVars, metadata, catalogFile, indexFile, heaps>>
  BY DEF BuildIndex
<1>2. CreatingIndex /\ stmt' = [phase |-> "index_record", id |-> stmt.id]
  BY <1>1, StmtShape DEF DInv, Types, CreatingIndex
<1>3. In("index_record")' /\ CreatingIndex' /\ stmt'.id = stmt.id /\ ~In("refused")'
      /\ UNCHANGED indexes
  BY <1>1, <1>2 DEF In, CreatingIndex, catalogVars
<1>4. /\ Running /\ Running' /\ ~In("load_indexes") /\ ~In("load_indexes")'
      /\ NewIndex = {stmt.id} /\ NewIndex' = {stmt.id} /\ ~Inserting /\ ~Inserting'
      /\ NewTable = {} /\ ~CreatingTable'
  BY <1>2, <1>3, Phases DEF PhaseFacts
<1>5. /\ NewFile = {} /\ NewFile' = {} /\ NewTreeFile = {} /\ NewTreeFile' = {stmt.id}
      /\ ~In("table_record")' /\ Pending = {} /\ Pending' = {} /\ ~In("version") /\ ~In("version")'
  BY <1>1, <1>3, <1>4 DEF NewFile, NewTreeFile, CreatingTable, Inserting, Pending, In
<1>6. /\ CatInv /\ Types /\ StmtInv /\ StorageInv
      /\ Stored /\ TableRecords /\ IndexRecords /\ TreesExact /\ InMemory
  BY DEF DInv, Clean
<1>7. /\ DOMAIN treeFiles' = DOMAIN treeFiles \cup {stmt.id}
      /\ treeFiles'[stmt.id].found = Entries(IndexedRows, IndexedColumn)
      /\ \A i \in DOMAIN treeFiles : treeFiles'[i] = treeFiles[i]
  BY <1>1 DEF Put, NewTree
<1>8. RecIds' = RecIds
  BY <1>1 DEF RecIds
<1>9. Versions' = Versions /\ Versioned' = Versioned /\ \A i : Latest(i)' = Latest(i)
  BY <1>1, VersionsQuiet
<1>10. TableRecords'
  BY <1>1, <1>5, <1>6, <1>8 DEF TableRecords
<1>11. IndexRecords'
  <2>1. HistoryOk' = HistoryOk
    BY <1>9 DEF HistoryOk
  <2>2. \A i \in Versioned : i \in DOMAIN treeFiles
    BY <1>6 DEF IndexRecords
  <2>. QED BY <1>5, <1>6, <1>7, <1>8, <1>9, <2>1, <2>2 DEF IndexRecords
<1>12. TreesExact'
  <2>1. ASSUME NEW i \in Versioned'
        PROVE  Exact(treeFiles[i].found, RowsOf(i), Latest(i).column, RowsIn(i))'
    <3>1. i \in Versioned /\ Latest(i)' = Latest(i)
      BY <1>9
    <3>2. RowsOf(i)' = RowsOf(i) /\ i \in DOMAIN treeFiles
      BY <1>1, <1>6, <3>1, RowsFacts DEF RowsOf
    <3>3. RowsIn(i)' = RowsIn(i)
      BY <1>5, <3>2 DEF RowsIn
    <3>4. treeFiles'[i].found = treeFiles[i].found
      BY <1>7, <3>2
    <3>. QED BY <1>6, <3>1, <3>2, <3>3, <3>4 DEF TreesExact, Exact
  <2>2. IndexedRows \in Seq(Rows)
    <3>1. indexes[stmt.id].table \in DOMAIN heaps
      BY <1>4, <1>6 DEF StmtInv, StorageInv
    <3>. QED BY <1>6, <3>1, HeapFacts DEF IndexedRows, IndexedHeap, Types
  <2>3. Exact(Entries(IndexedRows, IndexedColumn), IndexedRows, IndexedColumn, Len(IndexedRows))
    BY <1>1, <2>2, EntriesExact
  <2>4. IndexedRows' = IndexedRows /\ IndexedColumn' = IndexedColumn
    BY <1>1, <1>3 DEF IndexedRows, IndexedHeap, IndexedColumn
  <2>5. Exact(treeFiles[stmt.id].found, IndexedRows, IndexedColumn, Len(IndexedRows))'
    BY <1>3, <1>7, <2>3, <2>4 DEF Exact
  <2>. QED BY <1>4, <1>5, <2>1, <2>5 DEF TreesExact
<1>13. Stored'
  BY <1>1, <1>3, <1>6, StoredQuiet DEF Stored
<1>14. InMemory'
  BY <1>1, <1>3, <1>4, <1>6, MemoryQuiet
<1>. QED BY <1>10, <1>11, <1>12, <1>13, <1>14 DEF Clean

\* Two entries that differ in the root only.
LEMMA AgreeButRoot ==
    ASSUME NEW e \in IndexEntry, NEW f \in IndexEntry
    PROVE  [e EXCEPT !.root = NoRoot] = [f EXCEPT !.root = NoRoot]
             <=> e.name = f.name /\ e.table = f.table /\ e.column = f.column
<1>1. /\ [e EXCEPT !.root = NoRoot]
            = [name |-> e.name, table |-> e.table, column |-> e.column, root |-> NoRoot]
      /\ [f EXCEPT !.root = NoRoot]
            = [name |-> f.name, table |-> f.table, column |-> f.column, root |-> NoRoot]
  BY DEF IndexEntry
<1>. QED BY <1>1

LEMMA MovedRoot ==
    ASSUME NEW e \in IndexEntry, NEW r \in Roots
    PROVE  LET f == [e EXCEPT !.root = r]
           IN  /\ f \in IndexEntry /\ f.root = r
               /\ f.name = e.name /\ f.table = e.table /\ f.column = e.column
BY DEF IndexEntry

\* A version agrees with the newest one of its index in all but the root.
LEMMA VersionAgrees ==
    ASSUME Types, HistoryOk, NEW v \in Versions
    PROVE  /\ v.id \in Versioned /\ v.entry \in IndexEntry /\ Latest(v.id) \in IndexEntry
           /\ v.entry.name = Latest(v.id).name /\ v.entry.table = Latest(v.id).table
           /\ v.entry.column = Latest(v.id).column
<1>1. v.id \in Versioned
  BY DEF Versioned
<1>2. v.entry \in IndexEntry
  BY IndexFileFacts
<1>3. [id |-> v.id, entry |-> Latest(v.id)] \in Versions /\ Latest(v.id) \in IndexEntry
  BY <1>1, LatestIsVersion
<1>4. PICK w \in Versions : w.id = v.id /\ w.entry = Latest(v.id)
  BY <1>3
<1>5. [v.entry EXCEPT !.root = NoRoot] = [w.entry EXCEPT !.root = NoRoot]
  BY <1>4 DEF HistoryOk
<1>. QED BY <1>1, <1>2, <1>3, <1>4, <1>5, AgreeButRoot

\* A version appended keeps the history in order, if its index is new in name and
\* column, or it is one the file has.
LEMMA HistoryExtended ==
    ASSUME Types, IndexRecords, NEW v \in Version, Versions' = Versions \cup {v},
           \A w \in Versions :
              IF w.id = v.id
              THEN /\ w.entry.name = v.entry.name /\ w.entry.table = v.entry.table
                   /\ w.entry.column = v.entry.column
              ELSE /\ w.entry.name # v.entry.name
                   /\ w.entry.table # v.entry.table \/ w.entry.column # v.entry.column
    PROVE  /\ HistoryOk'
           /\ \A u, w \in Versions' :
                 u.entry.table = w.entry.table /\ u.entry.column = w.entry.column => u.id = w.id
<1>1. \A w \in Versions' : w.entry \in IndexEntry
  <2>1. v.entry \in IndexEntry
    BY DEF Version, TreeEntry, IndexEntry
  <2>. QED BY <2>1, IndexFileFacts
<1>2. ASSUME NEW w \in Versions
      PROVE  w.id = v.id =>
               [w.entry EXCEPT !.root = NoRoot] = [v.entry EXCEPT !.root = NoRoot]
  BY <1>1, AgreeButRoot
<1>. DEFINE InOrder(u, w) ==
               /\ u.id = w.id =>
                    [u.entry EXCEPT !.root = NoRoot] = [w.entry EXCEPT !.root = NoRoot]
               /\ u.entry.name = w.entry.name => u.id = w.id
               /\ u.entry.table = w.entry.table /\ u.entry.column = w.entry.column => u.id = w.id
<1>3. \A u, w \in Versions : InOrder(u, w)
  BY DEF IndexRecords, HistoryOk
<1>4. \A w \in Versions : InOrder(v, w) /\ InOrder(w, v)
  BY <1>2
<1>5. InOrder(v, v)
  OBVIOUS
<1>. HIDE DEF InOrder
<1>6. \A u, w \in Versions' : InOrder(u, w)
  BY <1>3, <1>4, <1>5
<1>. QED BY <1>6 DEF HistoryOk, InOrder

LEMMA AppendIndexClean == ASSUME DInv, DInv', Clean, AppendIndex PROVE Clean'
<1>a. PICK id : id = stmt.id
  OBVIOUS
<1>b. PICK entry : entry = EntryWithRoot(id)
  OBVIOUS
<1>c. PICK v : v = [id |-> id, entry |-> entry]
  OBVIOUS
<1>1. /\ In("index_record") /\ Takes(indexFile) /\ indexFile' = Written(indexFile, v)
      /\ UpdateIndexRoot(id, entry.root) /\ Return
      /\ UNCHANGED <<metadata, catalogFile, heaps, treeFiles>>
  BY <1>a, <1>b, <1>c DEF AppendIndex
<1>2. In("idle")' /\ ~In("refused")' /\ CreatingIndex
  BY <1>1 DEF Return, Goto, In, CreatingIndex
<1>3. /\ Running /\ Running' /\ ~In("load_indexes") /\ ~In("load_indexes")'
      /\ NewIndex = {id} /\ NewIndex' = {} /\ ~Inserting /\ ~CreatingTable /\ NewTable = {}
      /\ Bare'
  BY <1>a, <1>1, <1>2, Phases, BarePhases DEF PhaseFacts
<1>4. /\ NewFile = {} /\ NewFile' = {} /\ NewTreeFile = {id} /\ NewTreeFile' = {}
      /\ Pending = {} /\ Pending' = {} /\ ~In("version") /\ ~In("version")' /\ ~Inserting'
      /\ ~In("table_record")' /\ ~In("index_record")'
  BY <1>a, <1>1, <1>3, BareFacts DEF NewFile, NewTreeFile, CreatingTable, Bare, Pending, Inserting
<1>5. /\ CatInv /\ CatInv' /\ Types /\ StorageInv
      /\ Stored /\ TableRecords /\ IndexRecords /\ TreesExact /\ InMemory
  BY DEF DInv, Clean
<1>6. /\ id \in DOMAIN indexes /\ indexes[id] \in IndexEntry /\ treeFiles[id].root \in Roots
      /\ v \in Version /\ entry \in IndexEntry /\ id \in Ids
  BY <1>a, <1>b, <1>c, <1>1, NewIndexFacts
<1>7. /\ entry.root = treeFiles[id].root /\ entry.name = indexes[id].name
      /\ entry.table = indexes[id].table /\ entry.column = indexes[id].column
  BY <1>b, <1>6, MovedRoot DEF EntryWithRoot
<1>8. DOMAIN indexes = Versioned \cup {id} /\ id \notin Versioned
      /\ \A i \in Versioned : indexes[i] = Latest(i)
  BY <1>3, <1>5, MemoryRunning DEF InMemory
<1>9. v.id = id /\ v.entry = entry
  BY <1>c
<1>10. /\ Versions' = Versions \cup {v} /\ Versioned' = Versioned \cup {id}
       /\ Latest(id)' = entry /\ \A i \in Versioned : i # id => Latest(i)' = Latest(i)
       /\ indexFile'.stored = Len(indexFile'.recs)
  BY <1>1, <1>5, <1>6, <1>9, VersionAdded
<1>11. RecIds' = RecIds
  BY <1>1 DEF RecIds
<1>12. TableRecords'
  BY <1>1, <1>4, <1>5, <1>11 DEF TableRecords
<1>13. IndexRecords'
  <2>1. ASSUME NEW w \in Versions
        PROVE  /\ w.id # v.id /\ w.entry.name # v.entry.name
               /\ w.entry.table # v.entry.table \/ w.entry.column # v.entry.column
    <3>1. /\ w.id \in Versioned /\ w.entry.name = Latest(w.id).name
          /\ w.entry.table = Latest(w.id).table /\ w.entry.column = Latest(w.id).column
      BY <1>5, VersionAgrees DEF IndexRecords
    <3>2. /\ w.id \in DOMAIN indexes /\ w.id # id
          /\ w.entry.name = indexes[w.id].name
          /\ w.entry.table = indexes[w.id].table /\ w.entry.column = indexes[w.id].column
      BY <1>8, <3>1
    <3>3. w.entry.name # entry.name
      BY <1>5, <1>6, <1>7, <3>2 DEF CatInv, MapsMirror
    <3>4. w.entry.table # entry.table \/ w.entry.column # entry.column
      BY <1>5, <1>6, <1>7, <3>2 DEF CatInv, OneIndexPerColumn
    <3>. QED BY <1>9, <3>2, <3>3, <3>4
  <2>2. /\ HistoryOk'
        /\ \A u, w \in Versions' :
              u.entry.table = w.entry.table /\ u.entry.column = w.entry.column => u.id = w.id
    BY <1>5, <1>6, <1>10, <2>1, HistoryExtended
  <2>3. entry.table \in RecIds /\ entry.root \in Roots
    BY <1>3, <1>5, <1>6, <1>7, SettledRecorded DEF StorageInv
  <2>4. \A w \in Versions' : w.entry.table \in RecIds' /\ w.entry.root \in Roots
    BY <1>5, <1>9, <1>10, <1>11, <2>3 DEF IndexRecords
  <2>5. DOMAIN treeFiles' = Versioned'
    BY <1>1, <1>4, <1>5, <1>10 DEF IndexRecords
  <2>6. \A i \in Versioned' : treeFiles'[i].root = Latest(i)'.root
    BY <1>1, <1>4, <1>5, <1>7, <1>8, <1>10 DEF IndexRecords
  <2>. QED BY <1>4, <2>2, <2>4, <2>5, <2>6 DEF IndexRecords
<1>14. TreesExact'
  <2>1. ASSUME NEW i \in Versioned'
        PROVE  Exact(treeFiles[i].found, RowsOf(i), Latest(i).column, RowsIn(i))'
    <3>1. RowsIn(i)' = Len(RowsOf(i)')
      BY <1>4 DEF RowsIn
    <3>2. CASE i = id
      <4>1. Exact(treeFiles[id].found, IndexedRows, IndexedColumn, Len(IndexedRows))
        BY <1>a, <1>1, <1>5 DEF TreesExact
      <4>2. IndexedRows = heaps[entry.table].recs /\ IndexedColumn = entry.column
        BY <1>a, <1>7 DEF IndexedRows, IndexedHeap, IndexedColumn
      <4>3. Latest(i)' = entry
        BY <1>10, <3>2
      <4>4. RowsOf(i)' = heaps[entry.table].recs
        BY <1>1, <4>3 DEF RowsOf
      <4>5. Exact(treeFiles'[i].found, heaps[entry.table].recs, entry.column,
                  Len(heaps[entry.table].recs))
        <5>1. treeFiles'[i].found = treeFiles[id].found
          BY <1>1, <3>2
        <5>. QED BY <4>1, <4>2, <5>1
      <4>6. Exact(treeFiles'[i].found, RowsOf(i)', Latest(i)'.column, RowsIn(i)')
        BY <3>1, <4>3, <4>4, <4>5
      <4>. QED BY <4>6 DEF Exact
    <3>3. CASE i # id
      <4>1. i \in Versioned /\ Latest(i)' = Latest(i)
        BY <1>10, <3>3
      <4>2. RowsOf(i)' = RowsOf(i) /\ RowsIn(i) = Len(RowsOf(i))
        BY <1>1, <1>4, <4>1 DEF RowsOf, RowsIn
      <4>. QED BY <1>1, <1>5, <3>1, <4>1, <4>2 DEF TreesExact, Exact
    <3>. QED BY <3>2, <3>3
  <2>. QED BY <1>4, <2>1 DEF TreesExact
<1>15. Stored'
  BY <1>1, <1>2, <1>5, <1>10 DEF Stored
<1>16. InMemory'
  <2>1. ~Shut' /\ ~Loading'
    BY <1>3 DEF Running
  <2>2. /\ DOMAIN indexes' = DOMAIN indexes
        /\ indexes'[id] = [indexes[id] EXCEPT !.root = entry.root]
        /\ \A i \in DOMAIN indexes : i # id => indexes'[i] = indexes[i]
    <3>1. indexes' = [indexes EXCEPT ![id].root = entry.root]
      BY <1>1 DEF UpdateIndexRoot
    <3>2. indexes = [i \in DOMAIN indexes |-> indexes[i]]
      BY <1>5 DEF CatInv, CatalogTypeOK
    <3>. QED BY <1>6, <3>1, <3>2
  <2>3. indexes'[id] = entry
    BY <1>b, <1>6, <1>7, <2>2 DEF EntryWithRoot
  <2>. QED BY <1>3, <1>8, <1>10, <2>1, <2>2, <2>3 DEF InMemory
<1>. QED BY <1>12, <1>13, <1>14, <1>15, <1>16 DEF Clean

LEMMA AppendIndexRefusedClean == ASSUME DInv, Clean, AppendIndexRefused PROVE Clean'
<1>1. /\ In("index_record") /\ indexFile' \in {indexFile, Refused(indexFile)}
      /\ treeFiles' = Without(treeFiles, stmt.id) /\ RemoveIndex(stmt.id) /\ Return
      /\ UNCHANGED <<metadata, catalogFile, heaps>>
  BY DEF AppendIndexRefused, UndoIndex
<1>2. In("idle")' /\ ~In("refused")' /\ CreatingIndex
  BY <1>1 DEF Return, Goto, In, CreatingIndex
<1>3. /\ Running /\ Running' /\ ~In("load_indexes") /\ ~In("load_indexes")'
      /\ NewIndex = {stmt.id} /\ NewIndex' = {} /\ ~Inserting /\ ~CreatingTable /\ Bare'
  BY <1>1, <1>2, Phases, BarePhases DEF PhaseFacts
<1>4. /\ NewFile = {} /\ NewFile' = {} /\ NewTreeFile = {stmt.id} /\ NewTreeFile' = {}
      /\ Pending = {} /\ Pending' = {} /\ ~In("version") /\ ~In("version")' /\ ~Inserting'
      /\ ~In("table_record")' /\ ~In("index_record")'
  BY <1>1, <1>3, BareFacts DEF NewFile, NewTreeFile, CreatingTable, Bare, Pending, Inserting
<1>5. /\ Types /\ Stored /\ TableRecords /\ IndexRecords /\ TreesExact /\ InMemory
  BY DEF DInv, Clean
<1>6. indexFile'.recs = indexFile.recs /\ indexFile'.stored = Len(indexFile'.recs)
  BY <1>1, <1>5, FileRefused, RefusedStored DEF Types, Stored
<1>7. Versions' = Versions /\ Versioned' = Versioned /\ \A i : Latest(i)' = Latest(i)
  BY <1>6, VersionsQuiet
<1>8. DOMAIN indexes = Versioned \cup {stmt.id} /\ stmt.id \notin Versioned
      /\ \A i \in Versioned : indexes[i] = Latest(i)
  BY <1>3, <1>5, MemoryRunning DEF InMemory
<1>9. DOMAIN treeFiles' = Versioned /\ \A i \in Versioned : treeFiles'[i] = treeFiles[i]
  <2>1. DOMAIN treeFiles = Versioned \cup {stmt.id}
    BY <1>4, <1>5 DEF IndexRecords
  <2>. QED BY <1>1, <1>8, <2>1 DEF Without, Restrict
<1>10. RecIds' = RecIds
  BY <1>1 DEF RecIds
<1>11. TableRecords'
  BY <1>1, <1>4, <1>5, <1>10 DEF TableRecords
<1>12. IndexRecords'
  <2>1. HistoryOk' = HistoryOk
    BY <1>7 DEF HistoryOk
  <2>. QED BY <1>4, <1>5, <1>7, <1>9, <1>10, <2>1 DEF IndexRecords
<1>13. TreesExact'
  <2>1. ASSUME NEW i \in Versioned'
        PROVE  Exact(treeFiles[i].found, RowsOf(i), Latest(i).column, RowsIn(i))'
    <3>1. i \in Versioned /\ Latest(i)' = Latest(i) /\ treeFiles'[i] = treeFiles[i]
      BY <1>7, <1>9
    <3>2. RowsOf(i)' = RowsOf(i)
      BY <1>1, <3>1 DEF RowsOf
    <3>3. RowsIn(i)' = RowsIn(i)
      BY <1>4, <3>2 DEF RowsIn
    <3>. QED BY <1>5, <3>1, <3>2, <3>3 DEF TreesExact, Exact
  <2>. QED BY <1>4, <2>1 DEF TreesExact
<1>14. Stored'
  BY <1>1, <1>2, <1>5, <1>6 DEF Stored
<1>15. InMemory'
  <2>1. /\ DOMAIN indexes' = DOMAIN indexes \ {stmt.id}
        /\ \A i \in DOMAIN indexes' : indexes'[i] = indexes[i]
    <3>1. indexes' = Without(indexes, stmt.id)
      BY <1>1 DEF RemoveIndex
    <3>. QED BY <3>1 DEF Without, Restrict
  <2>2. ~Shut' /\ ~Loading'
    BY <1>3 DEF Running
  <2>. QED BY <1>3, <1>7, <1>8, <2>1, <2>2 DEF InMemory
<1>. QED BY <1>11, <1>12, <1>13, <1>14, <1>15 DEF Clean

(***************************************************************************)
(* Steps of INSERT.                                                        *)
(***************************************************************************)
\* The storage has the newest version of every index, once the index file is read.
LEMMA TreesInMemory ==
    ASSUME DInv, Clean, Running, ~In("load_indexes"), NewIndex = {}
    PROVE  /\ DOMAIN indexes = Versioned /\ DOMAIN trees = Versioned
           /\ \A i \in Versioned : trees[i] = Latest(i) /\ indexes[i] = Latest(i)
<1>1. StorageInv /\ InMemory
  BY DEF DInv, Clean
<1>2. DOMAIN indexes = Versioned /\ \A i \in Versioned : indexes[i] = Latest(i)
  BY <1>1, MemoryRunning DEF InMemory
<1>. QED BY <1>1, <1>2 DEF StorageInv

\* After a row is in one index the insert goes on with the others, or ends.
LEMMA ContinueClean ==
    ASSUME NEW t, NEW rid, NEW row, NEW todo, Continue(t, rid, row, todo)
    PROVE  /\ Pending' = todo /\ Running' /\ ~In("load_indexes")' /\ ~In("refused")'
           /\ ~In("version")' /\ NewFile' = {} /\ NewTreeFile' = {} /\ NewIndex' = {}
           /\ ~In("table_record")' /\ ~In("index_record")'
           /\ Inserting' => stmt'.table = t /\ stmt'.rid = rid
           /\ todo # {} => Inserting'
<1>1. CASE todo = {}
  <2>1. In("idle")' /\ ~In("refused")'
    BY <1>1 DEF Continue, Return, Goto, In
  <2>. QED BY <1>1, <2>1, Phases, BarePhases, BareFacts DEF PhaseFacts, Bare
<1>2. CASE todo # {}
  <2>1. stmt' = [phase |-> "index_row", table |-> t, rid |-> rid, todo |-> todo]
    BY <1>2 DEF Continue
  <2>2. /\ In("index_row")' /\ Inserting' /\ ~In("refused")' /\ ~In("version")'
        /\ ~In("table_record")' /\ ~In("index_record")' /\ stmt'.todo = todo
    BY <2>1 DEF In, Inserting
  <2>. QED BY <1>2, <2>1, <2>2, Phases DEF PhaseFacts, Pending, NewFile, NewTreeFile
<1>. QED BY <1>1, <1>2

\* An exact tree stays exact when rows are added that are not its concern yet.
LEMMA ExactPrefix ==
    ASSUME NEW old \in Seq(Rows), NEW row \in Rows, NEW found, NEW c,
           Exact(found, old, c, Len(old))
    PROVE  Exact(found, Append(old, row), c, Len(old))
<1>1. \A m \in 1 .. Len(old) : Append(old, row)[m] = old[m]
  OBVIOUS
<1>. QED BY <1>1 DEF Exact

\* A tree that gets the key of the next row is exact for one row more.
LEMMA ExactExtended ==
    ASSUME NEW found, NEW rows, NEW c, NEW n \in Nat \ {0}, Exact(found, rows, c, n - 1),
           rows[n][c] \notin DOMAIN found
    PROVE  Exact(Put(found, rows[n][c], n), rows, c, n)
<1>. DEFINE key == rows[n][c]
            new == Put(found, key, n)
<1>1. 1 .. n = (1 .. (n - 1)) \cup {n}
  OBVIOUS
<1>2. /\ DOMAIN new = DOMAIN found \cup {key} /\ new[key] = n
      /\ \A k \in DOMAIN found : k # key => new[k] = found[k]
  BY DEF Put
<1>3. \A m \in 1 .. (n - 1) : rows[m][c] \in DOMAIN found /\ found[rows[m][c]] = m
  BY DEF Exact
<1>4. DOMAIN new = {rows[m][c] : m \in 1 .. n}
  BY <1>1, <1>2 DEF Exact
<1>5. \A m \in 1 .. n : new[rows[m][c]] = m
  <2>1. ASSUME NEW m \in 1 .. (n - 1) PROVE new[rows[m][c]] = m
    BY <1>2, <1>3
  <2>. QED BY <1>1, <1>2, <2>1
<1>. QED BY <1>4, <1>5 DEF Exact

LEMMA InsertRowClean ==
    ASSUME DInv, Clean, Sound, NEW t \in Ids, NEW row \in Rows, InsertRow(t, row)
    PROVE  Clean'
<1>1. /\ In("idle") /\ t \in DOMAIN tables /\ NoDuplicate(t, row) /\ Takes(heaps[t])
      /\ heaps' = [heaps EXCEPT ![t] = Written(heaps[t], row)]
      /\ Continue(t, Len(heaps[t].recs) + 1, row, TableIndexes(t))
      /\ UNCHANGED <<catalogVars, metadata, catalogFile, indexFile, treeFiles>>
  BY DEF InsertRow, CanInsert, RowWritten
<1>2. PICK old : old = heaps[t].recs
  OBVIOUS
<1>3. PICK todo : todo = TableIndexes(t)
  OBVIOUS
<1>. DEFINE n == Len(old) + 1
            new == Append(old, row)
<1>4. /\ CatInv /\ Types /\ StorageInv
      /\ Stored /\ TableRecords /\ IndexRecords /\ TreesExact /\ InMemory
  BY DEF DInv, Clean
<1>5. /\ Running /\ ~In("load_indexes") /\ NewTable = {} /\ NewIndex = {} /\ Bare
      /\ NewFile = {} /\ NewTreeFile = {} /\ Pending = {} /\ ~In("version") /\ ~In("table_record")
  BY <1>1, Phases, BarePhases, BareFacts DEF PhaseFacts, Bare
<1>6. /\ Pending' = todo /\ Running' /\ ~In("load_indexes")' /\ ~In("refused")'
      /\ ~In("version")' /\ NewFile' = {} /\ NewTreeFile' = {} /\ NewIndex' = {}
      /\ ~In("table_record")' /\ ~In("index_record")'
      /\ Inserting' => stmt'.table = t /\ stmt'.rid = n
      /\ todo # {} => Inserting'
  BY <1>1, <1>2, <1>3, ContinueClean
<1>7. t \in DOMAIN heaps /\ old \in Seq(Rows) /\ Whole(heaps[t], Rows) /\ Len(old) \in Nat
  <2>1. t \in DOMAIN heaps
    BY <1>1, <1>4, <1>5, IdleFacts
  <2>. QED BY <1>2, <1>4, <2>1, HeapFacts DEF Types, HeapsOK
<1>8. /\ DOMAIN heaps' = DOMAIN heaps /\ heaps'[t].recs = new
      /\ \A s \in DOMAIN heaps : s # t => heaps'[s] = heaps[s]
  <2>1. Written(heaps[t], row).recs = new
    BY <1>1, <1>2, <1>7, FileWrites
  <2>2. heaps = [s \in DOMAIN heaps |-> heaps[s]]
    BY <1>4 DEF Types, HeapsOK
  <2>. QED BY <1>1, <1>7, <2>1, <2>2
<1>9. /\ DOMAIN trees = Versioned /\ \A i \in Versioned : trees[i] = Latest(i)
      /\ Versioned' = Versioned /\ Versions' = Versions /\ \A i : Latest(i)' = Latest(i)
  BY <1>1, <1>4, <1>5, TreesInMemory, VersionsQuiet
<1>10. \A i \in Versioned : i \in todo <=> Latest(i).table = t
  BY <1>3, <1>9 DEF TableIndexes
<1>11. todo \subseteq Versioned
  BY <1>3, <1>9 DEF TableIndexes
<1>12. RecIds' = RecIds
  BY <1>1 DEF RecIds
<1>13. TableRecords'
  BY <1>1, <1>4, <1>5, <1>6, <1>8, <1>12 DEF TableRecords
<1>14. IndexRecords'
  <2>1. HistoryOk' = HistoryOk
    BY <1>9 DEF HistoryOk
  <2>. QED BY <1>1, <1>4, <1>5, <1>6, <1>9, <1>12, <2>1 DEF IndexRecords
<1>15. TreesExact'
  <2>1. ASSUME NEW i \in Versioned'
        PROVE  Exact(treeFiles[i].found, RowsOf(i), Latest(i).column, RowsIn(i))'
    <3>1. i \in Versioned /\ Latest(i)' = Latest(i)
      BY <1>9
    <3>2. Exact(treeFiles[i].found, RowsOf(i), Latest(i).column, Len(RowsOf(i)))
      BY <1>4, <1>5, <3>1 DEF TreesExact, RowsIn
    <3>3. CASE Latest(i).table = t
      <4>1. RowsOf(i) = old /\ RowsOf(i)' = new
        BY <1>2, <1>8, <3>1, <3>3 DEF RowsOf
      <4>2. RowsIn(i)' = Len(old)
        <5>1. i \in todo /\ stmt'.rid = n
          BY <1>6, <1>10, <3>1, <3>3
        <5>. QED BY <1>6, <1>7, <5>1 DEF RowsIn
      <4>3. Exact(treeFiles[i].found, new, Latest(i).column, Len(old))
        BY <1>7, <3>2, <4>1, ExactPrefix
      <4>. QED BY <1>1, <3>1, <4>1, <4>2, <4>3 DEF Exact
    <3>4. CASE Latest(i).table # t
      <4>1. RowsOf(i)' = RowsOf(i)
        BY <1>4, <1>8, <3>1, <3>4, RowsFacts DEF RowsOf
      <4>2. RowsIn(i)' = Len(RowsOf(i))
        BY <1>6, <1>10, <3>1, <3>4, <4>1 DEF RowsIn
      <4>. QED BY <1>1, <3>1, <3>2, <4>1, <4>2 DEF Exact
    <3>. QED BY <3>3, <3>4
  <2>2. Inserting' => stmt'.rid = Len(heaps'[stmt'.table].recs)
    BY <1>6, <1>7, <1>8
  <2>3. ASSUME NEW i \in Pending'
        PROVE  CurrentRow'[Latest(i)'.column] \notin DOMAIN treeFiles'[i].found
    <3>1. i \in todo /\ i \in Versioned /\ i \in TableIndexes(t)
      BY <1>3, <1>6, <1>11, <2>3
    <3>2. CurrentRow' = row
      <4>1. stmt'.table = t /\ stmt'.rid = n
        BY <1>6, <3>1
      <4>. QED BY <1>7, <1>8, <4>1 DEF CurrentRow
    <3>3. row[Latest(i).column] \notin DOMAIN treeFiles[i].found
      <4>1. treeFiles[i].pages # "broken"
        BY <1>4, <3>1 DEF IndexRecords, Sound
      <4>. QED BY <1>1, <1>9, <3>1, <4>1 DEF NoDuplicate, Misses
    <3>. QED BY <1>1, <1>9, <3>2, <3>3
  <2>. QED BY <1>6, <2>1, <2>2, <2>3 DEF TreesExact
<1>16. Stored'
  BY <1>1, <1>4, <1>6, StoredQuiet DEF Stored
<1>17. InMemory'
  BY <1>1, <1>4, <1>5, <1>6, MemoryQuiet DEF catalogVars
<1>. QED BY <1>13, <1>14, <1>15, <1>16, <1>17 DEF Clean

LEMMA InsertRowRefusedClean ==
    ASSUME DInv, Clean, NEW t \in Ids, NEW row \in Rows, InsertRowRefused(t, row)
    PROVE  Clean'
<1>1. /\ In("idle") /\ t \in DOMAIN tables /\ heaps' = [heaps EXCEPT ![t] = Refused(heaps[t])]
      /\ UNCHANGED <<catalogVars, metadata, catalogFile, indexFile, treeFiles, stmt>>
  BY DEF InsertRowRefused, CanInsert
<1>2. In("idle")' /\ ~In("refused")' /\ UNCHANGED indexes
  BY <1>1 DEF In, catalogVars
<1>3. /\ Running /\ Running' /\ ~In("load_indexes") /\ ~In("load_indexes")'
      /\ NewIndex = {} /\ NewIndex' = {} /\ Bare /\ Bare'
  BY <1>1, <1>2, Phases, BarePhases DEF PhaseFacts
<1>4. Types /\ Stored /\ TableRecords /\ IndexRecords /\ TreesExact /\ InMemory
  BY DEF DInv, Clean
<1>5. DOMAIN heaps' = DOMAIN heaps /\ \A s \in DOMAIN heaps : heaps'[s].recs = heaps[s].recs
  <2>1. heaps = [s \in DOMAIN heaps |-> heaps[s]] /\ \A s \in DOMAIN heaps : Whole(heaps[s], Rows)
    BY <1>4 DEF Types, HeapsOK
  <2>2. \A s \in DOMAIN heaps : Refused(heaps[s]).recs = heaps[s].recs
    BY <2>1, FileRefused
  <2>. QED BY <1>1, <2>1, <2>2
<1>6. TableRecords' /\ IndexRecords' /\ TreesExact'
  BY <1>1, <1>3, <1>4, <1>5, FilesQuiet
<1>7. Stored'
  BY <1>1, <1>2, <1>4, StoredQuiet DEF Stored
<1>8. InMemory'
  BY <1>1, <1>2, <1>3, <1>4, MemoryQuiet
<1>. QED BY <1>6, <1>7, <1>8 DEF Clean

\* The row being inserted, at one of its indexes.
LEMMA CurrentFacts ==
    ASSUME DInv, Clean, Inserting
    PROVE  /\ DOMAIN trees = Versioned /\ DOMAIN indexes = Versioned
           /\ \A i \in Versioned : trees[i] = Latest(i) /\ indexes[i] = Latest(i)
           /\ CurrentIndex \in stmt.todo /\ CurrentIndex \in Versioned
           /\ stmt.todo \subseteq Versioned
           /\ Latest(CurrentIndex).table = stmt.table
           /\ CurrentKey = CurrentRow[Latest(CurrentIndex).column]
           /\ stmt.rid \in Nat \ {0} /\ stmt.rid = Len(heaps[stmt.table].recs)
           /\ RowsOf(CurrentIndex) = heaps[stmt.table].recs
<1>1. Running /\ ~In("load_indexes") /\ NewIndex = {}
  BY Phases DEF PhaseFacts
<1>2. /\ DOMAIN trees = Versioned /\ DOMAIN indexes = Versioned
      /\ \A i \in Versioned : trees[i] = Latest(i) /\ indexes[i] = Latest(i)
  BY <1>1, TreesInMemory
<1>3. /\ CurrentIndex \in stmt.todo /\ CurrentIndex \in DOMAIN trees
      /\ stmt.todo \subseteq TableIndexes(stmt.table)
      /\ trees[CurrentIndex].table = stmt.table /\ stmt.rid \in 1 .. MaxRows
  BY InsertFacts
<1>4. stmt.todo \subseteq Versioned
  BY <1>2, <1>3 DEF TableIndexes
<1>5. stmt.rid = Len(heaps[stmt.table].recs)
  BY DEF Clean, TreesExact
<1>. QED BY <1>2, <1>3, <1>4, <1>5 DEF CurrentKey, RowsOf

LEMMA WithKeyFacts ==
    ASSUME NEW tree \in Tree, tree.pages # "broken"
    PROVE  /\ WithKey(tree).found = Put(tree.found, CurrentKey, stmt.rid)
           /\ WithKey(tree).root = tree.root /\ WithKey(tree).pages = "dirty"
           /\ \A r : /\ [WithKey(tree) EXCEPT !.root = r].found = WithKey(tree).found
                     /\ [WithKey(tree) EXCEPT !.root = r].root = r
                     /\ [WithKey(tree) EXCEPT !.root = r].pages = "dirty"
<1>1. PICK found : found = Put(tree.found, CurrentKey, stmt.rid)
  OBVIOUS
<1>2. WithKey(tree) = [tree EXCEPT !.found = found, !.pages = "dirty"]
  BY <1>1 DEF WithKey
<1>3. WithKey(tree) = [found |-> found, root |-> tree.root, pages |-> "dirty"]
  BY <1>2 DEF Tree
<1>. QED BY <1>1, <1>3

\* The tree of the current index gets the key of the row, and a new root or not.
LEMMA RowIndexedClean ==
    ASSUME DInv, Clean, Sound, In("index_row"), NEW tree,
           treeFiles' = [treeFiles EXCEPT ![CurrentIndex] = tree],
           tree.found = WithKey(treeFiles[CurrentIndex]).found,
           UNCHANGED <<catalogVars, metadata, catalogFile, indexFile, heaps>>,
           Pending' = stmt.todo \ {CurrentIndex},
           Inserting' => stmt'.table = stmt.table /\ stmt'.rid = stmt.rid,
           IF In("version")' THEN CurrentIndex' = CurrentIndex
                             ELSE tree.root = treeFiles[CurrentIndex].root,
           stmt.todo \ {CurrentIndex} # {} => Inserting',
           Running', ~In("load_indexes")', ~In("refused")', NewFile' = {}, NewTreeFile' = {},
           NewIndex' = {}, ~In("table_record")', ~In("index_record")'
    PROVE  Clean'
<1>1. PICK cur : cur = CurrentIndex
  OBVIOUS
<1>2. /\ CatInv /\ Types /\ StorageInv
      /\ Stored /\ TableRecords /\ IndexRecords /\ TreesExact /\ InMemory
  BY DEF DInv, Clean
<1>3. Inserting /\ Running /\ ~In("load_indexes") /\ NewIndex = {} /\ ~In("version")
      /\ Pending = stmt.todo /\ ~CreatingTable /\ ~CreatingIndex
  <2>1. Inserting /\ Pending = stmt.todo /\ ~In("version")
    BY DEF Inserting, In, Pending
  <2>. QED BY <2>1, Phases DEF PhaseFacts
<1>4. NewFile = {} /\ NewTreeFile = {} /\ ~In("table_record")
  BY <1>3 DEF NewFile, NewTreeFile, CreatingTable, CreatingIndex
<1>5. /\ cur \in stmt.todo /\ cur \in Versioned /\ stmt.todo \subseteq Versioned
      /\ Latest(cur).table = stmt.table
      /\ CurrentKey = CurrentRow[Latest(cur).column]
      /\ stmt.rid \in Nat \ {0} /\ stmt.rid = Len(heaps[stmt.table].recs)
      /\ RowsOf(cur) = heaps[stmt.table].recs
  BY <1>1, <1>3, CurrentFacts
<1>6. cur \in DOMAIN treeFiles /\ treeFiles[cur] \in Tree /\ treeFiles[cur].pages # "broken"
  BY <1>1, <1>3, InsertFacts DEF Sound
<1>7. /\ DOMAIN treeFiles' = DOMAIN treeFiles
      /\ treeFiles'[cur] = tree /\ tree.found = Put(treeFiles[cur].found, CurrentKey, stmt.rid)
      /\ \A i \in DOMAIN treeFiles : i # cur => treeFiles'[i] = treeFiles[i]
  <2>1. treeFiles = [i \in DOMAIN treeFiles |-> treeFiles[i]]
    BY <1>2 DEF Types, TreeFilesOK
  <2>2. tree.found = Put(treeFiles[cur].found, CurrentKey, stmt.rid)
    BY <1>1, <1>6, WithKeyFacts
  <2>. QED BY <1>1, <1>6, <2>1, <2>2
<1>8. Versions' = Versions /\ Versioned' = Versioned /\ \A i : Latest(i)' = Latest(i)
  BY VersionsQuiet
<1>9. RecIds' = RecIds
  BY DEF RecIds
<1>10. TableRecords'
  BY <1>2, <1>4, <1>9 DEF TableRecords
<1>11. IndexRecords'
  <2>1. HistoryOk' = HistoryOk
    BY <1>8 DEF HistoryOk
  <2>2. ASSUME NEW i \in Versioned'
        PROVE  treeFiles'[i].root = Latest(i)'.root \/ (In("version")' /\ i = CurrentIndex')
    <3>1. i \in Versioned /\ i \in DOMAIN treeFiles /\ Latest(i)' = Latest(i)
          /\ treeFiles[i].root = Latest(i).root
      BY <1>2, <1>3, <1>8 DEF IndexRecords
    <3>2. CASE i = cur
      BY <1>1, <1>7, <3>1, <3>2
    <3>3. CASE i # cur
      BY <1>7, <3>1, <3>3
    <3>. QED BY <3>2, <3>3
  <2>. QED BY <1>2, <1>4, <1>7, <1>8, <1>9, <2>1, <2>2 DEF IndexRecords
<1>12. TreesExact'
  <2>1. ASSUME NEW i \in Versioned'
        PROVE  Exact(treeFiles[i].found, RowsOf(i), Latest(i).column, RowsIn(i))'
    <3>1. i \in Versioned /\ Latest(i)' = Latest(i) /\ RowsOf(i)' = RowsOf(i)
      BY <1>8 DEF RowsOf
    <3>2. Exact(treeFiles[i].found, RowsOf(i), Latest(i).column, RowsIn(i))
      BY <1>2, <3>1 DEF TreesExact
    <3>3. CASE i = cur
      <4>1. RowsIn(i) = stmt.rid - 1
        BY <1>3, <1>5, <3>3 DEF RowsIn
      <4>2. RowsIn(i)' = stmt.rid
        <5>1. i \notin Pending'
          BY <1>1, <3>3
        <5>. QED BY <1>5, <3>1, <3>3, <5>1 DEF RowsIn
      <4>3. RowsOf(i)[stmt.rid] = CurrentRow
        BY <1>5, <3>3 DEF CurrentRow
      <4>4. CurrentKey = RowsOf(i)[stmt.rid][Latest(i).column]
        BY <1>5, <3>3, <4>3
      <4>5. CurrentKey \notin DOMAIN treeFiles[i].found
        BY <1>2, <1>3, <1>5, <3>3 DEF TreesExact
      <4>6. Exact(Put(treeFiles[i].found, CurrentKey, stmt.rid), RowsOf(i), Latest(i).column,
                  stmt.rid)
        BY <1>5, <3>2, <4>1, <4>4, <4>5, ExactExtended
      <4>. QED BY <1>7, <3>1, <3>3, <4>2, <4>6 DEF Exact
    <3>4. CASE i # cur
      <4>1. i \in Pending' <=> i \in Pending
        BY <1>1, <1>3, <3>4
      <4>2. i \in Pending' => stmt'.rid = stmt.rid
        BY <1>1
      <4>3. RowsIn(i)' = RowsIn(i)
        BY <3>1, <4>1, <4>2 DEF RowsIn
      <4>4. treeFiles'[i] = treeFiles[i]
        BY <1>2, <1>7, <3>1, <3>4 DEF IndexRecords
      <4>. QED BY <3>1, <3>2, <4>3, <4>4 DEF Exact
    <3>. QED BY <3>3, <3>4
  <2>2. Inserting' => stmt'.rid = Len(heaps'[stmt'.table].recs)
    BY <1>5
  <2>3. ASSUME NEW i \in Pending'
        PROVE  CurrentRow'[Latest(i)'.column] \notin DOMAIN treeFiles'[i].found
    <3>1. i \in Pending /\ i # cur /\ i \in Versioned
      BY <1>1, <1>3, <1>5
    <3>2. CurrentRow' = CurrentRow
      <4>1. stmt'.table = stmt.table /\ stmt'.rid = stmt.rid
        OBVIOUS
      <4>. QED BY <4>1 DEF CurrentRow
    <3>3. CurrentRow[Latest(i).column] \notin DOMAIN treeFiles[i].found
      BY <1>2, <3>1 DEF TreesExact
    <3>4. treeFiles'[i] = treeFiles[i]
      BY <1>2, <1>7, <3>1 DEF IndexRecords
    <3>. QED BY <1>8, <3>2, <3>3, <3>4
  <2>. QED BY <2>1, <2>2, <2>3 DEF TreesExact
<1>13. Stored'
  <2>1. metadata' # "short"
    BY <1>2 DEF Stored
  <2>. QED BY <1>2, <2>1, StoredQuiet
<1>14. InMemory'
  BY <1>2, <1>3, MemoryQuiet DEF catalogVars
<1>. QED BY <1>10, <1>11, <1>12, <1>13, <1>14 DEF Clean

LEMMA IndexRowClean == ASSUME DInv, Clean, Sound, IndexRow PROVE Clean'
<1>1. PICK tree : tree = WithKey(treeFiles[CurrentIndex])
  OBVIOUS
<1>2. /\ In("index_row")
      /\ treeFiles' = [treeFiles EXCEPT ![CurrentIndex] = tree]
      /\ Continue(stmt.table, stmt.rid, CurrentRow, stmt.todo \ {CurrentIndex})
      /\ UNCHANGED <<catalogVars, metadata, catalogFile, indexFile, heaps>>
  BY <1>1 DEF IndexRow, NextIndexOf
<1>3. Inserting
  BY <1>2 DEF Inserting
<1>4. tree.root = treeFiles[CurrentIndex].root
  BY <1>1, <1>3, InsertFacts, WithKeyFacts DEF Sound
<1>5. PICK t, rid, todo : t = stmt.table /\ rid = stmt.rid /\ todo = stmt.todo \ {CurrentIndex}
  OBVIOUS
<1>6. Continue(t, rid, CurrentRow, todo)
  BY <1>2, <1>5
<1>7. PICK row : row = CurrentRow
  OBVIOUS
<1>8. /\ Pending' = todo /\ Running' /\ ~In("load_indexes")' /\ ~In("refused")'
      /\ ~In("version")' /\ NewFile' = {} /\ NewTreeFile' = {} /\ NewIndex' = {}
      /\ ~In("table_record")' /\ ~In("index_record")'
      /\ Inserting' => stmt'.table = t /\ stmt'.rid = rid
      /\ todo # {} => Inserting'
  BY <1>6, <1>7, ContinueClean
<1>. QED BY <1>1, <1>2, <1>4, <1>5, <1>8, RowIndexedClean

LEMMA IndexRowGrowsClean == ASSUME DInv, Clean, Sound, IndexRowGrows PROVE Clean'
<1>1. PICK tree : tree = [WithKey(treeFiles[CurrentIndex])
                             EXCEPT !.root = treeFiles[CurrentIndex].root + 1]
  OBVIOUS
<1>2. Inserting
  BY DEF IndexRowGrows, Inserting
<1>3. /\ WithKey(treeFiles[CurrentIndex]).root = treeFiles[CurrentIndex].root
      /\ tree.found = WithKey(treeFiles[CurrentIndex]).found
  BY <1>1, <1>2, InsertFacts, WithKeyFacts DEF Sound
<1>4. /\ In("index_row")
      /\ treeFiles' = [treeFiles EXCEPT ![CurrentIndex] = tree]
      /\ stmt' = [stmt EXCEPT !.phase = "version"]
      /\ UNCHANGED <<catalogVars, metadata, catalogFile, indexFile, heaps>>
  BY <1>1, <1>3 DEF IndexRowGrows
<1>5. stmt' = [phase |-> "version", table |-> stmt.table, rid |-> stmt.rid, todo |-> stmt.todo]
  BY <1>4, StmtShape DEF DInv, Types
<1>6. In("version")' /\ Inserting' /\ stmt'.todo = stmt.todo /\ ~In("refused")'
  BY <1>5 DEF In, Inserting
<1>7. CurrentIndex' = CurrentIndex
  BY <1>6 DEF CurrentIndex
<1>8. Pending' = stmt.todo \ {CurrentIndex}
  BY <1>5, <1>6, <1>7 DEF Pending, In
<1>9. /\ Running' /\ ~In("load_indexes")' /\ NewIndex' = {} /\ NewFile' = {} /\ NewTreeFile' = {}
      /\ ~In("table_record")' /\ ~In("index_record")'
  BY <1>5, <1>6, Phases DEF PhaseFacts, NewFile, NewTreeFile, In
<1>. QED BY <1>3, <1>4, <1>5, <1>6, <1>7, <1>8, <1>9, RowIndexedClean

LEMMA AppendVersionClean == ASSUME DInv, Clean, AppendVersion PROVE Clean'
<1>1. PICK cur, entry : cur = CurrentIndex /\ entry = NewVersion.entry
  OBVIOUS
<1>2. /\ In("version") /\ Takes(indexFile) /\ indexFile' = Written(indexFile, NewVersion)
      /\ UpdateIndexRoot(cur, entry.root)
      /\ Continue(stmt.table, stmt.rid, CurrentRow, stmt.todo \ {cur})
      /\ UNCHANGED <<metadata, catalogFile, heaps, treeFiles>>
  BY <1>1 DEF AppendVersion, VersionWritten, MoveRoot, NextIndexOf
<1>3. PICK t, rid, row, todo : /\ t = stmt.table /\ rid = stmt.rid /\ row = CurrentRow
                               /\ todo = stmt.todo \ {cur}
  OBVIOUS
<1>4. Continue(t, rid, row, todo)
  BY <1>2, <1>3
<1>5. /\ Pending' = todo /\ Running' /\ ~In("load_indexes")' /\ ~In("refused")'
      /\ ~In("version")' /\ NewFile' = {} /\ NewTreeFile' = {} /\ NewIndex' = {}
      /\ ~In("table_record")' /\ ~In("index_record")'
      /\ Inserting' => stmt'.table = t /\ stmt'.rid = rid
      /\ todo # {} => Inserting'
  BY <1>4, ContinueClean
<1>6. /\ CatInv /\ Types /\ StorageInv
      /\ Stored /\ TableRecords /\ IndexRecords /\ TreesExact /\ InMemory
  BY DEF DInv, Clean
<1>7. /\ Inserting /\ Running /\ ~In("load_indexes") /\ NewIndex = {} /\ Pending = todo
      /\ ~CreatingTable /\ ~CreatingIndex
  <2>1. Inserting /\ ~In("index_row")
    BY <1>2 DEF Inserting, In
  <2>2. Pending = todo
    BY <1>1, <1>2, <1>3, <2>1 DEF Pending
  <2>. QED BY <2>1, <2>2, Phases DEF PhaseFacts
<1>8. NewFile = {} /\ NewTreeFile = {} /\ ~In("table_record")
  BY <1>7 DEF NewFile, NewTreeFile, CreatingTable, CreatingIndex
<1>9. /\ cur \in stmt.todo /\ cur \in Versioned /\ stmt.todo \subseteq Versioned
      /\ DOMAIN indexes = Versioned /\ \A i \in Versioned : indexes[i] = Latest(i)
      /\ stmt.rid = Len(heaps[stmt.table].recs)
  BY <1>1, <1>7, CurrentFacts
<1>10. /\ NewVersion \in Version /\ NewVersion.id = cur
       /\ entry = [indexes[cur] EXCEPT !.root = entry.root] /\ entry.root \in Roots
       /\ indexes[cur] \in IndexEntry
  BY <1>1, <1>2, <1>7, NewVersionFacts, InsertFacts
<1>11. /\ entry.name = Latest(cur).name /\ entry.table = Latest(cur).table
       /\ entry.column = Latest(cur).column
  <2>1. PICK e \in IndexEntry, r \in Roots : e = indexes[cur] /\ r = entry.root
    BY <1>10
  <2>2. LET f == [e EXCEPT !.root = r]
        IN  f.name = e.name /\ f.table = e.table /\ f.column = e.column
    BY MovedRoot
  <2>3. entry = [e EXCEPT !.root = r] /\ Latest(cur) = e
    BY <1>9, <1>10, <2>1
  <2>. QED BY <2>2, <2>3
<1>12. entry.root = treeFiles[cur].root
  <2>1. /\ trees[cur] = indexes[cur] /\ treeFiles[cur].root \in Roots
    BY <1>1, <1>2, <1>7, InsertFacts DEF DInv, StmtInv
  <2>2. entry = [indexes[cur] EXCEPT !.root = treeFiles[cur].root]
    BY <1>1, <2>1 DEF NewVersion
  <2>. QED BY <1>10, <2>1, <2>2, MovedRoot
<1>13. /\ Versions' = Versions \cup {NewVersion} /\ Versioned' = Versioned
       /\ Latest(cur)' = entry /\ \A i \in Versioned : i # cur => Latest(i)' = Latest(i)
       /\ indexFile'.stored = Len(indexFile'.recs)
  <2>1. PICK v \in Version : v = NewVersion
    BY <1>10
  <2>2. indexFile' = Written(indexFile, v) /\ v.id = cur /\ v.entry = entry
    BY <1>1, <1>2, <1>10, <2>1
  <2>a. Takes(indexFile)
    BY <1>2
  <2>3. /\ Versions' = Versions \cup {v} /\ Versioned' = Versioned \cup {v.id}
        /\ Latest(v.id)' = v.entry
        /\ \A i \in Versioned : i # v.id => Latest(i)' = Latest(i)
        /\ indexFile'.stored = Len(indexFile'.recs)
    BY <1>6, <2>a, <2>2, VersionAdded
  <2>4. PICK i : i = v.id
    OBVIOUS
  <2>5. Latest(i)' = entry /\ i = cur
    BY <2>2, <2>3, <2>4
  <2>. QED BY <1>9, <2>1, <2>2, <2>3, <2>5
<1>14. RecIds' = RecIds
  BY <1>2 DEF RecIds
<1>15. TableRecords'
  BY <1>2, <1>5, <1>6, <1>8, <1>14 DEF TableRecords
<1>16. IndexRecords'
  <2>1. \A w \in Versions :
           IF w.id = NewVersion.id
           THEN /\ w.entry.name = NewVersion.entry.name /\ w.entry.table = NewVersion.entry.table
                /\ w.entry.column = NewVersion.entry.column
           ELSE /\ w.entry.name # NewVersion.entry.name
                /\ \/ w.entry.table # NewVersion.entry.table
                   \/ w.entry.column # NewVersion.entry.column
    <3>1. [id |-> cur, entry |-> Latest(cur)] \in Versions
      BY <1>6, <1>9, LatestIsVersion
    <3>2. PICK u \in Versions : u.id = cur /\ u.entry = Latest(cur)
      BY <3>1
    <3>3. ASSUME NEW w \in Versions, w.id = cur
          PROVE  /\ w.entry.name = entry.name /\ w.entry.table = entry.table
                 /\ w.entry.column = entry.column
      BY <1>6, <1>11, <3>3, VersionAgrees DEF IndexRecords
    <3>4. ASSUME NEW w \in Versions, w.id # cur
          PROVE  /\ w.entry.name # entry.name
                 /\ w.entry.table # entry.table \/ w.entry.column # entry.column
      <4>1. w.entry.name = u.entry.name => w.id = u.id
        BY <1>6 DEF IndexRecords, HistoryOk
      <4>2. w.entry.table = u.entry.table /\ w.entry.column = u.entry.column => w.id = u.id
        BY <1>6 DEF IndexRecords
      <4>. QED BY <1>11, <3>2, <3>4, <4>1, <4>2
    <3>. QED BY <1>1, <1>10, <3>3, <3>4
  <2>2. /\ HistoryOk'
        /\ \A u, w \in Versions' :
              u.entry.table = w.entry.table /\ u.entry.column = w.entry.column => u.id = w.id
    BY <1>6, <1>10, <1>13, <2>1, HistoryExtended
  <2>3. entry.table \in RecIds
    BY <1>6, <1>9, <1>11, RowsFacts
  <2>4. \A w \in Versions' : w.entry.table \in RecIds' /\ w.entry.root \in Roots
    BY <1>1, <1>6, <1>10, <1>13, <1>14, <2>3 DEF IndexRecords
  <2>5. \A i \in Versioned' : treeFiles'[i].root = Latest(i)'.root
    <3>1. ASSUME NEW i \in Versioned PROVE treeFiles'[i].root = Latest(i)'.root
      <4>1. CASE i = cur
        <5>1. Latest(i)' = entry
          BY <1>13, <4>1
        <5>. QED BY <1>2, <1>12, <4>1, <5>1
      <4>2. CASE i # cur
        <5>1. Latest(i)' = Latest(i) /\ treeFiles[i].root = Latest(i).root
          BY <1>1, <1>6, <1>13, <4>2 DEF IndexRecords
        <5>. QED BY <1>2, <5>1
      <4>. QED BY <4>1, <4>2
    <3>. QED BY <1>13, <3>1
  <2>. QED BY <1>2, <1>5, <1>6, <1>8, <1>13, <2>2, <2>4, <2>5 DEF IndexRecords
<1>17. \A i \in Versioned : Latest(i)'.table = Latest(i).table /\ Latest(i)'.column = Latest(i).column
  <2>1. ASSUME NEW i \in Versioned
        PROVE  Latest(i)'.table = Latest(i).table /\ Latest(i)'.column = Latest(i).column
    <3>1. CASE i = cur
      <4>1. Latest(i)' = entry
        BY <1>13, <3>1
      <4>. QED BY <1>11, <3>1, <4>1
    <3>2. CASE i # cur
      BY <1>13, <3>2
    <3>. QED BY <3>1, <3>2
  <2>. QED BY <2>1
<1>18. TreesExact'
  <2>1. ASSUME NEW i \in Versioned'
        PROVE  Exact(treeFiles[i].found, RowsOf(i), Latest(i).column, RowsIn(i))'
    <3>1. /\ i \in Versioned /\ Latest(i)'.column = Latest(i).column
          /\ RowsOf(i)' = RowsOf(i)
      BY <1>2, <1>13, <1>17 DEF RowsOf
    <3>2. RowsIn(i)' = RowsIn(i)
      <4>1. i \in Pending' => stmt'.rid = stmt.rid
        BY <1>3, <1>5
      <4>. QED BY <1>5, <1>7, <3>1, <4>1 DEF RowsIn
    <3>. QED BY <1>2, <1>6, <3>1, <3>2 DEF TreesExact, Exact
  <2>2. Inserting' => stmt'.rid = Len(heaps'[stmt'.table].recs)
    BY <1>2, <1>3, <1>5, <1>9
  <2>3. ASSUME NEW i \in Pending'
        PROVE  CurrentRow'[Latest(i)'.column] \notin DOMAIN treeFiles'[i].found
    <3>1. i \in Pending /\ i \in Versioned
      BY <1>3, <1>5, <1>7, <1>9
    <3>2. CurrentRow' = CurrentRow
      <4>1. stmt'.table = stmt.table /\ stmt'.rid = stmt.rid
        BY <1>3, <1>5
      <4>. QED BY <1>2, <4>1 DEF CurrentRow
    <3>. QED BY <1>2, <1>6, <1>17, <3>1, <3>2 DEF TreesExact
  <2>. QED BY <1>5, <2>1, <2>2, <2>3 DEF TreesExact
<1>19. Stored'
  BY <1>2, <1>5, <1>6, <1>13 DEF Stored
<1>20. InMemory'
  <2>1. ~Shut' /\ ~Loading'
    BY <1>5 DEF Running
  <2>2. /\ DOMAIN indexes' = DOMAIN indexes
        /\ indexes'[cur] = [indexes[cur] EXCEPT !.root = entry.root]
        /\ \A i \in DOMAIN indexes : i # cur => indexes'[i] = indexes[i]
    <3>1. indexes' = [indexes EXCEPT ![cur].root = entry.root]
      BY <1>2 DEF UpdateIndexRoot
    <3>2. indexes = [i \in DOMAIN indexes |-> indexes[i]]
      BY <1>6 DEF CatInv, CatalogTypeOK
    <3>. QED BY <1>9, <3>1, <3>2
  <2>3. \A i \in DOMAIN indexes' : indexes'[i] = Latest(i)'
    <3>1. ASSUME NEW i \in Versioned PROVE indexes'[i] = Latest(i)'
      <4>1. CASE i = cur
        <5>1. Latest(i)' = entry
          BY <1>13, <4>1
        <5>. QED BY <1>10, <2>2, <4>1, <5>1
      <4>2. CASE i # cur
        BY <1>9, <1>13, <2>2, <4>2
      <4>. QED BY <4>1, <4>2
    <3>. QED BY <1>9, <2>2, <3>1
  <2>. QED BY <1>5, <1>9, <1>13, <2>1, <2>2, <2>3 DEF InMemory
<1>. QED BY <1>15, <1>16, <1>18, <1>19, <1>20 DEF Clean

\* The index file has a version of the index it gets another of.
LEMMA VersionTaken == ASSUME DInv, Clean, Sound, In("version") PROVE Takes(indexFile)
<1>1. Inserting
  BY DEF Inserting
<1>2. CurrentIndex \in Versioned
  BY <1>1, CurrentFacts
<1>3. indexFile.recs # << >>
  BY <1>2 DEF Versioned, Versions
<1>. QED BY <1>3 DEF Takes, Readable, Sound

(***************************************************************************)
(* Opening stops only at a catalog file with a page that cannot be read.   *)
(***************************************************************************)
\* A record whose table is to be loaded next names a file there is, and neither
\* its name nor its id is taken.
LEMMA TableLoads ==
    ASSUME DInv, Clean, Loading, stmt.next \in DOMAIN catalogFile.recs
    PROVE  /\ TableToLoad.id \in DOMAIN heaps
           /\ CanLoadTable(TableToLoad.id, TableToLoad.name)
<1>1. CatInv /\ Types /\ RecordsInv /\ TableRecords /\ NewTable = {} /\ ~Shut
  BY Phases DEF DInv, Clean, PhaseFacts
<1>2. TableToLoad.id \in DOMAIN heaps
  BY <1>1 DEF TableRecords, RecIds, TableToLoad
<1>3. stmt.next \in Nat
  BY <1>1, StmtShape DEF Types
<1>4. ASSUME NEW id \in DOMAIN tables
      PROVE  id # TableToLoad.id /\ tables[id] # TableToLoad.name
  <2>1. Recorded(id)
    BY <1>1 DEF RecordsInv, Settled
  <2>2. PICK n \in 1 .. (stmt.next - 1) : catalogFile.recs[n] = [id |-> id, name |-> tables[id]]
    BY <1>1, <2>1 DEF Recorded, Loaded
  <2>3. catalogFile.recs[n].id = id /\ catalogFile.recs[n].name = tables[id]
    BY <2>2
  <2>4. n \in DOMAIN catalogFile.recs /\ n # stmt.next
    <3>1. DOMAIN catalogFile.recs = 1 .. Len(catalogFile.recs) /\ Len(catalogFile.recs) \in Nat
      BY <1>1, CatalogFileFacts DEF Types
    <3>. QED BY <1>3, <3>1
  <2>. QED BY <1>1, <2>3, <2>4 DEF TableRecords, TableToLoad
<1>5. TableToLoad.name \notin DOMAIN tableIds
  <2>1. \A name \in DOMAIN tableIds :
           tableIds[name] \in DOMAIN tables /\ tables[tableIds[name]] = name
    BY <1>1 DEF CatInv, MapsMirror
  <2>. QED BY <1>4, <2>1
<1>. QED BY <1>2, <1>4, <1>5 DEF CanLoadTable

\* An index of the index file that is not loaded yet can be.
LEMMA IndexLoads ==
    ASSUME DInv, Clean, In("load_indexes"), NEW id \in stmt.todo
    PROVE  IndexUsable(id, Latest(id))
<1>1. CatInv /\ Types /\ StmtInv /\ StorageInv /\ TableRecords /\ IndexRecords /\ InMemory
  BY DEF DInv, Clean
<1>2. Running /\ ~Loading /\ ~Shut /\ NewTable = {} /\ NewIndex = {} /\ ~In("version")
  BY Phases DEF PhaseFacts, Running, In
<1>3. id \in Versioned /\ id \notin DOMAIN indexes
  BY <1>1, <1>2 DEF StmtInv, Versioned, InMemory
<1>4. /\ Latest(id).table \in RecIds /\ Latest(id).root \in Roots /\ id \in DOMAIN treeFiles
      /\ treeFiles[id].root = Latest(id).root
  BY <1>1, <1>2, <1>3, RowsFacts DEF IndexRecords
<1>5. Latest(id).table \in DOMAIN tables
  BY <1>2, <1>4, SettledRecorded DEF Settled
<1>6. [id |-> id, entry |-> Latest(id)] \in Versions
  BY <1>1, <1>3, LatestIsVersion
<1>7. PICK v \in Versions : v.id = id /\ v.entry = Latest(id)
  BY <1>6
<1>8. ASSUME NEW i \in DOMAIN indexes
      PROVE  /\ indexes[i].name # Latest(id).name
             /\ indexes[i].table # Latest(id).table \/ indexes[i].column # Latest(id).column
  <2>1. i \in Versioned /\ indexes[i] = Latest(i) /\ i # id
    BY <1>1, <1>2, <1>3 DEF InMemory
  <2>2. [id |-> i, entry |-> Latest(i)] \in Versions
    BY <1>1, <2>1, LatestIsVersion
  <2>3. PICK w \in Versions : w.id = i /\ w.entry = Latest(i)
    BY <2>2
  <2>4. v.entry.name = w.entry.name => v.id = w.id
    BY <1>1 DEF IndexRecords, HistoryOk
  <2>5. v.entry.table = w.entry.table /\ v.entry.column = w.entry.column => v.id = w.id
    BY <1>1 DEF IndexRecords
  <2>. QED BY <1>7, <2>1, <2>3, <2>4, <2>5
<1>9. Latest(id).name \notin DOMAIN indexIds
  BY <1>1, <1>8 DEF CatInv, MapsMirror
<1>10. ~IsIndexed(Latest(id).table, Latest(id).column)
  BY <1>8 DEF IsIndexed
<1>11. Latest(id).root # NoRoot
  BY <1>4, CatalogConstants DEF NoRoot
<1>. QED BY <1>3, <1>4, <1>5, <1>9, <1>10, <1>11 DEF IndexUsable, CanLoadIndex, CanIndex

LEMMA OpenRefusedClean == ASSUME DInv, Clean, OpenRefused PROVE Clean'
<1>1. ~Loads(catalogFile) \/ ~Loads(indexFile)
  <2>1. CASE (In("closed") \/ In("refused")) /\ metadata = "short"
    BY <2>1 DEF Clean, Stored
  <2>2. CASE /\ In("load_tables") /\ stmt.next \in DOMAIN catalogFile.recs
             /\ \/ TableToLoad.id \notin DOMAIN heaps
                \/ ~CanLoadTable(TableToLoad.id, TableToLoad.name)
    BY <2>2, TableLoads DEF Loading
  <2>3. CASE /\ In("load_tables") /\ stmt.next \notin DOMAIN catalogFile.recs
             /\ ~Loads(indexFile) \/ ~HistoryOk
    BY <2>3 DEF Clean, IndexRecords
  <2>4. CASE /\ In("load_indexes") /\ stmt.todo # {}
             /\ ~IndexUsable(Min(stmt.todo), Latest(Min(stmt.todo)))
    <3>1. stmt.todo \subseteq Ids
      BY <2>4, StmtShape DEF DInv, Types
    <3>2. PICK id \in stmt.todo : id = Min(stmt.todo)
      BY <2>4, <3>1, MinIsMember
    <3>. QED BY <2>4, <3>2, IndexLoads
  <2>. QED BY <2>1, <2>2, <2>3, <2>4 DEF OpenRefused
<1>2. Forget /\ stmt' = [phase |-> "refused"] /\ UNCHANGED files
  BY DEF OpenRefused, Goto
<1>3. /\ In("closed") \/ In("refused") \/ In("load_tables") \/ In("load_indexes")
      /\ UNCHANGED <<metadata, catalogFile, indexFile, heaps, treeFiles>>
  BY <1>2 DEF OpenRefused, files
<1>4. Shut' /\ ~In("load_indexes")' /\ DOMAIN indexes' = {}
  BY <1>2, ForgetStep DEF In, Shut
<1>5. Bare /\ Bare' /\ NewIndex' = {}
  BY <1>3, <1>4, Phases, BarePhases DEF PhaseFacts, Shut, Loading
<1>6. Types /\ Stored /\ TableRecords /\ IndexRecords /\ TreesExact
  BY DEF DInv, Clean
<1>7. TableRecords' /\ IndexRecords' /\ TreesExact'
  BY <1>3, <1>5, <1>6, FilesQuiet
<1>8. Stored'
  BY <1>1, <1>3, <1>6 DEF Stored
<1>9. InMemory'
  BY <1>4, <1>5 DEF InMemory
<1>. QED BY <1>7, <1>8, <1>9 DEF Clean

(***************************************************************************)
(* Without a fault no file gets ragged and no tree broken.                 *)
(***************************************************************************)
LEMMA SoundStep == ASSUME MaxFaults = 0, DInv, Sound, [Next]_vars PROVE Sound'
<1>1. ~Fault
  BY NoFaultLeft DEF DInv
<1>2. Types
  BY DEF DInv
<1>3. /\ Whole(catalogFile, TableRecord) /\ Whole(indexFile, Version)
      /\ \A t \in DOMAIN heaps : Whole(heaps[t], Rows)
      /\ heaps = [t \in DOMAIN heaps |-> heaps[t]]
      /\ treeFiles = [i \in DOMAIN treeFiles |-> treeFiles[i]]
      /\ \A i \in DOMAIN treeFiles : treeFiles[i] \in Tree
  BY <1>2 DEF Types, HeapsOK, TreeFilesOK
<1>4. CASE UNCHANGED files
  BY <1>4 DEF files, Sound
<1>5. CASE MakeTableFile
  <2>1. heaps' = Put(heaps, stmt.id, EmptyFile) /\ UNCHANGED <<catalogFile, indexFile, treeFiles>>
    BY <1>5 DEF MakeTableFile
  <2>. QED BY <2>1 DEF Sound, Put, EmptyFile
<1>6. CASE AppendTable \/ AppendTableRefused
  <2>1. /\ UNCHANGED <<indexFile, treeFiles>>
        /\ heaps' = heaps \/ heaps' = Without(heaps, stmt.id)
        /\ catalogFile' \in {catalogFile, Refused(catalogFile), Written(catalogFile, NewTableRecord)}
    BY <1>6 DEF AppendTable, AppendTableRefused
  <2>2. "ragged" \notin catalogFile'.flaws
    BY <1>3, <2>1, FileChanges DEF Sound, Refused, Written, Flushed
  <2>3. DOMAIN heaps' \subseteq DOMAIN heaps /\ \A t \in DOMAIN heaps' : heaps'[t] = heaps[t]
    BY <2>1 DEF Without, Restrict
  <2>. QED BY <2>1, <2>2, <2>3 DEF Sound
<1>7. CASE BuildIndex
  <2>1. /\ UNCHANGED <<catalogFile, indexFile, heaps>>
        /\ \E root \in Roots : treeFiles' = Put(treeFiles, stmt.id,
                                   NewTree(Entries(IndexedRows, IndexedColumn), root))
    BY <1>7 DEF BuildIndex
  <2>2. PICK tree : treeFiles' = Put(treeFiles, stmt.id, tree) /\ tree.pages = "dirty"
    BY <2>1 DEF NewTree
  <2>. QED BY <2>1, <2>2 DEF Sound, Put
<1>8. CASE AppendIndex \/ AppendIndexRefused
  <2>1. /\ UNCHANGED <<catalogFile, heaps>>
        /\ treeFiles' = treeFiles \/ treeFiles' = Without(treeFiles, stmt.id)
        /\ \/ indexFile' \in {indexFile, Refused(indexFile)}
           \/ \E v : indexFile' = Written(indexFile, v)
    BY <1>8 DEF AppendIndex, AppendIndexRefused
  <2>2. "ragged" \notin indexFile'.flaws
    BY <1>3, <2>1, FileChanges DEF Sound, Refused, Written, Flushed
  <2>3. /\ DOMAIN treeFiles' \subseteq DOMAIN treeFiles
        /\ \A i \in DOMAIN treeFiles' : treeFiles'[i] = treeFiles[i]
    BY <2>1 DEF Without, Restrict
  <2>. QED BY <2>1, <2>2, <2>3 DEF Sound
<1>9. ASSUME NEW t \in Ids, NEW row \in Rows, InsertRow(t, row) \/ InsertRowRefused(t, row)
      PROVE  Sound'
  <2>1. /\ UNCHANGED <<catalogFile, indexFile, treeFiles>>
        /\ \E f \in {Refused(heaps[t]), Written(heaps[t], row)} : heaps' = [heaps EXCEPT ![t] = f]
    BY <1>9 DEF InsertRow, InsertRowRefused, RowWritten
  <2>2. PICK f \in {Refused(heaps[t]), Written(heaps[t], row)} : heaps' = [heaps EXCEPT ![t] = f]
    BY <2>1
  <2>3. ASSUME t \in DOMAIN heaps PROVE "ragged" \notin f.flaws
    <3>1. PICK h : h = heaps[t]
      OBVIOUS
    <3>2. Whole(h, Rows) /\ "ragged" \notin h.flaws /\ f \in {Refused(h), Written(h, row)}
      BY <1>3, <2>2, <2>3, <3>1 DEF Sound
    <3>. QED BY <3>2, FileChanges DEF Refused, Written, Flushed
  <2>. QED BY <1>3, <2>1, <2>2, <2>3 DEF Sound
<1>10. CASE IndexRow \/ IndexRowGrows
  <2>1. Inserting /\ UNCHANGED <<catalogFile, indexFile, heaps>>
    BY <1>10 DEF IndexRow, IndexRowGrows, Inserting
  <2>2. /\ CurrentIndex \in DOMAIN treeFiles /\ treeFiles[CurrentIndex] \in Tree
        /\ treeFiles[CurrentIndex].pages # "broken"
    BY <2>1, InsertFacts DEF Sound
  <2>3. PICK tree : treeFiles' = [treeFiles EXCEPT ![CurrentIndex] = tree] /\ tree.pages = "dirty"
    <3>1. WithKey(treeFiles[CurrentIndex]).pages = "dirty"
      BY <2>2, WithKeyFacts
    <3>2. \A r : [WithKey(treeFiles[CurrentIndex]) EXCEPT !.root = r].pages = "dirty"
      BY <2>2, WithKeyFacts
    <3>3. CASE IndexRow
      BY <3>1, <3>3 DEF IndexRow
    <3>4. CASE IndexRowGrows
      <4>1. PICK tree : tree = [WithKey(treeFiles[CurrentIndex])
                                   EXCEPT !.root = treeFiles[CurrentIndex].root + 1]
        OBVIOUS
      <4>2. WithKey(treeFiles[CurrentIndex]).root = treeFiles[CurrentIndex].root
        BY <2>2, WithKeyFacts
      <4>3. treeFiles' = [treeFiles EXCEPT ![CurrentIndex] = tree]
        BY <3>4, <4>1, <4>2 DEF IndexRowGrows
      <4>. QED BY <3>2, <4>1, <4>3
    <3>. QED BY <1>10, <3>3, <3>4
  <2>. QED BY <1>3, <2>1, <2>3 DEF Sound
<1>11. CASE IndexRowFails
  <2>1. Inserting /\ treeFiles[CurrentIndex].pages = "broken"
    BY <1>1, <1>11 DEF IndexRowFails, Inserting
  <2>. QED BY <2>1, InsertFacts DEF Sound
<1>12. CASE AppendVersion
  <2>1. UNCHANGED <<catalogFile, heaps, treeFiles>> /\ indexFile' = Written(indexFile, NewVersion)
    BY <1>12 DEF AppendVersion, VersionWritten
  <2>2. "ragged" \notin indexFile'.flaws
    BY <1>3, <2>1, FileChanges DEF Sound, Written, Flushed
  <2>. QED BY <2>1, <2>2 DEF Sound
<1>13. CASE Close
  <2>1. /\ catalogFile' = WrittenOut(catalogFile) /\ indexFile' = WrittenOut(indexFile)
        /\ heaps' = [t \in DOMAIN heaps |-> WrittenOut(heaps[t])]
        /\ treeFiles' \in OneOfEach([i \in DOMAIN treeFiles |-> WrittenBack(treeFiles[i])])
    BY <1>13 DEF Close
  <2>2. /\ DOMAIN treeFiles' = DOMAIN treeFiles
        /\ \A i \in DOMAIN treeFiles : treeFiles'[i].pages = "written"
    BY <1>3, <2>1, WrittenTrees DEF Sound
  <2>. QED BY <2>1, <2>2 DEF Sound, WrittenOut, Flushed
<1>14. CASE BeginOpen
  BY <1>14 DEF BeginOpen, Sound
<1>15. CASE AppendVersionRefused
  BY <1>15 DEF AppendVersionRefused, Sound
<1>16. ASSUME NEW name \in TableNames, BeginCreateTable(name) PROVE UNCHANGED files
  BY <1>16 DEF BeginCreateTable
<1>17. ASSUME NEW name \in IndexNames, NEW t \in Ids, NEW c \in Columns,
              BeginCreateIndex(name, t, c)
       PROVE  UNCHANGED files
  BY <1>17 DEF BeginCreateIndex
<1>18. CASE TableFileExists \/ IndexFileExists \/ BuildIndexRefused
  BY <1>4, <1>18 DEF TableFileExists, IndexFileExists, BuildIndexRefused
<1>19. CASE OpenTable \/ ReadIndexCatalog \/ OpenIndex \/ Opened \/ OpenRefused
  BY <1>4, <1>19 DEF OpenTable, ReadIndexCatalog, OpenIndex, Opened, OpenRefused
<1>20. CASE TableFileFails \/ AppendTableFails \/ BuildIndexFails \/ AppendIndexFails
  BY <1>1, <1>20 DEF TableFileFails, AppendTableFails, BuildIndexFails, AppendIndexFails
<1>21. CASE AppendVersionFails \/ Lose \/ MetadataFails
  BY <1>1, <1>21 DEF AppendVersionFails, Lose, MetadataFails
<1>22. ASSUME NEW t \in Ids, NEW row \in Rows, InsertRowFails(t, row) PROVE Sound'
  BY <1>1, <1>22 DEF InsertRowFails
<1>23. CASE UNCHANGED vars
  BY <1>4, <1>23 DEF vars
<1>. QED BY <1>4, <1>5, <1>6, <1>7, <1>8, <1>9, <1>10, <1>11, <1>12, <1>13, <1>14, <1>15, <1>16,
            <1>17, <1>18, <1>19, <1>20, <1>21, <1>22, <1>23
         DEF Next, StatementStep

(***************************************************************************)
(* The invariant.                                                          *)
(***************************************************************************)
LEMMA CleanUnchanged == ASSUME Clean, UNCHANGED vars PROVE Clean'
<1>1. UNCHANGED <<indexes, metadata, catalogFile, indexFile, heaps, treeFiles, stmt, trees>>
  BY DEF vars, files, catalogVars
<1>2. /\ RecIds' = RecIds /\ Versions' = Versions /\ Versioned' = Versioned
      /\ NewFile' = NewFile /\ NewTreeFile' = NewTreeFile /\ NewIndex' = NewIndex
      /\ CurrentIndex' = CurrentIndex /\ CurrentRow' = CurrentRow
      /\ \A i : Latest(i)' = Latest(i)
      /\ \A phase : In(phase)' = In(phase)
  BY <1>1 DEF RecIds, Versions, Versioned, NewFile, NewTreeFile, NewIndex, CreatingIndex,
              CurrentIndex, CurrentRow, Latest, In
<1>3. Pending' = Pending /\ Shut' = Shut /\ Loading' = Loading /\ Inserting' = Inserting
  BY <1>1, <1>2 DEF Pending, Shut, Loading, Inserting
<1>4. \A i : RowsOf(i)' = RowsOf(i) /\ RowsIn(i)' = RowsIn(i)
  BY <1>1, <1>2, <1>3 DEF RowsOf, RowsIn
<1>5. Stored'
  BY <1>1 DEF Clean, Stored, In
<1>6. TableRecords'
  BY <1>1, <1>2 DEF Clean, TableRecords
<1>7. IndexRecords'
  BY <1>1, <1>2 DEF Clean, IndexRecords, HistoryOk
<1>8. TreesExact'
  <2>1. TreesExact
    BY DEF Clean
  <2>2. \A i \in Versioned' :
           Exact(treeFiles[i].found, RowsOf(i), Latest(i).column, RowsIn(i))'
    BY <1>1, <1>2, <1>4, <2>1 DEF TreesExact, Exact
  <2>3. IndexedRows' = IndexedRows /\ IndexedColumn' = IndexedColumn
    BY <1>1 DEF IndexedRows, IndexedHeap, IndexedColumn
  <2>4. In("index_record")' =>
           Exact(treeFiles[stmt.id].found, IndexedRows, IndexedColumn, Len(IndexedRows))'
    BY <1>1, <1>2, <2>1, <2>3 DEF TreesExact, Exact
  <2>. QED BY <1>1, <1>2, <1>3, <2>1, <2>2, <2>4 DEF TreesExact
<1>9. InMemory'
  BY <1>1, <1>2, <1>3 DEF Clean, InMemory
<1>. QED BY <1>5, <1>6, <1>7, <1>8, <1>9 DEF Clean

\* Without a fault, no step fails.
LEMMA CleanStep == MaxFaults = 0 /\ DInv /\ DInv' /\ Sound /\ Clean /\ [Next]_vars => Clean'
<1>. SUFFICES ASSUME MaxFaults = 0, DInv, DInv', Sound, Clean, [Next]_vars PROVE Clean'
  OBVIOUS
<1>1. ~Fault
  BY NoFaultLeft DEF DInv
<1>2. ASSUME NEW name \in TableNames, BeginCreateTable(name) PROVE Clean'
  BY <1>2, BeginCreateTableClean
<1>3. ASSUME NEW name \in IndexNames, NEW t \in Ids, NEW c \in Columns, BeginCreateIndex(name, t, c)
      PROVE  Clean'
  BY <1>3, BeginCreateIndexClean
<1>4. ASSUME NEW t \in Ids, NEW row \in Rows, InsertRow(t, row) PROVE Clean'
  BY <1>4, InsertRowClean
<1>5. CASE TableFileExists
  BY <1>5, TableFileExistsClean
<1>6. CASE MakeTableFile
  BY <1>6, MakeTableFileClean
<1>7. CASE AppendTable
  BY <1>7, AppendTableClean
<1>8. CASE IndexFileExists \/ BuildIndexRefused
  BY <1>8, IndexRefusedClean
<1>9. CASE BuildIndex
  BY <1>9, BuildIndexClean
<1>10. CASE AppendIndex
  BY <1>10, AppendIndexClean
<1>11. CASE IndexRow
  BY <1>11, IndexRowClean
<1>12. CASE IndexRowGrows
  BY <1>12, IndexRowGrowsClean
<1>13. CASE AppendVersion
  BY <1>13, AppendVersionClean
<1>14. CASE Close
  BY <1>14, CloseClean
<1>15. CASE BeginOpen
  BY <1>15, BeginOpenClean
<1>16. CASE OpenTable
  BY <1>16, OpenTableClean
<1>17. CASE ReadIndexCatalog
  BY <1>17, ReadIndexCatalogClean
<1>18. CASE OpenIndex
  BY <1>18, OpenIndexClean
<1>19. CASE Opened
  BY <1>19, OpenedClean
<1>20. CASE OpenRefused
  BY <1>20, OpenRefusedClean
<1>21. CASE TableFileFails \/ AppendTableFails \/ BuildIndexFails \/ AppendIndexFails
  BY <1>1, <1>21 DEF TableFileFails, AppendTableFails, BuildIndexFails, AppendIndexFails
<1>22. CASE AppendVersionFails \/ Lose \/ MetadataFails
  BY <1>1, <1>22 DEF AppendVersionFails, Lose, MetadataFails
<1>23. ASSUME NEW t \in Ids, NEW row \in Rows, InsertRowFails(t, row) PROVE Clean'
  BY <1>1, <1>23 DEF InsertRowFails
<1>24. CASE UNCHANGED vars
  BY <1>24, CleanUnchanged
<1>25. CASE AppendTableRefused
  BY <1>25, AppendTableRefusedClean
<1>26. CASE AppendIndexRefused
  BY <1>26, AppendIndexRefusedClean
<1>27. ASSUME NEW t \in Ids, NEW row \in Rows, InsertRowRefused(t, row) PROVE Clean'
  BY <1>27, InsertRowRefusedClean
<1>28. CASE AppendVersionRefused
  BY <1>28, VersionTaken DEF AppendVersionRefused
<1>29. CASE IndexRowFails
  <2>1. Inserting /\ treeFiles[CurrentIndex].pages = "broken"
    BY <1>1, <1>29 DEF IndexRowFails, Inserting
  <2>. QED BY <2>1, InsertFacts DEF Sound
<1>. QED BY <1>2, <1>3, <1>4, <1>5, <1>6, <1>7, <1>8, <1>9, <1>10, <1>11, <1>12, <1>13, <1>14,
            <1>15, <1>16, <1>17, <1>18, <1>19, <1>20, <1>21, <1>22, <1>23, <1>24, <1>25, <1>26,
            <1>27, <1>28, <1>29
         DEF Next, StatementStep

LEMMA CleanInit == Init => Clean /\ Sound
<1>. SUFFICES ASSUME Init PROVE Clean /\ Sound
  OBVIOUS
<1>1. /\ indexes = Empty /\ metadata = "absent" /\ catalogFile = EmptyFile /\ indexFile = EmptyFile
      /\ heaps = Empty /\ treeFiles = Empty /\ stmt = [phase |-> "closed"]
  BY DEF Init, CatalogInit
<1>2. Shut /\ In("closed") /\ ~In("refused")
  BY <1>1 DEF Shut, In
<1>3. /\ NewFile = {} /\ NewTreeFile = {} /\ Pending = {} /\ ~Inserting /\ NewIndex = {}
      /\ ~In("table_record") /\ ~In("index_record") /\ ~In("load_indexes")
  BY <1>2, Phases, BarePhases, BareFacts DEF PhaseFacts, Bare
<1>4. /\ catalogFile.recs = << >> /\ catalogFile.stored = 0
      /\ indexFile.recs = << >> /\ indexFile.stored = 0
  BY <1>1 DEF EmptyFile
<1>5. Versions = {} /\ Versioned = {} /\ RecIds = {}
  BY <1>4 DEF Versions, Versioned, RecIds
<1>6. DOMAIN heaps = {} /\ DOMAIN treeFiles = {} /\ DOMAIN indexes = {}
  BY <1>1, EmptyFacts
<1>7. Stored
  BY <1>1, <1>2, <1>4 DEF Stored
<1>8. TableRecords
  BY <1>3, <1>4, <1>5, <1>6 DEF TableRecords
<1>9. IndexRecords
  BY <1>3, <1>5, <1>6 DEF IndexRecords, HistoryOk
<1>10. TreesExact
  BY <1>3, <1>5 DEF TreesExact
<1>11. InMemory
  BY <1>2, <1>3, <1>5, <1>6 DEF InMemory
<1>12. Sound
  BY <1>1, <1>6 DEF Sound, EmptyFile
<1>. QED BY <1>7, <1>8, <1>9, <1>10, <1>11, <1>12 DEF Clean

(***************************************************************************)
(* Without faults the database opens again, holds in memory what its files *)
(* hold, and answers a SELECT alike by either plan.                        *)
(***************************************************************************)

\* In every state of a database on which no device error and no crash falls,
\* the records and versions in its files describe the files there are, each tree
\* holds exactly the keys of the rows inserted so far, and the memory is what was
\* loaded of them (PersistentStorage::CreateTable, CreateIndex, Insert and Open).
THEOREM CleanInvariant ==
    ASSUME MaxFaults = 0
    PROVE  Spec => [](DInv /\ Clean /\ Sound)
<1>1. Init => DInv /\ Clean /\ Sound
  BY DatabaseInit, CleanInit
<1>2. DInv /\ Clean /\ Sound /\ [Next]_vars => (DInv /\ Clean /\ Sound)'
  BY DatabaseStep, CleanStep, SoundStep
<1>. QED BY <1>1, <1>2, PTL DEF Spec

\* A database on which no device error and no crash has fallen always opens again,
\* unless a record too large for a page has left a page in one of its catalog files
\* that cannot be read (PersistentStorage::Open, CatalogStore::Load).
THEOREM AlwaysReopens ==
    ASSUME MaxFaults = 0
    PROVE  Spec => []Reopens
<1>1. DInv /\ Clean => Reopens
  BY DEF Clean, Stored, Reopens
<1>. QED BY <1>1, CleanInvariant, PTL

\* Between statements the catalog in memory is the one its files would yield
\* (PersistentStorage::LoadTables, LoadIndexes).
THEOREM CatalogAlwaysMatchesFiles ==
    ASSUME MaxFaults = 0
    PROVE  Spec => []CatalogMatchesFiles
<1>1. DInv /\ Clean => CatalogMatchesFiles
  <2>. SUFFICES ASSUME DInv, Clean, In("idle") PROVE CatalogMatchesFiles
    BY DEF CatalogMatchesFiles
  <2>1. Types /\ RecordsInv /\ Stored /\ Running /\ ~In("load_indexes") /\ NewIndex = {}
        /\ NewTable = {}
    BY Phases DEF DInv, Clean, PhaseFacts
  <2>2. /\ DOMAIN catalogFile.recs = 1 .. catalogFile.stored
        /\ \A n \in DOMAIN catalogFile.recs : catalogFile.recs[n] \in TableRecord
    BY <2>1, CatalogFileFacts DEF Types, Stored
  <2>3. \A n \in DOMAIN catalogFile.recs :
           /\ catalogFile.recs[n].id \in DOMAIN tables
           /\ catalogFile.recs[n]
                = [id |-> catalogFile.recs[n].id, name |-> tables[catalogFile.recs[n].id]]
    <3>1. ASSUME NEW n \in DOMAIN catalogFile.recs
          PROVE  /\ catalogFile.recs[n].id \in DOMAIN tables
                 /\ catalogFile.recs[n]
                      = [id |-> catalogFile.recs[n].id, name |-> tables[catalogFile.recs[n].id]]
      <4>1. /\ catalogFile.recs[n].id \in DOMAIN tables
            /\ tables[catalogFile.recs[n].id] = catalogFile.recs[n].name
        BY <2>1, TablesInMemory DEF Settled
      <4>2. catalogFile.recs[n] \in TableRecord
        BY <2>2
      <4>3. \A r \in TableRecord : r = [id |-> r.id, name |-> r.name]
        BY DEF TableRecord
      <4>. QED BY <4>1, <4>2, <4>3
    <3>. QED BY <3>1
  <2>4. \A id \in DOMAIN tables : \E n \in DOMAIN catalogFile.recs :
           catalogFile.recs[n] = [id |-> id, name |-> tables[id]]
    BY <2>1 DEF RecordsInv, Settled, Recorded, Loaded, Running
  <2>5. {[id |-> id, name |-> tables[id]] : id \in DOMAIN tables}
          = {catalogFile.recs[n] : n \in 1 .. catalogFile.stored}
    <3>1. ASSUME NEW id \in DOMAIN tables
          PROVE  [id |-> id, name |-> tables[id]]
                   \in {catalogFile.recs[n] : n \in DOMAIN catalogFile.recs}
      BY <2>4
    <3>2. ASSUME NEW n \in DOMAIN catalogFile.recs
          PROVE  catalogFile.recs[n]
                   \in {[id |-> id, name |-> tables[id]] : id \in DOMAIN tables}
      <4>1. PICK id \in DOMAIN tables : catalogFile.recs[n] = [id |-> id, name |-> tables[id]]
        BY <2>3
      <4>. QED BY <4>1
    <3>. QED BY <2>2, <3>1, <3>2
  <2>6. DOMAIN indexes = Versioned /\ \A id \in Versioned : indexes[id] = Latest(id)
    BY <2>1, TreesInMemory
  <2>. QED BY <2>1, <2>5, <2>6 DEF CatalogMatchesFiles, Versioned, Stored
<1>. QED BY <1>1, CleanInvariant, PTL

\* A SELECT by an index answers as one by a sequential scan, if that can read every
\* page of the table: the tree of every index opens, and yields for each key the row
\* that has it (TableHeap::Scan, BPlusTree::Find).
THEOREM LookupAlwaysMatchesScan ==
    ASSUME MaxFaults = 0
    PROVE  Spec => []LookupMatchesScan
<1>1. DInv /\ Clean => LookupMatchesScan
  <2>. SUFFICES ASSUME DInv, Clean, In("idle"), NEW t \in DOMAIN tables, NEW c \in Columns
                PROVE  /\ \A i \in IndexesFor(t, c) : Opens(i)
                       /\ \A k \in Keys : IndexScan(t, c, k) = SequentialScan(t, c, k)
    BY DEF LookupMatchesScan
  <2>1. /\ Types /\ TableRecords /\ IndexRecords /\ TreesExact
        /\ Running /\ ~In("load_indexes") /\ NewIndex = {} /\ Pending = {} /\ ~In("version")
    BY Phases, BarePhases, BareFacts DEF DInv, Clean, PhaseFacts
  <2>2. DOMAIN trees = Versioned /\ \A i \in Versioned : trees[i] = Latest(i)
    BY <2>1, TreesInMemory
  <2>3. ASSUME NEW i \in IndexesFor(t, c)
        PROVE  /\ i \in Versioned /\ i \in Ids /\ Opens(i)
               /\ Exact(treeFiles[i].found, heaps[t].recs, c, Len(heaps[t].recs))
               /\ heaps[t].recs \in Seq(Rows)
    <3>1. i \in Versioned /\ Latest(i).table = t /\ Latest(i).column = c
      BY <2>2 DEF IndexesFor, TableIndexes
    <3>2. RowsOf(i) = heaps[t].recs /\ RowsIn(i) = Len(heaps[t].recs)
      BY <2>1, <3>1 DEF RowsOf, RowsIn
    <3>3. i \in Ids /\ RowsOf(i) \in Seq(Rows)
      BY <2>1, <3>1, LatestIsVersion, RowsFacts
    <3>4. Opens(i)
      BY <2>1, <2>2, <3>1 DEF IndexRecords, Opens
    <3>. QED BY <2>1, <3>1, <3>2, <3>3, <3>4 DEF TreesExact
  <2>4. ASSUME NEW k \in Keys PROVE IndexScan(t, c, k) = SequentialScan(t, c, k)
    <3>1. CASE IndexesFor(t, c) = {}
      BY <3>1 DEF IndexScan
    <3>2. CASE IndexesFor(t, c) # {}
      <4>1. IndexesFor(t, c) \subseteq Ids
        BY <2>3
      <4>2. PICK i \in IndexesFor(t, c) : i = Min(IndexesFor(t, c))
        BY <3>2, <4>1, MinIsMember
      <4>3. PICK rows, found : rows = heaps[t].recs /\ found = treeFiles[i].found
        OBVIOUS
      <4>4. Exact(found, rows, c, Len(rows)) /\ DOMAIN rows = 1 .. Len(rows)
        BY <2>3, <4>3
      <4>5. IndexScan(t, c, k) = IF k \in DOMAIN found THEN {found[k]} ELSE {}
        BY <3>2, <4>2, <4>3 DEF IndexScan
      <4>6. SequentialScan(t, c, k) = {n \in DOMAIN rows : rows[n][c] = k}
        BY <4>3 DEF SequentialScan
      <4>7. /\ DOMAIN found = {rows[n][c] : n \in DOMAIN rows}
            /\ \A n \in DOMAIN rows : found[rows[n][c]] = n
        BY <4>4 DEF Exact
      <4>8. CASE k \in DOMAIN found
        <5>1. PICK n \in DOMAIN rows : rows[n][c] = k
          BY <4>7, <4>8
        <5>2. \A m \in DOMAIN rows : rows[m][c] = k => m = n
          BY <4>7, <5>1
        <5>. QED BY <4>5, <4>6, <4>7, <4>8, <5>1, <5>2
      <4>9. CASE k \notin DOMAIN found
        BY <4>5, <4>6, <4>7, <4>9
      <4>. QED BY <4>8, <4>9
    <3>. QED BY <3>1, <3>2
  <2>. QED BY <2>3, <2>4
<1>. QED BY <1>1, CleanInvariant, PTL

(***************************************************************************)
(* The files implement Relations.  A table is created, an index made and a *)
(* row inserted by the step that writes its record.                        *)
(***************************************************************************)
Rel == [name \in {r.name : r \in Records} |-> FileOf(name).recs]
Uniq == {<<NameOf(v.entry.table), v.entry.column>> : v \in Versions}

\* The record of an id or of a name is the only one there is.
LEMMA ChosenRecord ==
    ASSUME NEW recs, NEW n \in DOMAIN recs,
           \A m, k \in DOMAIN recs :
              recs[m].id = recs[k].id \/ recs[m].name = recs[k].name => m = k
    PROVE  LET S == {recs[m] : m \in DOMAIN recs}
           IN  /\ (CHOOSE r \in S : r.id = recs[n].id) = recs[n]
               /\ (CHOOSE r \in S : r.name = recs[n].name) = recs[n]
<1>. DEFINE S == {recs[m] : m \in DOMAIN recs}
<1>1. recs[n] \in S
  OBVIOUS
<1>2. \A r \in S : r.id = recs[n].id \/ r.name = recs[n].name => r = recs[n]
  OBVIOUS
<1>. HIDE DEF S
<1>3. (CHOOSE r \in S : r.id = recs[n].id) = recs[n]
  BY <1>1, <1>2
<1>4. (CHOOSE r \in S : r.name = recs[n].name) = recs[n]
  BY <1>1, <1>2
<1>. QED BY <1>3, <1>4 DEF S

NamesRecorded ==
    \A n \in DOMAIN catalogFile.recs :
        /\ NameOf(catalogFile.recs[n].id) = catalogFile.recs[n].name
        /\ FileOf(catalogFile.recs[n].name) = heaps[catalogFile.recs[n].id]

LEMMA RecordNames == (TableRecords => NamesRecorded) /\ (TableRecords' => NamesRecorded')
<1>1. ASSUME TableRecords, NEW n \in DOMAIN catalogFile.recs
      PROVE  /\ NameOf(catalogFile.recs[n].id) = catalogFile.recs[n].name
             /\ FileOf(catalogFile.recs[n].name) = heaps[catalogFile.recs[n].id]
  BY <1>1, ChosenRecord DEF TableRecords, NameOf, FileOf, Records
<1>2. ASSUME TableRecords', NEW n \in DOMAIN catalogFile'.recs
      PROVE  /\ NameOf(catalogFile.recs[n].id)' = catalogFile'.recs[n].name
             /\ FileOf(catalogFile.recs[n].name)' = heaps'[catalogFile'.recs[n].id]
  BY <1>2, ChosenRecord DEF TableRecords, NameOf, FileOf, Records
<1>. QED BY <1>1, <1>2 DEF NamesRecorded

\* The relation of a recorded table is the rows of its file.
LEMMA RelFacts ==
    ASSUME TableRecords
    PROVE  /\ DOMAIN Rel = {catalogFile.recs[n].name : n \in DOMAIN catalogFile.recs}
           /\ \A n \in DOMAIN catalogFile.recs :
                 Rel[catalogFile.recs[n].name] = heaps[catalogFile.recs[n].id].recs
           /\ Rel = [name \in DOMAIN Rel |-> Rel[name]]
<1>1. DOMAIN Rel = {catalogFile.recs[n].name : n \in DOMAIN catalogFile.recs}
  BY DEF Rel, Records
<1>2. ASSUME NEW n \in DOMAIN catalogFile.recs
      PROVE  Rel[catalogFile.recs[n].name] = heaps[catalogFile.recs[n].id].recs
  <2>1. FileOf(catalogFile.recs[n].name) = heaps[catalogFile.recs[n].id]
    BY RecordNames DEF NamesRecorded
  <2>. QED BY <1>1, <2>1 DEF Rel
<1>. QED BY <1>1, <1>2 DEF Rel

LEMMA RelFactsNext ==
    ASSUME TableRecords'
    PROVE  /\ DOMAIN Rel' = {catalogFile'.recs[n].name : n \in DOMAIN catalogFile'.recs}
           /\ \A n \in DOMAIN catalogFile'.recs :
                 Rel'[catalogFile'.recs[n].name] = heaps'[catalogFile'.recs[n].id].recs
           /\ Rel' = [name \in DOMAIN Rel' |-> Rel'[name]]
<1>1. DOMAIN Rel' = {catalogFile'.recs[n].name : n \in DOMAIN catalogFile'.recs}
  BY DEF Rel, Records
<1>2. ASSUME NEW n \in DOMAIN catalogFile'.recs
      PROVE  Rel'[catalogFile'.recs[n].name] = heaps'[catalogFile'.recs[n].id].recs
  <2>1. FileOf(catalogFile.recs[n].name)' = heaps'[catalogFile'.recs[n].id]
    BY RecordNames DEF NamesRecorded
  <2>2. PICK name : name = catalogFile'.recs[n].name
    OBVIOUS
  <2>3. FileOf(name)' = heaps'[catalogFile'.recs[n].id]
    BY <2>1, <2>2
  <2>4. Rel'[name] = FileOf(name)'.recs
    BY <1>1, <2>2 DEF Rel
  <2>. QED BY <2>2, <2>3, <2>4
<1>. QED BY <1>1, <1>2 DEF Rel

\* A step that changes no record and no recorded row changes no relation.
LEMMA RelQuiet ==
    ASSUME TableRecords, TableRecords', catalogFile'.recs = catalogFile.recs,
           \A id \in RecIds : heaps'[id].recs = heaps[id].recs
    PROVE  Rel' = Rel /\ \A id : NameOf(id)' = NameOf(id)
<1>1. Records' = Records
  BY DEF Records
<1>2. \A id : NameOf(id)' = NameOf(id)
  BY <1>1 DEF NameOf
<1>3. ASSUME NEW n \in DOMAIN catalogFile.recs
      PROVE  Rel'[catalogFile.recs[n].name] = Rel[catalogFile.recs[n].name]
  <2>1. heaps'[catalogFile.recs[n].id].recs = heaps[catalogFile.recs[n].id].recs
    BY DEF RecIds
  <2>. QED BY <2>1, RelFacts, RelFactsNext
<1>4. DOMAIN Rel' = DOMAIN Rel
  BY RelFacts, RelFactsNext
<1>5. Rel' = Rel
  BY <1>3, <1>4, RelFacts, RelFactsNext
<1>. QED BY <1>2, <1>5

LEMMA UniqQuiet ==
    ASSUME \A id \in RecIds : NameOf(id)' = NameOf(id), IndexRecords, Versions' = Versions
    PROVE  Uniq' = Uniq
<1>1. \A v \in Versions : NameOf(v.entry.table)' = NameOf(v.entry.table)
  BY DEF IndexRecords
<1>2. Uniq' = {<<NameOf(v.entry.table)', v.entry.column>> : v \in Versions'}
  BY DEF Uniq
<1>. QED BY <1>1, <1>2 DEF Uniq

\* Steps that write no record and no row.
LEMMA QuietRelations ==
    ASSUME TableRecords, TableRecords', IndexRecords, catalogFile'.recs = catalogFile.recs,
           indexFile'.recs = indexFile.recs,
           \A id \in RecIds : heaps'[id].recs = heaps[id].recs
    PROVE  UNCHANGED <<Rel, Uniq>>
BY RelQuiet, UniqQuiet, VersionsQuiet

\* CREATE TABLE creates a relation when its record is written.
LEMMA AppendTableCreates ==
    ASSUME DInv, Clean, Clean', AppendTable
    PROVE  \E name \in TableNames : R!CreateTable(name)
<1>1. PICK id, name : id = stmt.id /\ name = tables[stmt.id]
  OBVIOUS
<1>2. /\ In("table_record") /\ Takes(catalogFile)
      /\ catalogFile' = Written(catalogFile, [id |-> id, name |-> name])
      /\ UNCHANGED <<indexFile, heaps>>
  BY <1>1 DEF AppendTable, NewTableRecord
<1>3. CreatingTable
  BY <1>2 DEF CreatingTable
<1>4. Running /\ NewTable = {id}
  BY <1>1, <1>3, Phases DEF PhaseFacts
<1>5. /\ CatInv /\ Types /\ StmtInv /\ TableRecords /\ TableRecords' /\ IndexRecords
      /\ heaps[id].recs = << >>
  BY <1>1, <1>2 DEF DInv, Clean, TableRecords
<1>6. id \in DOMAIN tables /\ id \in Ids /\ name \in TableNames
  BY <1>1, <1>4, <1>5, CatalogFacts DEF StmtInv
<1>. DEFINE n == Len(catalogFile.recs) + 1
            r == [id |-> id, name |-> name]
<1>7. catalogFile'.recs = Append(catalogFile.recs, r)
  <2>1. r \in TableRecord
    BY <1>6 DEF TableRecord
  <2>2. Whole(catalogFile, TableRecord)
    BY <1>5 DEF Types
  <2>3. Written(catalogFile, r).recs = Append(catalogFile.recs, r)
    BY <1>2, <2>1, <2>2, FileWrites
  <2>. QED BY <1>2, <2>3
<1>8. /\ DOMAIN catalogFile'.recs = DOMAIN catalogFile.recs \cup {n}
      /\ catalogFile'.recs[n] = r
      /\ \A m \in DOMAIN catalogFile.recs : catalogFile'.recs[m] = catalogFile.recs[m]
  <2>1. catalogFile.recs \in Seq(TableRecord)
    BY <1>5, CatalogFileFacts
  <2>2. r \in TableRecord
    BY <1>6 DEF TableRecord
  <2>. QED BY <1>7, <2>1, <2>2, Appended
<1>9. \A m \in DOMAIN catalogFile.recs : catalogFile.recs[m].name # name
  <2>1. ASSUME NEW m \in DOMAIN catalogFile.recs PROVE catalogFile.recs[m].name # name
    <3>1. /\ catalogFile.recs[m].id \in DOMAIN tables /\ catalogFile.recs[m].id # id
          /\ tables[catalogFile.recs[m].id] = catalogFile.recs[m].name
      BY <1>4, TablesInMemory DEF Settled
    <3>. QED BY <1>1, <1>5, <1>6, <3>1, CatalogFacts
  <2>. QED BY <2>1
<1>10. DOMAIN Rel' = DOMAIN Rel \cup {name} /\ name \notin DOMAIN Rel
  BY <1>5, <1>8, <1>9, RelFacts, RelFactsNext
<1>11. Rel'[name] = << >> /\ \A m \in DOMAIN Rel : Rel'[m] = Rel[m]
  <2>1. Rel'[name] = << >>
    BY <1>2, <1>5, <1>8, RelFactsNext
  <2>2. ASSUME NEW m \in DOMAIN catalogFile.recs
        PROVE  Rel'[catalogFile.recs[m].name] = Rel[catalogFile.recs[m].name]
    BY <1>2, <1>5, <1>8, RelFacts, RelFactsNext
  <2>. QED BY <1>5, <2>1, <2>2, RelFacts
<1>12. Rel' = [m \in DOMAIN Rel \cup {name} |-> IF m = name THEN << >> ELSE Rel[m]]
  BY <1>5, <1>10, <1>11, RelFactsNext
<1>13. \A i \in RecIds : NameOf(i)' = NameOf(i)
  <2>1. ASSUME NEW i \in RecIds PROVE NameOf(i)' = NameOf(i)
    <3>1. PICK m \in DOMAIN catalogFile.recs : catalogFile.recs[m].id = i
      BY DEF RecIds
    <3>2. NameOf(i) = catalogFile.recs[m].name
      BY <1>5, <3>1, RecordNames DEF NamesRecorded
    <3>3. /\ m \in DOMAIN catalogFile'.recs /\ catalogFile'.recs[m].id = i
          /\ catalogFile'.recs[m].name = catalogFile.recs[m].name
      BY <1>8, <3>1
    <3>4. NameOf(i)' = catalogFile'.recs[m].name
      BY <1>5, <3>3, RecordNames DEF NamesRecorded
    <3>. QED BY <3>2, <3>3, <3>4
  <2>. QED BY <2>1
<1>14. Uniq' = Uniq
  BY <1>2, <1>5, <1>13, UniqQuiet, VersionsQuiet
<1>15. R!CreateTable(name)
  BY <1>10, <1>12, <1>14 DEF R!CreateTable, Rel, Uniq
<1>. QED BY <1>6, <1>15

\* A table of a running database is a relation, under its name.
LEMMA TableRelation ==
    ASSUME DInv, Clean, Running, NEW t \in Settled
    PROVE  /\ NameOf(t) = tables[t] /\ tables[t] \in DOMAIN Rel /\ tables[t] \in TableNames
           /\ Rel[tables[t]] = heaps[t].recs
<1>1. t \in RecIds
  BY SettledRecorded
<1>2. PICK n \in DOMAIN catalogFile.recs : catalogFile.recs[n].id = t
  BY <1>1 DEF RecIds
<1>3. tables[t] = catalogFile.recs[n].name
  BY <1>2, TablesInMemory
<1>4. TableRecords /\ CatInv
  BY DEF DInv, Clean
<1>5. NameOf(t) = tables[t]
  BY <1>2, <1>3, <1>4, RecordNames DEF NamesRecorded
<1>6. tables[t] \in DOMAIN Rel /\ Rel[tables[t]] = heaps[t].recs
  BY <1>2, <1>3, <1>4, RelFacts
<1>. QED BY <1>4, <1>5, <1>6, CatalogFacts DEF Settled

\* Two recorded tables have two names.
LEMMA NamesDiffer ==
    ASSUME TableRecords, NEW t \in RecIds, NEW u \in RecIds, NameOf(t) = NameOf(u)
    PROVE  t = u
<1>1. PICK n \in DOMAIN catalogFile.recs : catalogFile.recs[n].id = t
  BY DEF RecIds
<1>2. PICK m \in DOMAIN catalogFile.recs : catalogFile.recs[m].id = u
  BY DEF RecIds
<1>3. NameOf(t) = catalogFile.recs[n].name /\ NameOf(u) = catalogFile.recs[m].name
  BY <1>1, <1>2, RecordNames DEF NamesRecorded
<1>. QED BY <1>1, <1>2, <1>3 DEF TableRecords

\* A tree is exact only over rows with distinct keys.
LEMMA ExactUnique ==
    ASSUME NEW rows \in Seq(Rows), NEW c, NEW found, Exact(found, rows, c, Len(rows))
    PROVE  R!IsUnique(rows, c)
<1>1. DOMAIN rows = 1 .. Len(rows)
  OBVIOUS
<1>2. ASSUME NEW i \in DOMAIN rows, NEW j \in DOMAIN rows, rows[i][c] = rows[j][c]
      PROVE  i = j
  BY <1>1, <1>2 DEF Exact
<1>. QED BY <1>2 DEF R!IsUnique

\* CREATE INDEX makes a column unique when its record is written.
LEMMA AppendIndexCreates ==
    ASSUME DInv, Clean, Clean', AppendIndex
    PROVE  \E name \in TableNames, c \in Columns : R!CreateIndex(name, c)
<1>1. PICK id, entry : id = stmt.id /\ entry = EntryWithRoot(stmt.id)
  OBVIOUS
<1>2. PICK v : v = [id |-> id, entry |-> entry]
  OBVIOUS
<1>3. /\ In("index_record") /\ Takes(indexFile) /\ indexFile' = Written(indexFile, v)
      /\ UNCHANGED <<catalogFile, heaps>>
  BY <1>1, <1>2 DEF AppendIndex
<1>4. CreatingIndex
  BY <1>3 DEF CreatingIndex
<1>5. Running /\ NewIndex = {id} /\ ~In("load_indexes")
  BY <1>1, <1>4, Phases DEF PhaseFacts
<1>6. /\ CatInv /\ Types /\ StorageInv /\ TableRecords /\ TableRecords' /\ IndexRecords
      /\ IndexRecords' /\ TreesExact /\ InMemory
  BY DEF DInv, Clean
<1>7. /\ id \in Ids /\ id \in DOMAIN indexes /\ indexes[id] \in IndexEntry
      /\ treeFiles[id].root \in Roots /\ v \in Version /\ v.id = id /\ v.entry = entry
  BY <1>1, <1>2, <1>3, NewIndexFacts
<1>8. entry.table = indexes[id].table /\ entry.column = indexes[id].column
  <2>1. PICK e \in IndexEntry, r \in Roots : e = indexes[id] /\ r = treeFiles[id].root
    BY <1>7
  <2>2. entry = [e EXCEPT !.root = r]
    BY <1>1, <2>1 DEF EntryWithRoot
  <2>. QED BY <2>1, <2>2, MovedRoot
<1>9. id \notin Versioned
  BY <1>5, <1>6 DEF InMemory
<1>10. Versions' = Versions \cup {v}
  BY <1>3, <1>6, <1>7, VersionAdded
<1>. DEFINE t == entry.table
            c == entry.column
<1>11. t \in Settled /\ c \in Columns
  BY <1>6, <1>7, <1>8 DEF StorageInv, IndexEntry
<1>12. PICK name \in TableNames : /\ name = tables[t] /\ NameOf(t) = name /\ name \in DOMAIN Rel
                                  /\ Rel[name] = heaps[t].recs
  BY <1>5, <1>11, TableRelation
<1>13. t \in RecIds
  BY <1>5, <1>11, SettledRecorded
<1>14. Rel' = Rel /\ \A i : NameOf(i)' = NameOf(i)
  BY <1>3, <1>6, RelQuiet
<1>15. R!IsUnique(Rel[name], c)
  <2>1. Exact(treeFiles[id].found, heaps[t].recs, c, Len(heaps[t].recs))
    BY <1>1, <1>3, <1>6, <1>8 DEF TreesExact, IndexedRows, IndexedHeap, IndexedColumn
  <2>2. heaps[t].recs \in Seq(Rows)
    BY <1>6, <1>13, HeapFacts DEF Types, TableRecords
  <2>. QED BY <1>12, <2>1, <2>2, ExactUnique
<1>16. Uniq' = Uniq \cup {<<name, c>>}
  <2>1. Uniq' = {<<NameOf(w.entry.table), w.entry.column>> : w \in Versions'}
    BY <1>14 DEF Uniq
  <2>2. <<NameOf(v.entry.table), v.entry.column>> = <<name, c>>
    BY <1>7, <1>12
  <2>. QED BY <1>10, <2>1, <2>2 DEF Uniq
<1>17. <<name, c>> \notin Uniq
  <2>1. SUFFICES ASSUME NEW w \in Versions, NameOf(w.entry.table) = name, w.entry.column = c
                 PROVE  FALSE
    BY DEF Uniq
  <2>2. w.entry.table = t
    BY <1>6, <1>12, <1>13, <2>1, NamesDiffer DEF IndexRecords
  <2>3. w.id = v.id
    BY <1>6, <1>7, <1>10, <2>1, <2>2 DEF IndexRecords
  <2>. QED BY <1>7, <1>9, <2>3 DEF Versioned
<1>18. R!CreateIndex(name, c)
  BY <1>12, <1>14, <1>15, <1>16, <1>17 DEF R!CreateIndex, Rel, Uniq
<1>. QED BY <1>11, <1>18

\* INSERT extends a relation when the row is written to the heap.
LEMMA InsertRowInserts ==
    ASSUME DInv, Clean, Clean', Sound, NEW t \in Ids, NEW row \in Rows, InsertRow(t, row)
    PROVE  \E name \in TableNames : R!Insert(name, row)
<1>1. /\ In("idle") /\ t \in DOMAIN tables /\ NoDuplicate(t, row) /\ Takes(heaps[t])
      /\ heaps' = [heaps EXCEPT ![t] = Written(heaps[t], row)]
      /\ UNCHANGED <<catalogFile, indexFile>>
  BY DEF InsertRow, CanInsert, RowWritten
<1>2. Running /\ ~In("load_indexes") /\ NewTable = {} /\ NewIndex = {} /\ Pending = {}
  BY <1>1, Phases, BarePhases, BareFacts DEF PhaseFacts
<1>3. /\ CatInv /\ Types /\ StorageInv /\ TableRecords /\ TableRecords' /\ IndexRecords
      /\ TreesExact
  BY DEF DInv, Clean
<1>4. t \in Settled /\ t \in DOMAIN heaps /\ t \in RecIds
  BY <1>1, <1>2, <1>3, IdleFacts, SettledRecorded
<1>5. PICK name \in TableNames : /\ name = tables[t] /\ NameOf(t) = name /\ name \in DOMAIN Rel
                                 /\ Rel[name] = heaps[t].recs
  BY <1>2, <1>4, TableRelation
<1>6. PICK old \in Seq(Rows) : old = heaps[t].recs
  BY <1>3, <1>4, HeapFacts DEF Types
<1>. DEFINE new == Append(old, row)
<1>7. /\ heaps'[t].recs = new
      /\ \A s \in DOMAIN heaps : s # t => heaps'[s] = heaps[s]
  <2>1. Whole(heaps[t], Rows)
    BY <1>3, <1>4, HeapFacts DEF Types
  <2>2. Written(heaps[t], row).recs = Append(heaps[t].recs, row)
    BY <1>1, <2>1, FileWrites
  <2>3. heaps = [s \in DOMAIN heaps |-> heaps[s]]
    BY <1>3 DEF Types, HeapsOK
  <2>. QED BY <1>1, <1>4, <1>6, <2>2, <2>3
<1>8. DOMAIN Rel' = DOMAIN Rel
  BY <1>1, <1>3, RelFacts, RelFactsNext
<1>9. ASSUME NEW m \in DOMAIN catalogFile.recs
      PROVE  Rel'[catalogFile.recs[m].name]
               = IF catalogFile.recs[m].name = name THEN new ELSE Rel[catalogFile.recs[m].name]
  <2>1. PICK id : id = catalogFile.recs[m].id
    OBVIOUS
  <2>2. id \in RecIds /\ NameOf(id) = catalogFile.recs[m].name
    BY <1>3, <2>1, RecordNames DEF NamesRecorded, RecIds
  <2>3. Rel'[catalogFile.recs[m].name] = heaps'[id].recs
    BY <1>1, <1>3, <2>1, RelFactsNext
  <2>4. Rel[catalogFile.recs[m].name] = heaps[id].recs
    BY <1>3, <2>1, RelFacts
  <2>5. CASE id = t
    BY <1>5, <1>7, <2>2, <2>3, <2>5
  <2>6. CASE id # t
    <3>1. catalogFile.recs[m].name # name
      BY <1>3, <1>4, <1>5, <2>2, <2>6, NamesDiffer
    <3>2. heaps'[id] = heaps[id]
      BY <1>3, <1>7, <2>2, <2>6 DEF TableRecords
    <3>. QED BY <2>3, <2>4, <3>1, <3>2
  <2>. QED BY <2>5, <2>6
<1>10. Rel' = [Rel EXCEPT ![name] = Append(Rel[name], row)]
  <2>1. \A m \in DOMAIN Rel : Rel'[m] = IF m = name THEN new ELSE Rel[m]
    BY <1>3, <1>9, RelFacts
  <2>2. Rel' = [m \in DOMAIN Rel |-> IF m = name THEN new ELSE Rel[m]]
    BY <1>3, <1>8, <2>1, RelFactsNext
  <2>3. Rel = [m \in DOMAIN Rel |-> Rel[m]]
    BY <1>3, RelFacts
  <2>. QED BY <1>5, <1>6, <2>2, <2>3
<1>11. ASSUME NEW c \in Columns, <<name, c>> \in Uniq PROVE R!IsUnique(Append(Rel[name], row), c)
  <2>1. PICK v \in Versions : NameOf(v.entry.table) = name /\ v.entry.column = c
    BY <1>11 DEF Uniq
  <2>2. v.entry.table = t
    BY <1>3, <1>4, <1>5, <2>1, NamesDiffer DEF IndexRecords
  <2>3. PICK i \in Versioned : i = v.id /\ Latest(i).table = t /\ Latest(i).column = c
    BY <1>3, <2>1, <2>2, VersionAgrees DEF IndexRecords
  <2>4. RowsOf(i) = old /\ RowsIn(i) = Len(old)
    BY <1>2, <1>6, <2>3 DEF RowsOf, RowsIn
  <2>5. PICK found : found = treeFiles[i].found
    OBVIOUS
  <2>6. Exact(found, old, c, Len(old))
    BY <1>3, <2>3, <2>4, <2>5 DEF TreesExact
  <2>7. row[c] \notin DOMAIN found
    <3>1. DOMAIN trees = Versioned /\ trees[i] = Latest(i)
      BY <1>2, TreesInMemory
    <3>2. i \in TableIndexes(t)
      BY <2>3, <3>1 DEF TableIndexes
    <3>3. treeFiles[i].pages # "broken"
      BY <1>3 DEF IndexRecords, Sound
    <3>. QED BY <1>1, <2>3, <2>5, <3>1, <3>2, <3>3 DEF NoDuplicate, Misses
  <2>8. /\ new \in Seq(Rows) /\ Len(new) = Len(old) + 1 /\ Len(old) \in Nat
        /\ new[Len(old) + 1] = row
    BY <1>6
  <2>9. Exact(found, new, c, Len(old))
    BY <1>6, <2>6, ExactPrefix
  <2>10. Exact(Put(found, row[c], Len(new)), new, c, Len(new))
    <3>1. PICK rows : rows = new
      OBVIOUS
    <3>2. PICK n : n = Len(rows)
      OBVIOUS
    <3>3. n \in Nat \ {0} /\ n - 1 = Len(old) /\ rows[n] = row
      BY <2>8, <3>1, <3>2
    <3>4. Exact(found, rows, c, n - 1) /\ rows[n][c] \notin DOMAIN found
      BY <2>7, <2>9, <3>1, <3>3
    <3>. HIDE DEF new
    <3>5. Exact(Put(found, rows[n][c], n), rows, c, n)
      BY <3>3, <3>4, ExactExtended
    <3>. QED BY <3>1, <3>2, <3>3, <3>5
  <2>. QED BY <1>5, <1>6, <2>8, <2>10, ExactUnique
<1>12. Uniq' = Uniq
  <2>1. Records' = Records
    BY <1>1 DEF Records
  <2>2. \A i : NameOf(i)' = NameOf(i)
    BY <2>1 DEF NameOf
  <2>. QED BY <1>1, <1>3, <2>2, UniqQuiet, VersionsQuiet
<1>13. R!Insert(name, row)
  BY <1>5, <1>10, <1>11, <1>12 DEF R!Insert, Rel, Uniq
<1>. QED BY <1>13

\* Another version of an index makes no other column unique.
LEMMA AppendVersionQuiet ==
    ASSUME DInv, Clean, Clean', AppendVersion
    PROVE  UNCHANGED <<Rel, Uniq>>
<1>1. /\ In("version") /\ Takes(indexFile) /\ indexFile' = Written(indexFile, NewVersion)
      /\ UNCHANGED <<catalogFile, heaps>>
  BY DEF AppendVersion, VersionWritten
<1>2. Types /\ TableRecords /\ TableRecords' /\ IndexRecords
  BY DEF DInv, Clean
<1>3. PICK cur, v : cur = CurrentIndex /\ v = NewVersion
  OBVIOUS
<1>4. /\ Inserting /\ v \in Version /\ cur \in Versioned /\ trees[cur] = Latest(cur)
  BY <1>1, <1>3, NewVersionFacts, CurrentFacts
<1>5. v.entry.table = Latest(cur).table /\ v.entry.column = Latest(cur).column
  <2>1. PICK e \in IndexEntry, r \in Roots : e = Latest(cur) /\ r = treeFiles[cur].root
    BY <1>1, <1>2, <1>3, <1>4, LatestIsVersion DEF DInv, StmtInv
  <2>2. v.entry = [e EXCEPT !.root = r]
    BY <1>3, <1>4, <2>1 DEF NewVersion
  <2>. QED BY <2>1, <2>2, MovedRoot
<1>6. Versions' = Versions \cup {v}
  BY <1>1, <1>2, <1>3, <1>4, VersionAdded
<1>7. [id |-> cur, entry |-> Latest(cur)] \in Versions
  BY <1>2, <1>4, LatestIsVersion
<1>8. PICK w \in Versions : w.entry = Latest(cur)
  BY <1>7
<1>9. Rel' = Rel /\ \A i : NameOf(i)' = NameOf(i)
  BY <1>1, <1>2, RelQuiet
<1>10. Uniq' = {<<NameOf(u.entry.table), u.entry.column>> : u \in Versions'}
  BY <1>9 DEF Uniq
<1>11. Uniq' = Uniq
  BY <1>5, <1>6, <1>8, <1>10 DEF Uniq
<1>. QED BY <1>9, <1>11

\* Every step is one of a relation, or changes none.
LEMMA RelationStep ==
    MaxFaults = 0 /\ DInv /\ Clean /\ Clean' /\ Sound /\ [Next]_vars
      => [R!Next]_(R!relVars)
<1>. SUFFICES ASSUME MaxFaults = 0, DInv, Clean, Clean', Sound, [Next]_vars
              PROVE  R!Next \/ UNCHANGED <<Rel, Uniq>>
  BY DEF R!relVars, Rel, Uniq
<1>1. ~Fault /\ Types /\ TableRecords /\ TableRecords' /\ IndexRecords
  BY NoFaultLeft DEF DInv, Clean
<1>2. ASSUME UNCHANGED <<catalogFile, indexFile, heaps>> PROVE UNCHANGED <<Rel, Uniq>>
  BY <1>1, <1>2, QuietRelations
<1>3. ASSUME NEW name \in TableNames, BeginCreateTable(name) PROVE UNCHANGED <<Rel, Uniq>>
  BY <1>2, <1>3 DEF BeginCreateTable, files
<1>4. ASSUME NEW name \in IndexNames, NEW t \in Ids, NEW c \in Columns, BeginCreateIndex(name, t, c)
      PROVE  UNCHANGED <<Rel, Uniq>>
  BY <1>2, <1>4 DEF BeginCreateIndex, files
<1>5. ASSUME NEW t \in Ids, NEW row \in Rows, InsertRow(t, row) PROVE R!Next
  BY <1>5, InsertRowInserts DEF R!Next
<1>6. CASE AppendTable
  BY <1>6, AppendTableCreates DEF R!Next
<1>7. CASE AppendIndex
  BY <1>7, AppendIndexCreates DEF R!Next
<1>8. CASE AppendVersion
  BY <1>8, AppendVersionQuiet
<1>9. CASE MakeTableFile
  <2>1. /\ stmt.id \notin DOMAIN heaps /\ heaps' = Put(heaps, stmt.id, EmptyFile)
        /\ UNCHANGED <<catalogFile, indexFile>>
    BY <1>9 DEF MakeTableFile
  <2>2. \A id \in DOMAIN heaps : heaps'[id] = heaps[id]
    BY <2>1 DEF Put
  <2>3. \A id \in RecIds : heaps'[id].recs = heaps[id].recs
    BY <1>1, <2>2 DEF TableRecords
  <2>. QED BY <1>1, <2>1, <2>3, QuietRelations
<1>10. CASE Close
  <2>1. /\ catalogFile' = Flushed(catalogFile) /\ indexFile' = Flushed(indexFile)
        /\ heaps' = [t \in DOMAIN heaps |-> Flushed(heaps[t])]
    BY <1>10 DEF Close, WrittenOut, Sound
  <2>2. catalogFile'.recs = catalogFile.recs /\ indexFile'.recs = indexFile.recs
    BY <2>1 DEF Flushed
  <2>3. \A t \in DOMAIN heaps : heaps'[t].recs = heaps[t].recs
    BY <2>1 DEF Flushed
  <2>4. \A id \in RecIds : heaps'[id].recs = heaps[id].recs
    BY <1>1, <2>3 DEF TableRecords
  <2>. QED BY <1>1, <2>2, <2>4, QuietRelations
<1>11. CASE TableFileExists \/ IndexFileExists \/ BuildIndexRefused \/ BuildIndex
  BY <1>2, <1>11 DEF TableFileExists, IndexFileExists, BuildIndexRefused, BuildIndex, files
<1>12. CASE IndexRow \/ IndexRowGrows
  BY <1>2, <1>12 DEF IndexRow, IndexRowGrows
<1>13. CASE BeginOpen \/ OpenTable \/ ReadIndexCatalog \/ OpenIndex \/ Opened
  BY <1>2, <1>13 DEF BeginOpen, OpenTable, ReadIndexCatalog, OpenIndex, Opened, files
<1>14. CASE OpenRefused
  BY <1>2, <1>14 DEF OpenRefused, files
<1>15. CASE TableFileFails \/ AppendTableFails \/ BuildIndexFails \/ AppendIndexFails
  BY <1>1, <1>15 DEF TableFileFails, AppendTableFails, BuildIndexFails, AppendIndexFails
<1>16. CASE AppendVersionFails \/ Lose \/ MetadataFails
  BY <1>1, <1>16 DEF AppendVersionFails, Lose, MetadataFails
<1>17. ASSUME NEW t \in Ids, NEW row \in Rows, InsertRowFails(t, row)
       PROVE  FALSE
  BY <1>1, <1>17 DEF InsertRowFails
<1>18. CASE UNCHANGED vars
  BY <1>2, <1>18 DEF vars, files
<1>19. CASE AppendTableRefused
  <2>1. /\ In("table_record") /\ catalogFile' \in {catalogFile, Refused(catalogFile)}
        /\ heaps' = Without(heaps, stmt.id) /\ UNCHANGED indexFile
    BY <1>19 DEF AppendTableRefused
  <2>2. Running /\ NewTable = {stmt.id}
    BY <2>1, Phases DEF CreatingTable, PhaseFacts
  <2>3. stmt.id \notin RecIds
    BY <2>2, SettledRecorded DEF Settled
  <2>4. \A id \in RecIds : heaps'[id].recs = heaps[id].recs
    BY <1>1, <2>1, <2>3 DEF TableRecords, Without, Restrict
  <2>5. catalogFile'.recs = catalogFile.recs
    BY <1>1, <2>1, FileRefused DEF Types
  <2>. QED BY <1>1, <2>1, <2>4, <2>5, QuietRelations
<1>20. CASE AppendIndexRefused
  <2>1. indexFile' \in {indexFile, Refused(indexFile)} /\ UNCHANGED <<catalogFile, heaps>>
    BY <1>20 DEF AppendIndexRefused
  <2>2. indexFile'.recs = indexFile.recs
    BY <1>1, <2>1, FileRefused DEF Types
  <2>. QED BY <1>1, <2>1, <2>2, QuietRelations
<1>21. ASSUME NEW t \in Ids, NEW row \in Rows, InsertRowRefused(t, row)
       PROVE  UNCHANGED <<Rel, Uniq>>
  <2>1. /\ heaps' = [heaps EXCEPT ![t] = Refused(heaps[t])] /\ UNCHANGED <<catalogFile, indexFile>>
    BY <1>21 DEF InsertRowRefused
  <2>2. heaps = [s \in DOMAIN heaps |-> heaps[s]] /\ \A s \in DOMAIN heaps : Whole(heaps[s], Rows)
    BY <1>1 DEF Types, HeapsOK
  <2>3. \A s \in DOMAIN heaps : Refused(heaps[s]).recs = heaps[s].recs
    BY <2>2, FileRefused
  <2>4. \A s \in DOMAIN heaps : heaps'[s].recs = heaps[s].recs
    BY <2>1, <2>2, <2>3
  <2>. QED BY <1>1, <2>1, <2>4, QuietRelations DEF TableRecords
<1>22. CASE AppendVersionRefused
  BY <1>2, <1>22 DEF AppendVersionRefused
<1>23. CASE IndexRowFails
  BY <1>2, <1>23 DEF IndexRowFails
<1>. QED BY <1>3, <1>4, <1>5, <1>6, <1>7, <1>8, <1>9, <1>10, <1>11, <1>12, <1>13, <1>14, <1>15,
            <1>16, <1>17, <1>18, <1>19, <1>20, <1>21, <1>22, <1>23
         DEF Next, StatementStep

\* The files of a database on which no device error and no crash falls are a set
\* of relations that change only as the statements say, opened and closed however
\* often (Database::Execute over PersistentStorage).
THEOREM FilesAreRelations ==
    ASSUME MaxFaults = 0
    PROVE  Spec => ImplementsRelations
<1>1. Init => R!Init
  <2>. SUFFICES ASSUME Init PROVE R!Init
    OBVIOUS
  <2>1. catalogFile.recs = << >> /\ indexFile.recs = << >>
    BY DEF Init, EmptyFile
  <2>2. Records = {} /\ Versions = {}
    BY <2>1 DEF Records, Versions
  <2>. QED BY <2>2 DEF R!Init
<1>. QED BY <1>1, RelationStep, CleanInvariant, PTL DEF Spec, ImplementsRelations, R!Spec
=============================================================================
