-------------------------------- MODULE Session --------------------------------
(***************************************************************************)
(* Database::Execute from the syntax tree on: the binder, the planner and  *)
(* the executor (src/src/binder, planner, execution), over a database in   *)
(* memory and over one on files, which are given the same statements.  The *)
(* one in memory keeps tuples in the catalog; the one on files keeps       *)
(* encoded records, enforces unique indexes and is closed and reopened.    *)
(* Files do not fail here (see Database); statements have the form the     *)
(* parser gives them, and a text is a sequence of bytes.                   *)
(***************************************************************************)
EXTENDS RecordCodec, FiniteSets

CONSTANTS
    LowerByte,     \* function: the lower case of a character
    Identifiers,   \* names as they are written
    Values,        \* literals
    Projections,   \* column lists of a SELECT
    MaxColumns,    \* columns of a CREATE TABLE
    MaxRows,       \* rows of a table
    PageCapacity,  \* bytes of the longest record that fits an empty page
    MaxTableId,    \* table ids there are; at most InvalidId - 1
    MaxIndexId     \* index ids there are; at most InvalidId - 1

ASSUME IdAssumption ==
    MaxTableId \in 1 .. InvalidId - 1 /\ MaxIndexId \in 1 .. InvalidId - 1

\* Names and numbers of columns fit the lengths that are stored with them, and a
\* literal is an INT of a word or a text.
ASSUME SessionConstants ==
    /\ LowerByte \in [Bytes -> Bytes]
    /\ \A name \in Identifiers :
          name \in Seq(Bytes) /\ name # <<>> /\ Len(name) < Power[CountBytes]
    /\ \A v \in Values :
          \/ v \in [type : {"INT"}, value : -(WordLimit \div 2) .. WordLimit \div 2 - 1]
          \/ v.type = "TEXT" /\ v = [type |-> "TEXT", value |-> v.value] /\ v.value \in Seq(Bytes)
    /\ Projections \subseteq Seq(Identifiers)
    /\ MaxColumns \in Nat /\ MaxColumns < Power[CountBytes]
    /\ PageCapacity \in Nat

VARIABLES
    memory,    \* the Database that Database() makes
    durable,   \* the Database that Database::Open makes
    agreed     \* history: every statement had the same outcome in both

vars == <<memory, durable, agreed>>

\* A database: tables and indexes by name, the next ids, the rows of every table
\* id, the records of the two catalog files, and which files have a blank page: the
\* heaps of these table ids, the catalog, the index catalog.
EmptyDatabase == [tables |-> <<>>, nextTable |-> 1, indexes |-> <<>>, nextIndex |-> 1, rows |-> <<>>,
                  catalogFile |-> <<>>, indexFile |-> <<>>,
                  blankHeaps |-> {}, blankCatalog |-> FALSE, blankIndexCatalog |-> FALSE]

Init == memory = EmptyDatabase /\ durable = EmptyDatabase /\ agreed = TRUE

With(f, key, value) == [k \in {key} \cup DOMAIN f |-> IF k = key THEN value ELSE f[k]]

NormalizeIdentifier(text) == [i \in DOMAIN text |-> LowerByte[text[i]]]

-------------------------------------------------------------------------------
\* The binder resolves names and checks types.

HasTable(db, text) == NormalizeIdentifier(text) \in DOMAIN db.tables
Table(db, text) == db.tables[NormalizeIdentifier(text)]

Columns(table, text) == {i \in DOMAIN table.schema : table.schema[i].name = NormalizeIdentifier(text)}
HasColumn(table, text) == Columns(table, text) # {}
Column(table, text) == CHOOSE i \in Columns(table, text) : \A j \in Columns(table, text) : i <= j
Type(table, text) == table.schema[Column(table, text)].type

NormalSchema(columns) ==
    [i \in DOMAIN columns |-> [name |-> NormalizeIdentifier(columns[i].name), type |-> columns[i].type]]

DuplicateColumn(columns) ==
    \E i, j \in DOMAIN columns : i # j /\ NormalSchema(columns)[i].name = NormalSchema(columns)[j].name

PredicateBinds(table, predicate) ==
    predicate # <<>> =>
        HasColumn(table, predicate[1].column) /\ predicate[1].literal.type = Type(table, predicate[1].column)

\* BindStatement: whether the statement has a meaning in the catalog.
Binds(db, s) ==
    CASE s.statement = "create_table" -> ~DuplicateColumn(s.columns)
      [] s.statement = "create_index" ->
           /\ HasTable(db, s.table)
           /\ HasColumn(Table(db, s.table), s.column)
           /\ Type(Table(db, s.table), s.column) = "INT"
      [] s.statement = "insert" ->
           /\ HasTable(db, s.table)
           /\ Len(s.values) = Len(Table(db, s.table).schema)
           /\ \A i \in DOMAIN s.values : s.values[i].type = Table(db, s.table).schema[i].type
      [] s.statement = "select" ->
           /\ HasTable(db, s.table)
           /\ \A i \in DOMAIN s.projections : HasColumn(Table(db, s.table), s.projections[i])
           /\ PredicateBinds(Table(db, s.table), s.predicate)

-------------------------------------------------------------------------------
\* SELECT

\* A scan ends with an error at a page without the layout of a page.
Scannable(db, table) == table.id \notin db.blankHeaps

\* Every row in scan order, decoded from its record in a database on files.
Scan(db, persistent, table) ==
    LET rows == db.rows[table.id]
    IN [i \in DOMAIN rows |-> IF persistent THEN DecodeRecord(table.schema, rows[i]).tuple ELSE rows[i]]

Project(table, rows, projections) ==
    [r \in DOMAIN rows |-> [i \in DOMAIN projections |-> rows[r][Column(table, projections[i])]]]

\* The rows at these places, in their order.
RowsAt(rows, places) ==
    LET kept[n \in 0 .. Len(rows)] ==
            IF n = 0 THEN <<>>
            ELSE IF n \in places THEN Append(kept[n - 1], rows[n]) ELSE kept[n - 1]
    IN kept[Len(rows)]

Selected(table, rows, predicate) ==
    {i \in DOMAIN rows :
       predicate = <<>> \/ rows[i][Column(table, predicate[1].column)] = predicate[1].literal}

SequentialScan(db, persistent, s) ==
    LET table == Table(db, s.table)
        Chosen(rows) == RowsAt(rows, Selected(table, rows, s.predicate))
    IN Project(table, Chosen(Scan(db, persistent, table)), s.projections)

\* The planner: an equality with an integer is looked up, anything else scanned.
PlansIndexScan(s) == s.predicate # <<>> /\ s.predicate[1].literal.type = "INT"

\* Variant: any index of the table will do.
IndexesOfTable(db, table, column) == {n \in DOMAIN db.indexes : db.indexes[n].table = table.id}

IndexesFor(db, table, column) ==
    {n \in DOMAIN db.indexes : db.indexes[n].table = table.id /\ db.indexes[n].column = column}

WithKey(rows, column, key) == {i \in DOMAIN rows : rows[i][column] = key}
AnyOne(rows, places) == IF places = {} THEN <<>> ELSE <<rows[CHOOSE i \in places : TRUE]>>

\* The entry a key has in an index: the row inserted with it, if any.
Lookup(db, table, column, key) ==
    LET Entry(rows) == AnyOne(rows, WithKey(rows, column, key)) IN Entry(Scan(db, TRUE, table))

IndexScan(db, persistent, s) ==
    LET table == Table(db, s.table)
        predicate == s.predicate[1]
        available == IndexesFor(db, table, Column(table, predicate.column))
        indexed == db.indexes[CHOOSE n \in available : TRUE].column
    IN IF ~persistent \/ available = {} THEN SequentialScan(db, persistent, s)
       ELSE Project(table, Lookup(db, table, indexed, predicate.literal), s.projections)

\* What a SELECT that binds answers.
Select(db, persistent, s) ==
    IF PlansIndexScan(s) THEN IndexScan(db, persistent, s) ELSE SequentialScan(db, persistent, s)

-------------------------------------------------------------------------------
\* Statements that change a database: the outcome is a database and a code.

Outcome(db, code) == [db |-> db, code |-> code]

FitsPage(record) == Len(record) <= PageCapacity

\* The answers to appending a record to a file of records, and whether the file has
\* a blank page then.  A record that fits no page is refused after a page was added
\* for it, or at the first page there is if it is too long for the page's offsets;
\* a blank page ends the search for room.
Appends(record, records, blank) ==
    {a \in [code : {"ok", "resource_exhausted", "corruption"}, blank : BOOLEAN] :
        /\ a.code = "ok" => FitsPage(record) /\ a.blank = blank
        /\ a.code = "resource_exhausted" =>
              ~FitsPage(record) /\ (a.blank \/ (~blank /\ records # <<>>))
        /\ a.code = "corruption" => blank /\ a.blank
        /\ blank /\ records = <<>> => a.code = "corruption"}

\* InMemoryCatalog::CreateTable takes the id; PersistentStorage::CreateTable appends
\* the record, and the table is taken back when it is refused.
CreateTable(db, persistent, s) ==
    LET name == NormalizeIdentifier(s.table)
        table == [id |-> db.nextTable, schema |-> NormalSchema(s.columns)]
        record == EncodeCatalogRecord([id |-> table.id, name |-> name, schema |-> table.schema])
        numbered == [db EXCEPT !.nextTable = @ + 1]
        created == [numbered EXCEPT !.tables = With(@, name, table), !.rows = With(@, table.id, <<>>)]
    IN IF name \in DOMAIN db.tables THEN {Outcome(db, "already_exists")}
       ELSE IF db.nextTable > MaxTableId THEN {Outcome(db, "resource_exhausted")}
       ELSE IF ~persistent THEN {Outcome(created, "ok")}
       ELSE {IF a.code = "ok" THEN Outcome([created EXCEPT !.catalogFile = Append(@, record)], "ok")
             ELSE Outcome([numbered EXCEPT !.blankCatalog = a.blank], a.code) :
               a \in Appends(record, db.catalogFile, db.blankCatalog)}

HasDuplicates(rows, column) == \E i, j \in DOMAIN rows : i # j /\ rows[i][column] = rows[j][column]

\* InMemoryCatalog::CreateIndex takes the id; PersistentStorage::CreateIndex scans
\* the table, builds the tree and appends the record, and the index is taken back
\* when one of these is refused.  The root of a new tree is page 0.
CreateIndex(db, persistent, s) ==
    LET name == NormalizeIdentifier(s.index)
        table == Table(db, s.table)
        column == Column(table, s.column)
        index == [id |-> db.nextIndex, table |-> table.id, column |-> column]
        record == EncodeIndexRecord([id |-> index.id, name |-> name, table |-> index.table,
                                     column |-> column - 1, root |-> 0])
        numbered == [db EXCEPT !.nextIndex = @ + 1]
        created == [numbered EXCEPT !.indexes = With(@, name, index)]
    IN IF name \in DOMAIN db.indexes \/ IndexesFor(db, table, column) # {}
       THEN {Outcome(db, "already_exists")}
       ELSE IF db.nextIndex > MaxIndexId THEN {Outcome(db, "resource_exhausted")}
       ELSE IF ~persistent THEN {Outcome(created, "ok")}
       ELSE IF ~Scannable(db, table) THEN {Outcome(numbered, "corruption")}
       ELSE IF HasDuplicates(Scan(db, TRUE, table), column) THEN {Outcome(numbered, "already_exists")}
       ELSE {IF a.code = "ok" THEN Outcome([created EXCEPT !.indexFile = Append(@, record)], "ok")
             ELSE Outcome([numbered EXCEPT !.blankIndexCatalog = a.blank], a.code) :
               a \in Appends(record, db.indexFile, db.blankIndexCatalog)}

\* A row of a database on files is refused when it repeats an indexed key, does not
\* encode or fits no page; the heap puts it at any place of the scan order.
InsertRow(db, persistent, s) ==
    LET table == Table(db, s.table)
        rows == db.rows[table.id]
        repeated == \E n \in DOMAIN db.indexes :
                        /\ db.indexes[n].table = table.id
                        /\ Lookup(db, table, db.indexes[n].column, s.values[db.indexes[n].column]) # <<>>
        record == EncodeRecord(table.schema, s.values)
        placed(i) == [db EXCEPT !.rows[table.id] = InsertAt(@, i, record)]
        refused(blank) == [db EXCEPT !.blankHeaps = IF blank THEN @ \cup {table.id} ELSE @]
    IN IF ~persistent THEN {Outcome([db EXCEPT !.rows[table.id] = Append(@, s.values)], "ok")}
       ELSE IF repeated THEN {Outcome(db, "already_exists")}
       ELSE IF ~Encodable(table.schema, s.values) THEN {Outcome(db, "resource_exhausted")}
       ELSE UNION {IF a.code = "ok" THEN {Outcome(placed(i), "ok") : i \in 1 .. Len(rows) + 1}
                   ELSE {Outcome(refused(a.blank), a.code)} :
                     a \in Appends(record, rows, table.id \in db.blankHeaps)}

Outcomes(db, persistent, s) ==
    IF ~Binds(db, s) THEN {Outcome(db, "refused")}
    ELSE CASE s.statement = "create_table" -> CreateTable(db, persistent, s)
           [] s.statement = "create_index" -> CreateIndex(db, persistent, s)
           [] s.statement = "insert" -> InsertRow(db, persistent, s)

-------------------------------------------------------------------------------
Execute(s) ==
    \E m \in Outcomes(memory, FALSE, s), d \in Outcomes(durable, TRUE, s) :
        /\ memory' = m.db /\ durable' = d.db
        /\ agreed' = (agreed /\ m.code = d.code)

ExecuteCreateTable(name, columns) ==
    Execute([statement |-> "create_table", table |-> name, columns |-> columns])

ExecuteCreateIndex(index, table, column) ==
    Execute([statement |-> "create_index", index |-> index, table |-> table, column |-> column])

ExecuteInsert(table, values) ==
    /\ HasTable(memory, table) => Len(memory.rows[Table(memory, table).id]) < MaxRows
    /\ Execute([statement |-> "insert", table |-> table, values |-> values])

\* Closing a database and opening it again: the catalog is what its files say.
LoadedTables(tables) ==
    [n \in {tables[i].name : i \in DOMAIN tables} |->
       LET table == tables[CHOOSE i \in DOMAIN tables : tables[i].name = n]
       IN [id |-> table.id, schema |-> table.schema]]

LoadedIndexes(indexes) ==
    [n \in {indexes[i].name : i \in DOMAIN indexes} |->
       LET index == indexes[CHOOSE i \in DOMAIN indexes : indexes[i].name = n]
       IN [id |-> index.id, table |-> index.table, column |-> index.column + 1]]

\* The next id is past the largest one that was loaded.
NextId(entries) ==
    LET ids == {0} \cup {entries[i].id : i \in DOMAIN entries}
    IN 1 + CHOOSE id \in ids : \A other \in ids : other <= id

Reopened(db) ==
    LET tables == [i \in DOMAIN db.catalogFile |-> DecodeCatalogRecord(db.catalogFile[i]).table]
        indexes == [i \in DOMAIN db.indexFile |-> DecodeIndexRecord(db.indexFile[i]).index]
    IN [db EXCEPT !.tables = LoadedTables(tables), !.nextTable = NextId(tables),
                  !.indexes = LoadedIndexes(indexes), !.nextIndex = NextId(indexes)]

\* A database with a blank page in a catalog file does not open again.
Reopen ==
    /\ ~durable.blankCatalog /\ ~durable.blankIndexCatalog
    /\ durable' = Reopened(durable)
    /\ UNCHANGED <<memory, agreed>>

ColumnDefinitions == [name : Identifiers, type : {"INT", "TEXT"}]
SeqsUpTo(S, n) == UNION {[1 .. k -> S] : k \in 1 .. n}

Next ==
    \/ \E name \in Identifiers, columns \in SeqsUpTo(ColumnDefinitions, MaxColumns) :
         ExecuteCreateTable(name, columns)
    \/ \E index, table, column \in Identifiers : ExecuteCreateIndex(index, table, column)
    \/ \E table \in Identifiers, values \in SeqsUpTo(Values, MaxColumns) : ExecuteInsert(table, values)
    \/ Reopen

Spec == Init /\ [][Next]_vars

-------------------------------------------------------------------------------
(* Properties *)

Queries ==
    [statement : {"select"}, table : Identifiers, projections : Projections,
     predicate : {<<>>} \cup {<<p>> : p \in [column : Identifiers, literal : Values]}]

\* The two answers have the same rows equally often; their order is not promised.
SameRows(a, b) ==
    /\ Len(a) = Len(b)
    /\ \A i \in DOMAIN a :
         Cardinality({j \in DOMAIN a : a[j] = a[i]}) = Cardinality({j \in DOMAIN b : b[j] = a[i]})

\* An index lookup and a scan of the whole table answer every SELECT with the
\* same rows, so that the planner's choice is never seen, for either database and
\* whichever indexes exist, in every table that can be scanned (PlanStatement,
\* ExecuteIndexScan).
PlansAnswerAlike ==
    \A s \in Queries :
        /\ Binds(memory, s) => SameRows(Select(memory, FALSE, s), SequentialScan(memory, FALSE, s))
        /\ Binds(durable, s) /\ Scannable(durable, Table(durable, s.table)) =>
             SameRows(Select(durable, TRUE, s), SequentialScan(durable, TRUE, s))

\* What a database on files accepts: keys that are unique in every indexed column,
\* texts within the inline limit, and rows, tables and indexes whose records fit a
\* page.
UniqueKeys(db) ==
    \A n \in DOMAIN db.indexes : ~HasDuplicates(db.rows[db.indexes[n].table], db.indexes[n].column)

StorableRow(schema, row) == Encodable(schema, row) /\ FitsPage(EncodeRecord(schema, row))

StorableTable(name, table, rows) ==
    /\ FitsPage(EncodeCatalogRecord([id |-> table.id, name |-> name, schema |-> table.schema]))
    /\ \A i \in DOMAIN rows : StorableRow(table.schema, rows[i])

StorableIndex(name, index) ==
    FitsPage(EncodeIndexRecord([id |-> index.id, name |-> name, table |-> index.table,
                                column |-> index.column - 1, root |-> 0]))

Storable(db) ==
    /\ UniqueKeys(db)
    /\ \A n \in DOMAIN db.tables : StorableTable(n, db.tables[n], db.rows[db.tables[n].id])
    /\ \A n \in DOMAIN db.indexes : StorableIndex(n, db.indexes[n])

\* A database in memory and one on files, opened and closed at will, answer the
\* same statements alike, and part exactly when the one in memory takes what the
\* other must refuse: a repeated key under an index, a text over the limit, or a
\* row, a table or an index whose record is too large for a page.  While they agree
\* the one on files can be scanned and opened again.  It follows that encoding and
\* reopening lose nothing (Database::Execute).
DatabasesAgree ==
    /\ agreed <=> Storable(memory)
    /\ agreed =>
         /\ durable.tables = memory.tables /\ durable.indexes = memory.indexes
         /\ durable.blankHeaps = {} /\ ~durable.blankCatalog /\ ~durable.blankIndexCatalog
         /\ \A s \in Queries :
              /\ Binds(durable, s) <=> Binds(memory, s)
              /\ Binds(durable, s) => SameRows(Select(durable, TRUE, s), Select(memory, FALSE, s))

Shorter(bytes) == {SubSeq(bytes, 1, n) : n \in 0 .. Len(bytes) - 1}
Longer(bytes) == {Append(bytes, byte) : byte \in Bytes}

\* Every record of the files is read back, and neither a record that is cut off
\* nor one with a byte too many passes for a record (the three decoders).
RecordsDelimited ==
    /\ \A n \in DOMAIN durable.tables :
         LET table == durable.tables[n]
         IN \A i \in DOMAIN durable.rows[table.id] :
              LET record == durable.rows[table.id][i]
              IN /\ DecodeRecord(table.schema, record).ok
                 /\ \A bytes \in Shorter(record) \cup Longer(record) : ~DecodeRecord(table.schema, bytes).ok
    /\ \A i \in DOMAIN durable.catalogFile :
         LET record == durable.catalogFile[i]
         IN /\ DecodeCatalogRecord(record).ok
            /\ \A bytes \in Shorter(record) \cup Longer(record) : ~DecodeCatalogRecord(bytes).ok
    /\ \A i \in DOMAIN durable.indexFile :
         LET record == durable.indexFile[i]
         IN /\ DecodeIndexRecord(record).ok
            /\ \A bytes \in Shorter(record) \cup Longer(record) : ~DecodeIndexRecord(bytes).ok
===============================================================================
