------------------------------- MODULE Catalog -------------------------------
(***************************************************************************)
(* InMemoryCatalog (src/catalog/catalog.cpp): the tables and indexes of an *)
(* open database, each found by id and by name, and the ids given next.    *)
(*                                                                         *)
(* Names are normalized.  Schemas are abstracted: every table has the      *)
(* columns Columns, all of type INT.  Calls that are refused change        *)
(* nothing and are left out; the refusals of CreateTable and CreateIndex   *)
(* with code internal, when the next id is taken, are excluded by          *)
(* NextIdsFresh.                                                           *)
(***************************************************************************)
EXTENDS Integers, Functions

CONSTANTS
    TableNames, IndexNames, Columns,
    Roots,      \* root page ids
    MaxId       \* kInvalidValue of TableId and IndexId

ASSUME CatalogConstants ==
    /\ MaxId \in Nat /\ MaxId > 0
    /\ Roots \subseteq Nat \ {0}

VARIABLES
    tables,     \* tables_by_id_: the name of each table
    tableIds,   \* table_ids_by_name_
    nextTable,  \* next_table_id_
    indexes,    \* indexes_by_id_
    indexIds,   \* index_ids_by_name_
    nextIndex   \* next_index_id_

catalogVars == <<tables, tableIds, nextTable, indexes, indexIds, nextIndex>>

Ids == 1 .. (MaxId - 1)
NoRoot == 0     \* the invalid PageId of an index whose tree is not built yet
IndexEntry == [name : IndexNames, table : Ids, column : Columns, root : Roots \cup {NoRoot}]

\* Maps with a finite domain.
Empty == [x \in {} |-> 0]
Put(f, k, v) == [x \in DOMAIN f \cup {k} |-> IF x = k THEN v ELSE f[x]]
Without(f, k) == Restrict(f, DOMAIN f \ {k})

CatalogTypeOK ==
    /\ tables \in [DOMAIN tables -> TableNames] /\ DOMAIN tables \subseteq Ids
    /\ tableIds \in [DOMAIN tableIds -> Ids] /\ DOMAIN tableIds \subseteq TableNames
    /\ indexes \in [DOMAIN indexes -> IndexEntry] /\ DOMAIN indexes \subseteq Ids
    /\ indexIds \in [DOMAIN indexIds -> Ids] /\ DOMAIN indexIds \subseteq IndexNames
    /\ nextTable \in 1 .. MaxId /\ nextIndex \in 1 .. MaxId

CatalogInit ==
    /\ tables = Empty /\ tableIds = Empty /\ nextTable = 1
    /\ indexes = Empty /\ indexIds = Empty /\ nextIndex = 1

-----------------------------------------------------------------------------
(* The operations.  A definition whose name says what is wrong with it is a
   faulty variant of the definition after it, recording which mistake a property
   guards against. *)

TableIdsLeft == nextTable # MaxId

CreateTable(name) ==
    /\ name \notin DOMAIN tableIds /\ TableIdsLeft
    /\ tables' = Put(tables, nextTable, name)
    /\ tableIds' = Put(tableIds, name, nextTable)
    /\ nextTable' = nextTable + 1
    /\ UNCHANGED <<indexes, indexIds, nextIndex>>

\* The id after the largest one loaded is given next; kInvalidValue when there
\* is none.
NextAfter(next, id) == IF id >= next THEN id + 1 ELSE next

CanLoadTable(id, name) == name \notin DOMAIN tableIds /\ id \notin DOMAIN tables

LoadTable(id, name) ==
    /\ CanLoadTable(id, name)
    /\ tables' = Put(tables, id, name)
    /\ tableIds' = Put(tableIds, name, id)
    /\ nextTable' = NextAfter(nextTable, id)
    /\ UNCHANGED <<indexes, indexIds, nextIndex>>

RemoveTableKeepsName(id) ==
    /\ id \in DOMAIN tables
    /\ tables' = Without(tables, id)
    /\ UNCHANGED <<tableIds, nextTable, indexes, indexIds, nextIndex>>

RemoveTable(id) ==
    /\ id \in DOMAIN tables
    /\ tableIds' = Without(tableIds, tables[id])
    /\ tables' = Without(tables, id)
    /\ UNCHANGED <<nextTable, indexes, indexIds, nextIndex>>

IsIndexed(t, c) == \E id \in DOMAIN indexes : indexes[id].table = t /\ indexes[id].column = c

CanIndex(name, t, c) ==
    t \in DOMAIN tables /\ name \notin DOMAIN indexIds /\ ~IsIndexed(t, c)

CreateIndex(name, t, c) ==
    /\ CanIndex(name, t, c) /\ nextIndex # MaxId
    /\ indexes' = Put(indexes, nextIndex,
                      [name |-> name, table |-> t, column |-> c, root |-> NoRoot])
    /\ indexIds' = Put(indexIds, name, nextIndex)
    /\ nextIndex' = nextIndex + 1
    /\ UNCHANGED <<tables, tableIds, nextTable>>

CanLoadIndex(id, entry) ==
    /\ CanIndex(entry.name, entry.table, entry.column)
    /\ id \notin DOMAIN indexes /\ entry.root # NoRoot

LoadIndex(id, entry) ==
    /\ CanLoadIndex(id, entry)
    /\ indexes' = Put(indexes, id, entry)
    /\ indexIds' = Put(indexIds, entry.name, id)
    /\ nextIndex' = NextAfter(nextIndex, id)
    /\ UNCHANGED <<tables, tableIds, nextTable>>

RemoveIndex(id) ==
    /\ id \in DOMAIN indexes
    /\ indexIds' = Without(indexIds, indexes[id].name)
    /\ indexes' = Without(indexes, id)
    /\ UNCHANGED <<tables, tableIds, nextTable, nextIndex>>

UpdateIndexRoot(id, root) ==
    /\ id \in DOMAIN indexes
    /\ indexes' = [indexes EXCEPT ![id].root = root]
    /\ UNCHANGED <<tables, tableIds, nextTable, indexIds, nextIndex>>

CatalogNext ==
    \/ \E name \in TableNames : CreateTable(name) \/ \E id \in Ids : LoadTable(id, name)
    \/ \E name \in IndexNames, t \in Ids, c \in Columns : CreateIndex(name, t, c)
    \/ \E id \in Ids : RemoveTable(id) \/ RemoveIndex(id)
    \/ \E id \in Ids, entry \in IndexEntry : LoadIndex(id, entry)
    \/ \E id \in Ids, root \in Roots : UpdateIndexRoot(id, root)

CatalogSpec == CatalogInit /\ [][CatalogNext]_catalogVars

-----------------------------------------------------------------------------
(* Properties. *)

\* The maps by name and by id describe the same tables and the same indexes,
\* whatever creations, loads and removals came before.
MapsMirror ==
    /\ \A id \in DOMAIN tables :
          tables[id] \in DOMAIN tableIds /\ tableIds[tables[id]] = id
    /\ \A name \in DOMAIN tableIds :
          tableIds[name] \in DOMAIN tables /\ tables[tableIds[name]] = name
    /\ \A id \in DOMAIN indexes :
          indexes[id].name \in DOMAIN indexIds /\ indexIds[indexes[id].name] = id
    /\ \A name \in DOMAIN indexIds :
          indexIds[name] \in DOMAIN indexes /\ indexes[indexIds[name]].name = name

\* The id given next is free, so that creating a table or an index never fails
\* with an internal error, and the largest id is followed by none.
NextIdsFresh ==
    /\ \A id \in DOMAIN tables : id < nextTable
    /\ \A id \in DOMAIN indexes : id < nextIndex

\* No two indexes are on the same column of the same table, so that the one
\* FindIndexForTableColumn returns does not depend on the order of the map.
OneIndexPerColumn ==
    \A i, j \in DOMAIN indexes :
        indexes[i].table = indexes[j].table /\ indexes[i].column = indexes[j].column => i = j

\* The catalog stays consistent through the statements that fail half way and
\* are undone, and through the ids that run out: a name left behind would block
\* its table for ever, and an id given early would meet the file of another.
CatalogConsistent == MapsMirror /\ NextIdsFresh /\ OneIndexPerColumn

\* An id is given at most once: a table or index removed after a failed statement
\* does not give its id back to the next one, whose file might still exist.
IdsNotGivenTwice == [][nextTable' >= nextTable /\ nextIndex' >= nextIndex]_catalogVars
=============================================================================
