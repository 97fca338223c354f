--------------------------- MODULE DatabaseProofs ---------------------------
(***************************************************************************)
(* The database on its files, for any names, columns, rows and widths of   *)
(* ids, and any number of failed writes and crashes: its catalog stays     *)
(* consistent, the storage agrees with the catalog, and what a statement   *)
(* acknowledged is there in every database that opens.                     *)
(***************************************************************************)
EXTENDS Database, WellFoundedInduction, TLAPS

(***************************************************************************)
(* The in-memory catalog, for any names, columns and width of the ids.     *)
(* Its properties are inductive together: freshness of the next id keeps   *)
(* the maps' mirror when an entry is added, and the mirror lets a removal  *)
(* take away exactly one name.                                             *)
(***************************************************************************)
CatInv == CatalogTypeOK /\ MapsMirror /\ NextIdsFresh /\ OneIndexPerColumn

\* Adding an entry keeps the type of a map.
LEMMA PutType ==
    ASSUME NEW D, NEW V, NEW f, f \in [DOMAIN f -> V], DOMAIN f \subseteq D,
           NEW k \in D, NEW v \in V
    PROVE  Put(f, k, v) \in [DOMAIN Put(f, k, v) -> V] /\ DOMAIN Put(f, k, v) \subseteq D
BY DEF Put

\* Removing an entry keeps the type of a map.
LEMMA WithoutType ==
    ASSUME NEW D, NEW V, NEW f, f \in [DOMAIN f -> V], DOMAIN f \subseteq D, NEW k
    PROVE  Without(f, k) \in [DOMAIN Without(f, k) -> V] /\ DOMAIN Without(f, k) \subseteq D
BY DEF Without, Restrict

\* The next id after loading one is past it and past every smaller one.
LEMMA NextAfterProperties ==
    ASSUME NEW next \in 1 .. MaxId, NEW id \in Ids
    PROVE  /\ NextAfter(next, id) \in 1 .. MaxId
           /\ id < NextAfter(next, id) /\ next <= NextAfter(next, id)
BY CatalogConstants DEF NextAfter, Ids

\* Registering a table under a free name and a free id, past which the next id lies.
LEMMA TableAdded ==
    ASSUME CatInv, NEW id \in Ids, NEW name \in TableNames, CanLoadTable(id, name),
           tables' = Put(tables, id, name), tableIds' = Put(tableIds, name, id),
           nextTable' \in 1 .. MaxId, id < nextTable', nextTable <= nextTable',
           UNCHANGED <<indexes, indexIds, nextIndex>>
    PROVE  CatInv'
<1>1. /\ DOMAIN tables' = DOMAIN tables \cup {id} /\ tables'[id] = name
      /\ \A i \in DOMAIN tables : i # id => tables'[i] = tables[i]
      /\ DOMAIN tableIds' = DOMAIN tableIds \cup {name} /\ tableIds'[name] = id
      /\ \A n \in DOMAIN tableIds : n # name => tableIds'[n] = tableIds[n]
  BY DEF Put
<1>2. CatalogTypeOK'
  BY PutType DEF CatInv, CatalogTypeOK
<1>3. MapsMirror'
  BY <1>1 DEF CatInv, MapsMirror, CanLoadTable
<1>4. NextIdsFresh'
  <2>1. ASSUME NEW i \in DOMAIN tables PROVE i < nextTable'
    <3>1. i \in Int /\ nextTable \in Int /\ nextTable' \in Int /\ i < nextTable
      BY CatalogConstants DEF CatInv, CatalogTypeOK, NextIdsFresh, Ids
    <3>. QED BY <3>1
  <2>. QED BY <1>1, <2>1 DEF CatInv, NextIdsFresh
<1>5. OneIndexPerColumn'
  BY DEF CatInv, OneIndexPerColumn
<1>. QED BY <1>2, <1>3, <1>4, <1>5 DEF CatInv

\* Registering an index under a free name and a free id, on a column without one.
LEMMA IndexAdded ==
    ASSUME CatInv, NEW id \in Ids, NEW entry \in IndexEntry, id \notin DOMAIN indexes,
           CanIndex(entry.name, entry.table, entry.column),
           indexes' = Put(indexes, id, entry), indexIds' = Put(indexIds, entry.name, id),
           nextIndex' \in 1 .. MaxId, id < nextIndex', nextIndex <= nextIndex',
           UNCHANGED <<tables, tableIds, nextTable>>
    PROVE  CatInv'
<1>1. /\ DOMAIN indexes' = DOMAIN indexes \cup {id} /\ indexes'[id] = entry
      /\ \A i \in DOMAIN indexes : i # id => indexes'[i] = indexes[i]
      /\ DOMAIN indexIds' = DOMAIN indexIds \cup {entry.name} /\ indexIds'[entry.name] = id
      /\ \A n \in DOMAIN indexIds : n # entry.name => indexIds'[n] = indexIds[n]
  BY DEF Put
<1>2. CatalogTypeOK'
  <2>1. entry.name \in IndexNames
    BY DEF IndexEntry
  <2>. QED BY <2>1, PutType DEF CatInv, CatalogTypeOK
<1>3. MapsMirror'
  BY <1>1 DEF CatInv, MapsMirror, CanIndex
<1>4. NextIdsFresh'
  <2>1. ASSUME NEW i \in DOMAIN indexes PROVE i < nextIndex'
    <3>1. i \in Int /\ nextIndex \in Int /\ nextIndex' \in Int /\ i < nextIndex
      BY CatalogConstants DEF CatInv, CatalogTypeOK, NextIdsFresh, Ids
    <3>. QED BY <3>1
  <2>. QED BY <1>1, <2>1 DEF CatInv, NextIdsFresh
<1>5. OneIndexPerColumn'
  BY <1>1 DEF CatInv, OneIndexPerColumn, CanIndex, IsIndexed
<1>. QED BY <1>2, <1>3, <1>4, <1>5 DEF CatInv

\* Removing a table takes its name away and no other.
LEMMA TableRemoved ==
    ASSUME CatInv, NEW id, RemoveTable(id)
    PROVE  CatInv'
<1>1. /\ id \in DOMAIN tables /\ DOMAIN tables' = DOMAIN tables \ {id}
      /\ \A i \in DOMAIN tables' : tables'[i] = tables[i]
      /\ DOMAIN tableIds' = DOMAIN tableIds \ {tables[id]}
      /\ \A n \in DOMAIN tableIds' : tableIds'[n] = tableIds[n]
  BY DEF RemoveTable, Without, Restrict
<1>2. CatalogTypeOK'
  BY WithoutType DEF CatInv, CatalogTypeOK, RemoveTable
<1>3. MapsMirror'
  BY <1>1 DEF CatInv, MapsMirror, RemoveTable
<1>4. NextIdsFresh' /\ OneIndexPerColumn'
  BY <1>1 DEF CatInv, NextIdsFresh, OneIndexPerColumn, RemoveTable
<1>. QED BY <1>2, <1>3, <1>4 DEF CatInv

\* Removing an index takes its name away and no other.
LEMMA IndexRemoved ==
    ASSUME CatInv, NEW id, RemoveIndex(id)
    PROVE  CatInv'
<1>1. /\ id \in DOMAIN indexes /\ DOMAIN indexes' = DOMAIN indexes \ {id}
      /\ \A i \in DOMAIN indexes' : indexes'[i] = indexes[i]
      /\ DOMAIN indexIds' = DOMAIN indexIds \ {indexes[id].name}
      /\ \A n \in DOMAIN indexIds' : indexIds'[n] = indexIds[n]
  BY DEF RemoveIndex, Without, Restrict
<1>2. CatalogTypeOK'
  BY WithoutType DEF CatInv, CatalogTypeOK, RemoveIndex
<1>3. MapsMirror'
  BY <1>1 DEF CatInv, MapsMirror, RemoveIndex
<1>4. NextIdsFresh' /\ OneIndexPerColumn'
  BY <1>1 DEF CatInv, NextIdsFresh, OneIndexPerColumn, RemoveIndex
<1>. QED BY <1>2, <1>3, <1>4 DEF CatInv

\* A new root leaves the name, table and column of every index alone.
LEMMA RootUpdated ==
    ASSUME CatInv, NEW id, NEW root \in Roots, UpdateIndexRoot(id, root)
    PROVE  CatInv'
<1>1. /\ DOMAIN indexes' = DOMAIN indexes /\ indexes' \in [DOMAIN indexes -> IndexEntry]
      /\ \A i \in DOMAIN indexes :
            /\ indexes'[i].name = indexes[i].name
            /\ indexes'[i].table = indexes[i].table
            /\ indexes'[i].column = indexes[i].column
  BY DEF CatInv, CatalogTypeOK, UpdateIndexRoot, IndexEntry
<1>. QED BY <1>1 DEF CatInv, CatalogTypeOK, MapsMirror, NextIdsFresh, OneIndexPerColumn, UpdateIndexRoot

\* Every operation of the catalog keeps its invariant.
LEMMA CatInvStep ==
    ASSUME CatInv, [CatalogNext]_catalogVars
    PROVE  CatInv'
<1>1. CASE UNCHANGED catalogVars
  BY <1>1 DEF CatInv, CatalogTypeOK, MapsMirror, NextIdsFresh, OneIndexPerColumn, catalogVars
<1>2. ASSUME NEW name \in TableNames, CreateTable(name) PROVE CatInv'
  <2>1. /\ nextTable \in Ids /\ nextTable' = nextTable + 1
        /\ nextTable' \in 1 .. MaxId /\ nextTable < nextTable' /\ nextTable <= nextTable'
    BY <1>2, CatalogConstants DEF CreateTable, TableIdsLeft, CatInv, CatalogTypeOK, Ids
  <2>2. nextTable \notin DOMAIN tables
    BY <2>1 DEF CatInv, NextIdsFresh, Ids
  <2>3. CanLoadTable(nextTable, name)
    BY <1>2, <2>2 DEF CreateTable, CanLoadTable
  <2>. QED BY <1>2, <2>1, <2>3, TableAdded DEF CreateTable
<1>3. ASSUME NEW name \in TableNames, NEW id \in Ids, LoadTable(id, name) PROVE CatInv'
  <2>1. nextTable' \in 1 .. MaxId /\ id < nextTable' /\ nextTable <= nextTable'
    BY <1>3, NextAfterProperties DEF LoadTable, CatInv, CatalogTypeOK
  <2>. QED BY <1>3, <2>1, TableAdded DEF LoadTable
<1>4. ASSUME NEW name \in IndexNames, NEW t \in Ids, NEW c \in Columns, CreateIndex(name, t, c)
      PROVE  CatInv'
  <2>. DEFINE entry == [name |-> name, table |-> t, column |-> c, root |-> NoRoot]
  <2>1. /\ nextIndex \in Ids /\ nextIndex' = nextIndex + 1
        /\ nextIndex' \in 1 .. MaxId /\ nextIndex < nextIndex' /\ nextIndex <= nextIndex'
    BY <1>4, CatalogConstants DEF CreateIndex, CatInv, CatalogTypeOK, Ids
  <2>2. nextIndex \notin DOMAIN indexes
    BY <2>1 DEF CatInv, NextIdsFresh, Ids
  <2>3. entry \in IndexEntry /\ CanIndex(entry.name, entry.table, entry.column)
    BY <1>4 DEF CreateIndex, IndexEntry
  <2>4. indexes' = Put(indexes, nextIndex, entry) /\ indexIds' = Put(indexIds, entry.name, nextIndex)
    BY <1>4 DEF CreateIndex
  <2>. HIDE DEF entry
  <2>. QED BY <1>4, <2>1, <2>2, <2>3, <2>4, IndexAdded DEF CreateIndex
<1>5. ASSUME NEW id \in Ids, NEW entry \in IndexEntry, LoadIndex(id, entry) PROVE CatInv'
  <2>1. nextIndex' \in 1 .. MaxId /\ id < nextIndex' /\ nextIndex <= nextIndex'
    BY <1>5, NextAfterProperties DEF LoadIndex, CatInv, CatalogTypeOK
  <2>. QED BY <1>5, <2>1, IndexAdded DEF LoadIndex, CanLoadIndex
<1>. QED BY <1>1, <1>2, <1>3, <1>4, <1>5, TableRemoved, IndexRemoved, RootUpdated DEF CatalogNext

\* An empty catalog satisfies the invariant.
LEMMA CatInvInit == CatalogInit => CatInv
BY CatalogConstants DEF CatalogInit, CatInv, CatalogTypeOK, MapsMirror, NextIdsFresh,
   OneIndexPerColumn, Empty, Ids

\* In every state the maps by name and by id mirror each other, the next id is
\* free and no column has two indexes: for any order of calls and any width of ids.
THEOREM CatalogCorrect == CatalogSpec => [](CatalogTypeOK /\ CatalogConsistent)
<1>1. CatInv /\ [CatalogNext]_catalogVars => CatInv'
  BY CatInvStep
<1>. QED BY <1>1, CatInvInit, PTL DEF CatalogSpec, CatInv, CatalogConsistent

\* No operation lowers the id given next.
THEOREM IdsGrow == CatalogSpec => IdsNotGivenTwice
<1>1. ASSUME CatInv, CatalogNext PROVE nextTable' >= nextTable /\ nextIndex' >= nextIndex
  <2>1. nextTable \in 1 .. MaxId /\ nextIndex \in 1 .. MaxId
    BY <1>1 DEF CatInv, CatalogTypeOK
  <2>2. ASSUME NEW id \in Ids, nextTable' = NextAfter(nextTable, id) PROVE nextTable' >= nextTable
    BY <2>1, <2>2, CatalogConstants DEF NextAfter, Ids
  <2>3. ASSUME NEW id \in Ids, nextIndex' = NextAfter(nextIndex, id) PROVE nextIndex' >= nextIndex
    BY <2>1, <2>3, CatalogConstants DEF NextAfter, Ids
  <2>4. \/ nextTable' = nextTable \/ nextTable' = nextTable + 1
        \/ \E id \in Ids : nextTable' = NextAfter(nextTable, id)
    BY <1>1 DEF CatalogNext, CreateTable, LoadTable, RemoveTable, CreateIndex, LoadIndex,
                RemoveIndex, UpdateIndexRoot
  <2>5. \/ nextIndex' = nextIndex \/ nextIndex' = nextIndex + 1
        \/ \E id \in Ids : nextIndex' = NextAfter(nextIndex, id)
    BY <1>1 DEF CatalogNext, CreateTable, LoadTable, RemoveTable, CreateIndex, LoadIndex,
                RemoveIndex, UpdateIndexRoot
  <2>6. nextTable' >= nextTable
    BY <2>1, <2>2, <2>4, CatalogConstants
  <2>7. nextIndex' >= nextIndex
    BY <2>1, <2>3, <2>5, CatalogConstants
  <2>. QED BY <2>6, <2>7
<1>2. CatInv /\ [CatalogNext]_catalogVars => CatInv'
  BY CatInvStep
<1>. QED BY <1>1, <1>2, CatInvInit, PTL DEF CatalogSpec, IdsNotGivenTwice

(***************************************************************************)
(* Least and greatest elements.  The order of the naturals is well         *)
(* founded, so that every nonempty set of naturals has a least element.    *)
(***************************************************************************)
LEMMA LeastNatural ==
    ASSUME NEW S, S \subseteq Nat, S # {}
    PROVE  \E n \in S : \A m \in S : n <= m
<1>. DEFINE Less == {ss \in Nat \X Nat : ss[1] < ss[2]}
<1>1. IsWellFoundedOn(Less, Nat)
  BY NatLessThanWellFounded DEF OpToRel
<1>. HIDE DEF Less
<1>2. PICK n \in S : \A m \in S : ~ (<<m, n>> \in Less)
  BY <1>1, WFMin
<1>3. ASSUME NEW m \in S PROVE n <= m
  <2>1. m < n => <<m, n>> \in Less
    BY DEF Less
  <2>. QED BY <2>1, <1>2
<1>. QED BY <1>2, <1>3

\* The least of a nonempty set of ids is one of them.
LEMMA MinIsMember ==
    ASSUME NEW S, S \subseteq Ids, S # {}
    PROVE  Min(S) \in S
<1>1. S \subseteq Nat
  BY DEF Ids
<1>2. \E n \in S : \A m \in S : n <= m
  BY <1>1, LeastNatural
<1>. QED BY <1>2 DEF Min

\* The greatest of a nonempty set of positions of a sequence is one of them.
LEMMA MaxIsMember ==
    ASSUME NEW n \in Nat, NEW S, S \subseteq 1 .. n, S # {}
    PROVE  Max(S) \in S
<1>. DEFINE Left == {n - m : m \in S}
<1>1. Left \subseteq Nat /\ Left # {}
  OBVIOUS
<1>2. PICK k \in Left : \A l \in Left : k <= l
  BY <1>1, LeastNatural
<1>3. PICK m \in S : k = n - m
  OBVIOUS
<1>4. ASSUME NEW l \in S PROVE m >= l
  <2>1. n - l \in Left
    OBVIOUS
  <2>2. k <= n - l
    BY <1>2, <2>1
  <2>. QED BY <1>3, <2>2
<1>5. \E x \in S : \A y \in S : x >= y
  BY <1>4
<1>. QED BY <1>5 DEF Max

(***************************************************************************)
(* Maps and files.                                                         *)
(***************************************************************************)
\* Files are records of three fields.
LEMMA FileRecord ==
    ASSUME NEW Rec, NEW f, f \in File(Rec), NEW s, NEW w
    PROVE  /\ [f EXCEPT !.recs = s] = [recs |-> s, stored |-> f.stored, flaws |-> f.flaws]
           /\ [f EXCEPT !.flaws = w] = [recs |-> f.recs, stored |-> f.stored, flaws |-> w]
<1>1. [f EXCEPT !.recs = s] = [recs |-> s, stored |-> f.stored, flaws |-> f.flaws]
  BY DEF File
<1>2. [f EXCEPT !.flaws = w] = [recs |-> f.recs, stored |-> f.stored, flaws |-> w]
  BY DEF File
<1>. QED BY <1>1, <1>2

LEMMA EmptyFacts == DOMAIN Empty = {}
BY DEF Empty

Whole(f, Rec) ==
    /\ f \in File(Rec) /\ f.stored <= Len(f.recs)
    /\ "spoiled" \in f.flaws => f.stored = 0

\* The records that no loss of the cache takes from a reader: those stored, and all
\* those of a file that without its cache cannot be read.
Held(f) == IF "spoiled" \in f.flaws THEN Len(f.recs) ELSE f.stored

\* What file f holds is at the same place in file g, if g can be read.
Keeps(f, g) ==
    Readable(g) => /\ Readable(f) /\ Held(f) <= Held(g)
                   /\ \A n \in 1 .. Held(f) : g.recs[n] = f.recs[n]

\* File g is file f with at most record r added to it.
Grows(f, g, r) ==
    /\ g.recs = f.recs \/ g.recs = Append(f.recs, r)
    /\ Held(f) <= Held(g)

\* The fields of a file.
LEMMA FileFields ==
    ASSUME NEW Rec, NEW f, Whole(f, Rec)
    PROVE  /\ f.recs \in Seq(Rec) /\ Len(f.recs) \in Nat /\ DOMAIN f.recs = 1 .. Len(f.recs)
           /\ f.stored \in 0 .. Len(f.recs) /\ f.flaws \in SUBSET Flaws
           /\ Held(f) \in f.stored .. Len(f.recs) /\ Held(f) \in Nat
           /\ "spoiled" \in f.flaws => f.stored = 0
           /\ f.recs = << >> <=> Len(f.recs) = 0
<1>1. /\ f.recs \in Seq(Rec) /\ f.stored \in Nat /\ f.flaws \in SUBSET Flaws
      /\ f.stored <= Len(f.recs)
      /\ "spoiled" \in f.flaws => f.stored = 0
  BY DEF Whole, File
<1>2. /\ Len(f.recs) \in Nat /\ DOMAIN f.recs = 1 .. Len(f.recs)
      /\ f.recs = << >> <=> Len(f.recs) = 0
  BY <1>1
<1>3. f.stored \in 0 .. Len(f.recs)
  BY <1>1, <1>2
<1>4. Held(f) = Len(f.recs) \/ Held(f) = f.stored
  BY DEF Held
<1>5. Held(f) \in f.stored .. Len(f.recs) /\ Held(f) \in Nat
  BY <1>2, <1>3, <1>4
<1>. QED BY <1>1, <1>2, <1>3, <1>5

\* A file whose fields are as they should be.
LEMMA WholeFile ==
    ASSUME NEW Rec, NEW s \in Seq(Rec), NEW m \in 0 .. Len(s), NEW w \in SUBSET Flaws,
           "spoiled" \in w => m = 0
    PROVE  Whole([recs |-> s, stored |-> m, flaws |-> w], Rec)
BY DEF Whole, File

\* The changes of a file, field by field.
LEMMA FileChanges ==
    ASSUME NEW Rec, NEW f, Whole(f, Rec), NEW r, NEW flaw
    PROVE  /\ Cached(f, r) = [recs |-> Append(f.recs, r), stored |-> f.stored, flaws |-> f.flaws]
           /\ Flushed(f) = [recs |-> f.recs, stored |-> Len(f.recs),
                            flaws |-> IF f.recs = << >> THEN f.flaws ELSE f.flaws \ {"spoiled"}]
           /\ Lost(f) = [recs |-> SubSeq(f.recs, 1, f.stored), stored |-> f.stored, flaws |-> f.flaws]
           /\ Spoiled(f) = [recs |-> f.recs, stored |-> 0, flaws |-> f.flaws \cup {"spoiled"}]
           /\ Flawed(f, flaw) = [recs |-> f.recs, stored |-> f.stored, flaws |-> f.flaws \cup {flaw}]
<1>1. f \in File(Rec)
  BY DEF Whole
<1>2. /\ [f EXCEPT !.recs = Append(f.recs, r)]
           = [recs |-> Append(f.recs, r), stored |-> f.stored, flaws |-> f.flaws]
      /\ [f EXCEPT !.recs = SubSeq(f.recs, 1, f.stored)]
           = [recs |-> SubSeq(f.recs, 1, f.stored), stored |-> f.stored, flaws |-> f.flaws]
  BY <1>1, FileRecord
<1>3. [f EXCEPT !.flaws = f.flaws \cup {flaw}]
        = [recs |-> f.recs, stored |-> f.stored, flaws |-> f.flaws \cup {flaw}]
  BY <1>1, FileRecord
<1>. QED BY <1>2, <1>3 DEF Cached, Flushed, Lost, Spoiled, Flawed

\* A file loses no record it holds when its cache is written back, or lost.
LEMMA FileSteps ==
    ASSUME NEW Rec, NEW f, Whole(f, Rec)
    PROVE  /\ Keeps(f, f)
           /\ Whole(Flushed(f), Rec) /\ Keeps(f, Flushed(f))
           /\ Whole(Lost(f), Rec) /\ Keeps(f, Lost(f))
           /\ Len(Lost(f).recs) = f.stored /\ DOMAIN Lost(f).recs = 1 .. f.stored
           /\ \A n \in 1 .. f.stored : Lost(f).recs[n] = f.recs[n]
           /\ Whole(Spoiled(f), Rec)
<1>1. /\ f.recs \in Seq(Rec) /\ Len(f.recs) \in Nat /\ f.stored \in 0 .. Len(f.recs)
      /\ f.flaws \in SUBSET Flaws /\ Held(f) \in f.stored .. Len(f.recs)
      /\ "spoiled" \in f.flaws => f.stored = 0
      /\ f.recs = << >> <=> Len(f.recs) = 0
  BY FileFields
<1>2. Keeps(f, f)
  BY <1>1 DEF Keeps
<1>3. Whole(Flushed(f), Rec) /\ Keeps(f, Flushed(f))
  <2>. DEFINE w == IF f.recs = << >> THEN f.flaws ELSE f.flaws \ {"spoiled"}
              m == Len(f.recs)
  <2>1. Flushed(f) = [recs |-> f.recs, stored |-> m, flaws |-> w]
    BY FileChanges
  <2>3. "spoiled" \in w => f.recs = << >>
    OBVIOUS
  <2>4. "spoiled" \in w => m = 0
    BY <1>1, <2>3
  <2>5. w \in SUBSET Flaws /\ m \in 0 .. Len(f.recs)
    BY <1>1
  <2>6. f.recs = << >> /\ "spoiled" \in f.flaws => "spoiled" \in w
    OBVIOUS
  <2>. HIDE DEF w
  <2>7. Whole(Flushed(f), Rec)
    BY <1>1, <2>1, <2>4, <2>5, WholeFile
  <2>8. Held(Flushed(f)) = Len(f.recs) /\ Flushed(f).recs = f.recs
    BY <2>1 DEF Held
  <2>9. Readable(Flushed(f)) => Readable(f)
    BY <2>1, <2>6 DEF Readable
  <2>. QED BY <1>1, <2>7, <2>8, <2>9 DEF Keeps
<1>4. /\ SubSeq(f.recs, 1, f.stored) \in Seq(Rec)
      /\ Len(SubSeq(f.recs, 1, f.stored)) = f.stored
      /\ \A n \in 1 .. f.stored : SubSeq(f.recs, 1, f.stored)[n] = f.recs[n]
  <2>. DEFINE s == f.recs
              m == f.stored
  <2>1. s \in Seq(Rec) /\ m \in Nat /\ m <= Len(s) /\ Len(s) \in Nat
    BY <1>1
  <2>. HIDE DEF s, m
  <2>2. SubSeq(s, 1, m) \in Seq(Rec) /\ Len(SubSeq(s, 1, m)) = m
    BY <2>1
  <2>3. \A n \in 1 .. m : SubSeq(s, 1, m)[n] = s[n]
    BY <2>1
  <2>. QED BY <2>2, <2>3 DEF s, m
<1>5. Lost(f) = [recs |-> SubSeq(f.recs, 1, f.stored), stored |-> f.stored, flaws |-> f.flaws]
  BY FileChanges
<1>6. /\ Len(Lost(f).recs) = f.stored /\ DOMAIN Lost(f).recs = 1 .. f.stored
      /\ \A n \in 1 .. f.stored : Lost(f).recs[n] = f.recs[n]
  BY <1>1, <1>4, <1>5
<1>7. Whole(Lost(f), Rec)
  <2>. DEFINE s == SubSeq(f.recs, 1, f.stored)
  <2>1. s \in Seq(Rec) /\ f.stored \in 0 .. Len(s)
    BY <1>1, <1>4
  <2>2. Lost(f) = [recs |-> s, stored |-> f.stored, flaws |-> f.flaws]
    BY <1>5
  <2>. HIDE DEF s
  <2>. QED BY <1>1, <2>1, <2>2, WholeFile
<1>8. Keeps(f, Lost(f))
  <2>1. SUFFICES ASSUME Readable(Lost(f))
                 PROVE  /\ Readable(f) /\ Held(f) <= Held(Lost(f))
                        /\ \A n \in 1 .. Held(f) : Lost(f).recs[n] = f.recs[n]
    BY DEF Keeps
  <2>2. "spoiled" \notin f.flaws
    <3>1. SUFFICES ASSUME "spoiled" \in f.flaws PROVE FALSE
      OBVIOUS
    <3>2. Len(Lost(f).recs) = 0 /\ "spoiled" \in Lost(f).flaws
      BY <1>1, <1>5, <1>6, <3>1
    <3>3. Lost(f).recs = << >>
      BY <1>4, <1>5, <3>2
    <3>. QED BY <2>1, <3>2, <3>3 DEF Readable
  <2>3. Held(f) = f.stored /\ Held(Lost(f)) = f.stored /\ Readable(f)
    BY <1>5, <2>2 DEF Held, Readable
  <2>. QED BY <1>1, <1>6, <2>3
<1>9. Whole(Spoiled(f), Rec)
  <2>1. f.flaws \cup {"spoiled"} \in SUBSET Flaws /\ 0 \in 0 .. Len(f.recs)
    BY <1>1 DEF Flaws
  <2>. QED BY <1>1, <2>1, WholeFile DEF Spoiled
<1>. QED BY <1>2, <1>3, <1>6, <1>7, <1>8, <1>9

\* What is left of a file that is closed, in order or not.
LEMMA FileLosses ==
    ASSUME NEW Rec, NEW f, Whole(f, Rec), NEW g \in Losses(f)
    PROVE  /\ Whole(g, Rec) /\ Keeps(f, g)
           /\ g.stored = Len(g.recs) /\ Len(g.recs) <= Len(f.recs)
           /\ \A n \in DOMAIN g.recs : n \in DOMAIN f.recs /\ g.recs[n] = f.recs[n]
           /\ Loads(g) => Loads(f) /\ \A n \in 1 .. Held(f) : n \in DOMAIN g.recs
<1>1. /\ f.recs \in Seq(Rec) /\ Len(f.recs) \in Nat /\ DOMAIN f.recs = 1 .. Len(f.recs)
      /\ f.stored \in 0 .. Len(f.recs)
  BY FileFields
<1>2. g = Flushed(f) \/ g = Lost(f) \/ g = Lost(Spoiled(f))
  BY DEF Losses, WrittenOut
<1>3. /\ Whole(g, Rec) /\ Keeps(f, g)
      /\ g.stored = Len(g.recs) /\ Len(g.recs) <= Len(f.recs)
      /\ \A n \in DOMAIN g.recs : n \in DOMAIN f.recs /\ g.recs[n] = f.recs[n]
      /\ "ragged" \in f.flaws => "ragged" \in g.flaws
      /\ "blank" \in f.flaws => "blank" \in g.flaws
  <2>1. CASE g = Flushed(f)
    <3>1. Whole(g, Rec) /\ Keeps(f, g)
      BY <2>1, FileSteps
    <3>2. g = [recs |-> f.recs, stored |-> Len(f.recs),
               flaws |-> IF f.recs = << >> THEN f.flaws ELSE f.flaws \ {"spoiled"}]
      BY <2>1 DEF Flushed
    <3>. QED BY <1>1, <3>1, <3>2
  <2>2. CASE g = Lost(f)
    <3>1. /\ Whole(g, Rec) /\ Keeps(f, g)
          /\ Len(g.recs) = f.stored /\ DOMAIN g.recs = 1 .. f.stored
          /\ \A n \in 1 .. f.stored : g.recs[n] = f.recs[n]
      BY <2>2, FileSteps
    <3>2. g.stored = f.stored /\ g.flaws = f.flaws
      BY <2>2, FileChanges
    <3>. QED BY <1>1, <3>1, <3>2
  <2>3. CASE g = Lost(Spoiled(f))
    <3>1. Whole(Spoiled(f), Rec)
      BY FileSteps
    <3>2. Spoiled(f).stored = 0 /\ Spoiled(f).flaws = f.flaws \cup {"spoiled"}
      BY DEF Spoiled
    <3>3. /\ Whole(g, Rec) /\ Len(g.recs) = 0 /\ DOMAIN g.recs = {}
          /\ g.stored = 0 /\ g.flaws = f.flaws \cup {"spoiled"}
      <4>1. /\ Whole(g, Rec) /\ Len(g.recs) = Spoiled(f).stored
            /\ DOMAIN g.recs = 1 .. Spoiled(f).stored
        BY <2>3, <3>1, FileSteps
      <4>2. g.stored = Spoiled(f).stored /\ g.flaws = Spoiled(f).flaws
        BY <2>3, <3>1, FileChanges
      <4>. QED BY <3>2, <4>1, <4>2
    <3>4. ~Readable(g)
      <4>1. g.recs = << >>
        BY <3>3, FileFields
      <4>. QED BY <3>3, <4>1 DEF Readable
    <3>5. Keeps(f, g)
      BY <3>4 DEF Keeps
    <3>. QED BY <1>1, <3>3, <3>5
  <2>. QED BY <1>2, <2>1, <2>2, <2>3
<1>4. ASSUME Loads(g) PROVE Loads(f) /\ \A n \in 1 .. Held(f) : n \in DOMAIN g.recs
  <2>1. Readable(g) /\ "ragged" \notin g.flaws /\ "blank" \notin g.flaws
    BY <1>4 DEF Loads, Takes
  <2>2. Readable(f) /\ Held(f) <= Held(g)
    BY <1>3, <2>1 DEF Keeps
  <2>3. /\ Held(g) <= Len(g.recs) /\ Held(g) \in Nat /\ Held(f) \in Nat /\ Len(g.recs) \in Nat
        /\ DOMAIN g.recs = 1 .. Len(g.recs)
    <3>1. /\ Held(g) \in g.stored .. Len(g.recs) /\ g.stored \in 0 .. Len(g.recs)
          /\ DOMAIN g.recs = 1 .. Len(g.recs) /\ Len(g.recs) \in Nat
      BY <1>3, FileFields
    <3>2. Held(f) \in f.stored .. Len(f.recs)
      BY FileFields
    <3>. QED BY <1>1, <3>1, <3>2
  <2>. QED BY <1>3, <2>1, <2>2, <2>3 DEF Loads, Takes
<1>. QED BY <1>3, <1>4

\* A record too large for any page changes no record that can be read.
LEMMA FileRefused ==
    ASSUME NEW Rec, NEW f, Whole(f, Rec)
    PROVE  /\ Whole(Refused(f), Rec) /\ Keeps(f, Refused(f))
           /\ Refused(f).recs = f.recs /\ Held(f) <= Held(Refused(f))
<1>1. /\ f.recs \in Seq(Rec) /\ Len(f.recs) \in Nat /\ f.stored \in 0 .. Len(f.recs)
      /\ f.flaws \in SUBSET Flaws /\ Held(f) \in f.stored .. Len(f.recs)
      /\ "spoiled" \in f.flaws => f.stored = 0
      /\ f.recs = << >> <=> Len(f.recs) = 0
  BY FileFields
<1>2. CASE Refused(f) = f
  <2>1. Held(f) <= Held(f)
    BY FileFields
  <2>2. Keeps(f, f)
    BY FileSteps
  <2>. QED BY <1>2, <2>1, <2>2, Zenon
<1>3. CASE f.recs = << >> /\ Refused(f) = Flawed(f, "spoiled")
  <2>1. Refused(f) = [recs |-> f.recs, stored |-> f.stored, flaws |-> f.flaws \cup {"spoiled"}]
    BY <1>3, FileChanges
  <2>2. f.stored = 0 /\ Len(f.recs) = 0
    BY <1>1, <1>3
  <2>3. f.flaws \cup {"spoiled"} \in SUBSET Flaws
    BY <1>1 DEF Flaws
  <2>4. Whole(Refused(f), Rec)
    <3>. DEFINE w == f.flaws \cup {"spoiled"}
    <3>1. f.stored \in 0 .. Len(f.recs) /\ f.recs \in Seq(Rec) /\ w \in SUBSET Flaws
      BY <1>1, <2>3
    <3>2. Refused(f) = [recs |-> f.recs, stored |-> f.stored, flaws |-> w]
      BY <2>1
    <3>. HIDE DEF w
    <3>. QED BY <2>2, <3>1, <3>2, WholeFile
  <2>5. ~Readable(Refused(f))
    BY <1>3, <2>1 DEF Readable
  <2>6. Held(Refused(f)) = 0 /\ Held(f) = 0
    BY <2>1, <2>2 DEF Held
  <2>. QED BY <2>1, <2>4, <2>5, <2>6 DEF Keeps
<1>4. CASE Refused(f) = Flawed(f, "blank")
  <2>1. Refused(f) = [recs |-> f.recs, stored |-> f.stored, flaws |-> f.flaws \cup {"blank"}]
    BY <1>4, FileChanges
  <2>2. f.flaws \cup {"blank"} \in SUBSET Flaws
    BY <1>1 DEF Flaws
  <2>3. Whole(Refused(f), Rec)
    BY <1>1, <2>1, <2>2, WholeFile
  <2>4. Held(Refused(f)) = Held(f)
    BY <2>1 DEF Held
  <2>5. Readable(Refused(f)) => Readable(f)
    BY <2>1 DEF Readable
  <2>6. Keeps(f, Refused(f))
    BY <1>1, <2>1, <2>4, <2>5 DEF Keeps
  <2>. QED BY <1>1, <2>1, <2>3, <2>4, <2>6
<1>. QED BY <1>2, <1>3, <1>4 DEF Refused

\* A write, whether it succeeds or not, adds at most its record at the end.
LEMMA FileWrites ==
    ASSUME NEW Rec, NEW f, Whole(f, Rec), Takes(f), NEW r \in Rec
    PROVE  /\ Whole(Written(f, r), Rec) /\ Keeps(f, Written(f, r))
           /\ Written(f, r).recs = Append(f.recs, r) /\ Written(f, r).stored = Len(f.recs) + 1
           /\ Held(Written(f, r)) = Len(f.recs) + 1
           /\ \A g \in FailedWrites(f, r) : Whole(g, Rec) /\ Keeps(f, g) /\ Grows(f, g, r)
<1>1. /\ f.recs \in Seq(Rec) /\ Len(f.recs) \in Nat /\ f.stored \in 0 .. Len(f.recs)
      /\ f.flaws \in SUBSET Flaws /\ Held(f) \in f.stored .. Len(f.recs)
      /\ "spoiled" \in f.flaws => f.stored = 0
  BY FileFields
<1>2. Readable(f)
  BY DEF Takes
<1>. DEFINE s == Append(f.recs, r)
<1>3. /\ s \in Seq(Rec) /\ Len(s) = Len(f.recs) + 1 /\ s # << >>
      /\ \A n \in 1 .. Len(f.recs) : s[n] = f.recs[n]
  BY <1>1
<1>4. Cached(f, r) = [recs |-> s, stored |-> f.stored, flaws |-> f.flaws]
  BY FileChanges
<1>5. Written(f, r) = [recs |-> s, stored |-> Len(s), flaws |-> f.flaws \ {"spoiled"}]
  <2>1. Cached(f, r).recs = s /\ Cached(f, r).flaws = f.flaws
    BY <1>4
  <2>2. s # << >>
    BY <1>3
  <2>. HIDE DEF s
  <2>. QED BY <2>1, <2>2 DEF Written, Flushed
<1>6. Spoiled(Cached(f, r)) = [recs |-> s, stored |-> 0, flaws |-> f.flaws \cup {"spoiled"}]
  BY <1>4 DEF Spoiled
<1>. HIDE DEF s
<1>7. ASSUME NEW g, g.recs = s, Held(g) \in Held(f) .. Len(s) PROVE Keeps(f, g)
  <2>1. \A n \in 1 .. Held(f) : s[n] = f.recs[n]
    BY <1>1, <1>3
  <2>2. Held(f) <= Held(g)
    BY <1>1, <1>7
  <2>. QED BY <1>2, <1>7, <2>1, <2>2 DEF Keeps
<1>8. /\ Whole(Cached(f, r), Rec) /\ Cached(f, r).recs = s
      /\ Held(Cached(f, r)) \in Held(f) .. Len(s)
  <2>1. f.stored \in 0 .. Len(s)
    BY <1>1, <1>3
  <2>2. Whole(Cached(f, r), Rec)
    BY <1>1, <1>3, <1>4, <2>1, WholeFile
  <2>3. Held(Cached(f, r)) = IF "spoiled" \in f.flaws THEN Len(s) ELSE f.stored
    BY <1>4 DEF Held
  <2>4. Held(Cached(f, r)) \in Held(f) .. Len(s)
    BY <1>1, <1>3, <2>3 DEF Held
  <2>. QED BY <1>4, <2>2, <2>4
<1>9. /\ Whole(Written(f, r), Rec) /\ Written(f, r).recs = s /\ Written(f, r).stored = Len(s)
      /\ Held(Written(f, r)) = Len(s) /\ Held(Written(f, r)) \in Held(f) .. Len(s)
  <2>1. f.flaws \ {"spoiled"} \in SUBSET Flaws /\ Len(s) \in 0 .. Len(s)
    BY <1>1, <1>3
  <2>2. Whole(Written(f, r), Rec)
    BY <1>3, <1>5, <2>1, WholeFile
  <2>3. Held(Written(f, r)) = Len(s)
    BY <1>5 DEF Held
  <2>. QED BY <1>1, <1>3, <1>5, <2>2, <2>3
<1>10. /\ Whole(Spoiled(Cached(f, r)), Rec) /\ Spoiled(Cached(f, r)).recs = s
       /\ Held(Spoiled(Cached(f, r))) \in Held(f) .. Len(s)
  <2>1. Whole(Spoiled(Cached(f, r)), Rec)
    BY <1>8, FileSteps
  <2>2. Held(Spoiled(Cached(f, r))) = Len(s)
    BY <1>6 DEF Held
  <2>. QED BY <1>1, <1>3, <1>6, <2>1, <2>2
<1>11. Whole(f, Rec) /\ Keeps(f, f) /\ Grows(f, f, r)
  <2>1. Held(f) <= Held(f)
    BY FileFields
  <2>. QED BY <2>1, FileSteps DEF Grows
<1>12. Whole(Refused(f), Rec) /\ Keeps(f, Refused(f)) /\ Grows(f, Refused(f), r)
  BY FileRefused DEF Grows
<1>13. LET g == Flawed(f, "ragged") IN Whole(g, Rec) /\ Keeps(f, g) /\ Grows(f, g, r)
  <2>. DEFINE g == Flawed(f, "ragged")
  <2>1. g = [recs |-> f.recs, stored |-> f.stored, flaws |-> f.flaws \cup {"ragged"}]
    BY FileChanges
  <2>2. f.flaws \cup {"ragged"} \in SUBSET Flaws
    BY <1>1 DEF Flaws
  <2>3. Whole(g, Rec)
    BY <1>1, <2>1, <2>2, WholeFile
  <2>4. Held(g) = Held(f) /\ g.recs = f.recs
    BY <2>1 DEF Held
  <2>. HIDE DEF g
  <2>5. Keeps(f, g) /\ Grows(f, g, r)
    BY <1>1, <1>2, <2>4 DEF Keeps, Grows
  <2>. QED BY <2>3, <2>5 DEF g
<1>14. ASSUME NEW g \in FailedWrites(f, r) PROVE Whole(g, Rec) /\ Keeps(f, g) /\ Grows(f, g, r)
  <2>1. \/ g = f \/ g = Refused(f) \/ g = Flawed(f, "ragged")
        \/ g = Cached(f, r) \/ g = Spoiled(Cached(f, r))
    BY DEF FailedWrites
  <2>2. CASE g = Cached(f, r) \/ g = Spoiled(Cached(f, r))
    <3>1. Whole(g, Rec) /\ g.recs = s /\ Held(g) \in Held(f) .. Len(s)
      BY <1>8, <1>10, <2>2
    <3>2. Keeps(f, g)
      BY <1>7, <3>1
    <3>3. Held(f) <= Held(g)
      BY <1>1, <3>1
    <3>. QED BY <3>1, <3>2, <3>3 DEF Grows, s
  <2>. QED BY <1>11, <1>12, <1>13, <2>1, <2>2
<1>15. Keeps(f, Written(f, r))
  BY <1>7, <1>9
<1>. QED BY <1>3, <1>9, <1>14, <1>15 DEF s

LEMMA EmptyFileWhole == \A Rec : Whole(EmptyFile, Rec)
BY DEF Whole, File, EmptyFile

(***************************************************************************)
(* The invariant.  A statement in progress may have a table in the catalog *)
(* whose file or record is not written yet, or an index whose tree is not; *)
(* the other tables are settled.                                           *)
(***************************************************************************)
Shut == In("closed") \/ In("refused")
Loading == In("load_tables")
Running == ~Shut /\ ~Loading
CreatingTable == In("table_file") \/ In("table_record")
CreatingIndex == In("index_file") \/ In("index_record")
Inserting == In("index_row") \/ In("version")

NewTable == IF CreatingTable THEN {stmt.id} ELSE {}
NewIndex == IF CreatingIndex THEN {stmt.id} ELSE {}
Settled == DOMAIN tables \ NewTable

AckedRow == [table : TableNames, rid : Nat, row : Rows]

TreesOK == trees \in [DOMAIN trees -> TreeEntry]
HeapsOK ==
    /\ heaps \in [DOMAIN heaps -> File(Rows)] /\ DOMAIN heaps \subseteq Ids
    /\ \A t \in DOMAIN heaps : Whole(heaps[t], Rows) /\ Len(heaps[t].recs) <= MaxRows
TreeFilesOK == treeFiles \in [DOMAIN treeFiles -> Tree] /\ DOMAIN treeFiles \subseteq Ids
AckedOK == acked \in [tables : SUBSET TableNames, rows : SUBSET AckedRow]

Types ==
    /\ TreesOK /\ HeapsOK /\ TreeFilesOK /\ AckedOK
    /\ Whole(catalogFile, TableRecord) /\ Whole(indexFile, Version)
    /\ stmt \in Statement
    /\ metadata \in {"absent", "short", "whole"}
    /\ faults \in 0 .. MaxFaults

\* What a phase of a statement relies on.
StmtInv ==
    /\ NewTable \subseteq DOMAIN tables
    /\ In("table_record") => stmt.id \in DOMAIN heaps
    /\ NewIndex \subseteq DOMAIN indexes
    /\ In("index_record") => stmt.id \in DOMAIN treeFiles /\ treeFiles[stmt.id].root \in Roots
    /\ In("version") => treeFiles[CurrentIndex].root \in Roots
    /\ Inserting =>
          /\ stmt.table \in DOMAIN tables
          /\ stmt.rid <= heaps[stmt.table].stored
          /\ stmt.todo # {} /\ stmt.todo \subseteq TableIndexes(stmt.table)
    /\ Loading => stmt.next \in 1 .. Len(catalogFile.recs) + 1
    /\ In("load_indexes") => stmt.todo \subseteq {v.id : v \in Versions}

\* The storage agrees with the catalog but for the index being made.
StorageInv ==
    /\ DOMAIN trees = DOMAIN indexes \ NewIndex
    /\ \A i \in DOMAIN trees : trees[i] = indexes[i] /\ i \in DOMAIN treeFiles
    /\ \A i \in DOMAIN indexes : indexes[i].table \in Settled
    /\ Settled \subseteq DOMAIN heaps

(* The settled tables are those of the records loaded.  A record that a failed
   statement left behind names an id that has no file and is given to no table. *)
Loaded ==
    IF Shut THEN {} ELSE IF Loading THEN 1 .. (stmt.next - 1) ELSE DOMAIN catalogFile.recs

Harmless(r) ==
    /\ r.id < nextTable /\ r.id \notin NewTable
    /\ r.id \in DOMAIN heaps => r.id \in DOMAIN tables /\ tables[r.id] = r.name

Recorded(id) ==
    \E n \in Loaded : /\ n <= Held(catalogFile)
                      /\ catalogFile.recs[n] = [id |-> id, name |-> tables[id]]

RecordsInv ==
    /\ Shut => DOMAIN tables = {}
    /\ Shut \/ Loading \/ In("load_indexes") => catalogFile.stored = Len(catalogFile.recs)
    /\ Loading => \A n \in Loaded : catalogFile.recs[n].id \in DOMAIN heaps
    /\ \A n \in Loaded : Harmless(catalogFile.recs[n])
    /\ \A id \in Settled : Recorded(id)

(* The settled tables are those acknowledged, and hold the rows acknowledged; of
   files that are not loaded yet this is so if they can be loaded, and every record's
   table has its file. *)
Kept(a, id) ==
    Readable(heaps[id]) => a.rid \in 1 .. Held(heaps[id]) /\ heaps[id].recs[a.rid] = a.row

AllTablesExist == \A n \in DOMAIN catalogFile.recs : catalogFile.recs[n].id \in DOMAIN heaps

AckedOnFile ==
    /\ {catalogFile.recs[n].name : n \in DOMAIN catalogFile.recs} = acked.tables
    /\ \A a \in acked.rows : \E n \in DOMAIN catalogFile.recs :
          catalogFile.recs[n].name = a.table /\ Kept(a, catalogFile.recs[n].id)

AckedInMemory ==
    /\ {tables[id] : id \in Settled} = acked.tables
    /\ \A a \in acked.rows : \E id \in Settled : tables[id] = a.table /\ Kept(a, id)

AckedInv ==
    /\ ~Running => (Loads(catalogFile) /\ AllTablesExist => AckedOnFile)
    /\ Running => AckedInMemory

MetadataInv == metadata # "whole" => Shut /\ acked.tables = {} /\ acked.rows = {}

DInv == CatInv /\ Types /\ StmtInv /\ StorageInv /\ RecordsInv /\ AckedInv /\ MetadataInv

(***************************************************************************)
(* Facts every step uses.                                                  *)
(***************************************************************************)
\* A statement has the fields of its phase.
LEMMA StmtShape ==
    ASSUME stmt \in Statement
    PROVE  /\ CreatingTable \/ CreatingIndex => stmt.id \in Ids
           /\ In("table_file") => [stmt EXCEPT !.phase = "table_record"]
                                    = [phase |-> "table_record", id |-> stmt.id]
           /\ In("index_file") => [stmt EXCEPT !.phase = "index_record"]
                                    = [phase |-> "index_record", id |-> stmt.id]
           /\ Inserting => stmt.table \in Ids /\ stmt.rid \in 1 .. MaxRows /\ stmt.todo \subseteq Ids
           /\ In("index_row") => [stmt EXCEPT !.phase = "version"]
                                    = [phase |-> "version", table |-> stmt.table,
                                       rid |-> stmt.rid, todo |-> stmt.todo]
           /\ Loading => /\ stmt.next \in Nat
                         /\ [stmt EXCEPT !.next = stmt.next + 1]
                              = [phase |-> "load_tables", next |-> stmt.next + 1]
           /\ In("load_indexes") =>
                 /\ stmt.todo \subseteq Ids
                 /\ \A t : [stmt EXCEPT !.todo = t] = [phase |-> "load_indexes", todo |-> t]
<1>1. CASE stmt \in [phase : {"idle", "closed", "refused"}]
  BY <1>1 DEF In, CreatingTable, CreatingIndex, Inserting, Loading
<1>2. CASE stmt \in [phase : {"table_file", "table_record", "index_file", "index_record"}, id : Ids]
  BY <1>2 DEF In, CreatingTable, CreatingIndex, Inserting, Loading
<1>3. CASE stmt \in [phase : {"index_row", "version"}, table : Ids, rid : 1 .. MaxRows,
                     todo : SUBSET Ids]
  BY <1>3 DEF In, CreatingTable, CreatingIndex, Inserting, Loading
<1>4. CASE stmt \in [phase : {"load_tables"}, next : Nat]
  BY <1>4 DEF In, CreatingTable, CreatingIndex, Inserting, Loading
<1>5. CASE stmt \in [phase : {"load_indexes"}, todo : SUBSET Ids]
  BY <1>5 DEF In, CreatingTable, CreatingIndex, Inserting, Loading
<1>. QED BY <1>1, <1>2, <1>3, <1>4, <1>5 DEF Statement

\* The phases exclude each other.
PhaseFacts ==
    /\ In("idle") => Running /\ ~CreatingTable /\ ~CreatingIndex /\ ~Inserting
                      /\ ~In("load_indexes") /\ NewTable = {} /\ NewIndex = {}
    /\ CreatingTable => Running /\ ~CreatingIndex /\ ~Inserting /\ ~In("load_indexes")
                         /\ NewTable = {stmt.id} /\ NewIndex = {}
    /\ CreatingIndex => Running /\ ~CreatingTable /\ ~Inserting /\ ~In("load_indexes")
                         /\ NewTable = {} /\ NewIndex = {stmt.id}
    /\ Inserting => Running /\ ~CreatingTable /\ ~CreatingIndex /\ ~In("load_indexes")
                     /\ NewTable = {} /\ NewIndex = {}
    /\ Loading => ~Shut /\ ~Running /\ ~CreatingTable /\ ~CreatingIndex /\ ~Inserting
                   /\ ~In("load_indexes") /\ NewTable = {} /\ NewIndex = {}
    /\ In("load_indexes") => Running /\ ~CreatingTable /\ ~CreatingIndex /\ ~Inserting
                              /\ NewTable = {} /\ NewIndex = {}
    /\ Shut => ~Running /\ ~Loading /\ ~CreatingTable /\ ~CreatingIndex /\ ~Inserting
                /\ ~In("load_indexes") /\ NewTable = {} /\ NewIndex = {}
LEMMA Phases == PhaseFacts /\ PhaseFacts'
BY DEF PhaseFacts, Shut, Loading, Running, CreatingTable, CreatingIndex, Inserting, NewTable,
       NewIndex, In

LEMMA FaultCount == ASSUME Types, NoFault \/ Fault PROVE faults' \in 0 .. MaxFaults
BY DatabaseConstants DEF Types, NoFault, Fault

(***************************************************************************)
(* What most steps of a running database leave alone: the settled tables   *)
(* and the records about them.                                             *)
(***************************************************************************)
\* A row kept by a file is kept by every file that keeps what is stored in it.
LEMMA KeptStep ==
    ASSUME NEW a, NEW id, Kept(a, id), Whole(heaps[id], Rows), Whole(heaps'[id], Rows),
           Keeps(heaps[id], heaps'[id])
    PROVE  Kept(a, id)'
<1>. SUFFICES ASSUME Readable(heaps'[id])
              PROVE  a.rid \in 1 .. Held(heaps'[id]) /\ heaps'[id].recs[a.rid] = a.row
  BY DEF Kept
<1>1. /\ Readable(heaps[id]) /\ Held(heaps[id]) <= Held(heaps'[id])
      /\ \A n \in 1 .. Held(heaps[id]) : heaps'[id].recs[n] = heaps[id].recs[n]
  BY DEF Keeps
<1>2. a.rid \in 1 .. Held(heaps[id]) /\ heaps[id].recs[a.rid] = a.row
  BY <1>1 DEF Kept
<1>3. Held(heaps[id]) \in Nat /\ Held(heaps'[id]) \in Nat
  BY FileFields
<1>4. a.rid \in 1 .. Held(heaps'[id])
  BY <1>1, <1>2, <1>3
<1>. QED BY <1>1, <1>2, <1>4

LEMMA HeapFacts ==
    ASSUME HeapsOK, NEW t \in DOMAIN heaps
    PROVE  /\ Whole(heaps[t], Rows) /\ Keeps(heaps[t], heaps[t])
           /\ heaps[t].recs \in Seq(Rows) /\ Len(heaps[t].recs) \in 0 .. MaxRows
           /\ heaps[t].stored \in 0 .. Len(heaps[t].recs)
           /\ Held(heaps[t]) \in heaps[t].stored .. Len(heaps[t].recs)
           /\ "spoiled" \in heaps[t].flaws => heaps[t].stored = 0
<1>1. Whole(heaps[t], Rows) /\ Len(heaps[t].recs) <= MaxRows
  BY DEF HeapsOK
<1>2. /\ heaps[t].recs \in Seq(Rows) /\ heaps[t].stored \in Nat
      /\ heaps[t].stored <= Len(heaps[t].recs) /\ Len(heaps[t].recs) \in Nat
      /\ Held(heaps[t]) \in heaps[t].stored .. Len(heaps[t].recs)
      /\ "spoiled" \in heaps[t].flaws => heaps[t].stored = 0
  <2>1. heaps[t].stored \in 0 .. Len(heaps[t].recs)
    BY <1>1, FileFields
  <2>. QED BY <1>1, <2>1, FileFields
<1>3. Len(heaps[t].recs) \in Nat
  BY <1>2
<1>4. Keeps(heaps[t], heaps[t])
  BY <1>1, FileSteps
<1>5. Len(heaps[t].recs) \in 0 .. MaxRows /\ heaps[t].stored \in 0 .. Len(heaps[t].recs)
  BY <1>1, <1>2, <1>3, DatabaseConstants
<1>. QED BY <1>1, <1>2, <1>4, <1>5

LEMMA CatalogFileFacts ==
    ASSUME Types
    PROVE  /\ catalogFile.recs \in Seq(TableRecord) /\ Len(catalogFile.recs) \in Nat
           /\ DOMAIN catalogFile.recs = 1 .. Len(catalogFile.recs)
           /\ catalogFile.stored \in 0 .. Len(catalogFile.recs)
           /\ Held(catalogFile) \in 0 .. Len(catalogFile.recs)
           /\ catalogFile.stored = Len(catalogFile.recs) => Held(catalogFile) = Len(catalogFile.recs)
           /\ \A n \in DOMAIN catalogFile.recs :
                 catalogFile.recs[n].id \in Ids /\ catalogFile.recs[n].name \in TableNames
<1>1. Whole(catalogFile, TableRecord)
  BY DEF Types
<1>2. /\ catalogFile.recs \in Seq(TableRecord) /\ Len(catalogFile.recs) \in Nat
      /\ DOMAIN catalogFile.recs = 1 .. Len(catalogFile.recs)
      /\ catalogFile.stored \in 0 .. Len(catalogFile.recs)
      /\ Held(catalogFile) \in catalogFile.stored .. Len(catalogFile.recs)
  BY <1>1, FileFields
<1>3. \A n \in DOMAIN catalogFile.recs : catalogFile.recs[n] \in TableRecord
  BY <1>2
<1>4. ASSUME NEW r \in TableRecord PROVE r.id \in Ids /\ r.name \in TableNames
  BY DEF TableRecord
<1>5. /\ Held(catalogFile) \in 0 .. Len(catalogFile.recs)
      /\ catalogFile.stored = Len(catalogFile.recs) => Held(catalogFile) = Len(catalogFile.recs)
  BY <1>2
<1>. QED BY <1>2, <1>3, <1>4, <1>5

QuietTables ==
    /\ Settled' = Settled /\ \A id \in Settled : tables'[id] = tables[id]
    /\ NewTable' \subseteq NewTable \cup {nextTable}
    /\ nextTable' >= nextTable /\ nextTable' \in Nat /\ nextTable \in Nat

QuietHeaps ==
    /\ HeapsOK'
    /\ \A id \in Settled : id \in DOMAIN heaps' /\ Keeps(heaps[id], heaps'[id])
    /\ DOMAIN heaps' \subseteq DOMAIN heaps \cup NewTable

\* A failed statement leaves at most a record of a table that has no file.
Leftover(r) == r.id < nextTable' /\ r.id \notin NewTable' /\ r.id \notin DOMAIN heaps'

QuietCatalogFile ==
    /\ In("load_indexes")' => UNCHANGED catalogFile
    /\ \A n \in DOMAIN catalogFile.recs :
          /\ n \in DOMAIN catalogFile'.recs /\ catalogFile'.recs[n] = catalogFile.recs[n]
          /\ n <= Held(catalogFile) => n <= Held(catalogFile')
    /\ \A n \in DOMAIN catalogFile'.recs :
          n \in DOMAIN catalogFile.recs \/ Leftover(catalogFile'.recs[n])

\* The rows acknowledged are those of before and rows now stored.
QuietAcked ==
    /\ acked'.tables = acked.tables
    /\ \A a \in acked'.rows :
          a \in acked.rows \/ \E id \in Settled : tables[id] = a.table /\ Kept(a, id)'

LEMMA QuietStep ==
    ASSUME DInv, Running, Running', In("load_indexes")' => In("load_indexes"),
           QuietTables, QuietHeaps, QuietCatalogFile, QuietAcked, UNCHANGED metadata
    PROVE  RecordsInv' /\ AckedInv' /\ MetadataInv'
<1>. USE DEF DInv
<1>1. ~Shut /\ ~Loading /\ ~Shut' /\ ~Loading'
  BY DEF Running
<1>2. Loaded = DOMAIN catalogFile.recs /\ Loaded' = DOMAIN catalogFile'.recs
  BY <1>1 DEF Loaded
<1>a. /\ \A n \in Loaded : /\ n \in Loaded' /\ catalogFile'.recs[n] = catalogFile.recs[n]
                           /\ n <= Held(catalogFile) => n <= Held(catalogFile')
      /\ \A n \in Loaded' : n \in Loaded \/ Leftover(catalogFile'.recs[n])
  BY <1>2 DEF QuietCatalogFile
<1>3. ASSUME NEW n \in Loaded' PROVE Harmless(catalogFile.recs[n])'
  <2>. SUFFICES ASSUME n \in Loaded PROVE Harmless(catalogFile.recs[n])'
    BY <1>a DEF Leftover, Harmless
  <2>. DEFINE r == catalogFile.recs[n]
  <2>1. catalogFile'.recs[n] = r
    BY <1>a
  <2>2. /\ r.id < nextTable /\ r.id \notin NewTable
        /\ r.id \in DOMAIN heaps => r.id \in DOMAIN tables /\ tables[r.id] = r.name
    BY DEF RecordsInv, Harmless
  <2>3. r.id \in Ids
    BY <1>2, CatalogFileFacts
  <2>. HIDE DEF r
  <2>4. r.id < nextTable' /\ r.id # nextTable
    BY <2>2, <2>3 DEF QuietTables, Ids
  <2>5. r.id \notin NewTable'
    BY <2>2, <2>4 DEF QuietTables
  <2>6. ASSUME r.id \in DOMAIN heaps' PROVE r.id \in DOMAIN tables' /\ tables'[r.id] = r.name
    <3>1. r.id \in DOMAIN heaps
      BY <2>2, <2>6 DEF QuietHeaps
    <3>2. r.id \in Settled /\ tables[r.id] = r.name
      BY <2>2, <3>1 DEF Settled
    <3>3. r.id \in Settled' /\ tables'[r.id] = r.name
      BY <3>2 DEF QuietTables
    <3>. QED BY <3>3 DEF Settled
  <2>. QED BY <2>1, <2>4, <2>5, <2>6 DEF Harmless
<1>4. ASSUME NEW id \in Settled' PROVE Recorded(id)'
  <2>1. id \in Settled /\ tables'[id] = tables[id]
    BY DEF QuietTables
  <2>2. Recorded(id)
    BY <2>1 DEF RecordsInv
  <2>. QED BY <1>a, <2>1, <2>2 DEF Recorded
<1>5. In("load_indexes")' => catalogFile'.stored = Len(catalogFile'.recs)
  BY DEF RecordsInv, QuietCatalogFile
<1>6. RecordsInv'
  BY <1>1, <1>3, <1>4, <1>5 DEF RecordsInv
<1>7. AckedInv'
  <2>1. AckedInMemory
    BY DEF AckedInv
  <2>2. {tables'[id] : id \in Settled'} = acked'.tables
    <3>1. {tables'[id] : id \in Settled} = {tables[id] : id \in Settled}
      BY DEF QuietTables
    <3>2. {tables[id] : id \in Settled} = acked.tables
      BY <2>1 DEF AckedInMemory
    <3>. QED BY <3>1, <3>2 DEF QuietTables, QuietAcked
  <2>3. ASSUME NEW a \in acked'.rows
        PROVE  \E id \in Settled' : tables'[id] = a.table /\ Kept(a, id)'
    <3>1. CASE \E id \in Settled : tables[id] = a.table /\ Kept(a, id)'
      BY <3>1 DEF QuietTables
    <3>2. CASE a \in acked.rows
      <4>1. PICK id \in Settled : tables[id] = a.table /\ Kept(a, id)
        BY <2>1, <3>2 DEF AckedInMemory
      <4>2. id \in DOMAIN heaps /\ id \in DOMAIN heaps' /\ Keeps(heaps[id], heaps'[id])
        BY DEF StorageInv, QuietHeaps
      <4>3. Whole(heaps[id], Rows) /\ Whole(heaps'[id], Rows)
        BY <4>2 DEF Types, QuietHeaps, HeapsOK
      <4>4. Kept(a, id)'
        BY <4>1, <4>2, <4>3, KeptStep
      <4>. QED BY <4>1, <4>4 DEF QuietTables
    <3>. QED BY <3>1, <3>2 DEF QuietAcked
  <2>4. AckedInMemory'
    BY <2>2, <2>3 DEF AckedInMemory
  <2>. QED BY <2>4 DEF AckedInv
<1>8. MetadataInv'
  BY <1>1 DEF MetadataInv
<1>. QED BY <1>6, <1>7, <1>8

LEMMA CatalogFacts ==
    ASSUME CatInv
    PROVE  /\ DOMAIN tables \subseteq Ids /\ \A id \in DOMAIN tables : tables[id] \in TableNames
           /\ nextTable \in 1 .. MaxId /\ \A id \in DOMAIN tables : id < nextTable
           /\ DOMAIN indexes \subseteq Ids /\ \A id \in DOMAIN indexes : indexes[id] \in IndexEntry
           /\ nextIndex \in 1 .. MaxId /\ \A id \in DOMAIN indexes : id < nextIndex
           /\ \A id \in DOMAIN tables :
                 tables[id] \in DOMAIN tableIds /\ tableIds[tables[id]] = id
           /\ \A name \in DOMAIN tableIds :
                 tableIds[name] \in DOMAIN tables /\ tables[tableIds[name]] = name
BY DEF CatInv, CatalogTypeOK, NextIdsFresh, MapsMirror

\* The storage of a step that leaves the indexes alone.
LEMMA StorageQuiet ==
    ASSUME StorageInv, QuietTables, \A id \in Settled : id \in DOMAIN heaps',
           UNCHANGED <<trees, indexes>>, NewIndex' = NewIndex,
           DOMAIN treeFiles \subseteq DOMAIN treeFiles'
    PROVE  StorageInv'
BY DEF StorageInv, QuietTables

\* A step that leaves the catalog file alone, and one that leaves a record in it that
\* is of no table.
LEMMA CatalogFileQuiet ==
    ASSUME UNCHANGED catalogFile
    PROVE  QuietCatalogFile
BY DEF QuietCatalogFile

LEMMA CatalogFileGrows ==
    ASSUME Types, NEW r \in TableRecord, Leftover(r), ~In("load_indexes")',
           Whole(catalogFile', TableRecord), Grows(catalogFile, catalogFile', r)
    PROVE  QuietCatalogFile
<1>1. /\ catalogFile.recs \in Seq(TableRecord) /\ Len(catalogFile.recs) \in Nat
      /\ DOMAIN catalogFile.recs = 1 .. Len(catalogFile.recs)
      /\ Held(catalogFile) \in Nat /\ Held(catalogFile') \in Nat
      /\ Held(catalogFile) <= Held(catalogFile')
  <2>1. Whole(catalogFile, TableRecord)
    BY DEF Types
  <2>2. /\ catalogFile.recs \in Seq(TableRecord) /\ Len(catalogFile.recs) \in Nat
        /\ DOMAIN catalogFile.recs = 1 .. Len(catalogFile.recs)
        /\ Held(catalogFile) \in Nat
    BY <2>1, FileFields
  <2>3. Held(catalogFile') \in Nat
    BY FileFields
  <2>. QED BY <2>2, <2>3 DEF Grows
<1>2. \A n \in DOMAIN catalogFile.recs : n <= Held(catalogFile) => n <= Held(catalogFile')
  BY <1>1
<1>3. CASE catalogFile'.recs = catalogFile.recs
  BY <1>2, <1>3 DEF QuietCatalogFile
<1>4. CASE catalogFile'.recs = Append(catalogFile.recs, r)
  <2>1. /\ DOMAIN Append(catalogFile.recs, r) = 1 .. (Len(catalogFile.recs) + 1)
        /\ \A n \in 1 .. Len(catalogFile.recs) : Append(catalogFile.recs, r)[n] = catalogFile.recs[n]
        /\ Append(catalogFile.recs, r)[Len(catalogFile.recs) + 1] = r
    BY <1>1
  <2>2. \A n \in DOMAIN catalogFile.recs :
           n \in DOMAIN catalogFile'.recs /\ catalogFile'.recs[n] = catalogFile.recs[n]
    BY <1>1, <1>4, <2>1
  <2>3. \A n \in DOMAIN catalogFile'.recs :
           n \in DOMAIN catalogFile.recs \/ catalogFile'.recs[n] = r
    BY <1>1, <1>4, <2>1
  <2>. QED BY <1>2, <2>2, <2>3 DEF QuietCatalogFile
<1>. QED BY <1>3, <1>4 DEF Grows

\* Acknowledgements of a step that makes none.
LEMMA AckedQuiet == ASSUME UNCHANGED acked PROVE QuietAcked
BY DEF QuietAcked

(***************************************************************************)
(* CREATE TABLE.                                                           *)
(***************************************************************************)
LEMMA BeginCreateTableStep ==
    ASSUME DInv, NEW name \in TableNames, BeginCreateTable(name)
    PROVE  DInv'
<1>0. CatInv /\ Types /\ StmtInv /\ StorageInv /\ RecordsInv /\ AckedInv /\ MetadataInv
  BY DEF DInv
<1>1. /\ In("idle") /\ CreateTable(name) /\ stmt' = [phase |-> "table_file", id |-> nextTable]
      /\ NoFault
      /\ UNCHANGED <<trees, acked, metadata, catalogFile, indexFile, heaps, treeFiles>>
  BY DEF BeginCreateTable, files
<1>2. CatInv'
  <2>1. CatalogNext
    BY <1>0, <1>1 DEF CatalogNext
  <2>. QED BY <1>0, <2>1, CatInvStep
<1>3. /\ DOMAIN tables' = DOMAIN tables \cup {nextTable} /\ tables'[nextTable] = name
      /\ \A id \in DOMAIN tables : id # nextTable => tables'[id] = tables[id]
      /\ nextTable' = nextTable + 1 /\ nextTable # MaxId /\ UNCHANGED indexes
  <2>1. /\ tables' = Put(tables, nextTable, name) /\ nextTable' = nextTable + 1
        /\ nextTable # MaxId /\ UNCHANGED indexes
    BY <1>1 DEF CreateTable, TableIdsLeft
  <2>. QED BY <2>1 DEF Put
<1>4. /\ nextTable \in Ids /\ nextTable \notin DOMAIN tables
      /\ nextTable \in Nat /\ nextTable' \in Nat /\ nextTable' >= nextTable
  BY <1>0, <1>3, CatalogFacts, CatalogConstants DEF Ids
<1>5. In("table_file")' /\ CreatingTable' /\ stmt'.id = nextTable
  BY <1>0, <1>1 DEF In, CreatingTable
<1>6. /\ NewTable' = {nextTable} /\ NewIndex' = {} /\ NewTable = {} /\ NewIndex = {}
      /\ Running /\ Running' /\ ~In("load_indexes")' /\ ~Inserting' /\ ~Loading' /\ ~CreatingIndex'
  BY <1>1, <1>5, Phases DEF PhaseFacts
<1>7. Types'
  <2>1. stmt' \in Statement
    BY <1>0, <1>1, <1>4 DEF Statement
  <2>2. faults' \in 0 .. MaxFaults
    BY <1>0, <1>1, FaultCount
  <2>. QED BY <1>0, <1>1, <2>1, <2>2 DEF Types, TreesOK, HeapsOK, TreeFilesOK, AckedOK
<1>8. StmtInv'
  <2>1. ~In("table_record")' /\ ~In("index_record")' /\ ~In("version")'
    BY <1>5 DEF In
  <2>. QED BY <1>0, <1>3, <1>6, <2>1 DEF StmtInv
<1>9. QuietTables
  BY <1>0, <1>3, <1>4, <1>6 DEF QuietTables, Settled
<1>10. QuietHeaps
  BY <1>0, <1>1, <1>7, HeapFacts DEF QuietHeaps, Types, StorageInv
<1>11. StorageInv'
  BY <1>0, <1>1, <1>3, <1>6, <1>9, <1>10, StorageQuiet DEF QuietHeaps
<1>12. QuietCatalogFile /\ QuietAcked
  BY <1>1, AckedQuiet, CatalogFileQuiet
<1>. QED BY <1>0, <1>1, <1>2, <1>6, <1>7, <1>8, <1>9, <1>10, <1>11, <1>12, QuietStep DEF DInv

\* An empty file joins the heaps.
LEMMA HeapAdded ==
    ASSUME HeapsOK, NEW id \in Ids, id \notin DOMAIN heaps, heaps' = Put(heaps, id, EmptyFile)
    PROVE  /\ HeapsOK' /\ DOMAIN heaps' = DOMAIN heaps \cup {id} /\ heaps'[id] = EmptyFile
           /\ \A t \in DOMAIN heaps : heaps'[t] = heaps[t]
<1>1. /\ DOMAIN heaps' = DOMAIN heaps \cup {id} /\ heaps'[id] = EmptyFile
      /\ \A t \in DOMAIN heaps : heaps'[t] = heaps[t]
  BY DEF Put
<1>2. Whole(EmptyFile, Rows) /\ Len(EmptyFile.recs) <= MaxRows
  BY EmptyFileWhole, DatabaseConstants DEF EmptyFile
<1>3. EmptyFile \in File(Rows)
  BY <1>2 DEF Whole
<1>4. heaps' \in [DOMAIN heaps' -> File(Rows)] /\ DOMAIN heaps' \subseteq Ids
  BY <1>3, PutType DEF HeapsOK
<1>. QED BY <1>1, <1>2, <1>4 DEF HeapsOK

LEMMA MakeTableFileStep ==
    ASSUME DInv, MakeTableFile
    PROVE  DInv'
<1>0. CatInv /\ Types /\ StmtInv /\ StorageInv /\ RecordsInv /\ AckedInv /\ MetadataInv
  BY DEF DInv
<1>1. /\ In("table_file") /\ stmt.id \notin DOMAIN heaps
      /\ heaps' = Put(heaps, stmt.id, EmptyFile)
      /\ stmt' = [stmt EXCEPT !.phase = "table_record"]
      /\ NoFault
      /\ UNCHANGED <<catalogVars, trees, metadata, catalogFile, indexFile, treeFiles, acked>>
  BY DEF MakeTableFile
<1>2. stmt.id \in Ids /\ stmt' = [phase |-> "table_record", id |-> stmt.id]
  BY <1>0, <1>1, StmtShape DEF Types, CreatingTable
<1>3. In("table_record")' /\ CreatingTable /\ CreatingTable' /\ stmt'.id = stmt.id
  BY <1>0, <1>1, <1>2 DEF In, CreatingTable
<1>4. /\ NewTable' = {stmt.id} /\ NewIndex' = {} /\ NewTable = {stmt.id} /\ NewIndex = {}
      /\ Running /\ Running' /\ ~In("load_indexes")' /\ ~Inserting' /\ ~Loading' /\ ~CreatingIndex'
  BY <1>3, Phases DEF PhaseFacts
<1>5. /\ UNCHANGED <<tables, nextTable, indexes>> /\ CatInv'
  BY <1>0, <1>1, CatInvStep DEF catalogVars
<1>6. /\ HeapsOK' /\ DOMAIN heaps' = DOMAIN heaps \cup {stmt.id}
      /\ \A t \in DOMAIN heaps : heaps'[t] = heaps[t]
  BY <1>0, <1>1, <1>2, HeapAdded DEF Types
<1>7. Types'
  <2>1. stmt' \in Statement
    BY <1>0, <1>2 DEF Statement
  <2>2. faults' \in 0 .. MaxFaults
    BY <1>0, <1>1, FaultCount
  <2>. QED BY <1>0, <1>1, <1>6, <2>1, <2>2 DEF Types, TreesOK, TreeFilesOK, AckedOK
<1>8. StmtInv'
  <2>1. ~In("index_record")' /\ ~In("version")'
    BY <1>3 DEF In
  <2>. QED BY <1>0, <1>3, <1>4, <1>5, <1>6, <2>1 DEF StmtInv
<1>9. QuietTables
  BY <1>0, <1>4, <1>5, CatalogFacts DEF QuietTables, Settled
<1>10. QuietHeaps
  BY <1>0, <1>4, <1>6, HeapFacts DEF QuietHeaps, Types, StorageInv
<1>11. StorageInv'
  BY <1>0, <1>1, <1>4, <1>5, <1>9, <1>10, StorageQuiet DEF QuietHeaps
<1>12. QuietCatalogFile /\ QuietAcked
  BY <1>1, AckedQuiet, CatalogFileQuiet
<1>. QED BY <1>0, <1>1, <1>4, <1>5, <1>7, <1>8, <1>9, <1>10, <1>11, <1>12, QuietStep DEF DInv

LEMMA NewTableRecordType ==
    ASSUME CatInv, stmt.id \in DOMAIN tables
    PROVE  /\ NewTableRecord \in TableRecord
           /\ NewTableRecord.id = stmt.id /\ NewTableRecord.name = tables[stmt.id]
BY CatalogFacts DEF NewTableRecord, TableRecord

\* A CREATE TABLE that fails takes its table out of the catalog and leaves its
\* file, if at all, to no table, and a record, if at all, without a file.
LEMMA TableUndone ==
    ASSUME DInv, CreatingTable, RemoveTable(stmt.id), Return, NoFault \/ Fault, HeapsOK',
           DOMAIN heaps' \subseteq DOMAIN heaps \cup {stmt.id},
           \A id \in DOMAIN heaps : id # stmt.id => id \in DOMAIN heaps' /\ heaps'[id] = heaps[id],
           \/ UNCHANGED catalogFile
           \/ /\ stmt.id \notin DOMAIN heaps' /\ Whole(catalogFile', TableRecord)
              /\ Grows(catalogFile, catalogFile', NewTableRecord),
           UNCHANGED <<trees, metadata, indexFile, treeFiles, acked>>
    PROVE  DInv'
<1>0. CatInv /\ Types /\ StmtInv /\ StorageInv
  BY DEF DInv
<1>1. In("idle")' /\ stmt' = [phase |-> "idle"]
  BY DEF Return, Goto, In
<1>2. /\ NewTable' = {} /\ NewIndex' = {} /\ NewTable = {stmt.id} /\ NewIndex = {}
      /\ Running /\ Running' /\ ~In("load_indexes")' /\ ~Inserting' /\ ~Loading'
      /\ ~CreatingTable' /\ ~CreatingIndex'
  BY <1>1, Phases DEF PhaseFacts
<1>3. CatInv'
  BY <1>0, TableRemoved
<1>4. /\ DOMAIN tables' = DOMAIN tables \ {stmt.id}
      /\ \A id \in DOMAIN tables : id # stmt.id => tables'[id] = tables[id]
      /\ UNCHANGED <<nextTable, indexes>>
  <2>1. tables' = Without(tables, stmt.id) /\ UNCHANGED <<nextTable, indexes>>
    BY DEF RemoveTable
  <2>. QED BY <2>1 DEF Without, Restrict
<1>5. QuietTables
  BY <1>0, <1>2, <1>4, CatalogFacts DEF QuietTables, Settled
<1>6. QuietHeaps
  <2>1. ASSUME NEW id \in Settled PROVE id \in DOMAIN heaps' /\ Keeps(heaps[id], heaps'[id])
    <3>1. id \in DOMAIN heaps /\ id # stmt.id
      BY <1>0, <1>2 DEF StorageInv, Settled
    <3>. QED BY <1>0, <3>1, HeapFacts DEF Types
  <2>. QED BY <1>2, <2>1 DEF QuietHeaps
<1>7. Whole(catalogFile', TableRecord) /\ QuietCatalogFile
  <2>1. CASE UNCHANGED catalogFile
    BY <1>0, <2>1, CatalogFileQuiet DEF Types
  <2>2. CASE /\ stmt.id \notin DOMAIN heaps' /\ Whole(catalogFile', TableRecord)
             /\ Grows(catalogFile, catalogFile', NewTableRecord)
    <3>1. stmt.id \in DOMAIN tables
      BY DEF RemoveTable
    <3>2. NewTableRecord \in TableRecord /\ NewTableRecord.id = stmt.id
      BY <1>0, <3>1, NewTableRecordType
    <3>3. Leftover(NewTableRecord)
      BY <1>0, <1>2, <1>4, <2>2, <3>1, <3>2, CatalogFacts DEF Leftover
    <3>4. QuietCatalogFile
      BY <1>0, <1>2, <2>2, <3>2, <3>3, CatalogFileGrows
    <3>. QED BY <2>2, <3>4
  <2>. QED BY <2>1, <2>2
<1>8. Types'
  <2>1. stmt' \in Statement
    BY <1>1 DEF Statement
  <2>2. faults' \in 0 .. MaxFaults
    BY <1>0, FaultCount
  <2>. QED BY <1>0, <1>7, <2>1, <2>2 DEF Types, TreesOK, TreeFilesOK, AckedOK
<1>9. StmtInv'
  BY <1>1, <1>2 DEF StmtInv, CreatingTable, CreatingIndex, Inserting
<1>10. StorageInv'
  BY <1>0, <1>2, <1>4, <1>5, <1>6, StorageQuiet DEF QuietHeaps
<1>11. QuietAcked
  BY AckedQuiet
<1>. QED BY <1>2, <1>3, <1>5, <1>6, <1>7, <1>8, <1>9, <1>10, <1>11, QuietStep DEF DInv

LEMMA TableFileExistsStep == ASSUME DInv, TableFileExists PROVE DInv'
<1>1. /\ In("table_file") /\ stmt.id \in DOMAIN heaps /\ RemoveTable(stmt.id) /\ Return /\ NoFault
      /\ UNCHANGED <<trees, acked, metadata, catalogFile, indexFile, heaps, treeFiles>>
  BY DEF TableFileExists, UndoTable, files
<1>2. CreatingTable /\ HeapsOK'
  BY <1>1 DEF CreatingTable, DInv, Types, HeapsOK
<1>. QED BY <1>1, <1>2, TableUndone

LEMMA TableFileFailsStep == ASSUME DInv, TableFileFails PROVE DInv'
<1>1. /\ In("table_file") /\ stmt.id \notin DOMAIN heaps /\ RemoveTable(stmt.id) /\ Return /\ Fault
      /\ heaps' = heaps \/ heaps' = Put(heaps, stmt.id, EmptyFile)
      /\ UNCHANGED <<trees, metadata, catalogFile, indexFile, treeFiles, acked>>
  BY DEF TableFileFails, UndoTable
<1>2. CreatingTable /\ HeapsOK /\ stmt.id \in Ids
  BY <1>1, StmtShape DEF CreatingTable, DInv, Types
<1>3. CASE heaps' = heaps
  <2>1. HeapsOK'
    BY <1>2, <1>3 DEF HeapsOK
  <2>. QED BY <1>1, <1>2, <1>3, <2>1, TableUndone
<1>4. CASE heaps' = Put(heaps, stmt.id, EmptyFile)
  <2>1. /\ HeapsOK' /\ DOMAIN heaps' = DOMAIN heaps \cup {stmt.id}
        /\ \A t \in DOMAIN heaps : heaps'[t] = heaps[t]
    BY <1>1, <1>2, <1>4, HeapAdded
  <2>. QED BY <1>1, <1>2, <2>1, TableUndone
<1>. QED BY <1>1, <1>3, <1>4

\* The file of the table is removed again.
LEMMA HeapRemoved ==
    ASSUME HeapsOK, NEW id, heaps' = Without(heaps, id)
    PROVE  /\ HeapsOK' /\ DOMAIN heaps' = DOMAIN heaps \ {id}
           /\ \A t \in DOMAIN heaps : t # id => heaps'[t] = heaps[t]
<1>1. DOMAIN heaps' = DOMAIN heaps \ {id} /\ \A t \in DOMAIN heaps : t # id => heaps'[t] = heaps[t]
  BY DEF Without, Restrict
<1>2. heaps' \in [DOMAIN heaps' -> File(Rows)] /\ DOMAIN heaps' \subseteq Ids
  BY WithoutType DEF HeapsOK
<1>. QED BY <1>1, <1>2 DEF HeapsOK

LEMMA AppendTableRefusedStep == ASSUME DInv, AppendTableRefused PROVE DInv'
<1>1. /\ In("table_record") /\ RemoveTable(stmt.id) /\ Return /\ NoFault
      /\ catalogFile' \in {catalogFile, Refused(catalogFile)}
      /\ heaps' = Without(heaps, stmt.id)
      /\ UNCHANGED <<trees, metadata, indexFile, treeFiles, acked>>
  BY DEF AppendTableRefused, UndoTable
<1>2. CreatingTable /\ HeapsOK /\ Whole(catalogFile, TableRecord)
  BY <1>1 DEF CreatingTable, DInv, Types
<1>3. /\ HeapsOK' /\ DOMAIN heaps' = DOMAIN heaps \ {stmt.id}
      /\ \A t \in DOMAIN heaps : t # stmt.id => heaps'[t] = heaps[t]
  BY <1>1, <1>2, HeapRemoved
<1>4. CASE UNCHANGED catalogFile
  BY <1>1, <1>2, <1>3, <1>4, TableUndone
<1>5. CASE catalogFile' = Refused(catalogFile)
  <2>1. /\ Whole(Refused(catalogFile), TableRecord) /\ Refused(catalogFile).recs = catalogFile.recs
        /\ Held(catalogFile) <= Held(Refused(catalogFile))
    BY <1>2, FileRefused
  <2>2. Whole(catalogFile', TableRecord) /\ Grows(catalogFile, catalogFile', NewTableRecord)
    BY <1>5, <2>1 DEF Grows
  <2>. QED BY <1>1, <1>2, <1>3, <2>2, TableUndone
<1>. QED BY <1>1, <1>4, <1>5

LEMMA AppendTableFailsStep == ASSUME DInv, AppendTableFails PROVE DInv'
<1>1. /\ In("table_record") /\ RemoveTable(stmt.id) /\ Return /\ Fault
      /\ Takes(catalogFile) /\ catalogFile' \in FailedWrites(catalogFile, NewTableRecord)
      /\ heaps' = Without(heaps, stmt.id)
      /\ UNCHANGED <<trees, metadata, indexFile, treeFiles, acked>>
  BY DEF AppendTableFails, UndoTable
<1>2. CreatingTable /\ HeapsOK /\ CatInv /\ Whole(catalogFile, TableRecord)
  BY <1>1 DEF CreatingTable, DInv, Types
<1>3. /\ HeapsOK' /\ DOMAIN heaps' = DOMAIN heaps \ {stmt.id}
      /\ \A t \in DOMAIN heaps : t # stmt.id => heaps'[t] = heaps[t]
  BY <1>1, <1>2, HeapRemoved
<1>4. NewTableRecord \in TableRecord
  BY <1>1, <1>2, NewTableRecordType DEF RemoveTable
<1>5. Whole(catalogFile', TableRecord) /\ Grows(catalogFile, catalogFile', NewTableRecord)
  BY <1>1, <1>2, <1>4, FileWrites
<1>. QED BY <1>1, <1>2, <1>3, <1>5, TableUndone

\* The record that makes a table settled.
LEMMA AppendTableStep == ASSUME DInv, AppendTable PROVE DInv'
<1>0. CatInv /\ Types /\ StmtInv /\ StorageInv /\ RecordsInv /\ AckedInv /\ MetadataInv
  BY DEF DInv
<1>1. /\ In("table_record") /\ Return /\ NoFault /\ Takes(catalogFile)
      /\ catalogFile' = Written(catalogFile, NewTableRecord)
      /\ acked' = [acked EXCEPT !.tables = acked.tables \cup {tables[stmt.id]}]
      /\ UNCHANGED <<catalogVars, trees, metadata, indexFile, heaps, treeFiles>>
  BY DEF AppendTable
<1>2. CreatingTable /\ In("idle")' /\ stmt' = [phase |-> "idle"]
  BY <1>1 DEF CreatingTable, Return, Goto, In
<1>3. /\ NewTable' = {} /\ NewIndex' = {} /\ NewTable = {stmt.id} /\ NewIndex = {}
      /\ Running /\ Running' /\ ~In("load_indexes")' /\ ~Inserting' /\ ~Loading'
      /\ ~CreatingTable' /\ ~CreatingIndex' /\ ~Shut /\ ~Shut' /\ ~Loading
  BY <1>2, Phases DEF PhaseFacts
<1>4. UNCHANGED <<tables, nextTable, indexes>> /\ CatInv'
  BY <1>0, <1>1, CatInvStep DEF catalogVars
<1>5. /\ stmt.id \in DOMAIN tables /\ stmt.id \in DOMAIN heaps
      /\ Settled' = Settled \cup {stmt.id} /\ stmt.id \notin Settled
  BY <1>0, <1>1, <1>3, <1>4 DEF StmtInv, Settled
<1>6. /\ NewTableRecord = [id |-> stmt.id, name |-> tables[stmt.id]]
      /\ NewTableRecord \in TableRecord
  BY <1>0, <1>5, CatalogFacts DEF NewTableRecord, TableRecord
<1>7. /\ Whole(catalogFile', TableRecord)
      /\ catalogFile'.recs = Append(catalogFile.recs, NewTableRecord)
      /\ Held(catalogFile') = Len(catalogFile.recs) + 1
  BY <1>0, <1>1, <1>6, FileWrites DEF Types
<1>8. /\ Loaded = 1 .. Len(catalogFile.recs) /\ Loaded' = 1 .. (Len(catalogFile.recs) + 1)
      /\ Len(catalogFile.recs) \in Nat /\ Held(catalogFile) \in 0 .. Len(catalogFile.recs)
      /\ \A n \in Loaded : n \in Loaded' /\ catalogFile'.recs[n] = catalogFile.recs[n]
      /\ catalogFile'.recs[Len(catalogFile.recs) + 1] = NewTableRecord
  <2>1. catalogFile.recs \in Seq(TableRecord) /\ Held(catalogFile) \in 0 .. Len(catalogFile.recs)
    BY <1>0, CatalogFileFacts
  <2>2. /\ DOMAIN Append(catalogFile.recs, NewTableRecord) = 1 .. (Len(catalogFile.recs) + 1)
        /\ DOMAIN catalogFile.recs = 1 .. Len(catalogFile.recs)
        /\ Len(catalogFile.recs) \in Nat
        /\ \A n \in 1 .. Len(catalogFile.recs) :
              Append(catalogFile.recs, NewTableRecord)[n] = catalogFile.recs[n]
        /\ Append(catalogFile.recs, NewTableRecord)[Len(catalogFile.recs) + 1] = NewTableRecord
    BY <2>1, <1>6
  <2>. QED BY <1>3, <1>7, <2>1, <2>2 DEF Loaded
<1>9. Types'
  <2>1. stmt' \in Statement
    BY <1>2 DEF Statement
  <2>2. faults' \in 0 .. MaxFaults
    BY <1>0, <1>1, FaultCount
  <2>3. AckedOK'
    BY <1>0, <1>1, <1>5, CatalogFacts DEF Types, AckedOK
  <2>. QED BY <1>0, <1>1, <1>7, <2>1, <2>2, <2>3 DEF Types, TreesOK, HeapsOK, TreeFilesOK
<1>10. StmtInv'
  BY <1>2, <1>3 DEF StmtInv, CreatingTable, CreatingIndex, Inserting
<1>11. StorageInv'
  BY <1>0, <1>1, <1>3, <1>4, <1>5 DEF StorageInv
<1>12. RecordsInv'
  <2>1. ASSUME NEW n \in Loaded' PROVE Harmless(catalogFile.recs[n])'
    <3>1. CASE n \in Loaded
      <4>1. Harmless(catalogFile.recs[n])
        BY <1>0, <3>1 DEF RecordsInv
      <4>. QED BY <1>1, <1>3, <1>4, <1>8, <3>1, <4>1 DEF Harmless
    <3>2. CASE n = Len(catalogFile.recs) + 1
      BY <1>0, <1>3, <1>4, <1>5, <1>6, <1>8, <3>2, CatalogFacts DEF Harmless
    <3>. QED BY <1>8, <3>1, <3>2
  <2>2. ASSUME NEW id \in Settled' PROVE Recorded(id)'
    <3>1. CASE id \in Settled
      <4>1. PICK n \in Loaded : /\ n <= Held(catalogFile)
                                /\ catalogFile.recs[n] = [id |-> id, name |-> tables[id]]
        BY <1>0, <3>1 DEF RecordsInv, Recorded
      <4>2. n \in Loaded' /\ n <= Held(catalogFile')
        BY <1>7, <1>8, <4>1
      <4>. QED BY <1>4, <1>8, <4>1, <4>2 DEF Recorded
    <3>2. CASE id = stmt.id
      BY <1>4, <1>6, <1>7, <1>8, <3>2 DEF Recorded
    <3>. QED BY <1>5, <3>1, <3>2
  <2>. QED BY <1>3, <2>1, <2>2 DEF RecordsInv
<1>13. AckedInv'
  <2>1. AckedInMemory
    BY <1>0, <1>3 DEF AckedInv
  <2>2. acked'.tables = acked.tables \cup {tables[stmt.id]} /\ acked'.rows = acked.rows
    BY <1>0, <1>1 DEF Types, AckedOK
  <2>3. {tables'[id] : id \in Settled'} = acked'.tables
    BY <1>4, <1>5, <2>1, <2>2 DEF AckedInMemory
  <2>4. ASSUME NEW a \in acked'.rows
        PROVE  \E id \in Settled' : tables'[id] = a.table /\ Kept(a, id)'
    BY <1>1, <1>4, <1>5, <2>1, <2>2 DEF AckedInMemory, Kept
  <2>. QED BY <1>3, <2>3, <2>4 DEF AckedInv, AckedInMemory
<1>14. MetadataInv'
  BY <1>0, <1>1, <1>3 DEF MetadataInv
<1>. QED BY <1>4, <1>9, <1>10, <1>11, <1>12, <1>13, <1>14 DEF DInv

(***************************************************************************)
(* CREATE INDEX.                                                           *)
(***************************************************************************)
\* A step that leaves tables and heaps alone.
LEMMA TablesQuiet ==
    ASSUME CatInv, Types, StorageInv, NewTable = {}, NewTable' = {},
           UNCHANGED <<tables, nextTable, heaps, catalogFile>>
    PROVE  QuietTables /\ QuietHeaps /\ QuietCatalogFile /\ Settled = DOMAIN tables
<1>1. Settled' = Settled /\ Settled = DOMAIN tables
  BY DEF Settled
<1>2. QuietTables
  BY <1>1, CatalogFacts DEF QuietTables
<1>3. HeapsOK /\ HeapsOK'
  BY DEF Types, HeapsOK
<1>4. QuietHeaps
  BY <1>3, HeapFacts DEF QuietHeaps, StorageInv
<1>. QED BY <1>1, <1>2, <1>4, CatalogFileQuiet

\* An index entry with another root.
LEMMA EntryFacts ==
    ASSUME NEW e \in IndexEntry, NEW root \in Roots
    PROVE  /\ [e EXCEPT !.root = root] \in TreeEntry /\ [e EXCEPT !.root = root] \in IndexEntry
           /\ [e EXCEPT !.root = root].root = root
           /\ [e EXCEPT !.root = root].table = e.table
BY DEF IndexEntry, TreeEntry

LEMMA BeginCreateIndexStep ==
    ASSUME DInv, NEW name \in IndexNames, NEW t \in Ids, NEW c \in Columns,
           BeginCreateIndex(name, t, c)
    PROVE  DInv'
<1>0. CatInv /\ Types /\ StmtInv /\ StorageInv
  BY DEF DInv
<1>1. /\ In("idle") /\ CreateIndex(name, t, c) /\ stmt' = [phase |-> "index_file", id |-> nextIndex]
      /\ NoFault
      /\ UNCHANGED <<trees, acked, metadata, catalogFile, indexFile, heaps, treeFiles>>
  BY DEF BeginCreateIndex, files
<1>2. CatInv'
  <2>1. CatalogNext
    BY <1>1 DEF CatalogNext
  <2>. QED BY <1>0, <2>1, CatInvStep
<1>3. /\ DOMAIN indexes' = DOMAIN indexes \cup {nextIndex} /\ indexes'[nextIndex].table = t
      /\ \A id \in DOMAIN indexes : id # nextIndex => indexes'[id] = indexes[id]
      /\ t \in DOMAIN tables /\ nextIndex # MaxId /\ UNCHANGED <<tables, nextTable>>
  <2>1. /\ indexes' = Put(indexes, nextIndex,
                           [name |-> name, table |-> t, column |-> c, root |-> NoRoot])
        /\ t \in DOMAIN tables /\ nextIndex # MaxId /\ UNCHANGED <<tables, nextTable>>
    BY <1>1 DEF CreateIndex, CanIndex
  <2>. QED BY <2>1 DEF Put
<1>4. nextIndex \in Ids /\ nextIndex \notin DOMAIN indexes
  BY <1>0, <1>3, CatalogFacts, CatalogConstants DEF Ids
<1>5. In("index_file")' /\ CreatingIndex' /\ stmt'.id = nextIndex
  BY <1>1 DEF In, CreatingIndex
<1>6. /\ NewTable' = {} /\ NewIndex' = {nextIndex} /\ NewTable = {} /\ NewIndex = {}
      /\ Running /\ Running' /\ ~In("load_indexes")' /\ ~Inserting' /\ ~Loading' /\ ~CreatingTable'
  BY <1>1, <1>5, Phases DEF PhaseFacts
<1>7. Types'
  <2>1. stmt' \in Statement
    BY <1>1, <1>4 DEF Statement
  <2>2. faults' \in 0 .. MaxFaults
    BY <1>0, <1>1, FaultCount
  <2>. QED BY <1>0, <1>1, <2>1, <2>2 DEF Types, TreesOK, HeapsOK, TreeFilesOK, AckedOK
<1>8. StmtInv'
  <2>1. ~In("table_record")' /\ ~In("index_record")' /\ ~In("version")'
    BY <1>5 DEF In
  <2>. QED BY <1>3, <1>6, <2>1 DEF StmtInv
<1>9. QuietTables /\ QuietHeaps /\ QuietCatalogFile /\ Settled = DOMAIN tables /\ Settled' = Settled
  <2>1. QuietTables /\ QuietHeaps /\ QuietCatalogFile /\ Settled = DOMAIN tables
    BY <1>0, <1>1, <1>3, <1>6, TablesQuiet
  <2>. QED BY <2>1 DEF QuietTables
<1>10. StorageInv'
  BY <1>0, <1>1, <1>3, <1>4, <1>6, <1>9 DEF StorageInv
<1>11. QuietAcked
  BY <1>1, AckedQuiet
<1>. QED BY <1>1, <1>2, <1>6, <1>7, <1>8, <1>9, <1>10, <1>11, QuietStep DEF DInv

\* A CREATE INDEX that fails takes its index out of the catalog.
LEMMA IndexUndone ==
    ASSUME DInv, CreatingIndex, RemoveIndex(stmt.id), Return, NoFault \/ Fault, TreeFilesOK',
           \A i \in DOMAIN treeFiles : i # stmt.id => i \in DOMAIN treeFiles',
           Whole(indexFile', Version),
           UNCHANGED <<trees, metadata, catalogFile, heaps, acked>>
    PROVE  DInv'
<1>0. CatInv /\ Types /\ StmtInv /\ StorageInv
  BY DEF DInv
<1>1. In("idle")' /\ stmt' = [phase |-> "idle"]
  BY DEF Return, Goto, In
<1>2. /\ NewTable' = {} /\ NewIndex' = {} /\ NewTable = {} /\ NewIndex = {stmt.id}
      /\ Running /\ Running' /\ ~In("load_indexes")' /\ ~Inserting' /\ ~Loading'
      /\ ~CreatingTable' /\ ~CreatingIndex'
  BY <1>1, Phases DEF PhaseFacts
<1>3. CatInv'
  BY <1>0, IndexRemoved
<1>4. /\ DOMAIN indexes' = DOMAIN indexes \ {stmt.id}
      /\ \A id \in DOMAIN indexes : id # stmt.id => indexes'[id] = indexes[id]
      /\ UNCHANGED <<tables, nextTable>>
  <2>1. indexes' = Without(indexes, stmt.id) /\ UNCHANGED <<tables, nextTable>>
    BY DEF RemoveIndex
  <2>. QED BY <2>1 DEF Without, Restrict
<1>5. Types'
  <2>1. stmt' \in Statement
    BY <1>1 DEF Statement
  <2>2. faults' \in 0 .. MaxFaults
    BY <1>0, FaultCount
  <2>. QED BY <1>0, <2>1, <2>2 DEF Types, TreesOK, HeapsOK, AckedOK
<1>6. StmtInv'
  BY <1>1, <1>2 DEF StmtInv, CreatingTable, CreatingIndex, Inserting
<1>7. QuietTables /\ QuietHeaps /\ QuietCatalogFile /\ Settled = DOMAIN tables /\ Settled' = Settled
  <2>1. QuietTables /\ QuietHeaps /\ QuietCatalogFile /\ Settled = DOMAIN tables
    BY <1>0, <1>2, <1>4, TablesQuiet
  <2>. QED BY <2>1 DEF QuietTables
<1>8. StorageInv'
  BY <1>0, <1>2, <1>4, <1>7 DEF StorageInv
<1>9. QuietAcked
  BY AckedQuiet
<1>. QED BY <1>2, <1>3, <1>5, <1>6, <1>7, <1>8, <1>9, QuietStep DEF DInv

LEMMA IndexRefusedStep == ASSUME DInv, IndexFileExists \/ BuildIndexRefused PROVE DInv'
<1>1. /\ In("index_file") /\ RemoveIndex(stmt.id) /\ Return /\ NoFault
      /\ UNCHANGED <<trees, acked, metadata, catalogFile, indexFile, heaps, treeFiles>>
  BY DEF IndexFileExists, BuildIndexRefused, UndoIndex, files
<1>2. CreatingIndex /\ TreeFilesOK' /\ Whole(indexFile', Version)
  BY <1>1 DEF CreatingIndex, DInv, Types, TreeFilesOK
<1>. QED BY <1>1, <1>2, IndexUndone

\* A new tree joins the tree files.
LEMMA TreeAdded ==
    ASSUME TreeFilesOK, NEW id \in Ids, NEW found, NEW root \in Roots,
           found \in UNION {[S -> 1 .. MaxRows] : S \in SUBSET Keys},
           treeFiles' = Put(treeFiles, id, NewTree(found, root))
    PROVE  /\ TreeFilesOK' /\ DOMAIN treeFiles' = DOMAIN treeFiles \cup {id}
           /\ treeFiles'[id].root = root
<1>1. NewTree(found, root) \in Tree /\ NewTree(found, root).root = root
  BY DEF NewTree, Tree
<1>2. DOMAIN treeFiles' = DOMAIN treeFiles \cup {id} /\ treeFiles'[id] = NewTree(found, root)
  BY DEF Put
<1>. QED BY <1>1, <1>2, PutType DEF TreeFilesOK

LEMMA BuildIndexFailsStep == ASSUME DInv, BuildIndexFails PROVE DInv'
<1>1. /\ In("index_file") /\ stmt.id \notin DOMAIN treeFiles /\ RemoveIndex(stmt.id) /\ Return /\ Fault
      /\ \/ UNCHANGED treeFiles
         \/ \E root \in Roots : treeFiles' = Put(treeFiles, stmt.id, NewTree(Empty, root))
      /\ UNCHANGED <<trees, metadata, catalogFile, indexFile, heaps, acked>>
  BY DEF BuildIndexFails, UndoIndex
<1>2. CreatingIndex /\ TreeFilesOK /\ Whole(indexFile', Version) /\ stmt.id \in Ids
  BY <1>1, StmtShape DEF CreatingIndex, DInv, Types
<1>3. CASE UNCHANGED treeFiles
  <2>1. TreeFilesOK'
    BY <1>2, <1>3 DEF TreeFilesOK
  <2>. QED BY <1>1, <1>2, <1>3, <2>1, IndexUndone
<1>4. ASSUME NEW root \in Roots, treeFiles' = Put(treeFiles, stmt.id, NewTree(Empty, root))
      PROVE  DInv'
  <2>1. Empty \in [{} -> 1 .. MaxRows]
    BY DEF Empty
  <2>2. Empty \in UNION {[S -> 1 .. MaxRows] : S \in SUBSET Keys}
    BY <2>1
  <2>3. TreeFilesOK' /\ DOMAIN treeFiles' = DOMAIN treeFiles \cup {stmt.id}
    BY <1>2, <1>4, <2>2, TreeAdded
  <2>. QED BY <1>1, <1>2, <2>3, IndexUndone
<1>. QED BY <1>1, <1>3, <1>4

\* The tree and the entry the steps after the tree file write.
LEMMA NewIndexFacts ==
    ASSUME DInv, In("index_record")
    PROVE  /\ stmt.id \in Ids /\ stmt.id \in DOMAIN indexes /\ stmt.id \in DOMAIN treeFiles
           /\ treeFiles[stmt.id].root \in Roots /\ indexes[stmt.id] \in IndexEntry
           /\ EntryWithRoot(stmt.id) \in TreeEntry /\ EntryWithRoot(stmt.id) \in IndexEntry
           /\ EntryWithRoot(stmt.id).root = treeFiles[stmt.id].root
           /\ EntryWithRoot(stmt.id).table = indexes[stmt.id].table
           /\ [id |-> stmt.id, entry |-> EntryWithRoot(stmt.id)] \in Version
<1>1. CatInv /\ Types /\ StmtInv
  BY DEF DInv
<1>2. CreatingIndex
  BY DEF CreatingIndex
<1>3. NewIndex = {stmt.id}
  BY <1>2 DEF NewIndex
<1>4. stmt.id \in Ids /\ stmt.id \in DOMAIN indexes /\ stmt.id \in DOMAIN treeFiles
  BY <1>1, <1>2, <1>3, StmtShape DEF StmtInv, Types
<1>6. treeFiles[stmt.id].root \in Roots
  BY <1>1 DEF StmtInv
<1>7. indexes[stmt.id] \in IndexEntry
  BY <1>1, <1>4, CatalogFacts
<1>8. /\ EntryWithRoot(stmt.id) \in TreeEntry /\ EntryWithRoot(stmt.id) \in IndexEntry
      /\ EntryWithRoot(stmt.id).root = treeFiles[stmt.id].root
      /\ EntryWithRoot(stmt.id).table = indexes[stmt.id].table
  BY <1>6, <1>7, EntryFacts DEF EntryWithRoot
<1>. QED BY <1>4, <1>6, <1>7, <1>8 DEF Version

LEMMA AppendIndexRefusedStep == ASSUME DInv, AppendIndexRefused PROVE DInv'
<1>1. /\ In("index_record") /\ RemoveIndex(stmt.id) /\ Return /\ NoFault
      /\ indexFile' \in {indexFile, Refused(indexFile)}
      /\ treeFiles' = Without(treeFiles, stmt.id)
      /\ UNCHANGED <<trees, metadata, catalogFile, heaps, acked>>
  BY DEF AppendIndexRefused, UndoIndex
<1>2. CreatingIndex /\ TreeFilesOK /\ Whole(indexFile, Version)
  BY <1>1 DEF CreatingIndex, DInv, Types
<1>3. Whole(indexFile', Version)
  BY <1>1, <1>2, FileRefused
<1>4. TreeFilesOK'
  BY <1>1, <1>2, WithoutType DEF TreeFilesOK
<1>5. \A i \in DOMAIN treeFiles : i # stmt.id => i \in DOMAIN treeFiles'
  BY <1>1 DEF Without, Restrict
<1>. QED BY <1>1, <1>2, <1>3, <1>4, <1>5, IndexUndone

LEMMA AppendIndexFailsStep == ASSUME DInv, AppendIndexFails PROVE DInv'
<1>1. /\ In("index_record") /\ RemoveIndex(stmt.id) /\ Return /\ Fault /\ Takes(indexFile)
      /\ indexFile' \in FailedWrites(indexFile, [id |-> stmt.id, entry |-> EntryWithRoot(stmt.id)])
      /\ treeFiles' = Without(treeFiles, stmt.id)
      /\ UNCHANGED <<trees, metadata, catalogFile, heaps, acked>>
  BY DEF AppendIndexFails, UndoIndex
<1>2. CreatingIndex /\ TreeFilesOK /\ Whole(indexFile, Version)
  BY <1>1 DEF CreatingIndex, DInv, Types
<1>3. [id |-> stmt.id, entry |-> EntryWithRoot(stmt.id)] \in Version
  BY <1>1, NewIndexFacts
<1>4. Whole(indexFile', Version)
  BY <1>1, <1>2, <1>3, FileWrites
<1>5. TreeFilesOK'
  BY <1>1, <1>2, WithoutType DEF TreeFilesOK
<1>6. \A i \in DOMAIN treeFiles : i # stmt.id => i \in DOMAIN treeFiles'
  BY <1>1 DEF Without, Restrict
<1>. QED BY <1>1, <1>2, <1>4, <1>5, <1>6, IndexUndone

\* The entries of a tree are keys and positions of rows.
LEMMA EntriesType ==
    ASSUME NEW rows \in Seq(Rows), Len(rows) <= MaxRows, NEW c \in Columns
    PROVE  Entries(rows, c) \in UNION {[S -> 1 .. MaxRows] : S \in SUBSET Keys}
<1>. DEFINE D == {rows[i][c] : i \in DOMAIN rows}
<1>1. Len(rows) \in Nat /\ DOMAIN rows = 1 .. Len(rows)
  OBVIOUS
<1>2. ASSUME NEW i \in DOMAIN rows PROVE rows[i][c] \in Keys /\ i \in 1 .. MaxRows
  <2>1. rows[i] \in Rows
    BY <1>1
  <2>. QED BY <1>1, <2>1, DatabaseConstants DEF Rows
<1>3. D \in SUBSET Keys
  BY <1>2
<1>4. ASSUME NEW k \in D PROVE (CHOOSE i \in DOMAIN rows : rows[i][c] = k) \in 1 .. MaxRows
  <2>1. \E i \in DOMAIN rows : rows[i][c] = k
    OBVIOUS
  <2>. QED BY <1>2, <2>1
<1>5. Entries(rows, c) \in [D -> 1 .. MaxRows]
  BY <1>4 DEF Entries
<1>. QED BY <1>3, <1>5

LEMMA BuildIndexStep == ASSUME DInv, BuildIndex PROVE DInv'
<1>0. CatInv /\ Types /\ StmtInv /\ StorageInv
  BY DEF DInv
<1>1. /\ In("index_file") /\ NoFault
      /\ \E root \in Roots :
            treeFiles' = Put(treeFiles, stmt.id, NewTree(Entries(IndexedRows, IndexedColumn), root))
      /\ stmt' = [stmt EXCEPT !.phase = "index_record"]
      /\ UNCHANGED <<catalogVars, trees, metadata, catalogFile, indexFile, heaps, acked>>
  BY DEF BuildIndex
<1>2. CreatingIndex /\ stmt.id \in Ids /\ stmt' = [phase |-> "index_record", id |-> stmt.id]
  BY <1>0, <1>1, StmtShape DEF Types, CreatingIndex
<1>3. In("index_record")' /\ CreatingIndex' /\ stmt'.id = stmt.id
  BY <1>2 DEF In, CreatingIndex
<1>4. /\ NewTable' = {} /\ NewIndex' = {stmt.id} /\ NewTable = {} /\ NewIndex = {stmt.id}
      /\ Running /\ Running' /\ ~In("load_indexes")' /\ ~Inserting' /\ ~Loading' /\ ~CreatingTable'
  BY <1>2, <1>3, Phases DEF PhaseFacts
<1>5. UNCHANGED <<tables, nextTable, indexes>> /\ CatInv'
  BY <1>0, <1>1, CatInvStep DEF catalogVars
<1>6. /\ TreeFilesOK' /\ DOMAIN treeFiles' = DOMAIN treeFiles \cup {stmt.id}
      /\ treeFiles'[stmt.id].root \in Roots
  <2>1. stmt.id \in DOMAIN indexes /\ indexes[stmt.id] \in IndexEntry
    BY <1>0, <1>4, CatalogFacts DEF StmtInv
  <2>2. IndexedColumn \in Columns /\ indexes[stmt.id].table \in DOMAIN heaps
    BY <1>0, <2>1 DEF IndexedColumn, IndexEntry, StorageInv
  <2>3. IndexedRows \in Seq(Rows) /\ Len(IndexedRows) <= MaxRows
    BY <1>0, <2>2, HeapFacts DEF IndexedHeap, IndexedRows, Types
  <2>4. Entries(IndexedRows, IndexedColumn) \in UNION {[S -> 1 .. MaxRows] : S \in SUBSET Keys}
    BY <2>2, <2>3, EntriesType
  <2>5. TreeFilesOK
    BY <1>0 DEF Types
  <2>6. PICK root \in Roots :
          treeFiles' = Put(treeFiles, stmt.id, NewTree(Entries(IndexedRows, IndexedColumn), root))
    BY <1>1
  <2>. QED BY <1>2, <2>4, <2>5, <2>6, TreeAdded
<1>7. Types'
  <2>1. stmt' \in Statement
    BY <1>2 DEF Statement
  <2>2. faults' \in 0 .. MaxFaults
    BY <1>0, <1>1, FaultCount
  <2>. QED BY <1>0, <1>1, <1>6, <2>1, <2>2 DEF Types, TreesOK, HeapsOK, AckedOK
<1>8. StmtInv'
  <2>1. ~In("table_record")' /\ ~In("version")'
    BY <1>3 DEF In
  <2>. QED BY <1>0, <1>3, <1>4, <1>5, <1>6, <2>1 DEF StmtInv
<1>9. QuietTables /\ QuietHeaps /\ QuietCatalogFile /\ Settled = DOMAIN tables /\ Settled' = Settled
  <2>1. QuietTables /\ QuietHeaps /\ QuietCatalogFile /\ Settled = DOMAIN tables
    BY <1>0, <1>1, <1>4, <1>5, TablesQuiet
  <2>. QED BY <2>1 DEF QuietTables
<1>10. StorageInv'
  BY <1>0, <1>1, <1>4, <1>5, <1>6, <1>9 DEF StorageInv
<1>11. QuietAcked
  BY <1>1, AckedQuiet
<1>. QED BY <1>1, <1>4, <1>5, <1>7, <1>8, <1>9, <1>10, <1>11, QuietStep DEF DInv

LEMMA AppendIndexStep == ASSUME DInv, AppendIndex PROVE DInv'
<1>0. CatInv /\ Types /\ StmtInv /\ StorageInv
  BY DEF DInv
<1>. DEFINE entry == EntryWithRoot(stmt.id)
<1>1. /\ In("index_record") /\ Return /\ NoFault /\ Takes(indexFile)
      /\ indexFile' = Written(indexFile, [id |-> stmt.id, entry |-> entry])
      /\ trees' = Put(trees, stmt.id, entry)
      /\ UpdateIndexRoot(stmt.id, entry.root)
      /\ UNCHANGED <<metadata, catalogFile, heaps, treeFiles, acked>>
  BY DEF AppendIndex
<1>2. /\ stmt.id \in Ids /\ stmt.id \in DOMAIN indexes /\ stmt.id \in DOMAIN treeFiles
      /\ entry \in TreeEntry /\ entry.root \in Roots
      /\ entry = [indexes[stmt.id] EXCEPT !.root = entry.root]
      /\ entry.table = indexes[stmt.id].table
      /\ [id |-> stmt.id, entry |-> entry] \in Version
  <2>1. /\ stmt.id \in Ids /\ stmt.id \in DOMAIN indexes /\ stmt.id \in DOMAIN treeFiles
        /\ entry \in TreeEntry /\ treeFiles[stmt.id].root \in Roots
        /\ entry.root = treeFiles[stmt.id].root
        /\ entry.table = indexes[stmt.id].table
        /\ [id |-> stmt.id, entry |-> entry] \in Version
    BY <1>1, NewIndexFacts
  <2>2. entry = [indexes[stmt.id] EXCEPT !.root = treeFiles[stmt.id].root]
    BY DEF EntryWithRoot
  <2>. QED BY <2>1, <2>2
<1>. HIDE DEF entry
<1>3. CreatingIndex /\ In("idle")' /\ stmt' = [phase |-> "idle"]
  BY <1>1 DEF CreatingIndex, Return, Goto, In
<1>4. /\ NewTable' = {} /\ NewIndex' = {} /\ NewTable = {} /\ NewIndex = {stmt.id}
      /\ Running /\ Running' /\ ~In("load_indexes")' /\ ~Inserting' /\ ~Loading'
      /\ ~CreatingTable' /\ ~CreatingIndex'
  BY <1>3, Phases DEF PhaseFacts
<1>5. /\ DOMAIN indexes' = DOMAIN indexes /\ indexes'[stmt.id] = entry
      /\ \A i \in DOMAIN indexes : i # stmt.id => indexes'[i] = indexes[i]
      /\ UNCHANGED <<tables, nextTable>>
  <2>1. /\ indexes' = [indexes EXCEPT ![stmt.id].root = entry.root]
        /\ UNCHANGED <<tables, nextTable>>
    BY <1>1 DEF UpdateIndexRoot
  <2>2. indexes' = [indexes EXCEPT ![stmt.id] = [indexes[stmt.id] EXCEPT !.root = entry.root]]
    BY <2>1
  <2>3. indexes = [i \in DOMAIN indexes |-> indexes[i]]
    BY <1>0 DEF CatInv, CatalogTypeOK
  <2>. QED BY <1>2, <2>1, <2>2, <2>3
<1>6. CatInv'
  BY <1>0, <1>1, <1>2, RootUpdated
<1>7. /\ DOMAIN trees' = DOMAIN trees \cup {stmt.id} /\ trees'[stmt.id] = entry
      /\ \A i \in DOMAIN trees : i # stmt.id => trees'[i] = trees[i]
  BY <1>1 DEF Put
<1>8. Types'
  <2>1. stmt' \in Statement
    BY <1>3 DEF Statement
  <2>2. faults' \in 0 .. MaxFaults
    BY <1>0, <1>1, FaultCount
  <2>3. TreesOK'
    <3>1. trees \in [DOMAIN trees -> TreeEntry] /\ DOMAIN trees \subseteq Ids
      BY <1>0, CatalogFacts DEF Types, TreesOK, StorageInv
    <3>. QED BY <1>1, <1>2, <3>1, PutType DEF TreesOK
  <2>4. Whole(indexFile', Version)
    BY <1>0, <1>1, <1>2, FileWrites DEF Types
  <2>. QED BY <1>0, <1>1, <2>1, <2>2, <2>3, <2>4 DEF Types, HeapsOK, TreeFilesOK, AckedOK
<1>9. StmtInv'
  BY <1>3, <1>4 DEF StmtInv, CreatingTable, CreatingIndex, Inserting
<1>10. QuietTables /\ QuietHeaps /\ QuietCatalogFile /\ Settled = DOMAIN tables /\ Settled' = Settled
  <2>1. QuietTables /\ QuietHeaps /\ QuietCatalogFile /\ Settled = DOMAIN tables
    BY <1>0, <1>1, <1>4, <1>5, TablesQuiet
  <2>. QED BY <2>1 DEF QuietTables
<1>11. StorageInv'
  BY <1>0, <1>1, <1>2, <1>4, <1>5, <1>7, <1>10 DEF StorageInv
<1>12. QuietAcked
  BY <1>1, AckedQuiet
<1>. QED BY <1>1, <1>4, <1>6, <1>8, <1>9, <1>10, <1>11, <1>12, QuietStep DEF DInv

(***************************************************************************)
(* INSERT.                                                                 *)
(***************************************************************************)
\* A heap is replaced by one that keeps what it stores and is not too long.
LEMMA HeapChanged ==
    ASSUME HeapsOK, NEW t \in DOMAIN heaps, NEW f, Whole(f, Rows), Keeps(heaps[t], f),
           Len(f.recs) <= MaxRows, heaps' = [heaps EXCEPT ![t] = f]
    PROVE  /\ HeapsOK' /\ DOMAIN heaps' = DOMAIN heaps /\ heaps'[t] = f
           /\ \A u \in DOMAIN heaps : Keeps(heaps[u], heaps'[u])
<1>1. f \in File(Rows)
  BY DEF Whole
<1>2. /\ DOMAIN heaps' = DOMAIN heaps /\ heaps'[t] = f
      /\ \A u \in DOMAIN heaps : u # t => heaps'[u] = heaps[u]
  BY DEF HeapsOK
<1>3. HeapsOK'
  <2>1. heaps' \in [DOMAIN heaps' -> File(Rows)]
    BY <1>1 DEF HeapsOK
  <2>. QED BY <1>2, <2>1 DEF HeapsOK
<1>. QED BY <1>2, <1>3, HeapFacts

\* A write to a heap with room.
LEMMA RowWrites ==
    ASSUME HeapsOK, NEW t \in DOMAIN heaps, NEW row \in Rows, Len(heaps[t].recs) < MaxRows,
           Takes(heaps[t])
    PROVE  /\ \A f \in FailedWrites(heaps[t], row) :
                 Whole(f, Rows) /\ Keeps(heaps[t], f) /\ Len(f.recs) <= MaxRows
           /\ Whole(Written(heaps[t], row), Rows) /\ Keeps(heaps[t], Written(heaps[t], row))
           /\ Len(Written(heaps[t], row).recs) <= MaxRows
           /\ Written(heaps[t], row).recs = Append(heaps[t].recs, row)
           /\ Written(heaps[t], row).stored = Len(heaps[t].recs) + 1
<1>1. /\ Whole(heaps[t], Rows) /\ heaps[t].recs \in Seq(Rows)
      /\ Len(heaps[t].recs) \in 0 .. MaxRows
  BY HeapFacts
<1>2. Len(Append(heaps[t].recs, row)) <= MaxRows
  <2>1. Len(Append(heaps[t].recs, row)) = Len(heaps[t].recs) + 1
    BY <1>1
  <2>. QED BY <1>1, <2>1, DatabaseConstants
<1>3. /\ Whole(Written(heaps[t], row), Rows) /\ Keeps(heaps[t], Written(heaps[t], row))
      /\ Written(heaps[t], row).recs = Append(heaps[t].recs, row)
      /\ Written(heaps[t], row).stored = Len(heaps[t].recs) + 1
  BY <1>1, FileWrites
<1>4. ASSUME NEW f \in FailedWrites(heaps[t], row)
      PROVE  Whole(f, Rows) /\ Keeps(heaps[t], f) /\ Len(f.recs) <= MaxRows
  <2>1. Whole(f, Rows) /\ Keeps(heaps[t], f) /\ Grows(heaps[t], f, row)
    BY <1>1, FileWrites
  <2>2. Len(f.recs) <= MaxRows
    BY <1>1, <1>2, <2>1, DatabaseConstants DEF Grows
  <2>. QED BY <2>1, <2>2
<1>. QED BY <1>2, <1>3, <1>4

\* After a row is stored, the statement is done or has more indexes to update.
LEMMA ContinueStep ==
    ASSUME CatInv, Types, CatInv', HeapsOK', NewTable = {}, UNCHANGED tables,
           NEW t \in DOMAIN tables, NEW row \in Rows, NEW rid \in 1 .. MaxRows,
           t \in DOMAIN heaps', rid \in 1 .. heaps'[t].stored, heaps'[t].recs[rid] = row,
           NEW todo, todo \subseteq TableIndexes(t)', todo \subseteq Ids,
           Continue(t, rid, row, todo)
    PROVE  /\ (In("idle")' \/ Inserting') /\ stmt' \in Statement /\ StmtInv'
           /\ AckedOK' /\ QuietAcked
<1>0. t \in Ids /\ tables[t] \in TableNames /\ t \in Settled
  BY CatalogFacts DEF Settled
<1>1. CASE todo = {}
  <2>1. /\ stmt' = [phase |-> "idle"]
        /\ acked' = [acked EXCEPT !.rows =
                         acked.rows \cup {[table |-> tables[t], rid |-> rid, row |-> row]}]
    BY <1>1 DEF Continue, Return, Goto, Acknowledge
  <2>2. In("idle")' /\ stmt' \in Statement
    BY <2>1 DEF In, Statement
  <2>3. StmtInv'
    <3>1. /\ ~CreatingTable' /\ ~CreatingIndex' /\ ~Inserting' /\ ~Loading' /\ ~In("load_indexes")'
          /\ NewTable' = {} /\ NewIndex' = {}
      BY <2>2, Phases DEF PhaseFacts
    <3>. QED BY <3>1 DEF StmtInv, CreatingTable, CreatingIndex, Inserting
  <2>4. /\ acked'.tables = acked.tables
        /\ acked'.rows = acked.rows \cup {[table |-> tables[t], rid |-> rid, row |-> row]}
    BY <2>1 DEF Types, AckedOK
  <2>5. AckedOK'
    <3>1. [table |-> tables[t], rid |-> rid, row |-> row] \in AckedRow
      BY <1>0 DEF AckedRow
    <3>. QED BY <2>1, <3>1 DEF Types, AckedOK
  <2>6. QuietAcked
    <3>1. ASSUME NEW a, a = [table |-> tables[t], rid |-> rid, row |-> row]
          PROVE  tables[t] = a.table /\ Kept(a, t)'
      <4>1. a.table = tables[t] /\ a.rid = rid /\ a.row = row
        BY <3>1
      <4>2. Whole(heaps'[t], Rows)
        BY DEF HeapsOK
      <4>3. /\ heaps'[t].stored \in Nat /\ Held(heaps'[t]) \in Nat
            /\ Held(heaps'[t]) \in heaps'[t].stored .. Len(heaps'[t].recs)
            /\ Len(heaps'[t].recs) \in Nat
        <5>1. heaps'[t].stored \in 0 .. Len(heaps'[t].recs)
          BY <4>2, FileFields
        <5>. QED BY <4>2, <5>1, FileFields
      <4>4. rid \in 1 .. Held(heaps'[t])
        BY <4>3
      <4>. QED BY <4>1, <4>4 DEF Kept
    <3>. QED BY <1>0, <2>4, <3>1 DEF QuietAcked
  <2>. QED BY <2>2, <2>3, <2>5, <2>6
<1>2. CASE todo # {}
  <2>1. /\ stmt' = [phase |-> "index_row", table |-> t, rid |-> rid, todo |-> todo]
        /\ UNCHANGED acked
    BY <1>2 DEF Continue
  <2>2. In("index_row")' /\ Inserting' /\ stmt' \in Statement
    BY <1>0, <2>1 DEF In, Inserting, Statement
  <2>3. StmtInv'
    <3>1. /\ ~CreatingTable' /\ ~CreatingIndex' /\ ~Loading' /\ ~In("load_indexes")'
          /\ ~In("version")' /\ NewTable' = {} /\ NewIndex' = {}
      BY <2>1, <2>2, Phases DEF PhaseFacts, In
    <3>2. /\ stmt'.table \in DOMAIN tables' /\ stmt'.rid <= heaps'[stmt'.table].stored
          /\ stmt'.todo # {} /\ stmt'.todo \subseteq TableIndexes(stmt.table)'
      BY <1>2, <2>1 DEF TableIndexes
    <3>. QED BY <3>1, <3>2 DEF StmtInv, CreatingTable, CreatingIndex
  <2>. QED BY <2>1, <2>2, <2>3, AckedQuiet DEF Types, AckedOK
<1>. QED BY <1>1, <1>2

\* The tables, indexes and trees there are between statements.
LEMMA IdleFacts ==
    ASSUME CatInv, StorageInv, NewTable = {}, NEW t \in DOMAIN tables
    PROVE  /\ t \in DOMAIN heaps /\ t \in Settled
           /\ TableIndexes(t) \subseteq Ids
BY CatalogFacts DEF StorageInv, Settled, TableIndexes

LEMMA InsertRowStep ==
    ASSUME DInv, NEW t \in Ids, NEW row \in Rows, InsertRow(t, row)
    PROVE  DInv'
<1>0. CatInv /\ Types /\ StmtInv /\ StorageInv
  BY DEF DInv
<1>1. /\ In("idle") /\ t \in DOMAIN tables /\ Len(heaps[t].recs) < MaxRows /\ Takes(heaps[t])
      /\ heaps' = [heaps EXCEPT ![t] = Written(heaps[t], row)]
      /\ Continue(t, Len(heaps[t].recs) + 1, row, TableIndexes(t))
      /\ NoFault
      /\ UNCHANGED <<catalogVars, trees, metadata, catalogFile, indexFile, treeFiles>>
  BY DEF InsertRow, CanInsert, RowWritten
<1>2. NewTable = {} /\ NewIndex = {} /\ Running
  BY <1>1, Phases DEF PhaseFacts
<1>3. UNCHANGED <<tables, nextTable, indexes>> /\ CatInv'
  BY <1>0, <1>1, CatInvStep DEF catalogVars
<1>4. t \in DOMAIN heaps /\ t \in Settled /\ TableIndexes(t) \subseteq Ids
  BY <1>0, <1>1, <1>2, IdleFacts
<1>5. /\ HeapsOK' /\ DOMAIN heaps' = DOMAIN heaps
      /\ \A u \in DOMAIN heaps : Keeps(heaps[u], heaps'[u])
      /\ heaps'[t].recs = Append(heaps[t].recs, row) /\ heaps'[t].stored = Len(heaps[t].recs) + 1
  <2>. DEFINE f == Written(heaps[t], row)
  <2>1. HeapsOK
    BY <1>0 DEF Types
  <2>2. /\ Whole(f, Rows) /\ Keeps(heaps[t], f) /\ Len(f.recs) <= MaxRows
        /\ f.recs = Append(heaps[t].recs, row) /\ f.stored = Len(heaps[t].recs) + 1
    BY <1>1, <1>4, <2>1, RowWrites
  <2>. HIDE DEF f
  <2>3. heaps' = [heaps EXCEPT ![t] = f]
    BY <1>1 DEF f
  <2>4. /\ HeapsOK' /\ DOMAIN heaps' = DOMAIN heaps /\ heaps'[t] = f
        /\ \A u \in DOMAIN heaps : Keeps(heaps[u], heaps'[u])
    BY <1>4, <2>1, <2>2, <2>3, HeapChanged
  <2>. QED BY <2>2, <2>4
<1>6. /\ Len(heaps[t].recs) + 1 \in 1 .. MaxRows
      /\ Len(heaps[t].recs) + 1 \in 1 .. heaps'[t].stored
      /\ heaps'[t].recs[Len(heaps[t].recs) + 1] = row
  <2>1. heaps[t].recs \in Seq(Rows) /\ Len(heaps[t].recs) \in 0 .. MaxRows
    BY <1>0, <1>4, HeapFacts DEF Types
  <2>2. Append(heaps[t].recs, row)[Len(heaps[t].recs) + 1] = row
    BY <2>1
  <2>3. Len(heaps[t].recs) + 1 \in 1 .. MaxRows
    BY <1>1, <2>1, DatabaseConstants
  <2>4. Len(heaps[t].recs) + 1 \in 1 .. heaps'[t].stored
    BY <1>5, <2>1
  <2>. QED BY <1>5, <2>2, <2>3, <2>4
<1>7. TableIndexes(t) \subseteq TableIndexes(t)'
  BY <1>1 DEF TableIndexes
<1>8. (In("idle")' \/ Inserting') /\ stmt' \in Statement /\ StmtInv' /\ AckedOK' /\ QuietAcked
  <2>. DEFINE rid == Len(heaps[t].recs) + 1
              todo == TableIndexes(t)
  <2>1. /\ rid \in 1 .. MaxRows /\ rid \in 1 .. heaps'[t].stored /\ heaps'[t].recs[rid] = row
        /\ todo \subseteq TableIndexes(t)' /\ todo \subseteq Ids /\ Continue(t, rid, row, todo)
    BY <1>1, <1>4, <1>6, <1>7
  <2>. HIDE DEF rid, todo
  <2>. QED BY <1>0, <1>1, <1>2, <1>3, <1>5, <2>1, ContinueStep
<1>9. NewTable' = {} /\ NewIndex' = {} /\ Running' /\ ~In("load_indexes")'
  BY <1>8, Phases DEF PhaseFacts
<1>10. Types'
  <2>1. faults' \in 0 .. MaxFaults
    BY <1>0, <1>1, FaultCount
  <2>. QED BY <1>0, <1>1, <1>5, <1>8, <2>1 DEF Types, TreesOK, TreeFilesOK
<1>11. QuietTables
  BY <1>0, <1>2, <1>3, <1>9, CatalogFacts DEF QuietTables, Settled
<1>12. QuietHeaps
  BY <1>0, <1>5 DEF QuietHeaps, StorageInv
<1>13. StorageInv'
  BY <1>0, <1>1, <1>2, <1>3, <1>9, <1>11, <1>12, StorageQuiet DEF QuietHeaps
<1>14. QuietCatalogFile
  BY <1>1, CatalogFileQuiet
<1>. QED BY <1>1, <1>2, <1>3, <1>8, <1>9, <1>10, <1>11, <1>12, <1>13, <1>14, QuietStep DEF DInv

\* An INSERT whose heap does not take the row.
LEMMA RowNotInserted ==
    ASSUME DInv, In("idle"), NEW t \in DOMAIN tables, NoFault \/ Fault,
           NEW f, Whole(f, Rows), Keeps(heaps[t], f), Len(f.recs) <= MaxRows,
           heaps' = [heaps EXCEPT ![t] = f],
           UNCHANGED <<catalogVars, trees, metadata, catalogFile, indexFile, treeFiles, stmt, acked>>
    PROVE  DInv'
<1>0. CatInv /\ Types /\ StmtInv /\ StorageInv
  BY DEF DInv
<1>2. In("idle")'
  BY DEF In
<1>3. /\ NewTable = {} /\ NewIndex = {} /\ Running
      /\ NewTable' = {} /\ NewIndex' = {} /\ Running' /\ ~In("load_indexes")'
      /\ ~CreatingTable' /\ ~CreatingIndex' /\ ~Inserting' /\ ~Loading'
  BY <1>2, Phases DEF PhaseFacts
<1>4. UNCHANGED <<tables, nextTable, indexes>> /\ CatInv'
  BY <1>0, CatInvStep DEF catalogVars
<1>5. t \in DOMAIN heaps /\ HeapsOK
  BY <1>0, <1>3, IdleFacts DEF Types
<1>6. /\ HeapsOK' /\ DOMAIN heaps' = DOMAIN heaps
      /\ \A u \in DOMAIN heaps : Keeps(heaps[u], heaps'[u])
  BY <1>5, HeapChanged
<1>7. Types'
  <2>1. faults' \in 0 .. MaxFaults
    BY <1>0, FaultCount
  <2>. QED BY <1>0, <1>6, <2>1 DEF Types, TreesOK, TreeFilesOK, AckedOK
<1>8. StmtInv'
  BY <1>3 DEF StmtInv, CreatingTable, CreatingIndex, Inserting
<1>9. QuietTables
  BY <1>0, <1>3, <1>4, CatalogFacts DEF QuietTables, Settled
<1>10. QuietHeaps
  BY <1>0, <1>6 DEF QuietHeaps, StorageInv
<1>11. StorageInv'
  BY <1>0, <1>3, <1>4, <1>9, <1>10, StorageQuiet DEF QuietHeaps
<1>12. QuietCatalogFile /\ QuietAcked
  BY AckedQuiet, CatalogFileQuiet
<1>. QED BY <1>3, <1>4, <1>7, <1>8, <1>9, <1>10, <1>11, <1>12, QuietStep DEF DInv

LEMMA InsertRowFailsStep ==
    ASSUME DInv, NEW t \in Ids, NEW row \in Rows, InsertRowFails(t, row)
    PROVE  DInv'
<1>0. CatInv /\ Types /\ StorageInv
  BY DEF DInv
<1>1. /\ In("idle") /\ t \in DOMAIN tables /\ Len(heaps[t].recs) < MaxRows /\ Takes(heaps[t])
      /\ Fault
      /\ \E f \in FailedWrites(heaps[t], row) : heaps' = [heaps EXCEPT ![t] = f]
      /\ UNCHANGED <<catalogVars, trees, metadata, catalogFile, indexFile, treeFiles, stmt, acked>>
  BY DEF InsertRowFails, CanInsert
<1>2. PICK f \in FailedWrites(heaps[t], row) : heaps' = [heaps EXCEPT ![t] = f]
  BY <1>1
<1>3. t \in DOMAIN heaps /\ HeapsOK
  BY <1>0, <1>1, IdleFacts, Phases DEF Types, PhaseFacts
<1>4. Whole(f, Rows) /\ Keeps(heaps[t], f) /\ Len(f.recs) <= MaxRows
  BY <1>1, <1>3, RowWrites
<1>. QED BY <1>1, <1>2, <1>4, RowNotInserted

LEMMA InsertRowRefusedStep ==
    ASSUME DInv, NEW t \in Ids, NEW row \in Rows, InsertRowRefused(t, row)
    PROVE  DInv'
<1>0. CatInv /\ Types /\ StorageInv
  BY DEF DInv
<1>1. /\ In("idle") /\ t \in DOMAIN tables /\ NoFault
      /\ heaps' = [heaps EXCEPT ![t] = Refused(heaps[t])]
      /\ UNCHANGED <<catalogVars, trees, metadata, catalogFile, indexFile, treeFiles, stmt, acked>>
  BY DEF InsertRowRefused, CanInsert
<1>2. t \in DOMAIN heaps /\ HeapsOK
  BY <1>0, <1>1, IdleFacts, Phases DEF Types, PhaseFacts
<1>3. Whole(heaps[t], Rows) /\ Len(heaps[t].recs) <= MaxRows
  BY <1>2 DEF HeapsOK
<1>4. /\ Whole(Refused(heaps[t]), Rows) /\ Keeps(heaps[t], Refused(heaps[t]))
      /\ Len(Refused(heaps[t]).recs) <= MaxRows
  BY <1>3, FileRefused
<1>. QED BY <1>1, <1>4, RowNotInserted

(***************************************************************************)
(* The index entries of an INSERT.                                         *)
(***************************************************************************)
\* What the insert in progress is about.
LEMMA InsertFacts ==
    ASSUME DInv, Inserting
    PROVE  /\ stmt.table \in DOMAIN tables /\ stmt.table \in DOMAIN heaps
           /\ stmt.rid \in 1 .. MaxRows /\ stmt.rid \in 1 .. heaps[stmt.table].stored
           /\ CurrentRow \in Rows
           /\ stmt.todo \subseteq TableIndexes(stmt.table) /\ stmt.todo \subseteq Ids
           /\ CurrentIndex \in stmt.todo /\ CurrentIndex \in DOMAIN trees
           /\ CurrentIndex \in DOMAIN indexes /\ indexes[CurrentIndex] \in IndexEntry
           /\ trees[CurrentIndex] = indexes[CurrentIndex]
           /\ trees[CurrentIndex] \in TreeEntry /\ trees[CurrentIndex].table = stmt.table
           /\ CurrentIndex \in DOMAIN treeFiles /\ treeFiles[CurrentIndex] \in Tree
           /\ CurrentKey \in Keys
<1>0. CatInv /\ Types /\ StmtInv /\ StorageInv
  BY DEF DInv
<1>1. /\ stmt.table \in DOMAIN tables /\ stmt.rid <= heaps[stmt.table].stored
      /\ stmt.todo # {} /\ stmt.todo \subseteq TableIndexes(stmt.table)
      /\ stmt.rid \in 1 .. MaxRows /\ stmt.todo \subseteq Ids /\ NewTable = {}
  BY <1>0, StmtShape, Phases DEF StmtInv, Types, PhaseFacts
<1>2. stmt.table \in DOMAIN heaps /\ HeapsOK
  BY <1>0, <1>1, IdleFacts DEF Types
<1>3. stmt.rid \in 1 .. heaps[stmt.table].stored /\ CurrentRow \in Rows
  <2>1. /\ heaps[stmt.table].recs \in Seq(Rows) /\ Len(heaps[stmt.table].recs) \in 0 .. MaxRows
        /\ heaps[stmt.table].stored \in 0 .. Len(heaps[stmt.table].recs)
    BY <1>2, HeapFacts
  <2>2. stmt.rid \in 1 .. heaps[stmt.table].stored
    BY <1>1, <2>1
  <2>3. stmt.rid \in DOMAIN heaps[stmt.table].recs
    BY <2>1, <2>2, DatabaseConstants
  <2>. QED BY <2>1, <2>2, <2>3 DEF CurrentRow
<1>4. CurrentIndex \in stmt.todo
  BY <1>1, MinIsMember DEF CurrentIndex
<1>5. CurrentIndex \in DOMAIN trees /\ trees[CurrentIndex].table = stmt.table
  BY <1>1, <1>4 DEF TableIndexes
<1>6. /\ trees[CurrentIndex] \in TreeEntry /\ trees[CurrentIndex] = indexes[CurrentIndex]
      /\ CurrentIndex \in DOMAIN indexes /\ CurrentIndex \in DOMAIN treeFiles
  BY <1>0, <1>5 DEF Types, TreesOK, StorageInv
<1>7. treeFiles[CurrentIndex] \in Tree /\ indexes[CurrentIndex] \in IndexEntry
  BY <1>0, <1>6, CatalogFacts DEF Types, TreeFilesOK
<1>8. CurrentKey \in Keys
  <2>1. trees[CurrentIndex].column \in Columns
    BY <1>6 DEF TreeEntry
  <2>. QED BY <1>3, <2>1 DEF CurrentKey, Rows
<1>. QED BY <1>1, <1>2, <1>3, <1>4, <1>5, <1>6, <1>7, <1>8

\* Trees with one more key, with another root, and broken ones.
LEMMA TreeType ==
    ASSUME NEW tree \in Tree
    PROVE  /\ tree.root \in Roots \cup {NoRoot}
           /\ \A k \in Keys, rid \in 1 .. MaxRows :
                 [tree EXCEPT !.found = Put(tree.found, k, rid), !.pages = "dirty"] \in Tree
           /\ \A root \in Roots : [tree EXCEPT !.root = root] \in Tree
           /\ [tree EXCEPT !.pages = "written"] \in Tree
<1>1. /\ tree.root \in Roots \cup {NoRoot}
      /\ tree.found \in UNION {[S -> 1 .. MaxRows] : S \in SUBSET Keys}
  BY DEF Tree
<1>2. ASSUME NEW k \in Keys, NEW rid \in 1 .. MaxRows
      PROVE  [tree EXCEPT !.found = Put(tree.found, k, rid), !.pages = "dirty"] \in Tree
  <2>1. PICK S \in SUBSET Keys : tree.found \in [S -> 1 .. MaxRows]
    BY <1>1
  <2>2. Put(tree.found, k, rid) \in [S \cup {k} -> 1 .. MaxRows] /\ S \cup {k} \in SUBSET Keys
    BY <2>1 DEF Put
  <2>3. Put(tree.found, k, rid) \in UNION {[T -> 1 .. MaxRows] : T \in SUBSET Keys}
    BY <2>2
  <2>. QED BY <2>3 DEF Tree
<1>3. \A root \in Roots : [tree EXCEPT !.root = root] \in Tree
  BY DEF Tree
<1>4. [tree EXCEPT !.pages = "written"] \in Tree
  BY DEF Tree
<1>. QED BY <1>1, <1>2, <1>3, <1>4

LEMMA BrokenTreeType ==
    ASSUME NEW roots, roots \subseteq Roots \cup {NoRoot}, NEW tree \in BrokenTrees(roots)
    PROVE  tree \in Tree
<1>1. Empty \in [{} -> 1 .. MaxRows]
  BY DEF Empty
<1>2. Empty \in UNION {[S -> 1 .. MaxRows] : S \in SUBSET Keys}
  BY <1>1
<1>. QED BY <1>2 DEF BrokenTrees, Tree

\* A step of an INSERT at one of the indexes of its table.
LEMMA RowStep ==
    ASSUME DInv, Inserting, CatInv', TreesOK', TreeFilesOK', Whole(indexFile', Version),
           NoFault \/ Fault, UNCHANGED <<tables, nextTable, metadata, catalogFile, heaps>>,
           DOMAIN treeFiles' = DOMAIN treeFiles, DOMAIN indexes' = DOMAIN indexes,
           DOMAIN trees' = DOMAIN trees,
           \A i \in DOMAIN trees : trees'[i] = indexes'[i] /\ trees'[i].table = trees[i].table,
           \/ NextIndexOf
           \/ Return /\ UNCHANGED acked
           \/ /\ In("index_row") /\ stmt' = [stmt EXCEPT !.phase = "version"] /\ UNCHANGED acked
              /\ treeFiles'[CurrentIndex].root \in Roots
    PROVE  DInv'
<1>0. CatInv /\ Types /\ StmtInv /\ StorageInv
  BY DEF DInv
<1>1. NewTable = {} /\ NewIndex = {} /\ Running
  BY Phases DEF PhaseFacts
<1>2. /\ stmt.table \in DOMAIN tables /\ stmt.table \in DOMAIN heaps
      /\ stmt.rid \in 1 .. MaxRows /\ stmt.rid \in 1 .. heaps[stmt.table].stored
      /\ CurrentRow \in Rows /\ stmt.todo \subseteq TableIndexes(stmt.table)
      /\ stmt.todo \subseteq Ids
  BY InsertFacts
<1>3. HeapsOK'
  BY <1>0 DEF Types, HeapsOK
<1>4. TableIndexes(stmt.table) = {i \in DOMAIN trees' : trees'[i].table = stmt.table}
  BY DEF TableIndexes
<1>5. /\ (In("idle")' \/ Inserting') /\ stmt' \in Statement /\ StmtInv'
      /\ AckedOK' /\ QuietAcked
  <2>1. CASE NextIndexOf
    <3>1. PICK t, rid, row, todo : /\ t = stmt.table /\ rid = stmt.rid /\ row = CurrentRow
                                  /\ todo = stmt.todo \ {CurrentIndex}
      OBVIOUS
    <3>2. /\ t \in DOMAIN tables /\ row \in Rows /\ rid \in 1 .. MaxRows /\ t \in DOMAIN heaps'
          /\ rid \in 1 .. heaps'[t].stored /\ heaps'[t].recs[rid] = row
          /\ todo \subseteq Ids /\ Continue(t, rid, row, todo)
      BY <1>2, <2>1, <3>1 DEF CurrentRow, NextIndexOf
    <3>3. todo \subseteq {i \in DOMAIN trees' : trees'[i].table = t}
      BY <1>2, <1>4, <3>1
    <3>4. todo \subseteq TableIndexes(t)'
      BY <3>3 DEF TableIndexes
    <3>. QED BY <1>0, <1>1, <1>3, <3>2, <3>4, ContinueStep
  <2>2. CASE Return /\ UNCHANGED acked
    <3>1. In("idle")' /\ stmt' \in Statement
      BY <2>2 DEF Return, Goto, In, Statement
    <3>2. /\ ~CreatingTable' /\ ~CreatingIndex' /\ ~Inserting' /\ ~Loading' /\ ~In("load_indexes")'
          /\ NewTable' = {} /\ NewIndex' = {}
      BY <3>1, Phases DEF PhaseFacts
    <3>3. StmtInv'
      BY <3>2 DEF StmtInv, CreatingTable, CreatingIndex, Inserting
    <3>. QED BY <1>0, <2>2, <3>1, <3>3, AckedQuiet DEF Types, AckedOK
  <2>3. CASE /\ In("index_row") /\ stmt' = [stmt EXCEPT !.phase = "version"] /\ UNCHANGED acked
             /\ treeFiles'[CurrentIndex].root \in Roots
    <3>1. stmt' = [phase |-> "version", table |-> stmt.table, rid |-> stmt.rid, todo |-> stmt.todo]
      BY <1>0, <2>3, StmtShape DEF Types
    <3>2. In("version")' /\ Inserting' /\ stmt' \in Statement
      BY <1>0, <1>2, <3>1, CatalogFacts DEF In, Inserting, Statement
    <3>3. /\ ~CreatingTable' /\ ~CreatingIndex' /\ ~Loading' /\ ~In("load_indexes")'
          /\ NewTable' = {} /\ NewIndex' = {}
      BY <3>2, Phases DEF PhaseFacts
    <3>4. /\ stmt'.table \in DOMAIN tables' /\ stmt'.rid <= heaps'[stmt'.table].stored
          /\ stmt'.todo # {} /\ stmt'.todo \subseteq TableIndexes(stmt.table)'
      <4>1. stmt'.table = stmt.table /\ stmt'.rid = stmt.rid /\ stmt'.todo = stmt.todo
        BY <3>1
      <4>2. TableIndexes(stmt.table)' = TableIndexes(stmt.table)
        BY <1>4, <4>1 DEF TableIndexes
      <4>3. stmt.todo # {} /\ stmt.rid <= heaps[stmt.table].stored
        BY <1>0 DEF StmtInv
      <4>. QED BY <1>2, <4>1, <4>2, <4>3
    <3>5. StmtInv'
      <4>1. CurrentIndex' = CurrentIndex
        BY <3>1 DEF CurrentIndex
      <4>. QED BY <2>3, <3>3, <3>4, <4>1 DEF StmtInv, CreatingTable, CreatingIndex
    <3>. QED BY <1>0, <2>3, <3>2, <3>5, AckedQuiet DEF Types, AckedOK
  <2>. QED BY <2>1, <2>2, <2>3
<1>6. NewTable' = {} /\ NewIndex' = {} /\ Running' /\ ~In("load_indexes")'
  BY <1>5, Phases DEF PhaseFacts
<1>7. Types'
  <2>1. faults' \in 0 .. MaxFaults
    BY <1>0, FaultCount
  <2>. QED BY <1>0, <1>3, <1>5, <2>1 DEF Types
<1>8. QuietTables /\ QuietHeaps /\ QuietCatalogFile /\ Settled = DOMAIN tables /\ Settled' = Settled
  <2>1. QuietTables /\ QuietHeaps /\ QuietCatalogFile /\ Settled = DOMAIN tables
    BY <1>0, <1>1, <1>6, TablesQuiet
  <2>. QED BY <2>1 DEF QuietTables
<1>9. StorageInv'
  BY <1>0, <1>1, <1>6, <1>8 DEF StorageInv
<1>. QED BY <1>1, <1>5, <1>6, <1>7, <1>8, <1>9, QuietStep DEF DInv

\* The tree of an index is replaced by another tree.
LEMMA TreeChanged ==
    ASSUME TreeFilesOK, NEW i \in DOMAIN treeFiles, NEW tree \in Tree,
           treeFiles' = [treeFiles EXCEPT ![i] = tree]
    PROVE  TreeFilesOK' /\ DOMAIN treeFiles' = DOMAIN treeFiles
BY DEF TreeFilesOK

\* A step that changes at most the tree of the current index.
LEMMA RowTreeStep ==
    ASSUME DInv, Inserting, NoFault \/ Fault, NEW tree \in Tree,
           treeFiles' = [treeFiles EXCEPT ![CurrentIndex] = tree],
           UNCHANGED <<catalogVars, trees, metadata, catalogFile, indexFile, heaps>>,
           \/ NextIndexOf
           \/ Return /\ UNCHANGED acked
           \/ /\ In("index_row") /\ stmt' = [stmt EXCEPT !.phase = "version"] /\ UNCHANGED acked
              /\ treeFiles'[CurrentIndex].root \in Roots
    PROVE  DInv'
<1>0. CatInv /\ Types /\ StorageInv /\ NewIndex = {}
  BY Phases DEF DInv, PhaseFacts
<1>1. TreeFilesOK' /\ DOMAIN treeFiles' = DOMAIN treeFiles
  <2>1. CurrentIndex \in DOMAIN treeFiles /\ TreeFilesOK
    BY <1>0, InsertFacts DEF Types
  <2>. QED BY <2>1, TreeChanged
<1>2. UNCHANGED <<tables, nextTable, indexes>> /\ CatInv'
  BY <1>0, CatInvStep DEF catalogVars
<1>3. TreesOK' /\ Whole(indexFile', Version)
  BY <1>0 DEF Types, TreesOK
<1>4. \A i \in DOMAIN trees : trees'[i] = indexes'[i] /\ trees'[i].table = trees[i].table
  BY <1>0, <1>2 DEF StorageInv
<1>. QED BY <1>1, <1>2, <1>3, <1>4, RowStep

\* The tree of the current index with its new key.
LEMMA WithKeyType ==
    ASSUME DInv, Inserting
    PROVE  /\ CurrentIndex \in DOMAIN treeFiles /\ WithKey(treeFiles[CurrentIndex]) \in Tree
           /\ WithKey(treeFiles[CurrentIndex]).root = treeFiles[CurrentIndex].root
<1>. DEFINE tree == treeFiles[CurrentIndex]
<1>1. tree \in Tree /\ CurrentKey \in Keys /\ stmt.rid \in 1 .. MaxRows
  BY InsertFacts
<1>2. CurrentIndex \in DOMAIN treeFiles
  BY InsertFacts
<1>. HIDE DEF tree
<1>3. PICK found : found = Put(tree.found, CurrentKey, stmt.rid)
  OBVIOUS
<1>4. [tree EXCEPT !.found = found, !.pages = "dirty"] \in Tree
  BY <1>1, <1>3, TreeType
<1>5. [tree EXCEPT !.found = found, !.pages = "dirty"].root = tree.root
  BY <1>1 DEF Tree
<1>6. PICK grown : grown = [tree EXCEPT !.found = found, !.pages = "dirty"]
  OBVIOUS
<1>7. WithKey(tree) = IF tree.pages = "broken" THEN tree ELSE grown
  BY <1>3, <1>6 DEF WithKey
<1>8. grown \in Tree /\ grown.root = tree.root
  BY <1>4, <1>5, <1>6
<1>9. WithKey(tree) \in Tree /\ WithKey(tree).root = tree.root
  BY <1>1, <1>7, <1>8
<1>. QED BY <1>2, <1>9 DEF tree

LEMMA IndexRowStep == ASSUME DInv, IndexRow PROVE DInv'
<1>1. /\ In("index_row") /\ NextIndexOf /\ NoFault
      /\ treeFiles' = [treeFiles EXCEPT ![CurrentIndex] = WithKey(treeFiles[CurrentIndex])]
      /\ UNCHANGED <<catalogVars, trees, metadata, catalogFile, indexFile, heaps>>
  BY DEF IndexRow
<1>2. Inserting
  BY <1>1 DEF Inserting
<1>3. WithKey(treeFiles[CurrentIndex]) \in Tree
  BY <1>2, WithKeyType
<1>. QED BY <1>1, <1>2, <1>3, RowTreeStep

LEMMA IndexRowGrowsStep == ASSUME DInv, IndexRowGrows PROVE DInv'
<1>. DEFINE root == treeFiles[CurrentIndex].root + 1
            tree == [WithKey(treeFiles[CurrentIndex]) EXCEPT !.root = root]
<1>1. /\ In("index_row") /\ root \in Roots /\ NoFault
      /\ treeFiles' = [treeFiles EXCEPT ![CurrentIndex] =
                          [WithKey(treeFiles[CurrentIndex]) EXCEPT !.root = @ + 1]]
      /\ stmt' = [stmt EXCEPT !.phase = "version"]
      /\ UNCHANGED <<catalogVars, trees, metadata, catalogFile, indexFile, heaps, acked>>
  BY DEF IndexRowGrows
<1>2. Inserting
  BY <1>1 DEF Inserting
<1>3. /\ CurrentIndex \in DOMAIN treeFiles /\ WithKey(treeFiles[CurrentIndex]) \in Tree
      /\ WithKey(treeFiles[CurrentIndex]).root = treeFiles[CurrentIndex].root
  BY <1>2, WithKeyType
<1>4. treeFiles' = [treeFiles EXCEPT ![CurrentIndex] = tree]
  BY <1>1, <1>3
<1>. HIDE DEF root
<1>5. tree \in Tree /\ tree.root = root
  BY <1>1, <1>3, TreeType DEF Tree
<1>. HIDE DEF tree
<1>6. treeFiles'[CurrentIndex].root \in Roots
  <2>1. treeFiles'[CurrentIndex] = tree
    BY <1>3, <1>4
  <2>. QED BY <1>1, <1>5, <2>1
<1>. QED BY <1>1, <1>2, <1>4, <1>5, <1>6, RowTreeStep

LEMMA IndexRowFailsStep == ASSUME DInv, IndexRowFails PROVE DInv'
<1>1. /\ In("index_row") /\ (NoFault \/ Fault) /\ Return
      /\ \E tree \in Damaged(treeFiles[CurrentIndex]) :
            treeFiles' = [treeFiles EXCEPT ![CurrentIndex] = tree]
      /\ UNCHANGED <<catalogVars, trees, metadata, catalogFile, indexFile, heaps, acked>>
  BY DEF IndexRowFails
<1>2. Inserting
  BY <1>1 DEF Inserting
<1>3. PICK tree \in Damaged(treeFiles[CurrentIndex]) :
               treeFiles' = [treeFiles EXCEPT ![CurrentIndex] = tree]
  BY <1>1
<1>4. tree \in Tree
  <2>. DEFINE roots == {treeFiles[CurrentIndex].root, treeFiles[CurrentIndex].root + 1} \cap Roots
  <2>1. roots \subseteq Roots \cup {NoRoot} /\ tree \in BrokenTrees(roots)
    BY DEF Damaged
  <2>. HIDE DEF roots
  <2>. QED BY <2>1, BrokenTreeType
<1>. QED BY <1>1, <1>2, <1>3, <1>4, RowTreeStep

\* The version of the current index that a grown tree asks for.
LEMMA NewVersionFacts ==
    ASSUME DInv, In("version")
    PROVE  /\ Inserting /\ NewVersion \in Version /\ NewVersion.id = CurrentIndex
           /\ NewVersion.entry \in TreeEntry /\ NewVersion.entry.root \in Roots
           /\ NewVersion.entry.table = trees[CurrentIndex].table
           /\ NewVersion.entry = [indexes[CurrentIndex] EXCEPT !.root = NewVersion.entry.root]
<1>1. Inserting
  BY DEF Inserting
<1>. DEFINE e == indexes[CurrentIndex]
            root == treeFiles[CurrentIndex].root
<1>2. e \in IndexEntry /\ trees[CurrentIndex] = e /\ CurrentIndex \in Ids
  BY <1>1, InsertFacts
<1>3. root \in Roots
  BY DEF DInv, StmtInv
<1>4. NewVersion = [id |-> CurrentIndex, entry |-> [e EXCEPT !.root = root]]
  BY <1>2 DEF NewVersion
<1>. HIDE DEF e, root
<1>5. /\ [e EXCEPT !.root = root] \in TreeEntry /\ [e EXCEPT !.root = root] \in IndexEntry
      /\ [e EXCEPT !.root = root].root = root /\ [e EXCEPT !.root = root].table = e.table
  BY <1>2, <1>3, EntryFacts
<1>6. /\ NewVersion \in Version /\ NewVersion.id = CurrentIndex
      /\ NewVersion.entry = [e EXCEPT !.root = root]
  BY <1>2, <1>4, <1>5 DEF Version
<1>. QED BY <1>1, <1>2, <1>3, <1>5, <1>6 DEF e

LEMMA AppendVersionStep == ASSUME DInv, AppendVersion PROVE DInv'
<1>0. CatInv /\ Types /\ StorageInv
  BY DEF DInv
<1>1. /\ In("version") /\ NextIndexOf /\ NoFault /\ Takes(indexFile)
      /\ indexFile' = Written(indexFile, NewVersion)
      /\ UpdateIndexRoot(CurrentIndex, NewVersion.entry.root)
      /\ trees' = Put(trees, CurrentIndex, NewVersion.entry)
      /\ UNCHANGED <<metadata, catalogFile, heaps, treeFiles>>
  BY DEF AppendVersion, VersionWritten, MoveRoot
<1>2. PICK i, entry : i = CurrentIndex /\ entry = NewVersion.entry
  OBVIOUS
<1>3. /\ Inserting /\ NewVersion \in Version
      /\ entry \in TreeEntry /\ entry.root \in Roots /\ entry.table = trees[i].table
      /\ entry = [indexes[i] EXCEPT !.root = entry.root]
  BY <1>1, <1>2, NewVersionFacts
<1>4. i \in DOMAIN trees /\ i \in DOMAIN indexes
  BY <1>2, <1>3, InsertFacts
<1>5. /\ DOMAIN indexes' = DOMAIN indexes /\ indexes'[i] = entry
      /\ \A j \in DOMAIN indexes : j # i => indexes'[j] = indexes[j]
      /\ UNCHANGED <<tables, nextTable>>
  <2>1. /\ indexes' = [indexes EXCEPT ![i].root = entry.root]
        /\ UNCHANGED <<tables, nextTable>>
    BY <1>1, <1>2 DEF UpdateIndexRoot
  <2>2. indexes' = [indexes EXCEPT ![i] = [indexes[i] EXCEPT !.root = entry.root]]
    BY <2>1
  <2>3. indexes = [j \in DOMAIN indexes |-> indexes[j]]
    BY <1>0 DEF CatInv, CatalogTypeOK
  <2>. QED BY <1>3, <1>4, <2>1, <2>2, <2>3
<1>6. CatInv'
  BY <1>0, <1>1, <1>2, <1>3, RootUpdated
<1>7. /\ DOMAIN trees' = DOMAIN trees /\ trees'[i] = entry
      /\ \A j \in DOMAIN trees : j # i => trees'[j] = trees[j]
  BY <1>1, <1>2, <1>4 DEF Put
<1>8. TreesOK'
  <2>1. trees \in [DOMAIN trees -> TreeEntry] /\ DOMAIN trees \subseteq Ids /\ i \in Ids
    BY <1>0, <1>4, CatalogFacts DEF Types, TreesOK, StorageInv
  <2>2. trees' = Put(trees, i, entry)
    BY <1>1, <1>2
  <2>. QED BY <1>3, <2>1, <2>2, PutType DEF TreesOK
<1>9. TreeFilesOK' /\ Whole(indexFile', Version)
  <2>1. Whole(Written(indexFile, NewVersion), Version)
    BY <1>0, <1>1, <1>3, FileWrites DEF Types
  <2>. QED BY <1>0, <1>1, <2>1 DEF Types, TreeFilesOK
<1>10. \A j \in DOMAIN trees : trees'[j] = indexes'[j] /\ trees'[j].table = trees[j].table
  <2>1. \A j \in DOMAIN trees : trees[j] = indexes[j] /\ j \in DOMAIN indexes
    BY <1>0 DEF StorageInv
  <2>. QED BY <1>3, <1>5, <1>7, <2>1
<1>. QED BY <1>1, <1>3, <1>5, <1>6, <1>7, <1>8, <1>9, <1>10, RowStep

\* An append of a version that fails or is refused.
LEMMA VersionNotAppended ==
    ASSUME DInv, In("version"), NoFault \/ Fault, Return, Whole(indexFile', Version),
           UNCHANGED <<catalogVars, trees, metadata, catalogFile, heaps, treeFiles, acked>>
    PROVE  DInv'
<1>0. CatInv /\ Types /\ StorageInv /\ Inserting
  BY DEF DInv, Inserting
<1>1. UNCHANGED <<tables, nextTable, indexes>> /\ CatInv'
  BY <1>0, CatInvStep DEF catalogVars
<1>2. TreesOK' /\ TreeFilesOK'
  BY <1>0 DEF Types, TreesOK, TreeFilesOK
<1>3. \A i \in DOMAIN trees : trees'[i] = indexes'[i] /\ trees'[i].table = trees[i].table
  <2>1. NewIndex = {}
    BY <1>0, Phases DEF PhaseFacts
  <2>. QED BY <1>0, <1>1, <2>1 DEF StorageInv
<1>. QED BY <1>0, <1>1, <1>2, <1>3, RowStep

LEMMA AppendVersionRefusedStep == ASSUME DInv, AppendVersionRefused PROVE DInv'
<1>1. /\ In("version") /\ NoFault /\ Return /\ Whole(indexFile', Version)
      /\ UNCHANGED <<catalogVars, trees, metadata, catalogFile, heaps, treeFiles, acked>>
  BY DEF AppendVersionRefused, DInv, Types
<1>. QED BY <1>1, VersionNotAppended

LEMMA AppendVersionFailsStep == ASSUME DInv, AppendVersionFails PROVE DInv'
<1>1. /\ In("version") /\ Fault /\ Return /\ Takes(indexFile) /\ Whole(indexFile, Version)
      /\ indexFile' \in FailedWrites(indexFile, NewVersion)
      /\ UNCHANGED <<catalogVars, trees, metadata, catalogFile, heaps, treeFiles, acked>>
  BY DEF AppendVersionFails, DInv, Types
<1>2. NewVersion \in Version
  BY <1>1, NewVersionFacts
<1>3. Whole(indexFile', Version)
  BY <1>1, <1>2, FileWrites
<1>. QED BY <1>1, <1>3, VersionNotAppended

(***************************************************************************)
(* Closing and opening.                                                    *)
(***************************************************************************)
\* A step that ends in a closed or refused database: what is in the files is what
\* was in memory, but for what was not stored.
LEMMA ShutStep ==
    ASSUME DInv, CatInv', Types', Shut', MetadataInv',
           DOMAIN tables' = {}, DOMAIN indexes' = {}, DOMAIN trees' = {},
           catalogFile'.stored = Len(catalogFile'.recs),
           Loads(catalogFile') =>
              Loads(catalogFile) /\ \A n \in 1 .. Held(catalogFile) : n \in DOMAIN catalogFile'.recs,
           \A n \in DOMAIN catalogFile'.recs :
              n \in DOMAIN catalogFile.recs /\ catalogFile'.recs[n] = catalogFile.recs[n],
           DOMAIN heaps' = DOMAIN heaps,
           \A t \in DOMAIN heaps : Keeps(heaps[t], heaps'[t]),
           UNCHANGED acked
    PROVE  DInv'
<1>. DEFINE KeptNow(a, id) == Readable(heaps'[id]) => /\ a.rid \in 1 .. Held(heaps'[id])
                                                     /\ heaps'[id].recs[a.rid] = a.row
<1>0. Types /\ StorageInv /\ RecordsInv /\ AckedInv
  BY DEF DInv
<1>1. /\ ~Running' /\ ~Loading' /\ ~CreatingTable' /\ ~CreatingIndex' /\ ~Inserting'
      /\ ~In("load_indexes")' /\ NewTable' = {} /\ NewIndex' = {}
  BY Phases DEF PhaseFacts
<1>2. Settled' = {} /\ Loaded' = {}
  BY <1>1 DEF Settled, Loaded
<1>3. StmtInv' /\ StorageInv'
  BY <1>1, <1>2 DEF StmtInv, StorageInv, CreatingTable, CreatingIndex, Inserting
<1>4. RecordsInv'
  BY <1>1, <1>2 DEF RecordsInv
<1>5. ASSUME NEW a, NEW id \in DOMAIN heaps, Kept(a, id) PROVE Kept(a, id)'
  <2>1. Whole(heaps[id], Rows) /\ Whole(heaps'[id], Rows)
    BY <1>0 DEF Types, HeapsOK
  <2>. QED BY <1>5, <2>1, KeptStep
<1>6. ASSUME Loads(catalogFile'), AllTablesExist' PROVE AckedOnFile'
  <2>0. Loads(catalogFile) /\ \A n \in 1 .. Held(catalogFile) : n \in DOMAIN catalogFile'.recs
    BY <1>6
  <2>1. CASE Running
    <3>1. AckedInMemory /\ Loaded = DOMAIN catalogFile.recs
      BY <1>0, <2>1 DEF AckedInv, Loaded, Running
    <3>2. ASSUME NEW n \in DOMAIN catalogFile'.recs
          PROVE  /\ catalogFile'.recs[n].id \in Settled
                 /\ tables[catalogFile'.recs[n].id] = catalogFile'.recs[n].name
      <4>1. n \in Loaded /\ catalogFile'.recs[n] = catalogFile.recs[n]
        BY <3>1
      <4>2. Harmless(catalogFile.recs[n])
        BY <1>0, <4>1 DEF RecordsInv
      <4>3. catalogFile.recs[n].id \in DOMAIN heaps
        BY <1>6, <4>1 DEF AllTablesExist
      <4>. QED BY <4>1, <4>2, <4>3 DEF Harmless, Settled
    <3>3. ASSUME NEW id \in Settled
          PROVE  \E n \in DOMAIN catalogFile'.recs :
                    catalogFile'.recs[n] = [id |-> id, name |-> tables[id]]
      <4>1. PICK n \in Loaded : /\ n <= Held(catalogFile)
                                /\ catalogFile.recs[n] = [id |-> id, name |-> tables[id]]
        BY <1>0 DEF RecordsInv, Recorded
      <4>2. n \in 1 .. Held(catalogFile)
        <5>1. n \in 1 .. Len(catalogFile.recs) /\ Held(catalogFile) \in Nat
          BY <1>0, <3>1, CatalogFileFacts
        <5>. QED BY <4>1, <5>1
      <4>. QED BY <2>0, <4>1, <4>2
    <3>4. {catalogFile'.recs[n].name : n \in DOMAIN catalogFile'.recs} = {tables[id] : id \in Settled}
      <4>1. ASSUME NEW n \in DOMAIN catalogFile'.recs
            PROVE  catalogFile'.recs[n].name \in {tables[id] : id \in Settled}
        BY <3>2
      <4>2. ASSUME NEW id \in Settled
            PROVE  tables[id] \in {catalogFile'.recs[n].name : n \in DOMAIN catalogFile'.recs}
        <5>1. PICK n \in DOMAIN catalogFile'.recs :
                     catalogFile'.recs[n] = [id |-> id, name |-> tables[id]]
          BY <3>3
        <5>2. catalogFile'.recs[n].name = tables[id]
          BY <5>1
        <5>. QED BY <5>2
      <4>. QED BY <4>1, <4>2
    <3>5. ASSUME NEW a \in acked'.rows
          PROVE  \E n \in DOMAIN catalogFile'.recs :
                    catalogFile'.recs[n].name = a.table /\ KeptNow(a, catalogFile'.recs[n].id)
      <4>1. PICK id \in Settled : tables[id] = a.table /\ Kept(a, id)
        BY <3>1 DEF AckedInMemory
      <4>2. PICK n \in DOMAIN catalogFile'.recs :
                    catalogFile'.recs[n] = [id |-> id, name |-> tables[id]]
        BY <3>3
      <4>3. Kept(a, id)'
        BY <1>0, <1>5, <4>1 DEF StorageInv
      <4>4. catalogFile'.recs[n].id = id /\ catalogFile'.recs[n].name = a.table
        BY <4>1, <4>2
      <4>5. KeptNow(a, id)
        BY <4>3 DEF Kept
      <4>. QED BY <4>2, <4>4, <4>5
    <3>. QED BY <3>1, <3>4, <3>5 DEF AckedInMemory, AckedOnFile, Kept
  <2>2. CASE ~Running
    <3>1. catalogFile.stored = Len(catalogFile.recs)
      BY <1>0, <2>2 DEF RecordsInv, Running
    <3>2. DOMAIN catalogFile.recs = DOMAIN catalogFile'.recs
      <4>1. DOMAIN catalogFile.recs = 1 .. Held(catalogFile)
        BY <1>0, <3>1, CatalogFileFacts
      <4>. QED BY <2>0, <4>1
    <3>3. AllTablesExist
      BY <1>6, <3>2 DEF AllTablesExist
    <3>4. AckedOnFile
      BY <1>0, <2>0, <2>2, <3>3 DEF AckedInv
    <3>5. {catalogFile'.recs[n].name : n \in DOMAIN catalogFile'.recs} = acked'.tables
      BY <3>2, <3>4 DEF AckedOnFile
    <3>6. ASSUME NEW a \in acked'.rows
          PROVE  \E n \in DOMAIN catalogFile'.recs :
                    catalogFile'.recs[n].name = a.table /\ KeptNow(a, catalogFile'.recs[n].id)
      <4>1. PICK n \in DOMAIN catalogFile.recs :
                    catalogFile.recs[n].name = a.table /\ Kept(a, catalogFile.recs[n].id)
        BY <3>4 DEF AckedOnFile
      <4>2. PICK id : id = catalogFile.recs[n].id
        OBVIOUS
      <4>3. id \in DOMAIN heaps /\ Kept(a, id)
        BY <3>3, <4>1, <4>2 DEF AllTablesExist
      <4>4. Kept(a, id)'
        BY <1>5, <4>3
      <4>5. n \in DOMAIN catalogFile'.recs /\ catalogFile'.recs[n] = catalogFile.recs[n]
        BY <3>2
      <4>6. KeptNow(a, id)
        BY <4>4 DEF Kept
      <4>. QED BY <4>1, <4>2, <4>5, <4>6
    <3>. QED BY <3>5, <3>6 DEF AckedOnFile, Kept
  <2>. QED BY <2>1, <2>2
<1>7. AckedInv'
  BY <1>1, <1>6 DEF AckedInv
<1>. QED BY <1>3, <1>4, <1>7 DEF DInv

\* The objects of a database that is gone.
LEMMA ForgetStep ==
    ASSUME Forget
    PROVE  /\ CatInv' /\ TreesOK'
           /\ DOMAIN tables' = {} /\ DOMAIN indexes' = {} /\ DOMAIN trees' = {}
<1>1. /\ tables' = Empty /\ tableIds' = Empty /\ nextTable' = 1
      /\ indexes' = Empty /\ indexIds' = Empty /\ nextIndex' = 1 /\ trees' = Empty
  BY DEF Forget
<1>2. CatInv'
  BY <1>1, CatalogConstants, EmptyFacts
  DEF CatInv, CatalogTypeOK, MapsMirror, NextIdsFresh, OneIndexPerColumn, Empty
<1>3. TreesOK'
  BY <1>1 DEF TreesOK, Empty
<1>. QED BY <1>1, <1>2, <1>3, EmptyFacts

\* Closing a database, in order or not.
LEMMA StopStep ==
    ASSUME DInv, ~Shut, Forget, Goto("closed"), NoFault \/ Fault,
           catalogFile' \in Losses(catalogFile), indexFile' \in Losses(indexFile),
           heaps' = [t \in DOMAIN heaps |-> heaps'[t]],
           \A t \in DOMAIN heaps : heaps'[t] \in Losses(heaps[t]),
           TreeFilesOK', UNCHANGED <<metadata, acked>>
    PROVE  DInv'
<1>0. CatInv /\ Types /\ MetadataInv
  BY DEF DInv
<1>1. stmt' = [phase |-> "closed"] /\ Shut'
  BY DEF Goto, Shut, In
<1>2. /\ CatInv' /\ TreesOK' /\ DOMAIN tables' = {} /\ DOMAIN indexes' = {} /\ DOMAIN trees' = {}
  BY ForgetStep
<1>3. Whole(catalogFile, TableRecord) /\ Whole(indexFile, Version) /\ HeapsOK
  BY <1>0 DEF Types
<1>4. DOMAIN heaps' = DOMAIN heaps
  OBVIOUS
<1>5. ASSUME NEW t \in DOMAIN heaps
      PROVE  /\ heaps'[t] \in File(Rows) /\ Whole(heaps'[t], Rows) /\ Keeps(heaps[t], heaps'[t])
             /\ Len(heaps'[t].recs) <= MaxRows
  <2>1. Whole(heaps[t], Rows) /\ Len(heaps[t].recs) \in 0 .. MaxRows
    BY <1>3, HeapFacts
  <2>2. PICK f, g : f = heaps[t] /\ g = heaps'[t]
    OBVIOUS
  <2>3. Whole(g, Rows) /\ Keeps(f, g) /\ Len(g.recs) <= Len(f.recs)
    BY <2>1, <2>2, FileLosses
  <2>4. Len(g.recs) \in Nat /\ g \in File(Rows)
    BY <2>3, FileFields DEF Whole
  <2>. QED BY <2>1, <2>2, <2>3, <2>4, DatabaseConstants
<1>6. HeapsOK'
  <2>1. heaps' \in [DOMAIN heaps' -> File(Rows)]
    BY <1>4, <1>5
  <2>. QED BY <1>3, <1>4, <1>5, <2>1 DEF HeapsOK
<1>7. Whole(indexFile', Version)
  BY <1>3, FileLosses
<1>8. /\ Whole(catalogFile', TableRecord) /\ catalogFile'.stored = Len(catalogFile'.recs)
      /\ \A n \in DOMAIN catalogFile'.recs :
            n \in DOMAIN catalogFile.recs /\ catalogFile'.recs[n] = catalogFile.recs[n]
      /\ Loads(catalogFile') =>
            Loads(catalogFile) /\ \A n \in 1 .. Held(catalogFile) : n \in DOMAIN catalogFile'.recs
  BY <1>3, FileLosses
<1>9. Types'
  <2>1. stmt' \in Statement
    BY <1>1 DEF Statement
  <2>2. faults' \in 0 .. MaxFaults
    BY <1>0, FaultCount
  <2>. QED BY <1>0, <1>2, <1>6, <1>7, <1>8, <2>1, <2>2 DEF Types, AckedOK
<1>10. MetadataInv'
  BY <1>0, <1>1 DEF MetadataInv
<1>. QED BY <1>1, <1>2, <1>4, <1>5, <1>8, <1>9, <1>10, ShutStep

\* One of each of a family of sets of trees, and what closing can make of a tree.
LEMMA TreesLeft ==
    ASSUME TreeFilesOK, NEW left, DOMAIN left = DOMAIN treeFiles,
           \A i \in DOMAIN treeFiles : left[i] \subseteq Tree, treeFiles' \in OneOfEach(left)
    PROVE  TreeFilesOK'
<1>1. /\ treeFiles' \in [DOMAIN left -> UNION {left[x] : x \in DOMAIN left}]
      /\ \A x \in DOMAIN left : treeFiles'[x] \in left[x]
  BY DEF OneOfEach
<1>2. DOMAIN treeFiles' = DOMAIN treeFiles /\ treeFiles' = [x \in DOMAIN left |-> treeFiles'[x]]
  BY <1>1
<1>3. \A x \in DOMAIN treeFiles : treeFiles'[x] \in Tree
  BY <1>1
<1>4. DOMAIN treeFiles \subseteq Ids
  BY DEF TreeFilesOK
<1>. QED BY <1>2, <1>3, <1>4 DEF TreeFilesOK

LEMMA TreeLosses ==
    ASSUME NEW tree \in Tree
    PROVE  WrittenBack(tree) \subseteq CutOff(tree) /\ CutOff(tree) \subseteq Tree
<1>1. [tree EXCEPT !.pages = "written"] \in Tree
  BY TreeType
<1>2. Reverted(tree) \subseteq Tree
  <2>. DEFINE roots == {NoRoot} \cup {r \in Roots : r <= tree.root}
  <2>1. roots \subseteq Roots \cup {NoRoot}
    OBVIOUS
  <2>2. Reverted(tree) = BrokenTrees(roots)
    BY DEF Reverted
  <2>. HIDE DEF roots
  <2>3. ASSUME NEW t \in BrokenTrees(roots) PROVE t \in Tree
    BY <2>1, BrokenTreeType
  <2>. QED BY <2>2, <2>3
<1>3. WrittenBack(tree) \subseteq Tree
  BY <1>1, <1>2 DEF WrittenBack
<1>. QED BY <1>2, <1>3 DEF CutOff

LEMMA CloseStep == ASSUME DInv, Close PROVE DInv'
<1>1. /\ In("idle") /\ Forget /\ Goto("closed") /\ NoFault
      /\ catalogFile' = WrittenOut(catalogFile) /\ indexFile' = WrittenOut(indexFile)
      /\ heaps' = [t \in DOMAIN heaps |-> WrittenOut(heaps[t])]
      /\ treeFiles' \in OneOfEach([i \in DOMAIN treeFiles |-> WrittenBack(treeFiles[i])])
      /\ UNCHANGED <<metadata, acked>>
  BY DEF Close
<1>2. ~Shut
  BY <1>1 DEF Shut, In
<1>3. TreeFilesOK'
  <2>1. TreeFilesOK
    BY DEF DInv, Types
  <2>. DEFINE left == [i \in DOMAIN treeFiles |-> WrittenBack(treeFiles[i])]
  <2>2. \A i \in DOMAIN treeFiles : left[i] \subseteq Tree
    BY <2>1, TreeLosses DEF TreeFilesOK
  <2>3. DOMAIN left = DOMAIN treeFiles /\ treeFiles' \in OneOfEach(left)
    BY <1>1
  <2>. HIDE DEF left
  <2>. QED BY <2>1, <2>2, <2>3, TreesLeft
<1>4. /\ heaps' = [t \in DOMAIN heaps |-> heaps'[t]]
      /\ \A t \in DOMAIN heaps : heaps'[t] \in Losses(heaps[t])
      /\ catalogFile' \in Losses(catalogFile) /\ indexFile' \in Losses(indexFile)
  BY <1>1 DEF Losses
<1>. QED BY <1>1, <1>2, <1>3, <1>4, StopStep

LEMMA LoseStep == ASSUME DInv, Lose PROVE DInv'
<1>1. /\ ~In("closed") /\ ~In("refused") /\ Forget /\ Goto("closed") /\ Fault
      /\ catalogFile' \in Losses(catalogFile) /\ indexFile' \in Losses(indexFile)
      /\ heaps' \in OneOfEach([t \in DOMAIN heaps |-> Losses(heaps[t])])
      /\ treeFiles' \in OneOfEach([i \in DOMAIN treeFiles |-> CutOff(treeFiles[i])])
      /\ UNCHANGED <<metadata, acked>>
  BY DEF Lose
<1>2. ~Shut
  BY <1>1 DEF Shut
<1>3. TreeFilesOK'
  <2>1. TreeFilesOK
    BY DEF DInv, Types
  <2>. DEFINE left == [i \in DOMAIN treeFiles |-> CutOff(treeFiles[i])]
  <2>2. \A i \in DOMAIN treeFiles : left[i] \subseteq Tree
    BY <2>1, TreeLosses DEF TreeFilesOK
  <2>3. DOMAIN left = DOMAIN treeFiles /\ treeFiles' \in OneOfEach(left)
    BY <1>1
  <2>. HIDE DEF left
  <2>. QED BY <2>1, <2>2, <2>3, TreesLeft
<1>4. /\ heaps' = [t \in DOMAIN heaps |-> heaps'[t]]
      /\ \A t \in DOMAIN heaps : heaps'[t] \in Losses(heaps[t])
  <2>. DEFINE left == [t \in DOMAIN heaps |-> Losses(heaps[t])]
  <2>1. /\ heaps' \in [DOMAIN left -> UNION {left[x] : x \in DOMAIN left}]
        /\ \A x \in DOMAIN left : heaps'[x] \in left[x]
    BY <1>1 DEF OneOfEach
  <2>2. DOMAIN left = DOMAIN heaps /\ \A t \in DOMAIN heaps : left[t] = Losses(heaps[t])
    OBVIOUS
  <2>. HIDE DEF left
  <2>. QED BY <2>1, <2>2
<1>. QED BY <1>1, <1>2, <1>3, <1>4, StopStep

\* A database that does not open: nothing changes but the objects in memory, and
\* perhaps a metadata file that is not there.
LEMMA RefusedStep ==
    ASSUME DInv, Shut \/ Loading \/ In("load_indexes"), Goto("refused"), NoFault \/ Fault,
           CatInv', TreesOK', DOMAIN tables' = {}, DOMAIN indexes' = {}, DOMAIN trees' = {},
           \/ UNCHANGED metadata
           \/ metadata = "absent" /\ metadata' \in {"absent", "short"},
           UNCHANGED <<catalogFile, indexFile, heaps, treeFiles, acked>>
    PROVE  DInv'
<1>0. Types /\ RecordsInv /\ MetadataInv
  BY DEF DInv
<1>1. stmt' = [phase |-> "refused"] /\ Shut'
  BY DEF Goto, Shut, In
<1>2. /\ catalogFile.stored = Len(catalogFile.recs)
      /\ DOMAIN catalogFile.recs = 1 .. Len(catalogFile.recs)
      /\ Held(catalogFile) = Len(catalogFile.recs)
  BY <1>0, CatalogFileFacts DEF RecordsInv
<1>3. \A t \in DOMAIN heaps : Keeps(heaps[t], heaps'[t])
  BY <1>0, HeapFacts DEF Types
<1>4. Types'
  <2>1. stmt' \in Statement
    BY <1>1 DEF Statement
  <2>2. faults' \in 0 .. MaxFaults
    BY <1>0, FaultCount
  <2>. QED BY <1>0, <2>1, <2>2 DEF Types, HeapsOK, TreeFilesOK, AckedOK
<1>5. MetadataInv'
  BY <1>0, <1>1 DEF MetadataInv
<1>6. /\ catalogFile'.stored = Len(catalogFile'.recs)
      /\ \A n \in DOMAIN catalogFile'.recs :
            n \in DOMAIN catalogFile.recs /\ catalogFile'.recs[n] = catalogFile.recs[n]
      /\ Loads(catalogFile') =>
            Loads(catalogFile) /\ \A n \in 1 .. Held(catalogFile) : n \in DOMAIN catalogFile'.recs
  BY <1>2
<1>. QED BY <1>1, <1>3, <1>4, <1>5, <1>6, ShutStep

LEMMA OpenRefusedStep == ASSUME DInv, OpenRefused PROVE DInv'
<1>1. /\ Shut \/ Loading \/ In("load_indexes")
      /\ Forget /\ Goto("refused") /\ NoFault
      /\ UNCHANGED <<metadata, catalogFile, indexFile, heaps, treeFiles, acked>>
  BY DEF OpenRefused, Shut, Loading, files
<1>. QED BY <1>1, ForgetStep, RefusedStep

LEMMA MetadataFailsStep == ASSUME DInv, MetadataFails PROVE DInv'
<1>0. CatInv /\ Types /\ StorageInv /\ RecordsInv
  BY DEF DInv
<1>1. /\ Shut /\ metadata = "absent" /\ Fault /\ metadata' \in {"absent", "short"} /\ Goto("refused")
      /\ UNCHANGED <<catalogVars, trees, catalogFile, indexFile, heaps, treeFiles, acked>>
  BY DEF MetadataFails, Shut
<1>2. CatInv' /\ UNCHANGED <<tables, indexes>>
  BY <1>0, <1>1, CatInvStep DEF catalogVars
<1>3. DOMAIN tables = {}
  BY <1>0, <1>1 DEF RecordsInv
<1>4. DOMAIN indexes = {} /\ DOMAIN trees = {}
  BY <1>0, <1>3 DEF StorageInv, Settled
<1>5. TreesOK'
  BY <1>0, <1>1 DEF Types, TreesOK
<1>. QED BY <1>1, <1>2, <1>3, <1>4, <1>5, RefusedStep


LEMMA BeginOpenStep == ASSUME DInv, BeginOpen PROVE DInv'
<1>0. CatInv /\ Types /\ StmtInv /\ StorageInv /\ RecordsInv /\ AckedInv /\ MetadataInv
  BY DEF DInv
<1>1. /\ Shut /\ metadata' = "whole" /\ stmt' = [phase |-> "load_tables", next |-> 1] /\ NoFault
      /\ UNCHANGED <<catalogVars, trees, catalogFile, indexFile, heaps, treeFiles, acked>>
  BY DEF BeginOpen, Shut
<1>2. CatInv' /\ UNCHANGED <<tables, nextTable, indexes>>
  BY <1>0, <1>1, CatInvStep DEF catalogVars
<1>3. Loading' /\ stmt'.next = 1
  BY <1>1 DEF Loading, In
<1>4. /\ ~Running /\ ~Running' /\ ~Shut' /\ ~CreatingTable' /\ ~CreatingIndex' /\ ~Inserting'
      /\ ~In("load_indexes")' /\ NewTable' = {} /\ NewIndex' = {}
  BY <1>1, <1>3, Phases DEF PhaseFacts
<1>5. Loaded' = {}
  BY <1>3, <1>4 DEF Loaded
<1>6. DOMAIN tables = {} /\ catalogFile.stored = Len(catalogFile.recs)
  BY <1>0, <1>1 DEF RecordsInv
<1>7. Settled = {} /\ Settled' = {}
  BY <1>2, <1>6 DEF Settled
<1>8. DOMAIN indexes = {} /\ DOMAIN trees = {}
  BY <1>0, <1>7 DEF StorageInv
<1>9. Types'
  <2>1. stmt' \in Statement
    BY <1>1 DEF Statement
  <2>2. faults' \in 0 .. MaxFaults
    BY <1>0, <1>1, FaultCount
  <2>. QED BY <1>0, <1>1, <2>1, <2>2 DEF Types, TreesOK, HeapsOK, TreeFilesOK, AckedOK
<1>10. StmtInv'
  <2>1. 1 \in 1 .. Len(catalogFile.recs) + 1
    BY <1>0, CatalogFileFacts
  <2>2. ~In("table_record")' /\ ~In("index_record")' /\ ~In("version")'
    BY <1>4 DEF CreatingTable, CreatingIndex, Inserting
  <2>. QED BY <1>1, <1>3, <1>4, <2>1, <2>2 DEF StmtInv
<1>11. StorageInv'
  BY <1>1, <1>2, <1>7, <1>8 DEF StorageInv
<1>12. RecordsInv'
  BY <1>1, <1>4, <1>5, <1>6, <1>7 DEF RecordsInv
<1>13. AckedInv'
  BY <1>0, <1>1, <1>4 DEF AckedInv, AllTablesExist, AckedOnFile, Kept
<1>14. MetadataInv'
  BY <1>1 DEF MetadataInv
<1>. QED BY <1>2, <1>9, <1>10, <1>11, <1>12, <1>13, <1>14 DEF DInv

\* A record is loaded only if its table has its file.
LEMMA OpenTableStep == ASSUME DInv, OpenTable PROVE DInv'
<1>0. CatInv /\ Types /\ StmtInv /\ StorageInv /\ RecordsInv /\ AckedInv /\ MetadataInv
  BY DEF DInv
<1>. DEFINE m == stmt.next
            id == TableToLoad.id
            name == TableToLoad.name
<1>1. /\ Loading /\ Loads(catalogFile) /\ m \in DOMAIN catalogFile.recs /\ id \in DOMAIN heaps
      /\ LoadTable(id, name) /\ stmt' = [stmt EXCEPT !.next = m + 1] /\ NoFault
      /\ UNCHANGED <<trees, metadata, catalogFile, indexFile, heaps, treeFiles, acked>>
  BY DEF OpenTable, Loading, files
<1>2. /\ m \in Nat /\ stmt' = [phase |-> "load_tables", next |-> m + 1]
  BY <1>0, <1>1, StmtShape DEF Types
<1>3. Loading' /\ stmt'.next = m + 1
  BY <1>2 DEF Loading, In
<1>4. /\ ~Running /\ ~Running' /\ ~Shut /\ ~Shut' /\ ~CreatingTable' /\ ~CreatingIndex'
      /\ ~Inserting' /\ ~In("load_indexes")'
      /\ NewTable = {} /\ NewIndex = {} /\ NewTable' = {} /\ NewIndex' = {}
  BY <1>1, <1>3, Phases DEF PhaseFacts
<1>5. /\ Loaded = 1 .. (m - 1) /\ Loaded' = 1 .. m
  <2>1. Loaded' = 1 .. (stmt'.next - 1)
    BY <1>3, <1>4 DEF Loaded
  <2>2. Loaded = 1 .. (m - 1)
    BY <1>1, <1>4 DEF Loaded
  <2>3. stmt'.next - 1 = m
    BY <1>2, <1>3
  <2>. QED BY <2>1, <2>2, <2>3
<1>6. Loaded' = Loaded \cup {m}
  <2>1. m \in 1 .. Len(catalogFile.recs)
    BY <1>0, <1>1, CatalogFileFacts
  <2>. QED BY <1>2, <1>5, <2>1
<1>7. catalogFile.recs[m] = [id |-> id, name |-> name] /\ id \in Ids /\ name \in TableNames
  <2>1. catalogFile.recs[m] \in TableRecord
    BY <1>0, <1>1, CatalogFileFacts
  <2>. QED BY <2>1 DEF TableRecord, TableToLoad
<1>. HIDE DEF m, id, name
<1>8. CatInv'
  <2>1. CatalogNext
    BY <1>1, <1>7 DEF CatalogNext
  <2>. QED BY <1>0, <2>1, CatInvStep
<1>9. /\ id \notin DOMAIN tables /\ DOMAIN tables' = DOMAIN tables \cup {id} /\ tables'[id] = name
      /\ \A t \in DOMAIN tables : tables'[t] = tables[t]
      /\ nextTable' = NextAfter(nextTable, id) /\ UNCHANGED indexes
  <2>1. /\ tables' = Put(tables, id, name) /\ id \notin DOMAIN tables
        /\ nextTable' = NextAfter(nextTable, id) /\ UNCHANGED indexes
    BY <1>1 DEF LoadTable, CanLoadTable
  <2>. QED BY <2>1 DEF Put
<1>10. Settled = DOMAIN tables /\ Settled' = DOMAIN tables \cup {id}
  BY <1>4, <1>9 DEF Settled
<1>11. id < nextTable' /\ nextTable <= nextTable' /\ nextTable \in Nat /\ nextTable' \in Nat
  <2>1. nextTable \in 1 .. MaxId
    BY <1>0, CatalogFacts
  <2>2. id < NextAfter(nextTable, id) /\ nextTable <= NextAfter(nextTable, id)
        /\ NextAfter(nextTable, id) \in 1 .. MaxId
    BY <1>7, <2>1, NextAfterProperties
  <2>. QED BY <1>9, <2>1, <2>2, CatalogConstants
<1>12. Types'
  <2>1. stmt' \in Statement
    BY <1>2 DEF Statement
  <2>2. faults' \in 0 .. MaxFaults
    BY <1>0, <1>1, FaultCount
  <2>. QED BY <1>0, <1>1, <2>1, <2>2 DEF Types, TreesOK, HeapsOK, TreeFilesOK, AckedOK
<1>13. StmtInv'
  <2>1. m + 1 \in 1 .. Len(catalogFile.recs) + 1
    BY <1>0, <1>1, <1>2, CatalogFileFacts
  <2>2. ~In("table_record")' /\ ~In("index_record")' /\ ~In("version")'
    BY <1>4 DEF CreatingTable, CreatingIndex, Inserting
  <2>. QED BY <1>1, <1>3, <1>4, <2>1, <2>2 DEF StmtInv
<1>14. StorageInv'
  BY <1>0, <1>1, <1>4, <1>9, <1>10 DEF StorageInv
<1>15. RecordsInv'
  <2>1. catalogFile'.stored = Len(catalogFile'.recs)
    BY <1>0, <1>1 DEF RecordsInv
  <2>2. \A n \in Loaded' : catalogFile'.recs[n].id \in DOMAIN heaps'
    BY <1>0, <1>1, <1>6, <1>7 DEF RecordsInv
  <2>3. ASSUME NEW n \in Loaded' PROVE Harmless(catalogFile.recs[n])'
    <3>1. CASE n = m
      BY <1>1, <1>4, <1>7, <1>9, <1>11, <3>1 DEF Harmless
    <3>2. CASE n # m
      <4>1. Harmless(catalogFile.recs[n]) /\ catalogFile.recs[n].id \in Ids
        <5>1. n \in Loaded /\ n \in DOMAIN catalogFile.recs
          BY <1>0, <1>1, <1>2, <1>5, <1>6, <3>2, CatalogFileFacts
        <5>. QED BY <1>0, <5>1, CatalogFileFacts DEF RecordsInv
      <4>2. catalogFile.recs[n].id < nextTable'
        BY <1>11, <4>1 DEF Harmless, Ids
      <4>. QED BY <1>1, <1>4, <1>9, <4>1, <4>2 DEF Harmless
    <3>. QED BY <3>1, <3>2
  <2>4. ASSUME NEW t \in Settled' PROVE Recorded(t)'
    <3>1. CASE t = id
      <4>1. m <= Held(catalogFile) /\ m \in Loaded'
        BY <1>0, <1>1, <1>4, <1>6, CatalogFileFacts DEF RecordsInv
      <4>. QED BY <1>1, <1>7, <1>9, <3>1, <4>1 DEF Recorded
    <3>2. CASE t # id
      <4>1. t \in Settled /\ Recorded(t)
        BY <1>0, <1>10, <3>2 DEF RecordsInv
      <4>2. tables'[t] = tables[t]
        BY <1>9, <1>10, <4>1
      <4>. QED BY <1>1, <1>6, <4>1, <4>2 DEF Recorded
    <3>. QED BY <3>1, <3>2
  <2>. QED BY <1>4, <2>1, <2>2, <2>3, <2>4 DEF RecordsInv
<1>16. AckedInv'
  BY <1>0, <1>1, <1>4 DEF AckedInv, AllTablesExist, AckedOnFile, Kept
<1>17. MetadataInv'
  BY <1>0, <1>1, <1>4 DEF MetadataInv
<1>. QED BY <1>8, <1>12, <1>13, <1>14, <1>15, <1>16, <1>17 DEF DInv

\* When every record is loaded, what is acknowledged is in memory.
LEMMA ReadIndexCatalogStep == ASSUME DInv, ReadIndexCatalog PROVE DInv'
<1>0. CatInv /\ Types /\ StmtInv /\ StorageInv /\ RecordsInv /\ AckedInv /\ MetadataInv
  BY DEF DInv
<1>1. /\ Loading /\ Loads(catalogFile) /\ stmt.next \notin DOMAIN catalogFile.recs
      /\ stmt' = [phase |-> "load_indexes", todo |-> {v.id : v \in Versions}] /\ NoFault
      /\ UNCHANGED <<catalogVars, trees, metadata, catalogFile, indexFile, heaps, treeFiles, acked>>
  BY DEF ReadIndexCatalog, Loading, files
<1>2. CatInv' /\ UNCHANGED <<tables, nextTable, indexes>>
  BY <1>0, <1>1, CatInvStep DEF catalogVars
<1>3. In("load_indexes")' /\ stmt'.todo = {v.id : v \in Versions}
  BY <1>1 DEF In
<1>4. /\ Running' /\ ~Running /\ ~Shut /\ ~CreatingTable' /\ ~CreatingIndex' /\ ~Inserting'
      /\ NewTable = {} /\ NewIndex = {} /\ NewTable' = {} /\ NewIndex' = {}
  BY <1>1, <1>3, Phases DEF PhaseFacts
<1>5. Loaded = DOMAIN catalogFile.recs /\ Loaded' = DOMAIN catalogFile.recs
  <2>1. /\ stmt.next \in 1 .. Len(catalogFile.recs) + 1 /\ Len(catalogFile.recs) \in Nat
        /\ DOMAIN catalogFile.recs = 1 .. Len(catalogFile.recs)
    BY <1>0, <1>1, CatalogFileFacts DEF StmtInv
  <2>2. stmt.next - 1 = Len(catalogFile.recs)
    BY <1>1, <2>1
  <2>3. Loaded = 1 .. (stmt.next - 1)
    BY <1>1, <1>4 DEF Loaded
  <2>4. ~Shut' /\ ~Loading'
    BY <1>4 DEF Running
  <2>5. Loaded' = DOMAIN catalogFile.recs
    BY <1>1, <2>4 DEF Loaded
  <2>. QED BY <2>1, <2>2, <2>3, <2>5
<1>6. Settled' = Settled
  BY <1>2, <1>4 DEF Settled
<1>7. Types'
  <2>1. {v.id : v \in Versions} \subseteq Ids
    <3>1. indexFile.recs \in Seq(Version)
      BY <1>0 DEF Types, Whole, File
    <3>2. \A n \in DOMAIN indexFile.recs : indexFile.recs[n] \in Version
      BY <3>1
    <3>. QED BY <3>2 DEF Versions, Version
  <2>2. stmt' \in Statement
    BY <1>1, <2>1 DEF Statement
  <2>3. faults' \in 0 .. MaxFaults
    BY <1>0, <1>1, FaultCount
  <2>. QED BY <1>0, <1>1, <2>2, <2>3 DEF Types, TreesOK, HeapsOK, TreeFilesOK, AckedOK
<1>8. StmtInv'
  <2>1. Versions' = Versions
    BY <1>1 DEF Versions
  <2>2. ~In("table_record")' /\ ~In("index_record")' /\ ~In("version")' /\ ~Loading'
    BY <1>4 DEF CreatingTable, CreatingIndex, Inserting, Running
  <2>. QED BY <1>3, <1>4, <2>1, <2>2 DEF StmtInv
<1>9. StorageInv'
  BY <1>0, <1>1, <1>2, <1>4, <1>6 DEF StorageInv
<1>10. RecordsInv'
  <2>1. ~Shut' /\ ~Loading'
    BY <1>4 DEF Running
  <2>2. catalogFile'.stored = Len(catalogFile'.recs)
    BY <1>0, <1>1 DEF RecordsInv
  <2>3. ASSUME NEW n \in Loaded' PROVE Harmless(catalogFile.recs[n])'
    <3>1. Harmless(catalogFile.recs[n])
      BY <1>0, <1>5 DEF RecordsInv
    <3>. QED BY <1>1, <1>2, <1>4, <3>1 DEF Harmless
  <2>4. ASSUME NEW id \in Settled' PROVE Recorded(id)'
    <3>1. Recorded(id)
      BY <1>0, <1>6 DEF RecordsInv
    <3>. QED BY <1>1, <1>2, <1>5, <3>1 DEF Recorded
  <2>. QED BY <2>1, <2>2, <2>3, <2>4 DEF RecordsInv
<1>11. AckedInMemory
  <2>1. AckedOnFile
    BY <1>0, <1>1, <1>4, <1>5 DEF AckedInv, AllTablesExist, RecordsInv
  <2>2. ASSUME NEW n \in DOMAIN catalogFile.recs
        PROVE  /\ catalogFile.recs[n].id \in Settled
               /\ tables[catalogFile.recs[n].id] = catalogFile.recs[n].name
    <3>1. Harmless(catalogFile.recs[n]) /\ catalogFile.recs[n].id \in DOMAIN heaps
      BY <1>0, <1>1, <1>5 DEF RecordsInv
    <3>. QED BY <3>1 DEF Harmless, Settled
  <2>3. {tables[id] : id \in Settled} = acked.tables
    <3>1. ASSUME NEW id \in Settled PROVE tables[id] \in acked.tables
      <4>1. PICK n \in Loaded : catalogFile.recs[n] = [id |-> id, name |-> tables[id]]
        BY <1>0 DEF RecordsInv, Recorded
      <4>2. catalogFile.recs[n].name = tables[id]
        BY <4>1
      <4>. QED BY <1>5, <2>1, <4>2 DEF AckedOnFile
    <3>2. ASSUME NEW name \in acked.tables PROVE name \in {tables[id] : id \in Settled}
      <4>1. PICK n \in DOMAIN catalogFile.recs : catalogFile.recs[n].name = name
        BY <2>1 DEF AckedOnFile
      <4>. QED BY <2>2, <4>1
    <3>. QED BY <3>1, <3>2
  <2>4. ASSUME NEW a \in acked.rows
        PROVE  \E id \in Settled : tables[id] = a.table /\ Kept(a, id)
    <3>1. PICK n \in DOMAIN catalogFile.recs :
               catalogFile.recs[n].name = a.table /\ Kept(a, catalogFile.recs[n].id)
      BY <2>1 DEF AckedOnFile
    <3>. QED BY <2>2, <3>1
  <2>. QED BY <2>3, <2>4 DEF AckedInMemory
<1>12. AckedInv'
  <2>1. AckedInMemory'
    BY <1>1, <1>2, <1>6, <1>11 DEF AckedInMemory, Kept
  <2>. QED BY <1>4, <2>1 DEF AckedInv
<1>13. MetadataInv'
  BY <1>0, <1>1, <1>4 DEF MetadataInv
<1>. QED BY <1>2, <1>7, <1>8, <1>9, <1>10, <1>12, <1>13 DEF DInv

\* The newest version of an index that has one.
LEMMA LatestType ==
    ASSUME Types, NEW id \in {v.id : v \in Versions}
    PROVE  /\ id \in Ids /\ Latest(id) \in TreeEntry /\ Latest(id) \in IndexEntry
           /\ Latest(id).root \in Roots
<1>1. indexFile.recs \in Seq(Version)
  BY DEF Types, Whole, File
<1>2. Len(indexFile.recs) \in Nat /\ DOMAIN indexFile.recs = 1 .. Len(indexFile.recs)
  BY <1>1
<1>. DEFINE S == {m \in DOMAIN indexFile.recs : indexFile.recs[m].id = id}
<1>3. S \subseteq 1 .. Len(indexFile.recs) /\ S # {}
  BY <1>2 DEF Versions
<1>4. Max(S) \in S
  BY <1>2, <1>3, MaxIsMember
<1>5. PICK n \in 1 .. Len(indexFile.recs) : n = Max(S) /\ indexFile.recs[n].id = id
  BY <1>3, <1>4
<1>6. indexFile.recs[n] \in Version
  BY <1>1
<1>7. Latest(id) = indexFile.recs[n].entry
  BY <1>5 DEF Latest
<1>8. ASSUME NEW v \in Version
      PROVE  /\ v.id \in Ids /\ v.entry \in TreeEntry /\ v.entry \in IndexEntry
             /\ v.entry.root \in Roots
  BY DEF Version, TreeEntry, IndexEntry
<1>. QED BY <1>5, <1>6, <1>7, <1>8

LEMMA OpenIndexStep == ASSUME DInv, OpenIndex PROVE DInv'
<1>0. CatInv /\ Types /\ StmtInv /\ StorageInv
  BY DEF DInv
<1>. DEFINE id == Min(stmt.todo)
            entry == Latest(id)
<1>1. /\ In("load_indexes") /\ stmt.todo # {} /\ IndexUsable(id, entry) /\ LoadIndex(id, entry)
      /\ trees' = Put(trees, id, entry) /\ stmt' = [stmt EXCEPT !.todo = stmt.todo \ {id}]
      /\ NoFault
      /\ UNCHANGED <<metadata, catalogFile, indexFile, heaps, treeFiles, acked>>
  BY DEF OpenIndex, files
<1>2. /\ stmt.todo \subseteq Ids
      /\ stmt' = [phase |-> "load_indexes", todo |-> stmt.todo \ {id}]
  BY <1>0, <1>1, StmtShape DEF Types
<1>3. id \in stmt.todo /\ stmt.todo \subseteq {v.id : v \in Versions}
  <2>1. id \in stmt.todo
    BY <1>1, <1>2, MinIsMember
  <2>. QED BY <1>0, <1>1, <2>1 DEF StmtInv
<1>4. id \in Ids /\ entry \in IndexEntry /\ entry \in TreeEntry
  BY <1>0, <1>3, LatestType
<1>5. /\ entry.table \in DOMAIN tables /\ id \in DOMAIN treeFiles
      /\ treeFiles[id].root = entry.root
  BY <1>1 DEF IndexUsable
<1>. HIDE DEF id, entry
<1>6. In("load_indexes")' /\ stmt'.todo = stmt.todo \ {id}
  BY <1>2 DEF In
<1>7. /\ Running /\ Running' /\ NewTable = {} /\ NewIndex = {} /\ NewTable' = {} /\ NewIndex' = {}
      /\ ~CreatingTable' /\ ~CreatingIndex' /\ ~Inserting'
  BY <1>1, <1>6, Phases DEF PhaseFacts
<1>8. CatInv'
  <2>1. CatalogNext
    BY <1>1, <1>4 DEF CatalogNext
  <2>. QED BY <1>0, <2>1, CatInvStep
<1>9. /\ UNCHANGED <<tables, nextTable>> /\ indexes' = Put(indexes, id, entry)
  BY <1>1 DEF LoadIndex
<1>11. TreesOK'
  <2>1. \A i \in DOMAIN trees' : trees'[i] \in TreeEntry
    BY <1>0, <1>1, <1>4 DEF Types, TreesOK, Put
  <2>2. trees' = [i \in DOMAIN trees' |-> trees'[i]]
    BY <1>1 DEF Put
  <2>. QED BY <2>1, <2>2 DEF TreesOK
<1>12. QuietTables /\ QuietHeaps /\ QuietCatalogFile /\ Settled = DOMAIN tables
  BY <1>0, <1>1, <1>7, <1>9, TablesQuiet
<1>13. Types'
  <2>1. stmt' \in Statement
    BY <1>2 DEF Statement
  <2>2. faults' \in 0 .. MaxFaults
    BY <1>0, <1>1, FaultCount
  <2>. QED BY <1>0, <1>1, <1>11, <2>1, <2>2 DEF Types, HeapsOK, TreeFilesOK, AckedOK
<1>14. StmtInv'
  <2>1. Versions' = Versions
    BY <1>1 DEF Versions
  <2>2. ~In("table_record")' /\ ~In("index_record")' /\ ~In("version")' /\ ~Loading'
    BY <1>7 DEF CreatingTable, CreatingIndex, Inserting, Running
  <2>. QED BY <1>3, <1>6, <1>7, <2>1, <2>2 DEF StmtInv
<1>15. StorageInv'
  <2>1. /\ DOMAIN trees' = DOMAIN trees \cup {id} /\ trees'[id] = entry
        /\ \A i \in DOMAIN trees : i # id => trees'[i] = trees[i]
        /\ DOMAIN indexes' = DOMAIN indexes \cup {id} /\ indexes'[id] = entry
        /\ \A i \in DOMAIN indexes : i # id => indexes'[i] = indexes[i]
    BY <1>1, <1>9 DEF Put
  <2>2. Settled' = Settled
    BY <1>12 DEF QuietTables
  <2>. QED BY <1>0, <1>1, <1>5, <1>7, <1>12, <2>1, <2>2 DEF StorageInv
<1>16. QuietAcked
  BY <1>1, AckedQuiet
<1>. QED BY <1>1, <1>7, <1>8, <1>12, <1>13, <1>14, <1>15, <1>16, QuietStep DEF DInv

LEMMA OpenedStep == ASSUME DInv, Opened PROVE DInv'
<1>0. CatInv /\ Types /\ StmtInv /\ StorageInv
  BY DEF DInv
<1>1. /\ In("load_indexes") /\ stmt' = [phase |-> "idle"] /\ NoFault
      /\ UNCHANGED <<catalogVars, trees, metadata, catalogFile, indexFile, heaps, treeFiles, acked>>
  BY DEF Opened, Return, Goto, files
<1>2. CatInv' /\ UNCHANGED <<tables, nextTable, indexes>>
  BY <1>0, <1>1, CatInvStep DEF catalogVars
<1>3. In("idle")'
  BY <1>1 DEF In
<1>4. /\ Running /\ Running' /\ NewTable = {} /\ NewIndex = {} /\ NewTable' = {} /\ NewIndex' = {}
      /\ ~In("load_indexes")' /\ ~CreatingTable' /\ ~CreatingIndex' /\ ~Inserting'
  BY <1>1, <1>3, Phases DEF PhaseFacts
<1>5. QuietTables /\ QuietHeaps /\ QuietCatalogFile /\ Settled = DOMAIN tables
  BY <1>0, <1>1, <1>2, <1>4, TablesQuiet
<1>6. Types'
  <2>1. stmt' \in Statement
    BY <1>1 DEF Statement
  <2>2. faults' \in 0 .. MaxFaults
    BY <1>0, <1>1, FaultCount
  <2>. QED BY <1>0, <1>1, <2>1, <2>2 DEF Types, TreesOK, HeapsOK, TreeFilesOK, AckedOK
<1>7. StmtInv'
  <2>1. ~In("table_record")' /\ ~In("index_record")' /\ ~In("version")' /\ ~Loading'
    BY <1>4 DEF CreatingTable, CreatingIndex, Inserting, Running
  <2>. QED BY <1>4, <2>1 DEF StmtInv
<1>8. StorageInv'
  BY <1>0, <1>1, <1>2, <1>4, <1>5, StorageQuiet DEF QuietHeaps
<1>9. QuietAcked
  BY <1>1, AckedQuiet
<1>. QED BY <1>1, <1>2, <1>4, <1>5, <1>6, <1>7, <1>8, <1>9, QuietStep DEF DInv

(***************************************************************************)
(* The theorems.                                                           *)
(***************************************************************************)
LEMMA DatabaseStep == DInv /\ [Next]_vars => DInv'
<1>. SUFFICES ASSUME DInv, [Next]_vars PROVE DInv'
  OBVIOUS
<1>1. CASE UNCHANGED vars
  <2>1. UNCHANGED <<catalogVars, trees, files, stmt, acked, faults>>
    BY <1>1 DEF vars
  <2>2. CatInv /\ CatInv'
    BY <2>1, CatInvStep DEF DInv
  <2>3. /\ UNCHANGED <<tables, nextTable, indexes, trees, metadata, catalogFile, indexFile, heaps,
                       treeFiles, stmt, acked, faults>>
    BY <2>1 DEF catalogVars, files
  <2>4. Types' /\ MetadataInv'
    BY <2>3 DEF DInv, Types, TreesOK, HeapsOK, TreeFilesOK, AckedOK, MetadataInv, Shut, In
  <2>5. /\ UNCHANGED <<Shut, Loading, Running, Inserting>>
        /\ NewTable' = NewTable /\ NewIndex' = NewIndex /\ \A p : In(p)' = In(p)
    BY <2>3 DEF Shut, Loading, Running, Inserting, NewTable, NewIndex, CreatingTable,
                CreatingIndex, In
  <2>6. Settled' = Settled /\ Loaded' = Loaded
    BY <2>3, <2>5 DEF Settled, Loaded
  <2>7. StmtInv'
    BY <2>3, <2>5 DEF DInv, StmtInv, TableIndexes, Versions, CurrentIndex
  <2>8. StorageInv'
    BY <2>3, <2>5, <2>6 DEF DInv, StorageInv
  <2>9. RecordsInv'
    BY <2>3, <2>5, <2>6 DEF DInv, RecordsInv, Harmless, Recorded
  <2>10. AckedInv'
    BY <2>3, <2>5, <2>6 DEF DInv, AckedInv, AllTablesExist, AckedOnFile, AckedInMemory, Kept
  <2>. QED BY <2>2, <2>4, <2>7, <2>8, <2>9, <2>10 DEF DInv
<1>2. CASE StatementStep
  BY <1>2, BeginCreateTableStep, TableFileExistsStep, TableFileFailsStep, MakeTableFileStep,
     AppendTableStep, AppendTableRefusedStep, AppendTableFailsStep, BeginCreateIndexStep,
     IndexRefusedStep, BuildIndexStep, BuildIndexFailsStep, AppendIndexStep,
     AppendIndexRefusedStep, AppendIndexFailsStep, InsertRowStep, InsertRowRefusedStep,
     InsertRowFailsStep, IndexRowStep, IndexRowGrowsStep, IndexRowFailsStep,
     AppendVersionStep, AppendVersionRefusedStep, AppendVersionFailsStep
  DEF StatementStep
<1>3. CASE Close \/ Lose
  BY <1>3, CloseStep, LoseStep
<1>4. CASE BeginOpen \/ MetadataFails \/ OpenTable \/ ReadIndexCatalog \/ OpenIndex \/ Opened
           \/ OpenRefused
  BY <1>4, BeginOpenStep, MetadataFailsStep, OpenTableStep, ReadIndexCatalogStep,
     OpenIndexStep, OpenedStep, OpenRefusedStep
<1>. QED BY <1>1, <1>2, <1>3, <1>4 DEF Next

LEMMA DatabaseInit == Init => DInv
<1>. SUFFICES ASSUME Init PROVE DInv
  OBVIOUS
<1>1. /\ CatalogInit /\ trees = Empty /\ metadata = "absent"
      /\ catalogFile = EmptyFile /\ indexFile = EmptyFile /\ heaps = Empty /\ treeFiles = Empty
      /\ stmt = [phase |-> "closed"] /\ acked = [tables |-> {}, rows |-> {}] /\ faults = 0
  BY DEF Init
<1>2. CatInv /\ DOMAIN tables = {} /\ DOMAIN indexes = {} /\ DOMAIN trees = {}
  BY <1>1, CatInvInit, EmptyFacts DEF CatalogInit
<1>3. Shut
  BY <1>1 DEF Shut, In
<1>4. /\ ~Running /\ ~Loading /\ ~CreatingTable /\ ~CreatingIndex /\ ~Inserting
      /\ ~In("load_indexes") /\ NewTable = {} /\ NewIndex = {}
  BY <1>3, Phases DEF PhaseFacts
<1>5. Settled = {} /\ Loaded = {}
  BY <1>2, <1>3 DEF Settled, Loaded
<1>6. Types
  <2>1. TreesOK /\ HeapsOK /\ TreeFilesOK
    BY <1>1, EmptyFacts DEF TreesOK, HeapsOK, TreeFilesOK, Empty
  <2>2. stmt \in Statement /\ acked \in [tables : SUBSET TableNames, rows : SUBSET AckedRow]
    BY <1>1 DEF Statement
  <2>. QED BY <1>1, <2>1, <2>2, EmptyFileWhole, DatabaseConstants DEF Types, AckedOK
<1>7. StmtInv /\ StorageInv
  BY <1>2, <1>4, <1>5 DEF StmtInv, StorageInv, CreatingTable, CreatingIndex, Inserting
<1>8. RecordsInv /\ MetadataInv
  BY <1>1, <1>2, <1>3, <1>4, <1>5 DEF RecordsInv, MetadataInv, EmptyFile
<1>9. AckedInv
  BY <1>1, <1>4 DEF AckedInv, AckedOnFile, EmptyFile
<1>. QED BY <1>2, <1>6, <1>7, <1>8, <1>9 DEF DInv

\* In every state of the database the parts of the invariant hold together, through
\* failed and torn writes, refused records, lost caches and refused opens: each file
\* that can be read keeps what was stored in it, the settled tables are those of the
\* records, and the statement in progress finds the objects it works on.
THEOREM DatabaseInvariant == Spec => []DInv
BY DatabaseInit, DatabaseStep, PTL DEF Spec

\* The catalog of a database on its files stays consistent: the maps by name and by
\* id mirror each other, the next ids are free and no column has two indexes, in
\* spite of undone statements and of ids loaded from the files.
THEOREM DatabaseCatalogCorrect == Spec => []CatalogConsistent
<1>1. DInv => CatalogConsistent
  BY DEF DInv, CatInv, CatalogConsistent
<1>. QED BY <1>1, DatabaseInvariant, PTL

\* Between statements PersistentStorage's map of the indexes is the catalog's, every
\* index has its file and a table, and every table its file, whichever steps of
\* whichever statements failed.
THEOREM StorageAlwaysAgrees == Spec => []StorageAgrees
<1>1. ASSUME DInv PROVE StorageAgrees
  <2>0. CatInv /\ Types /\ StorageInv
    BY <1>1 DEF DInv
  <2>1. DatabaseTypeOK
    BY <2>0 DEF CatInv, Types, TreesOK, HeapsOK, TreeFilesOK, AckedOK, TreeEntry, AckedRow, Whole,
                DatabaseTypeOK
  <2>2. ASSUME In("idle")
        PROVE  /\ trees = indexes
               /\ \A i \in DOMAIN trees : i \in DOMAIN treeFiles /\ trees[i].table \in DOMAIN tables
               /\ DOMAIN tables \subseteq DOMAIN heaps
    <3>1. NewTable = {} /\ NewIndex = {}
      BY <2>2, Phases DEF PhaseFacts
    <3>2. Settled = DOMAIN tables /\ DOMAIN trees = DOMAIN indexes
      BY <2>0, <3>1 DEF StorageInv, Settled
    <3>3. /\ trees = [i \in DOMAIN trees |-> trees[i]]
          /\ indexes = [i \in DOMAIN indexes |-> indexes[i]]
      BY <2>0 DEF Types, TreesOK, CatInv, CatalogTypeOK
    <3>4. \A i \in DOMAIN trees : trees[i] = indexes[i]
      BY <2>0 DEF StorageInv
    <3>5. trees = indexes
      BY <3>2, <3>3, <3>4
    <3>. QED BY <2>0, <3>2, <3>5 DEF StorageInv
  <2>. QED BY <2>1, <2>2 DEF StorageAgrees
<1>. QED BY <1>1, DatabaseInvariant, PTL

\* A row whose INSERT returned ok is at its place, in the file and in the cached page
\* that readers see, in every database that opens: for any number of failed statements, crashes
\* and restarts between the two.  A torn overwrite of its page is the exception: the
\* row is then read from the cache, or the page cannot be read at all, and never is
\* another row in its place.
THEOREM AckedRowsAlwaysKept == Spec => []AckedRowsKept
<1>1. ASSUME DInv, In("idle"), NEW a \in acked.rows
      PROVE  /\ a.table \in DOMAIN tableIds
             /\ LET heap == heaps[tableIds[a.table]] IN
                   \/ "spoiled" \notin heap.flaws /\ a.rid <= heap.stored /\ heap.recs[a.rid] = a.row
                   \/ /\ "spoiled" \in heap.flaws
                      /\ Readable(heap) => a.rid \in DOMAIN heap.recs /\ heap.recs[a.rid] = a.row
  <2>0. CatInv /\ Types /\ StorageInv /\ AckedInv
    BY <1>1 DEF DInv
  <2>1. Running
    BY <1>1, Phases DEF PhaseFacts
  <2>2. PICK id \in Settled : tables[id] = a.table /\ Kept(a, id)
    BY <2>0, <2>1 DEF AckedInv, AckedInMemory
  <2>3. a.table \in DOMAIN tableIds /\ tableIds[a.table] = id /\ id \in DOMAIN heaps
    BY <2>0, <2>2, CatalogFacts DEF Settled, StorageInv
  <2>. DEFINE heap == heaps[id]
  <2>4. /\ DOMAIN heap.recs = 1 .. Len(heap.recs) /\ Len(heap.recs) \in Nat
        /\ Held(heap) \in heap.stored .. Len(heap.recs) /\ heap.stored \in Nat
    <3>1. Whole(heap, Rows)
      BY <2>0, <2>3, HeapFacts DEF Types
    <3>2. heap.stored \in 0 .. Len(heap.recs)
      BY <3>1, FileFields
    <3>. QED BY <3>1, <3>2, FileFields
  <2>5. Readable(heap) => a.rid \in 1 .. Held(heap) /\ heap.recs[a.rid] = a.row
    BY <2>2 DEF Kept
  <2>. HIDE DEF heap
  <2>6. CASE "spoiled" \notin heap.flaws
    <3>1. Readable(heap) /\ Held(heap) = heap.stored
      BY <2>6 DEF Readable, Held
    <3>2. a.rid <= heap.stored /\ heap.recs[a.rid] = a.row
      BY <2>4, <2>5, <3>1
    <3>. QED BY <2>3, <2>6, <3>2 DEF heap
  <2>7. CASE "spoiled" \in heap.flaws
    <3>1. Readable(heap) => a.rid \in DOMAIN heap.recs /\ heap.recs[a.rid] = a.row
      BY <2>4, <2>5
    <3>. QED BY <2>3, <2>7, <3>1 DEF heap
  <2>. QED BY <2>6, <2>7
<1>2. DInv => AckedRowsKept
  BY <1>1 DEF AckedRowsKept
<1>. QED BY <1>2, DatabaseInvariant, PTL

\* An open database has the tables whose CREATE TABLE returned ok and no others, and
\* a metadata file cut short belongs to a database that never held anything.
THEOREM AckedTablesAlwaysThere == Spec => []AckedTablesOnly
<1>1. ASSUME DInv PROVE AckedTablesOnly
  <2>0. CatInv /\ Types /\ AckedInv /\ MetadataInv
    BY <1>1 DEF DInv
  <2>1. ASSUME In("idle") PROVE DOMAIN tableIds = acked.tables
    <3>1. Running /\ NewTable = {}
      BY <2>1, Phases DEF PhaseFacts
    <3>2. {tables[id] : id \in DOMAIN tables} = acked.tables
      BY <2>0, <3>1 DEF AckedInv, AckedInMemory, Settled
    <3>3. DOMAIN tableIds = {tables[id] : id \in DOMAIN tables}
      BY <2>0, CatalogFacts
    <3>. QED BY <3>2, <3>3
  <2>2. metadata = "short" => acked.tables = {} /\ acked.rows = {}
    BY <2>0 DEF MetadataInv
  <2>. QED BY <2>1, <2>2 DEF AckedTablesOnly
<1>. QED BY <1>1, DatabaseInvariant, PTL
=============================================================================
