# A verification project for KernDB

KernDB is a single-process embedded SQL engine whose statements run one at a time: a parser,
binder, planner and executor over a storage engine made of fixed 4096-byte
pages, a buffer pool, slotted heap pages, append-only catalogs and B+ tree
indexes. This directory holds TLA+ models of it, the TLC configurations that
check them on small instances, and proofs that TLAPS checks for instances of any
size. Source paths below are relative to the repository.

## Inventory

| component | state | operations | what is hard |
|---|---|---|---|
| `DiskManager`, `Page` (`src/storage/disk_manager.cpp`, `page.cpp`) | one file of whole pages, each with a checksum | open, page count, read, write or append, truncate the last page | short writes, a partial page at the end of the file, a page that fails its checksum |
| `BufferPoolManager`, `PinnedPage` (`buffer_pool.cpp`) | frames, page table, LRU queue; in every guard a page id, a raw frame pointer and a dirty flag | fetch, new page, flush, flush all, delete, destructor; guard write, release, move | the calls of several live guards interleave; failures in the middle of an eviction; pins, replacer and table edited in separate statements |
| `PageManager` (`page_manager.cpp`) | owns a pool | allocate, read, write (through), flush, delete | a write that reached the cache and not the file |
| `SlottedPage`, `TableHeap` (`heap.cpp`) | slot directory and free-space bounds of a page; the pages of a table file | initialize, load, insert, read, scan | bounds arithmetic; a page allocated for a record that then cannot be stored |
| `CatalogStore`, `IndexCatalogStore` | append-only files of table and index records | append, load | the newest version of an index is the last one in scan order, records are placed first-fit |
| `BPlusTree` (`bplus_tree.cpp`) | nodes in index pages, parent pointers, leaf links, a root page id | create, open, insert with splits, search, scan | a split is several page writes, each of which can fail |
| `InMemoryCatalog` (`src/catalog/catalog.cpp`) | tables and indexes by id and by name, next ids | create, load, remove, update root | two maps kept in step, ids after a restart |
| `PersistentStorage` (`persistent_storage.cpp`) | open page managers, indexes by id | open, create table, insert, scan, create index, lookup | a statement is several writes to several files; clean-up after a failure |
| `DatabaseMetadata` (`database_metadata.cpp`) | the 32-byte `database.meta` | open or create | a crash while it is being created |
| `Database`, executor (`src/database.cpp`, `src/execution/executor.cpp`) | catalog and storage | one statement at a time | catalog and storage changed one after the other, with roll-back |
| `Lexer`, `StatementParser` (`src/parser/lexer.cpp`, `parser.cpp`) | a text and an offset; tokens and a position | lex; parse by recursive descent | comments, doubled quotes, the least INT, the place of an error |
| binder (`src/binder/binder.cpp`), planner (`src/planner/planner.cpp`) | none | resolve and type a statement against the catalog; choose a scan | names in any case; an index scan is planned before it is known whether there is an index |
| telemetry (`src/observability/telemetry.cpp`) | counters; a bounded event log with sequence numbers; one mutex each | increment, publish, snapshot | the only code written for several threads; sequence and counter limits |
| byte codec, record codec (`src/common/byte_codec.cpp`, `src/storage/record.cpp`) | an offset into a record | write and read words, texts, rows, table and index records | signed values as unsigned words; records cut off or too long |
| `Result`, types, shell | none | error values, plain data, printing | no interaction |

Components interact by direct calls, top to bottom: shell -> `Database` -> lexer and
parser -> binder -> planner -> executor ->
`InMemoryCatalog` and `PersistentStorage` -> `TableHeap`, `BPlusTree`, catalog
stores -> `PageManager` -> `BufferPoolManager` -> `DiskManager`. Each page file
has a buffer pool of its own. No thread is started anywhere; what interleaves is
the use of several live guards, device errors in the middle of a call, and
restarts between (or, after a crash, inside) calls. Only the two telemetry objects
are made for several threads of the embedding program. PROJECT.json lists the
hazards this leaves, each at its line, with the properties that watch it.

What each component has to get right:

- page file: a page is only ever read back as it was written, or refused;
- buffer pool: caching, pinning, eviction and failing calls are invisible to
  readers, and what was flushed is in the file;
- record files (heap, catalogs): records never overlap, a record id keeps naming
  its record, and what was acknowledged survives every fault but a spoiled page;
- index catalog: loading yields the newest root of every index;
- B+ tree: search, scan and insert agree on one set of unique keys, through every
  split and after every split that was broken off;
- catalog, storage, executor: a statement takes effect in the catalog, in the table
  and in its indexes, or in none of them;
- text to statement: no character is lost between the tokens, exactly the documented
  sentences are accepted, and a refusal names the first place that is wrong;
- codecs: what is written is read back, and nothing else passes for a record;
- `Execute`: a database in memory and one on files answer alike, except where the
  one on files must refuse; which plan answers a SELECT makes no difference;
- telemetry: numbers and sums are exact up to their limits, a snapshot is the state of
  one moment, and a mutex is always given back.

## Modules

| module | models | state and actions |
|---|---|---|
| `DiskManager` | `DiskManager`, the checksum of `Page` | `disk`, `size`, `tail` (the file ends in part of a page). Operators say which codes a call can return and what a failed write may leave. |
| `BufferPool` | `BufferPoolManager`, `PinnedPage`; EXTENDS `DiskManager` | `frames`, `page_table`, `lru` and `guards` are the fields of the classes. A public call is one action, with one disjunct per way it ends (`FetchHit`, `FetchMiss`, `FetchEvictFails`, `FetchRefused`, ...); `Close`, `CloseLosesPages` and `Crash` end the pool, `OpenPool` starts one. |
| `PageStore` | abstract | an array of pages, `store` as readers see it and `durable` as the file holds it |
| `SlottedPage` | page layout of `heap.cpp` | operators: `Validate`, `FreeBytes`, `Fits`, `Inserted`, `Intact`; a record longer than `MaxOffset`, the largest 16-bit offset, is refused |
| `RecordFile` | `TableHeap`, and the append protocol `CatalogStore` and `IndexCatalogStore` share with it, over `PageManager`; EXTENDS `SlottedPage` | `pages` (what the pool shows) and `stored` (the file). `Insert`, `InsertInNewPage` and `InsertOversized` with their failures; `WriteBack`, `Restart`, `CrashAfterAllocate`. `Found` is what `Read` finds, record id by record id; `Scan` is the answer of a scan, or of a catalog's Load, which fails as a whole at the first page that does not load |
| `IndexCatalog` | `IndexCatalogStore`; EXTENDS `RecordFile` | records are versions of indexes; `AppendVersion` is an insert guarded by what its caller does, `Latest` is the choice Load makes |
| `BPlusTree` | `BPlusTree` | `nodes`, `root`, and in `task` the local variables of the insert in progress. Each page write of a split is a step: `SplitLeaf`, `WriteLeft`, `Adopt`, `GrowRoot`, `LearnRoot`, `RaiseIntoParent`, `SplitParent`; `GiveUp` ends a call whose next page access fails. `SearchFinds` and `Scan` are what the readers return. |
| `UniqueIndex` | abstract | a map from keys to record ids; a key takes effect once between call and reply |
| `Catalog` | `InMemoryCatalog` | the two pairs of maps and the two next ids are the fields of the class; one action per public call that changes it (`CreateTable`, `RemoveTable`, `CreateIndex`, `UpdateIndexRoot`, `RemoveIndex`, `Load...`); refused calls change nothing and are guards |
| `Database` | executor, `PersistentStorage`, `Database` and `database.meta`; EXTENDS `Catalog` | `stmt` holds the statement in progress and its phase, one phase per file it changes next; `metadata`, `catalogFile`, `indexFile`, `heaps` and `treeFiles` are the files, each as the pool shows it, as it is on disk and with what is wrong with it; `trees` is `indexes_by_id_`. Every phase has an action for the write that succeeds, one for the refusal (`...Refused`: a page that cannot be read, a record too large for one) and one for the write that fails (`...Fails`), each with the clean-up the code does. `Close` and `Lose` end the process, the second with a crash or a failing write of a destructor. `SequentialScan` and `IndexScan` are what the two plans of a SELECT return. |
| `Relations` | abstract | named relations with unique columns, changed by whole statements |
| `Lexer`, `Parser` | `LexSql`; `ParseSql` and every production | operators over a text, a sequence of characters: `TokenAt`, `SkipTrivia`, `StringBody`; a parse is a node and the next token, or the offset of the refusal |
| `Frontend` | the text given to `Database::Execute`; EXTENDS `Parser` | `line`, typed character by character or word by word along the grammar, then entered. The properties hold a grammar written down as a set of sentences, and a printer, against the parser: a statement printed has to say, token by token, what the line says (`Said`), and to parse as the same statement. |
| `RecordCodec` | `ByteWriter`, `ByteReader`, `EncodeRecord`, `DecodeRecord` and the records of the two catalog files | operators over sequences of bytes; the widths of a byte, a word and the lengths are constants |
| `Session` | binder, planner and executor over a database in memory and one on files; EXTENDS `RecordCodec` | `memory` and `durable`, given the same `ExecuteCreateTable`, `ExecuteCreateIndex` and `ExecuteInsert`; `Reopen` reads the second from its records. `Appends` is what a record file answers, by the length of the record, and whether it is left with a blank page. SELECT is the state function `Select`. |
| `Telemetry` | `MetricsRegistry`, `InMemoryEventSink` | the fields of both classes, who holds each mutex, and in `call` where each thread is. Every method is a call, an entry under the mutex and one action per statement; a refusal is an action of its own. |
| `MC*` | | instances for TLC: sizes of records, views, symmetry |
| `*Proofs` | | theorems about `BufferPool`, that it implements `PageStore`, about `RecordFile`, `IndexCatalog`, `BPlusTree`, that it implements `UniqueIndex` when nothing fails, about `Catalog`, `Database`, that it implements `Relations` when nothing fails, about `Telemetry`, and about `RecordCodec` and `Session` |

Composition. `BufferPool` includes the page file it sits on. The modules above it
rest on `PageStore`, which `BufferPool` is proved to implement: `RecordFile`
keeps the pair `pages`/`stored` of that abstraction (a reader sees `pages`; what
is durable lags behind only after a failed write), `IndexCatalog` is `RecordFile`
with a caller, and `BPlusTree` sees the pages as the pool shows them. That
`IndexCatalog` behaves as a record file is a theorem, so the theorems of
`RecordFile` hold of it. `Database` EXTENDS `Catalog` and calls its operations as
the executor does; its files are what the modules below promise of record files and
unique indexes, not those modules themselves, whose product TLC could not cover.
`Session` is the same layer the other way round: no failures, but real names, types,
values and bytes. The statements it is given have the form `Parser` produces. That
a tree finds the row of a key is what `BPlusTree` and `Database` show; `Session`
takes it from there.

A definition whose name says what is wrong with it (`RemoveFromReplacerForgotten`,
`RightLeafUnlinked`, ...) is a plausible mistake in the code, kept beside the
definition it distorts; with it in place TLC refutes the property PROJECT.json
names.

### Abstractions

- A page in the pool is a payload out of a small set plus the payload its checksum
  was computed for; the checksum function is taken to tell contents apart. Record bytes are the
  record they belong to; what is encoded in them is the subject of `RecordCodec`.
- A device error is a choice the environment may make in every call, named in
  `Faults`: a failing read, a failing write, a failing write that leaves part of
  itself. A failed append leaves no whole page and perhaps part of one; a failed
  overwrite leaves the old page or one that fails its checksum.
- In `RecordFile` an insert is one action: nothing else runs during it. The points
  where it can fail or the process can die are disjuncts of their own.
- In `BPlusTree` an insert is one step per page written, because a failure leaves
  what was written so far. What a leaf holds is a function, since `ValidateNode`
  and the insertion order make its keys distinct; a descent is one expression.
- In `Database` the records of a file fit its first page, so that scan order is append order
  (what several pages do to that order is the subject of `IndexCatalog`), but a file may
  have more pages than that. What is wrong with it is a set of flaws. `"spoiled"`: the first page is blank,
  or was torn by a failed overwrite, until the next write of it; its records are then in the cache only, and are gone
  with it. `"blank"`: there is a page behind the first without the layout of one, left by a
  failed write or by a record too large for any page, and every scan or Load fails at it, while records
  still go to the first page. `"ragged"`: the file ends in part of a page and every call on it is refused. The last
  two last for good. Which records are too large is the environment's choice, since
  `Database` has no lengths; `Session` has them.
- A tree in `Database` is the keys a descent finds, its root, and whether its pages are
  `"written"`, `"dirty"` or `"broken"`. Node writes only mark frames (bplus_tree.cpp:450-480), so a
  tree is dirty from an insert to the close, and a crash in between can leave its file with pages of
  any age: broken, with an older root or none. An insert that fails half way breaks the tree
  too. Of a broken tree nothing is claimed: a lookup may miss any key, so that a duplicate
  is taken, and the next insert may fail without a fault. When the root splits is the
  environment's choice; roots are numbered from 1 because page id 0 is no page.
- Also in `Database`, failing reads, and refusals that change nothing, are left out; removing a file in a
  clean-up is taken to succeed. All columns are INT; the binder's name checks are
  guards.
- In `Lexer` the keywords are what a constant says they are; the instance gives each
  one letter, so that whole statements stay short. Line and column follow from the
  offset and are left out.
- In `Session` a heap may put a new row anywhere in scan order, which covers every
  way rows can lie in pages. `PageCapacity` is the length of the longest record an empty page takes; a longer
  one is refused, and the file has a blank page then unless the refusal came from a page there was (a record longer than any
  offset, heap.cpp:101). A file that has one may still take records on earlier pages, or refuse them
  with corruption; its table cannot be scanned, nor the database opened if it is one of the two catalog
  files (`Reopen`). The executor's check of the key of a row an index
  returned is left out, as that key is always the one looked up.
- In `Telemetry` the mutexes give no order to the threads that wait. A counter that
  is not in the map counts 0, as `CounterValue` says it does; contents and times of
  events are left out.
- Which metrics the components count, messages and file paths are left out.

## Runs

| run | instance | what it shows |
|---|---|---|
| `buffer_pool` | 3 page ids, 2 frames, 2 guards, 2 payloads, every fault | page table, pins, replacer and dirty flags stay consistent; no internal error; resource_exhausted only when guards hold the pool; a successful flush is durable; the pool implements `PageStore` |
| `record_file` | 3 pages of 24 bytes, records of 4, 8, 20 and 40 bytes, every fault and crashes | records never overlap, acknowledged records stay at their ids, ids are stable; an insert that is ok adds its row to what a read and a scan yield, any other adds one row at most, and only a page added for nothing ends the scans |
| `poisoned_page` (violation) | no fault | an oversized record leaves a page that is no slotted page |
| `index_catalog` | 4 pages, 2 indexes with records of different size, 5 roots, failing reads and crashes | Load returns the newest acknowledged root |
| `bplus_tree` | 7 keys, leaves of 2 entries, internal nodes of 2 separators, no fault | every node is at least half full, referenced once and by the parent it names; a scan ascends, also in the middle of a split; search and scan agree; the tree implements `UniqueIndex` |
| `bplus_tree_faults` | 4 keys, 7 pages, 2 failing page accesses anywhere | a scan never loses an entry it has shown; descents and calls end |
| `database` | 2 tables of 2 columns, 2 rows each, 2 indexes, roots that split once, records too large for a page, no fault | the files implement relations with unique columns; the index plan returns what the scan returns, in tables that can be scanned; catalog and files agree; the database opens after every close, unless one of the two catalog files has a page left by a record too large for any |
| `database_faults` | 2 tables of 1 column, 2 rows in all, 2 indexes, 2 failed or torn writes or crashes anywhere | acknowledged rows are kept in every database that opens, but for those on a page torn by a later INSERT that failed, which are in the cache until it is written again, and which nothing replaces if the cache is lost; a failed CREATE TABLE never appears; catalog and storage agree on tables, indexes and roots between statements; the catalog's maps agree, ids are fresh and a column has one index, also when statements are undone and ids run out |
| `phantom_table` (violation) | 1 failed write | after a failed CREATE TABLE and an orderly close the database does not open |
| `frontend` | every text of up to 5 of 8 characters; every text of words that begins like a statement with lists of up to 2 items, and one word more; INT of 3 bits | the tokens tile the text; the parser accepts the sentences of the documented grammar with integers in range, and no others; a statement printed says what the line says, token by token, and is read back the same; a refusal names the first wrong place |
| `session` | 1 table of up to 2 columns and 2 rows, 2 names in 3 spellings, the least and the greatest INT of a word of 2 bytes, texts up to a byte over the limit, pages that hold a record of 11 bytes, 1 table id, 3 index ids, reopening at any time | both databases answer alike just as long as the one in memory holds nothing the other must refuse; both plans answer alike on every table that can be scanned; a record cut off or too long is refused |
| `telemetry` | 2 threads, 2 counters, amounts 2 and 3, a log of 2, words up to 4 | numbers, sums, snapshots and mutexes, in every interleaving, up to and past every limit |

Bounds. Two frames and two guards are the least with which a page can be evicted
while another is pinned, with which one page can have two guards, and with which
the pool can be full; the third page id makes every fetch a choice of victim. In the
record file a page holds two records of some sizes and one of others, so that
first-fit leaves gaps; three pages put a page between two others; one size is
larger than a page and one larger than an offset. In the tree five ascending keys
already split an internal root; seven give trees of three levels in which a
subtree splits under an internal parent with room, in every order of inserts. The
code's fan-out is 8 and 8; it appears only as the capacity the models take as a
constant, and two is the least even one, as 8 is. The record id a key carries is
never looked at by the tree, so one is enough except for duplicates. `MaxPages`
is at once the bound of the instance and the exhaustion of page ids in the code;
`MaxFaults` bounds how often an access fails in one behaviour of the tree. Ids 1 and 2 (`MaxId` 3 is the invalid one) let a failed
statement be given again and a restart reuse its id; two rows are a row and the one
it may collide with; two faults are a failure and one in the restart or retry that
follows it, and `MaxFaults` bounds them. Of the rows `MaxRows` bounds
those of one table and `MaxInUse` those of all. The second index of `database_faults` is there to leave the
index catalog cut off while the first one grows. Table names, index names and keys are symmetric. Views
drop `last`, which reports on a step and which no action reads, in runs whose
properties read it only in the step that set it, or not at all.

In the front end five characters hold a string with a doubled quote, or a comment and
what follows it; a list of two items has a comma, and the word after a sentence's last
is every word there is, so that an error is met at each place of each production.
Three bits of INT are -4 to 3: the numeral 4 fits with a sign only, and 03 begins
with a zero. In `session` a text of three bytes is over the limit of two, a byte has
four values, so that a word is two digits, and the ids run out. A page that holds 11 bytes refuses a row of
two texts at the limit, the record of a table of two columns with a longer name among them and that of an index with the
longer name, and takes all others. One table is
enough for what is compared, which is per table, except for an index of another
table; two columns let an index be on the wrong one. In `telemetry` one thread can do
everything the other does between any two of its steps, and four events fill and
overflow a log of two and use up the numbers; a counter is filled exactly by two
amounts of 2 and has room for a 2, but not a 3, in between.

Deadlock is checked in every run.

Fairness. All specifications but two are safety only: a client may stop calling.
`FairSpec` of `BPlusTree` adds weak fairness of `Continue`, the next step of a
call in progress: a call is sequential code on the caller's thread that waits for
nothing, so it runs on. Under it `InsertReturns` says that no call loops for ever
over the tree, whatever earlier failures left there. `FairSpec` of `Telemetry` adds
weak fairness of `Works`, the steps of a thread inside a method: it holds the mutex,
waits for nothing and computes. Nothing is assumed of a thread outside, nor of which
waiting thread gets a mutex, so a thread may wait for ever while others pass;
`LocksReleased` does not claim otherwise.

## Divergences from the documentation, and defects

PROJECT.json ("findings") quotes the text and the lines of two, each the
counterexample of a run: an insert of an oversized record leaves a page that breaks
every later scan; a CREATE TABLE that fails while its record is written leaves the
record in the cache, and once an orderly close or a later statement has written it
the database refuses to open.

Others follow from the models' actions and have no run of their own:

- A failed write can put a newer version of an index before an older one. Append
  takes the first page with room (index_catalog_store.cpp:155-160), Load the last
  version in scan order (:120); a restart that drops a page filled only in the cache
  gives that page its room back. index_catalog_store.h:13 says that Load returns the
  newest record. With "write" added to the faults of `index_catalog`,
  `LoadReturnsNewest` is violated.
- A leaf split broken off by a failed page access (bplus_tree.cpp:352-356) leaves the
  right half out of the tree and in the leaf chain: Search misses its keys, Insert
  takes them a second time, although "the index is unique"
  (docs/BPLUS_TREE_PHASE4.md:21). `bplus_tree_faults` therefore speaks of scans and of
  acknowledged entries, not of uniqueness.
- A database in memory keeps an index as a name only: it accepts a key twice under it
  (executor.cpp:90), texts of any length, and rows, tables and indexes whose record is longer than
  an empty page holds, such as a row of a few texts within the limit. On files these are refused; the last
  kind leaves a blank page (heap.cpp:308-323, catalog_store.cpp:171-186, index_catalog_store.cpp:164-178),
  at which later scans fail, or the next Open.
  A statement sequence that is tried in memory may therefore be refused on files. `DatabasesAgree` says that
  there is no other reason.
- `mutable_page()` does not mark the frame dirty before the guard is released
  (buffer_pool.cpp:54, 322-324; buffer_pool.h:26 says it does at once), so
  `FlushAllPages` passes over a page written through a live guard. `FlushedMeansDurable` therefore
  speaks of what guards have released.
- A root split broken off between its two `SetParent` calls (bplus_tree.cpp:496-500)
  leaves the root in use with a parent, which `BPlusTree::Open` refuses
  (bplus_tree.cpp:295). In `Database` this is the root that a failed insert leaves damaged.
- An INSERT whose heap write or index entry fails (persistent_storage.cpp:185, 203)
  keeps its row without an index entry; given again, it adds the row a second time.
  Uniqueness of a column is therefore claimed without faults only, by `ImplementsRelations`.

## Proofs

TLAPS checks the theorems for every value of the constants that satisfies the
assumptions stated in the modules (`DiskConstants`, `PoolConstants`,
`RecordFileConstants`, `IndexCatalogConstants`, ...), which TLC evaluates on the
instances.

- `BufferPoolProofs`. `IInv` conjoins the type invariant of file and pool with
  the three parts of `BookkeepingExact`, `GuardsKeepTheirPage`,
  `CachedPagesExist` and `NoLostUpdate`. None of these is inductive alone: that a
  guard's frame is not evicted needs the replacer to list unpinned frames only,
  which needs pins to count guards, which needs guards to name the frame of their
  page; that a flush fills no gap needs cached pages to exist. The proof has one
  lemma per call, built on lemmas for what calls share: pinning, unpinning,
  installing a page in a frame, emptying one, writing one back. `NoInternalError`
  follows from the invariant in the state before the step.
  On top of it, every call of the pool maps to a step of the page
  store or to a stutter (`PoolIsAPageStore`). The mapping is not to the file but to what
  a reader sees, so that eviction, flush and fetch are stutters of `store`, a failing
  write is a write to `durable`, and a close or a crash replaces one by the other.
  `FlushedMeansDurable` and the two properties about codes follow from the pool's
  invariant in the state before the call.
- `RecordFileProofs`. `IInv` is `TypeOK`, `PagesGood` (each page is blank, corrupt or
  `Packed`: entries describe adjacent records from the start of the data upwards, the directory growing towards them) and
  `AckedPresent` (both copies of an acknowledged record's page hold it, or are
  corrupt). `SlotsIntact` needs the stronger `Packed` because the bounds the code
  checks say nothing of overlap. `RidsStable` and `InsertAddsOneRow` follow step by
  step from lemmas on what inserting does to the rows of a page; that a scan which answered goes on
  answering, from each page written being packed (`ScanGoesOn`).
  The last part of the module is about `IndexCatalog`.
  Every step of the catalog is a step of a record file. When no
  write fails, `CInv` adds that cache and file agree, that the rows are the
  acknowledged versions, that every page before a version's is too full for it
  (`FullBefore`: first-fit) and that versions of one index lie in the order of their
  roots (`OrderedByRoot`). A new version of the same size then goes behind the
  older ones. With failing writes `FullBefore` fails after a restart: the first of the
  divergences above that have no run.
- `BPlusTreeProofs`, for any number of failed page accesses. A split broken off between two
  writes leaves pages the tree does not reach, nodes that name a parent they are not
  children of, and a root that has grown a level without its left half knowing. None of
  the four properties speaks of that; `ShapeInv` says what is left to rely on, by witnesses: a set `C` of pages that are in order
  (the others are right halves nobody reaches), a height for each, the spine `S` of leftmost
  nodes from page 1, always the first leaf, to the top of the tree, the one child `bad` a broken growth may have left
  without a parent, the place `d` of each leaf in one chain of links through all leaves of `C`, and the path
  `P` from the node that splits up to the spine. For each phase of a call it adds what the local variables say of
  the pages (`PendingWrite`, `PendingAdopt`, `PendingGrow`): the right half hangs on nothing until the left
  one links it. There is one lemma per action,
  on lemmas about a file of pages before and after one write. Descent and scan are
  recursive functions; that they are what their equations say, and end, is shown
  for any function iterated over a set closed under it (`IterationExists`, `WalkFacts`).
- `UniqueIndexProofs`, for any keys, sizes of nodes and number of pages, under two
  hypotheses that its theorems state: no page access fails (`MaxFaults = 0`), and the
  file has a page left whenever a split above the leaves needs one (`RoomForSplits`).
  Both are needed: a split that cannot reach its parent leaves a half the tree does not
  hold. They are met by the run `bplus_tree`, whose file never fills. The tree is then well formed, search and
  scan agree, and it implements `UniqueIndex`. `WellFormed` and the agreement speak
  of the time between calls and are not inductive; `FitInv` speaks of the file `m` that the
  writes the call has begun lead to (`Target`), and gives each of its pages a height `h` and a range `R`, the
  keys a search comes to it for. The ranges of a node's children are those its separators
  cut out of its own, a leaf holds keys of its range only, its link leads to a leaf of
  greater keys, and every page but the root is half full. In the middle of a split one
  place has not come to the parent yet: the reference to the left half `page` covers
  the range of both halves (`Cover`), which `sep` separates. Growing a root, or widening the parent, closes the
  gap; splitting the parent moves it one level up. What a scan yields is tied
  to the leaves by `ShapeInv` above (`Yields`): all of them, but for a right half nobody links yet, so that
  the key takes effect when the left half of its leaf is written. With that, each action is one step of
  the index or none: `InsertIntoLeaf` and the write of a left half of a leaf add
  the key, the last step of a call is its reply, and a refused insert is a duplicate just when a scan shows its key.
- `DatabaseProofs`. First the catalog by itself, for any order of its calls: `CatalogTypeOK` and
  the three parts of `CatalogConsistent` are inductive together only, as adding an entry keeps
  the maps in step because its id is fresh, and removing one takes away exactly one
  name because the maps are in step. `IdsNotGivenTwice` follows from freshness: an id once
  given lies below the next one for good. Then
  the database, for any number of failed writes and crashes. `DInv` adds to the
  catalog's invariant what each phase of a statement relies on (`StmtInv`), which index
  has its tree in memory (`StorageInv`), where the records of the table file stand
  (`RecordsInv`) and where the acknowledged tables and rows are (`AckedInv`). What makes
  it inductive is the treatment of a failed CREATE TABLE, which may leave a record
  in the cache that a later statement writes: such a record names an id below the next one that has
  no file (`Harmless`), so that it is never a table of this run, and a database
  opened with it is refused before it is open. While files are being loaded the
  acknowledged rows are therefore claimed to be on file only if the catalog file loads and every record has its file
  (`AllTablesExist`); the open that succeeds has shown just that. Of a table file the invariant says
  that, while its first page can be read, the acknowledged rows are among the records a crash would leave or, after a
  torn overwrite, among those in the cache (`Held`, `Kept`); that a page which cannot be read takes no row
  in the place of an acknowledged one is what is left of it otherwise. Trees play no part:
  whatever a crash makes of them, a row's place is in its heap. There is one lemma per action,
  on lemmas for a step that leaves tables, files or acknowledgements alone (`QuietStep`), for an
  undone CREATE, a step of an INSERT, and a shutdown. That `Min` and `Max` choose a member
  (`CurrentIndex`, `Latest`) comes from the well-foundedness of the naturals (`LeastNatural`).
- `RelationsProofs`, for a database on which no device error and no crash falls
  (`MaxFaults = 0`, the assumption of its theorems): it opens again unless one of the two catalog files has a page
  left by a record too large for any, its catalog is the one
  its files would yield, both plans answer alike in a table that can be scanned, and the files implement `Relations`, of which
  CREATE TABLE, CREATE INDEX and INSERT are steps when their record or row is written and
  everything else is a stutter. None of the four is inductive, as each speaks of the state between statements;
  `Clean` and `Sound` are, on top of `DInv`: without faults no file is ragged and no tree broken (`Sound`), so that a row too large
  is the only thing that can go wrong with a page. Where the files are concerned it does
  not mention the memory, so that closing and opening are steps like the others: records have
  distinct ids and names and name exactly the files there are but for one being made
  (`TableRecords`), versions of an index agree in all but the root (`IndexRecords`), and
  a tree holds exactly the keys of the first rows of its table: of all, or of all but the last
  while the insert of that row has still to reach it (`TreesExact`, `Pending`). The memory is the
  part of it that is loaded (`InMemory`). That a SELECT by index is right is then `Exact`, and
  that an INSERT keeps columns unique is the check it makes in every tree before it writes.
- `TelemetryProofs`, for any number of threads. The properties speak of the moments
  when a mutex is free or a snapshot is done; `TelemetryInv` fills in the rest. A thread is
  at a step of a section exactly while it holds its mutex (`Exclusion`); `SinkInv` and
  `RegistryInv` say, for each step, how far what the mutex protects is ahead of the last
  accepted publish or increment, so that a step of the holder leads from one line of this
  account to the next and the steps of the others leave it alone. The log itself needs one
  lemma on sequences (`RoomyLog`): making room and appending gives the log of one event more.

- `SessionProofs`, for any names, literals and numbers of tables and rows, and any widths of
  bytes, words and lengths in which the format's numbers fit (`CodecConstants`,
  `SessionConstants`, `IdAssumption`). The first half is the codec. A record is a list of fields;
  `Reads` says that a reader at a position finds given values in given fields and where it
  ends, and joins along concatenation, so that each encoder is shown to write what its
  decoder reads. A record cut short fails at some field and stays failed; one
  byte more is not consumed. The numbers of n bytes are those below `Power[n]`: writing and
  reading a word are inverse by a step from n to n + 1 bytes, as are all statements about
  how long a loop runs; the step is an ordinary lemma on functions over `0 .. N` (`UpTo`,
  `StepsExist`), not an induction theorem of the library.
  The second half is `Consistent`. Each database has lists of its own: there are a list of tables of which the maps of the one in
  memory are the loaded form (`KnownInMemory`), and a list of tables and one of indexes of which those of the other are
  and which the catalog files hold encoded (`KnownOnFiles`); every
  record of a table file encodes a row of its schema, and no indexed column of the files has
  a key twice. While `agreed` holds, which is just when the memory is `Storable`, the lists are the
  same, ids were given in the order of the lists, no file has a blank page (`Whole`), and both have
  the same rows in some order (`SameListing`, a bijection, because the heap may put a row
  anywhere): `KnownAlike`. Once they part they may even give one id to different tables, as a CREATE TABLE
  that only one accepts uses up an id in both and a reopening gives back those of the refused.
  None of the three properties is inductive: they speak of answers and say nothing of
  what is in the files. There is one lemma per statement, after lemmas that say what it can leave in
  memory and on files; that reopening changes nothing but the next ids, and not even those
  while the databases agree, is the codec's half once more. `PlansAnswerAlike` then needs
  only that a unique column has at most one row per key, and
  `DatabasesAgree` that choosing and projecting commute with a reordering (`ChosenAlike`).

Model-checked only: the front end (`Lexer`, `Parser`, `Frontend`), whose operators are recursive
and would need induction over texts and token lists. Liveness (`InsertReturns`, `LocksReleased`) is out of
the prover's reach.

## Not modelled

- The field values of `database.meta`: conversions of one input that keep no state; that
  it is absent, cut short or whole is in `Database`.
- `PageManager::DeletePage` has no caller. Crash recovery of index pages is
  excluded by docs/BPLUS_TREE_PHASE4.md:63-65; the tree's models take the pages as
  the pool shows them.
- The byte layout of pages and tree nodes (page.cpp, `EncodeNode` and `DecodeNode` of
  bplus_tree.cpp): fixed offsets, written and read as a whole and covered by the checksum.
- Options, printing and exit codes of the shell; `Result`, `Status` and the printing of
  values: they keep no state and interact with nothing. Every model names the codes it returns.
- Table and column names longer than a 16-bit length, schemas of more columns than one
  holds: refused by the encoders before anything is written.

## Plan

The order is by what the rest depends on. All of it is done.

1. `DiskManager`, `BufferPool`, `PageStore`: everything else reads and writes through it.
2. `SlottedPage`, `RecordFile`: rows and catalog records.
3. `IndexCatalog`: the one place where order in a file carries meaning.
4. `BPlusTree`, `UniqueIndex`: partial failure of a split.
5. `Catalog`: two maps kept in step, and next ids.
6. `Database`, `Relations`: statements that change several files, and restarts.
7. `Telemetry`: the only objects several threads share.
8. `Lexer`, `Parser`, `Frontend`: every text is a statement or a refusal.
9. `RecordCodec`, `Session`: the same statements in memory and on files.
